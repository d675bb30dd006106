----------------------------- MODULE VaultWrites -----------------------------
(***************************************************************************)
(* Writes into a vault through the MCP server: the one-time upload links of *)
(* core/transfer/upload_vault_http.go, minted by vault_put_file (HTTP), the *)
(* upload launcher and its app helper; the direct writes of vault_put_file  *)
(* (relayed bytes, or a path of a co-located host); DirToVault for a tree;  *)
(* and the handlers of internal/cli/root.go that choose the profile and     *)
(* write.  Profiles are unlocked, forgotten and switched meanwhile.         *)
(*                                                                         *)
(* A call is a mint, a PUT on a link, a relayed write or a local-path write.*)
(***************************************************************************)
EXTENDS Integers, FiniteSets, FiniteSetsExt

CONSTANTS Calls, NoCall,   \* calls of the server; a link is named by its mint
          Profiles, NoProfile,
          Entries,         \* a tree on the host: entries 1 .. Entries
          Cap,             \* max_mcp_upload_size
          Changes          \* bound: changes of the registry and of the tree

VARIABLES
  unlocked, active,        \* the profile registry
  size, changes,           \* of the entries of the tree; bound
  tokens, expired,         \* vu.tokens by link; links whose time is over
  at, how, named, pinned,  \* per call: its step, kind, the profile argument,
                           \*   the profile in its metadata
  dest, link,              \* the resolved profile, the link used
  entry, listed,           \* DirToVault: the entry reached, res.Files
  landed,                  \* history: objects in vaults, by <<profile, call, entry>>,
  seen                     \*   and the profiles there were when a call was stamped

registry == <<unlocked, active, size, changes>>
links    == <<tokens, expired>>
calls    == <<at, how, named, pinned, dest, link, entry, listed>>
history  == <<landed, seen>>
vaultVars == <<registry, links, calls, history>>

Kinds  == {"mint", "put", "relay", "path"}

VaultInit ==
  /\ unlocked \in SUBSET Profiles
  /\ active \in IF unlocked = {} THEN {NoProfile} ELSE unlocked
  /\ size = [i \in 1 .. Entries |-> 1] /\ changes = 0
  /\ tokens = {} /\ expired = {}
  /\ at = [c \in Calls |-> "idle"] /\ how = [c \in Calls |-> "mint"]
  /\ named = [c \in Calls |-> NoProfile] /\ pinned = [c \in Calls |-> NoProfile]
  /\ dest = [c \in Calls |-> NoProfile] /\ link = [c \in Calls |-> NoCall]
  /\ entry = [c \in Calls |-> 0] /\ listed = [c \in Calls |-> {}]
  /\ landed = {} /\ seen = [c \in Calls |-> {}]

Goto(c, step) == at' = [at EXCEPT ![c] = step]

-----------------------------------------------------------------------------
(* Other processes: profiles are created, made the default and forgotten,   *)
(* and the files of the tree change.                                        *)
Other(u, a, s) ==
  /\ changes < Changes /\ changes' = changes + 1
  /\ unlocked' = u /\ active' = a /\ size' = s
  /\ UNCHANGED <<links, calls, history>>

Unlock(p) == p \notin unlocked /\ Other(unlocked \cup {p}, p, size)
Use(p)    == p \in unlocked /\ p # active /\ Other(unlocked, p, size)
Forget(p) == /\ p \in unlocked
             /\ Other(unlocked \ {p}, IF active = p THEN NoProfile ELSE active, size)
Resize(i, n) == n # size[i] /\ Other(unlocked, active, [size EXCEPT ![i] = n])

Expire(l) ==
  /\ l \in tokens \ expired /\ expired' = expired \cup {l}
  /\ UNCHANGED <<registry, tokens, calls, history>>

-----------------------------------------------------------------------------
(* The profile guard of every tool: without a profile, more than one that   *)
(* is unlocked is refused.                                                  *)
Ambiguous(p) == p = NoProfile /\ Cardinality(unlocked) > 1

Guard(c, k, p) ==
  /\ at[c] = "idle" /\ k # "put" /\ ~Ambiguous(p)
  /\ Goto(c, "guarded") /\ how' = [how EXCEPT ![c] = k]
  /\ named' = [named EXCEPT ![c] = p]
  /\ UNCHANGED <<registry, links, pinned, dest, link, entry, listed, history>>

(* Mutant: the metadata hold the argument only. *)
ArgumentOnly(p) == p

ResolveMintProfile(p) ==
  IF p = NoProfile /\ Cardinality(unlocked) = 1
    THEN CHOOSE q \in unlocked : TRUE ELSE p

(* The metadata are stamped; a mint prunes the expired links and adds its   *)
(* own (a bad destination or no loopback listener ends it without), any     *)
(* other call goes on to the write.                                         *)
Stamp(c) ==
  /\ at[c] = "guarded"
  /\ pinned' = [pinned EXCEPT ![c] = ResolveMintProfile(named[c])]
  /\ seen' = [seen EXCEPT ![c] = unlocked]
  /\ \/ how[c] # "mint" /\ Goto(c, "resolve") /\ UNCHANGED links
     \/ how[c] = "mint" /\ Goto(c, "failed") /\ UNCHANGED links
     \/ /\ how[c] = "mint" /\ Goto(c, "done")
        /\ tokens' = (tokens \ expired) \cup {c} /\ UNCHANGED expired
  /\ UNCHANGED <<registry, how, named, dest, link, entry, listed, landed>>

(* Mutant: the link stays in the map until its write has ended. *)
ClaimWithoutDelete(c, l) ==
  /\ at[c] = "idle" /\ l \in tokens \ expired
  /\ Goto(c, "resolve") /\ how' = [how EXCEPT ![c] = "put"]
  /\ link' = [link EXCEPT ![c] = l]
  /\ named' = [named EXCEPT ![c] = named[l]]
  /\ pinned' = [pinned EXCEPT ![c] = pinned[l]]
  /\ seen' = [seen EXCEPT ![c] = seen[l]]
  /\ UNCHANGED <<registry, links, dest, entry, listed, landed>>

(* putHandler: claim consumes the link before anything else is looked at.   *)
Claim(c, l) ==
  /\ at[c] = "idle" /\ l \in tokens \ expired
  /\ tokens' = tokens \ {l}
  /\ Goto(c, "resolve") /\ how' = [how EXCEPT ![c] = "put"]
  /\ link' = [link EXCEPT ![c] = l]
  /\ named' = [named EXCEPT ![c] = named[l]]
  /\ pinned' = [pinned EXCEPT ![c] = pinned[l]]
  /\ seen' = [seen EXCEPT ![c] = seen[l]]
  /\ UNCHANGED <<registry, expired, dest, entry, listed, landed>>

-----------------------------------------------------------------------------
(* vaultPutHandler and localPathVaultPut: metadata without a profile need   *)
(* an unambiguous registry, read before the default profile is; the service *)
(* of a profile that is not unlocked cannot be built.                       *)
Fail(c) == Goto(c, "failed")

Resolve(c) ==
  /\ at[c] = "resolve"
  /\ IF Ambiguous(pinned[c]) THEN Fail(c) ELSE Goto(c, "open")
  /\ UNCHANGED <<registry, links, how, named, pinned, dest, link, entry, listed, history>>

Open(c) ==
  /\ at[c] = "open"
  /\ LET p == IF pinned[c] = NoProfile THEN active ELSE pinned[c]
     IN  /\ dest' = [dest EXCEPT ![c] = p]
         /\ \/ p \notin unlocked /\ Fail(c)
            \/ p \in unlocked /\ Goto(c, IF how[c] = "path" THEN "preflight" ELSE "write")
  /\ UNCHANGED <<registry, links, how, named, pinned, link, entry, listed, history>>

(* Put stages the bytes.  A body over the cap, an expired budget or an error*)
(* fails it, the last two with or without the object.                       *)
Write(c) ==
  /\ at[c] = "write"
  /\ \/ /\ landed' = landed \cup {<<dest[c], c, 0>>}
        /\ (Goto(c, "done") \/ Fail(c))
     \/ Fail(c) /\ UNCHANGED landed
  /\ UNCHANGED <<registry, links, how, named, pinned, dest, link, entry, listed, seen>>

(* DirToVault: the tree is measured before anything is written.             *)
TotalSize(S) == MapThenSumSet(LAMBDA i : size[i], S)

Preflight(c) ==
  /\ at[c] = "preflight"
  /\ IF TotalSize(1 .. Entries) <= Cap
       THEN Goto(c, "walk") /\ entry' = [entry EXCEPT ![c] = 1]
       ELSE Fail(c) /\ UNCHANGED entry
  /\ UNCHANGED <<registry, links, how, named, pinned, dest, link, listed, history>>

(* Mutant: an entry is listed before it is written. *)
WalkListingFirst(c) ==
  /\ at[c] = "walk" /\ entry[c] <= Entries
  /\ listed' = [listed EXCEPT ![c] = @ \cup {entry[c]}]
  /\ \/ /\ size[entry[c]] <= Cap /\ landed' = landed \cup {<<dest[c], c, entry[c]>>}
        /\ entry' = [entry EXCEPT ![c] = @ + 1] /\ UNCHANGED at
     \/ Fail(c) /\ UNCHANGED <<landed, entry>>
  /\ UNCHANGED <<registry, links, how, named, pinned, dest, link, seen>>

(* The walk measures each entry again, writes and lists it; the first error *)
(* or the end of the context stops it, and what is written stays.           *)
Walk(c) ==
  /\ at[c] = "walk" /\ entry[c] <= Entries
  /\ \/ /\ size[entry[c]] <= Cap /\ landed' = landed \cup {<<dest[c], c, entry[c]>>}
        /\ \/ /\ listed' = [listed EXCEPT ![c] = @ \cup {entry[c]}]
              /\ entry' = [entry EXCEPT ![c] = @ + 1] /\ UNCHANGED at
           \/ Fail(c) /\ UNCHANGED <<entry, listed>>
     \/ Fail(c) /\ UNCHANGED <<landed, entry, listed>>
  /\ UNCHANGED <<registry, links, how, named, pinned, dest, link, seen>>

EndWalk(c) ==
  /\ at[c] = "walk" /\ entry[c] > Entries /\ Goto(c, "done")
  /\ UNCHANGED <<registry, links, how, named, pinned, dest, link, entry, listed, history>>

-----------------------------------------------------------------------------
WriteStep(c) == Resolve(c) \/ Open(c) \/ Write(c) \/ Preflight(c) \/ Walk(c) \/ EndWalk(c)

VaultNext ==
  \/ \E p \in Profiles : Unlock(p) \/ Use(p) \/ Forget(p)
  \/ \E i \in 1 .. Entries : Resize(i, Cap) \/ Resize(i, Cap + 1)
  \/ \E l \in Calls : Expire(l)
  \/ \E c \in Calls :
       \/ \E k \in Kinds, p \in Profiles \cup {NoProfile} : Guard(c, k, p)
       \/ Stamp(c) \/ \E l \in Calls : Claim(c, l)
       \/ WriteStep(c)

VaultSpec == VaultInit /\ [][VaultNext]_vaultVars

VaultTypeOK ==
  /\ unlocked \subseteq Profiles /\ active \in Profiles \cup {NoProfile}
  /\ size \in [1 .. Entries -> 0 .. Cap + 1] /\ changes \in 0 .. Changes
  /\ tokens \subseteq Calls /\ expired \subseteq Calls
  /\ at \in [Calls -> {"idle", "guarded", "resolve", "open", "write", "preflight",
                       "walk", "done", "failed"}]
  /\ how \in [Calls -> Kinds]
  /\ named \in [Calls -> Profiles \cup {NoProfile}]
  /\ pinned \in [Calls -> Profiles \cup {NoProfile}]
  /\ dest \in [Calls -> Profiles \cup {NoProfile}]
  /\ link \in [Calls -> Calls \cup {NoCall}]
  /\ entry \in [Calls -> 0 .. Entries + 1] /\ listed \in [Calls -> SUBSET (1 .. Entries)]
  /\ seen \in [Calls -> SUBSET Profiles]
  /\ landed \subseteq (Profiles \X Calls \X (0 .. Entries))

(* Bytes land where the caller was told, although profiles come, go and     *)
(* change between a mint and its PUT (mint_profile.go ResolveMintProfile,   *)
(* upload_vault_http.go claim, root.go vaultPutHandler, vault_dir.go):      *)
(*  - in the profile the caller named; without one, in the one profile there*)
(*    was when the link was minted or the call came in;                     *)
(*  - a link carries at most one write, and a mint writes nothing itself;   *)
(*  - what a call that ended well answers is in the vault, and the entries a*)
(*    failed walk lists are there too.                                      *)
Objects(c) == {o \in landed : o[2] = c}

BytesLandWhereAsked ==
  /\ \A o \in landed :
       IF named[o[2]] # NoProfile THEN o[1] = named[o[2]]
       ELSE Cardinality(seen[o[2]]) = 1 => o[1] \in seen[o[2]]
  /\ \A c, d \in Calls :
       how[c] = "put" /\ link[c] = link[d] /\ Objects(c) # {} /\ Objects(d) # {} => c = d
  /\ \A o \in landed : how[o[2]] # "mint"
  /\ \A c \in Calls :
       /\ {<<dest[c], c, i>> : i \in listed[c]} \subseteq landed
       /\ at[c] = "done" /\ how[c] \in {"put", "relay"} => Objects(c) # {}
       /\ at[c] = "done" /\ how[c] = "path" => Cardinality(Objects(c)) = Entries
=============================================================================
