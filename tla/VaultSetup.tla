----------------------------- MODULE VaultSetup ------------------------------
(***************************************************************************)
(* `pinner vault create` and `pinner vault restore` for one profile name    *)
(* (internal/cli/vault_create.go, vault_restore.go).  A create generates a  *)
(* vault and its recovery phrase, keeps the phrase in a file of the profile *)
(* until it has shown it, and may crash or fail at every step; a restore    *)
(* finishes from the file or from a phrase the user wrote down.             *)
(*                                                                         *)
(* A vault is named by the create that generated it.                        *)
(***************************************************************************)
EXTENDS Naturals, FiniteSets

CONSTANTS Creates, NoVault,
          Together         \* creates that may run at the same time

VARIABLES
  seedFile,                \* the vault whose phrase is in vault.SeedPath
  registered,              \* the profile in the registry: its vault
  approved, shown,         \* vaults the indexer knows; phrases printed
  doing,                   \* per create: its next step
  restoring                \* the vault a restore works on

setupVars == <<seedFile, registered, approved, shown, doing, restoring>>

Ended   == {"new", "done", "failed"}
Running == {c \in Creates : doing[c] \notin Ended}

SetupInit ==
  /\ seedFile = NoVault /\ registered = NoVault /\ approved = {} /\ shown = {}
  /\ doing = [c \in Creates |-> "new"] /\ restoring = NoVault

Goes(c, from, to) == doing[c] = from /\ doing' = [doing EXCEPT ![c] = to]

-----------------------------------------------------------------------------
(* vault create.  Each check reads the disk by itself. *)
StartCreate(c) ==
  /\ Cardinality(Running) < Together
  /\ IF registered = NoVault THEN Goes(c, "new", "seed") ELSE Goes(c, "new", "failed")
  /\ UNCHANGED <<seedFile, registered, approved, shown, restoring>>

CheckSeed(c) ==
  /\ IF seedFile = NoVault THEN Goes(c, "seed", "save") ELSE Goes(c, "seed", "failed")
  /\ UNCHANGED <<seedFile, registered, approved, shown, restoring>>

(* After the connection request the phrase goes to the file: os.WriteFile   *)
(* replaces what is there.                                                  *)
SaveSeed(c) ==
  /\ Goes(c, "save", "approve") /\ seedFile' = c
  /\ UNCHANGED <<registered, approved, shown, restoring>>

(* Mutant: the file is removed before the phrase is shown. *)
ShowSeedLast(c) ==
  \/ /\ Goes(c, "show", "remove") /\ seedFile' = NoVault
     /\ UNCHANGED <<registered, approved, shown, restoring>>
  \/ /\ Goes(c, "remove", "done") /\ shown' = shown \cup {c}
     /\ UNCHANGED <<seedFile, registered, approved, restoring>>

(* The user approves: the indexer registers the application key. *)
Approve(c) ==
  /\ Goes(c, "approve", "state") /\ approved' = approved \cup {c}
  /\ UNCHANGED <<seedFile, registered, shown, restoring>>

(* Profile state and database, then the registry entry (one atomic write). *)
SaveState(c) ==
  /\ Goes(c, "state", "register")
  /\ UNCHANGED <<seedFile, registered, approved, shown, restoring>>

AddProfile(c) ==
  /\ Goes(c, "register", "show") /\ registered' = c
  /\ UNCHANGED <<seedFile, approved, shown, restoring>>

(* The phrase is printed, after a sync that is allowed to fail; then the    *)
(* file is removed, and an error of the removal is a warning.               *)
ShowSeed(c) ==
  \/ /\ Goes(c, "show", "remove") /\ shown' = shown \cup {c}
     /\ UNCHANGED <<seedFile, registered, approved, restoring>>
  \/ /\ Goes(c, "remove", "done") /\ seedFile' \in {NoVault, seedFile}
     /\ UNCHANGED <<registered, approved, shown, restoring>>

(* A step fails, or the process dies.  An approval may have been given. *)
FailCreate(c) ==
  /\ c \in Running /\ doing' = [doing EXCEPT ![c] = "failed"]
  /\ \/ approved' = approved
     \/ doing[c] = "approve" /\ approved' = approved \cup {c}
  /\ UNCHANGED <<seedFile, registered, shown, restoring>>

-----------------------------------------------------------------------------
(* vault restore, with the phrase from the file or from the user; it is     *)
(* refused when the profile has a vault.                                    *)
StartRestore(v) ==
  /\ restoring = NoVault /\ registered = NoVault
  /\ v = seedFile \/ v \in shown
  /\ restoring' = v
  /\ UNCHANGED <<seedFile, registered, approved, shown, doing>>

(* External: Provisioner.Restore approves the device and adds the profile.  *)
EndRestore ==
  /\ restoring # NoVault /\ restoring' = NoVault
  /\ \/ registered' = restoring /\ approved' = approved \cup {restoring}
     \/ UNCHANGED <<registered, approved>>
  /\ UNCHANGED <<seedFile, shown, doing>>

(* External: vault forget drops the profile. *)
ForgetProfile ==
  /\ registered # NoVault /\ registered' = NoVault
  /\ UNCHANGED <<seedFile, approved, shown, doing, restoring>>

CreateStep(c) ==
  \/ StartCreate(c) \/ CheckSeed(c) \/ SaveSeed(c) \/ Approve(c)
  \/ SaveState(c) \/ AddProfile(c) \/ ShowSeed(c)

SetupNext ==
  \/ \E c \in Creates : CreateStep(c) \/ FailCreate(c) \/ StartRestore(c)
  \/ EndRestore \/ ForgetProfile

SetupSpec == SetupInit /\ [][SetupNext]_setupVars

SetupTypeOK ==
  /\ {seedFile, registered, restoring} \subseteq Creates \cup {NoVault}
  /\ approved \subseteq Creates /\ shown \subseteq Creates
  /\ doing \in [Creates -> Ended \cup {"seed", "save", "approve", "state",
                                       "register", "show", "remove"}]

(* A vault the indexer knows can be opened again, wherever a create stopped *)
(* (vault_create.go:126 "If approval succeeds remotely but a later step     *)
(* fails, the one-time seed must already be safe on disk"): its phrase has  *)
(* been shown or is in the file.                                            *)
SeedIsSafe == \A v \in approved : v \in shown \/ seedFile = v
=============================================================================
