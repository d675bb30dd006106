----------------------------- MODULE MCCommands -----------------------------
(***************************************************************************)
(* The commands of the CLI.  A process runs one command, and the modules   *)
(* of the commands share no variable: `command' says whose behaviour this  *)
(* is, and the variables of the others stay at Idle.  What each instance   *)
(* holds is what its module would hold on its own.                         *)
(***************************************************************************)
EXTENDS BenchRun, Sequences, SequencesExt

CONSTANTS Cids, NoCid, Requests, NoRequest, Workers,
          MaxAttempts, MaxBatch,          \* pinning; the longest batch
          Creates, NoVault,               \* vault_create
          Vaults, NoVaultName, Verifications, \* vault_cp; checks of an IPFS pin
          WatchItems, PageLimit,          \* output.Watch and the operations list
          MaxCommands, MaxProbes,         \* commands in a row; pin checks of an upload
          SiteIds, ValidationTries, VerifyTries, \* websites_wizard, setup_wizard
          CommandLines, Changes, Rows, NameOf, TextOf \* the catalogue's commands

ASSUME PinAssumption ==
  /\ NoCid \notin Cids /\ NoRequest \notin Requests
  /\ MaxAttempts \in Nat \ {0} /\ MaxBatch \in Nat
ASSUME SetupAssumption == NoVault \notin Creates /\ IsFiniteSet(Creates)
ASSUME CopyAssumption == NoVaultName \notin Vaults /\ Verifications \in Nat
ASSUME UploadAssumption == MaxCommands \in Nat /\ MaxProbes \in Nat \ {0}
ASSUME WizardAssumption == ValidationTries \in Nat /\ VerifyTries \in Nat \ {0}
ASSUME WatchAssumption == WatchItems \subseteq Nat /\ PageLimit \in Nat

VARIABLES
  command,
  of, live, settled, op, flags, stage, tasks, next, outcome, firstError,
  at, job, req, tries, requested, gone,                          \* Pinning
  seedFile, registered, approved, shown, doing, restoring,       \* VaultSetup
  object, status, stamp, default, file, copy, copying, held, answer, upload,
  verified,                                                      \* VaultCopy
  term, draft, settings, listing, made, boundTo, announced,      \* TerminalWizard
  domain, placed, nodes, folds, phase,                           \* CommandTree
  argv, input, typedName, scan, objects, asked, taken, said, point, \* CatalogCommand
  watchLine, itemState, client, display, ended,                  \* WatchLoops
  storedToken, invocation, stageOf, sentWith, remoteOp, remotePin, takenAway,
  localFile, verdict, probes, commands                           \* Credentials

Idle == "-"

pinState ==
  <<of, live, settled, op, flags, stage, tasks, next, outcome, firstError,
    at, job, req, tries, requested, gone>>
setupState   == <<seedFile, registered, approved, shown, doing, restoring>>
copyState ==
  <<object, status, stamp, default, file, copy, copying, held, answer,
    upload, verified>>
wizardState  == <<term, draft, settings, listing, made, boundTo, announced>>
treeState    == <<domain, placed, nodes, folds, phase>>
catalogState == <<argv, input, typedName, scan, objects, asked, taken, said, point>>
watchState   == <<watchLine, itemState, client, display, ended>>
credState ==
  <<storedToken, invocation, stageOf, sentWith, remoteOp, remotePin, takenAway,
    localFile, verdict, probes, commands>>

-----------------------------------------------------------------------------
(* Pinning: two workers, two requests, batches with and without a duplicate. *)
Pin == INSTANCE Pinning WITH
  made <- requested, Batches <- UNION {[1 .. n -> Cids] : n \in 1 .. MaxBatch}

PinIdle ==
  /\ of = Idle /\ live = Idle /\ settled = Idle /\ op = Idle /\ flags = Idle
  /\ stage = Idle /\ tasks = Idle /\ next = Idle /\ outcome = Idle
  /\ firstError = Idle /\ at = Idle /\ job = Idle /\ req = Idle
  /\ tries = Idle /\ requested = Idle /\ gone = Idle

BenchIdle ==
  /\ pinned = Idle /\ noCleanup = Idle /\ expired = Idle /\ main = Idle
  /\ iter = Idle /\ listed = Idle /\ signalled = Idle /\ attempt = Idle
  /\ batch = Idle /\ slice = Idle /\ unpinned = Idle /\ failed = Idle
  /\ process = Idle

(* VaultSetup: three creates in turn, one at a time. *)
Setup == INSTANCE VaultSetup WITH Together <- 1

SetupIdle ==
  /\ seedFile = Idle /\ registered = Idle /\ approved = Idle
  /\ shown = Idle /\ doing = Idle /\ restoring = Idle

(* VaultCopy: copies between vaults and disk; checks of an IPFS pin.        *)
Copy == INSTANCE VaultCopy WITH point <- copying

CopyIdle ==
  /\ object = Idle /\ status = Idle /\ stamp = Idle /\ default = Idle
  /\ file = Idle /\ copy = Idle /\ copying = Idle /\ held = Idle
  /\ answer = Idle /\ upload = Idle /\ verified = Idle

Wizard == INSTANCE TerminalWizard

WizardIdle ==
  /\ term = Idle /\ draft = Idle /\ settings = Idle /\ listing = Idle
  /\ made = Idle /\ boundTo = Idle /\ announced = Idle

(* CommandTree: every domain root that is compiled. *)
Tree == INSTANCE CommandTree WITH
  Domains <- {"pins", "dns", "ipns", "operations", "workspaces", "account",
              "api-keys", "websites", "vault", "admin"}

TreeIdle ==
  domain = Idle /\ placed = Idle /\ nodes = Idle /\ folds = Idle /\ phase = Idle

-----------------------------------------------------------------------------
(* CatalogCommand: the operations that look a target up with a positional   *)
(* and a named argument, the confirmations, the updates, and every          *)
(* combination of the flags of `pins rm'.                                   *)
Line == [op |-> "none", pos |-> "none", named |-> "none", force |-> FALSE,
         confirm |-> FALSE, yes |-> FALSE, all |-> FALSE, dry |-> FALSE,
         tty |-> FALSE, fields |-> FALSE]

Lookups == {"dns_zones_delete", "websites_delete", "websites_convert",
            "ipns_keys_delete", "platform_domains_delete", "workspaces_delete",
            "social_providers_delete", "api_keys_delete", "vault_rm",
            "account_update_email", "operations_get"}
Updates == {"websites_update", "pins_update", "vault_rm"}

CatalogLines ==
  {[Line EXCEPT !.op = o, !.pos = p, !.named = n, !.force = f] :
     o \in Lookups, p \in {"b", "1"}, n \in {"none", "a"}, f \in BOOLEAN} \cup
  {[Line EXCEPT !.op = "platform_domains_delete", !.pos = "b", !.confirm = c,
                !.tty = t] : c, t \in BOOLEAN} \cup
  {[Line EXCEPT !.op = o, !.named = "a", !.fields = f] :
     o \in Updates, f \in BOOLEAN} \cup
  {[Line EXCEPT !.op = "pins_rm", !.pos = p, !.force = f, !.confirm = c,
                !.yes = y, !.all = a, !.dry = d] :
     p \in {"none", "a"}, f, c, y, a, d \in BOOLEAN}

RowNames == <<"a", "b", "c">>
RowTexts == <<"1", "2", "3">>

Catalog == INSTANCE CatalogCommand

ASSUME CatalogAssumption ==
  /\ IsFiniteSet(Rows) /\ Rows \subseteq Nat /\ Changes \in Nat
  /\ \A r, q \in Rows : NameOf[r] = NameOf[q] \/ TextOf[r] = TextOf[q] => r = q
  /\ \A line \in CommandLines : line.op \in DOMAIN Catalog!Ops

CatalogIdle ==
  /\ argv = Idle /\ input = Idle /\ typedName = Idle /\ scan = Idle
  /\ objects = Idle /\ asked = Idle /\ taken = Idle /\ said = Idle /\ point = Idle

(* WatchLoops: every watch with and without colours, filters and pipes, over *)
(* three items on pages of two.                                             *)
Watched == [command |-> "list", watch |-> TRUE, json |-> FALSE, colour |-> FALSE,
            filter |-> "", piped |-> FALSE]

Watches ==
  {[Watched EXCEPT !.command = c, !.colour = k, !.filter = f] :
     c \in {"list", "operations"}, k \in BOOLEAN, f \in {"", "pinning"}} \cup
  {[Watched EXCEPT !.command = c, !.json = j] : c \in {"ssl", "operation"}, j \in BOOLEAN} \cup
  {[Watched EXCEPT !.command = "status", !.watch = w, !.piped = p] : w, p \in BOOLEAN} \cup
  {[Watched EXCEPT !.command = c, !.watch = FALSE] : c \in {"list", "operations"}}

Watch == INSTANCE WatchLoops WITH WatchLines <- Watches

WatchIdle ==
  watchLine = Idle /\ itemState = Idle /\ client = Idle /\ display = Idle /\ ended = Idle

(* Credentials: commands in a row, a second account's token on the line.    *)
NoToken == [account |-> "", kind |-> ""]
TokenT  == [account |-> "T", kind |-> "api"]
NoPath  == ""
Typed(n) == [name |-> n, token |-> NoToken, force |-> FALSE, dry |-> FALSE,
             wait |-> FALSE, meta |-> FALSE, path |-> "p"]

Given(n, t)     == [Typed(n) EXCEPT !.token = t]
Uploading(w, m) == [Typed("upload") EXCEPT !.wait = w, !.meta = m]
Fetching(f, d)  == [Typed("download") EXCEPT !.force = f, !.dry = d]
OtherUploads ==
  {[Typed("upload") EXCEPT !.dry = TRUE], [Typed("upload") EXCEPT !.path = NoPath],
   [Uploading(TRUE, TRUE) EXCEPT !.token = TokenT]}

TypedLines ==
  {Typed(n) : n \in {"pins", "admin", "pin", "status", "bench", "cat", "ls", "auth",
                     "auth_logout", "auth_status", "register", "config_get"}} \cup
  {Given(n, t) : n \in {"auth_token", "config_set", "dns", "pin", "status", "download"},
                 t \in {NoToken, TokenT}} \cup
  {Uploading(w, m) : w, m \in BOOLEAN} \cup
  OtherUploads \cup
  {Fetching(f, d) : f, d \in BOOLEAN}

Cred == INSTANCE Credentials WITH Invocations <- TypedLines

CredIdle ==
  /\ storedToken = Idle /\ invocation = Idle /\ stageOf = Idle /\ sentWith = Idle
  /\ remoteOp = Idle /\ remotePin = Idle /\ takenAway = Idle /\ localFile = Idle
  /\ verdict = Idle /\ probes = Idle /\ commands = Idle

-----------------------------------------------------------------------------
Modules == {"pinning", "bench", "setup", "copy", "wizard", "tree", "catalog",
            "watch", "credentials"}

CommandsInit ==
  /\ command \in Modules
  /\ IF command = "pinning"     THEN Pin!PinInit         ELSE PinIdle
  /\ IF command = "bench"       THEN BenchInit           ELSE BenchIdle
  /\ IF command = "setup"       THEN Setup!SetupInit     ELSE SetupIdle
  /\ IF command = "copy"        THEN Copy!CopyInit       ELSE CopyIdle
  /\ IF command = "wizard"      THEN Wizard!TermInit     ELSE WizardIdle
  /\ IF command = "tree"        THEN Tree!TreeInit       ELSE TreeIdle
  /\ IF command = "catalog"     THEN Catalog!CommandInit ELSE CatalogIdle
  /\ IF command = "watch"       THEN Watch!WatchInit     ELSE WatchIdle
  /\ IF command = "credentials" THEN Cred!CredInit       ELSE CredIdle

Others(m) ==
  /\ command = m /\ UNCHANGED command
  /\ IF m = "pinning" THEN TRUE ELSE UNCHANGED pinState
  /\ IF m = "bench" THEN TRUE ELSE UNCHANGED benchVars
  /\ IF m = "setup" THEN TRUE ELSE UNCHANGED setupState
  /\ IF m = "copy" THEN TRUE ELSE UNCHANGED copyState
  /\ IF m = "wizard" THEN TRUE ELSE UNCHANGED wizardState
  /\ IF m = "tree" THEN TRUE ELSE UNCHANGED treeState
  /\ IF m = "catalog" THEN TRUE ELSE UNCHANGED catalogState
  /\ IF m = "watch" THEN TRUE ELSE UNCHANGED watchState
  /\ IF m = "credentials" THEN TRUE ELSE UNCHANGED credState

CommandsNext ==
  \/ Others("pinning")     /\ Pin!PinNext
  \/ Others("bench")       /\ BenchNext
  \/ Others("setup")       /\ Setup!SetupNext
  \/ Others("copy")        /\ Copy!CopyNext
  \/ Others("wizard")      /\ Wizard!TermNext
  \/ Others("tree")        /\ Tree!TreeNext
  \/ Others("catalog")     /\ Catalog!CommandNext
  \/ Others("watch")       /\ Watch!WatchNext
  \/ Others("credentials") /\ Cred!CredNext

commandsVars ==
  <<command, pinState, benchVars, setupState, copyState, wizardState,
    treeState, catalogState, watchState, credState>>

(* The fairness of each module: see PinFair, TermSpec and WatchFair. *)
CommandsSpec ==
  /\ CommandsInit /\ [][CommandsNext]_commandsVars
  /\ WF_pinState(command = "pinning" /\ Pin!Proceed)
  /\ \A w \in Workers : WF_pinState(command = "pinning" /\ Pin!Work(w))
  /\ WF_wizardState(command = "wizard" /\ Wizard!TermProgress)
  /\ WF_watchState(command = "watch" /\ Watch!RequireAuthenticated)
  /\ WF_watchState(command = "watch" /\ Watch!Poll)
  /\ \A i \in WatchItems : WF_watchState(command = "watch" /\ Watch!Advance(i))

-----------------------------------------------------------------------------
(* Every variable of the command keeps its type. *)
CommandsTypeOK ==
  /\ command = "pinning"     => Pin!PinTypeOK
  /\ command = "bench"       => BenchTypeOK
  /\ command = "setup"       => Setup!SetupTypeOK
  /\ command = "copy"        => Copy!CopyTypeOK
  /\ command = "wizard"      => Wizard!TermTypeOK
  /\ command = "tree"        => Tree!TreeTypeOK
  /\ command = "catalog"     => Catalog!CommandTypeOK
  /\ command = "watch"       => Watch!WatchTypeOK
  /\ command = "credentials" => Cred!CredTypeOK

(* Pinning.ReportIsTrue and BenchRun.CleanupReportIsTrue: what a batch      *)
(* reports is what its workers did, and what the two clean-ups of a         *)
(* benchmark report as unpinned is.                                         *)
ReportsAreTrue ==
  /\ command = "pinning" => Pin!ReportIsTrue
  /\ command = "bench"   => CleanupReportIsTrue

(* VaultSetup.SeedIsSafe: the recovery phrase of a registered vault is on   *)
(* disk or was shown, while creates do not overlap.                         *)
SeedStaysSafe == command = "setup" => Setup!SeedIsSafe

(* VaultCopy.CopyAnswerIsTrue and Credentials.TransferIsTrue: `vault cp',   *)
(* `vault flush', uploads and downloads report what they did to the vault,  *)
(* to the file and to the pin.                                              *)
TransfersAreTrue ==
  /\ command = "copy"        => Copy!CopyAnswerIsTrue
  /\ command = "credentials" => Cred!TransferIsTrue

(* TerminalWizard.AnnouncedIsTrue: what a wizard's closing box says holds.  *)
WizardAnnouncesTrue == command = "wizard" => Wizard!AnnouncedIsTrue

(* CommandTree.EveryCommandReachable: compiling a domain's operations gives *)
(* each of them a command line of its own.                                  *)
CommandsReachable == command = "tree" => Tree!EveryCommandReachable

(* CatalogCommand.RemovalIsConsented: a command removes the object the user *)
(* named and consented to, and nothing else.                                *)
RemovalIsAgreed == command = "catalog" => Catalog!RemovalIsConsented

(* WatchLoops.TerminalWatchIsFinal: the last table of a watch is final.     *)
WatchedIsFinal == command = "watch" => Watch!TerminalWatchIsFinal

(* A batch comes to its report, a wizard to its closing box and a watch to  *)
(* its end (Pinning.CommandReturns, WizardEnds, WatchEnds).                 *)
Waits ==
  \/ command = "pinning" /\ stage # "idle"
  \/ command = "wizard" /\ term.ended = "no"
  \/ command = "watch" /\ ended = ""

EveryCommandEnds == Waits ~> ~Waits

(* Credentials.OneIdentity: "`--auth-token` | Override auth token"          *)
(* (README.md:824).  Violated: the upload and a fall-back of status use the *)
(* stored token.                                                            *)
OneIdentityUsed == command = "credentials" => Cred!OneIdentity

(* WatchLoops.TerminalIsTrue: a watch "checks if all rows indicate terminal *)
(* status" (output.go:643).  Violated: coloured rows are compared whole.    *)
TerminalMessageTrue == command = "watch" => Watch!TerminalIsTrue
=============================================================================
