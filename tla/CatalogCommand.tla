--------------------------- MODULE CatalogCommand ---------------------------
(***************************************************************************)
(* One run of a `pinner` command that was compiled from the operation      *)
(* catalogue: the shared pipeline of src/internal/cli/catalog_adapter.go   *)
(* and the hooks each domain plugs into it (pins, dns, websites, ipns,     *)
(* admin, workspaces, account, api-keys, vault wiring).  Each domain has   *)
(* its own idea of when a destructive operation needs a confirmation; the  *)
(* account the command works on has other users, so the objects change     *)
(* while names are resolved and a person answers a prompt.                 *)
(***************************************************************************)
EXTENDS Naturals, FiniteSets

CONSTANTS
  CommandLines,   \* the argument lists typed
  Rows,           \* the row numbers objects of the account may have
  NameOf, TextOf, \* per row, the name of the object, and the number as it is typed
  Changes         \* how many objects others add or remove meanwhile

VARIABLES
  argv,      \* the command line
  input,     \* CatalogInvokeContext.Input: target, confirm, all
  typedName, \* what the user typed for the target
  scan,      \* the listing in progress: [next, seen]
  objects,   \* the objects on the server
  asked,     \* what the user was asked to confirm, and answered
  taken,     \* the objects the command removed
  said,      \* what the command reported
  point      \* the step of the pipeline

commandVars == <<argv, input, typedName, scan, objects, asked, taken, said, point>>

(* Operations: their domain, the argument that names the target, safety,    *)
(* and the type of their result.                                            *)
Operation(domain, target, destructive, result) ==
  [domain |-> domain, target |-> target, destructive |-> destructive, result |-> result]
Ops ==
  [pins_rm                 |-> Operation("pins", "cids", TRUE, "unpinned"),
   pins_update             |-> Operation("pins", "cid", FALSE, "pin"),
   dns_zones_delete        |-> Operation("dns", "zone", TRUE, "zone_deleted"),
   websites_delete         |-> Operation("websites", "website", TRUE, "website_deleted"),
   websites_convert        |-> Operation("websites", "domain", TRUE, "domain"),
   websites_update         |-> Operation("websites", "website", FALSE, "website"),
   ipns_keys_delete        |-> Operation("ipns", "id", TRUE, "key_deleted"),
   platform_domains_delete |-> Operation("admin", "id", TRUE, "platform_domain_deleted"),
   social_providers_delete |-> Operation("admin", "id", TRUE, "social_provider_deleted"),
   workspaces_delete       |-> Operation("workspaces", "id", TRUE, "workspace_deleted"),
   api_keys_delete         |-> Operation("api_keys", "id", TRUE, "key_deleted"),
   vault_rm                |-> Operation("vault", "path", TRUE, "deleted"),
   account_update_email    |-> Operation("account", "email", FALSE, "email"),
   operations_get          |-> Operation("operations", "id", FALSE, "operation")]
TheOp == Ops[argv.op]

(* Every object has a row number and a name; typed text is one or the other,*)
(* and what was not given is none.                                          *)
Numeric(text) == \E r \in Rows : TextOf[r] = text
RowOf(text) == CHOOSE r \in Rows : TextOf[r] = text

Confirm == argv.force \/ argv.confirm
Step(p) == point' = p
Stop(what) == point' = "end" /\ said' = what

-----------------------------------------------------------------------------
(* The per-domain hooks that map the positional argument.                   *)
First(named) == IF argv.pos # "none" /\ named = "none" THEN argv.pos ELSE named
PinsPositional == IF argv.op = "pins_rm" THEN argv.pos ELSE First(argv.named)
DNSPositional == IF argv.pos # "none" THEN argv.pos ELSE argv.named
IPNSPositional == First(argv.named)
APIKeysPositional == First(argv.named)
AccountPositional == First(argv.named)
Positional ==
  CASE TheOp.domain = "pins" -> PinsPositional
    [] TheOp.domain = "dns" -> DNSPositional
    [] TheOp.domain = "ipns" -> IPNSPositional
    [] TheOp.domain = "api_keys" -> APIKeysPositional
    [] TheOp.domain = "account" -> AccountPositional
    [] OTHER -> First(argv.named)
ResolvePositional ==
  /\ point = "positional"
  /\ input' = [input EXCEPT !.target = Positional] /\ typedName' = Positional
  /\ Step("ids") /\ UNCHANGED <<argv, scan, objects, asked, taken, said>>

(* Administrators may name a platform domain or a social provider; a number *)
(* is taken as the row.  Names are looked up page after page.               *)
ResolvesNames == TheOp.domain = "admin"
ResolveIDs ==
  /\ point = "ids"
  /\ IF ResolvesNames /\ input.target # "none" /\ ~Numeric(input.target)
     THEN scan' = [next |-> 1, seen |-> {}] /\ Step("scan")
     ELSE UNCHANGED scan /\ Step("gate")
  /\ UNCHANGED <<argv, input, typedName, objects, asked, taken, said>>

(* One row to a page, in order.  No two objects share a name.              *)
Page == {r \in objects : Cardinality({q \in objects : q <= r}) = scan.next}
Matches(rows) == {r \in rows : NameOf[r] = typedName}
ScanPage(after) ==
  /\ LET seen == scan.seen \cup Page
         last == Page = {} \/ scan.next >= Cardinality(objects)
     IN IF ~last THEN scan' = [next |-> scan.next + 1, seen |-> seen] /\ UNCHANGED <<input, point, said>>
        ELSE /\ UNCHANGED scan
             /\ \/ Matches(seen) = {} /\ Stop("not_found") /\ UNCHANGED input
                \/ \E r \in Matches(seen) :
                     input' = [input EXCEPT !.target = TextOf[r]] /\ Step(after) /\ UNCHANGED said
  /\ UNCHANGED <<argv, typedName, objects, asked, taken>>
ScanNames == point = "scan" /\ ScanPage("gate")

-----------------------------------------------------------------------------
(* The gates of destructive operations.                                     *)
(* Mutant: a flag that was not given is left out of the input.              *)
SetOnlyYes(c) == input' = [input EXCEPT !.confirm = IF c THEN "yes" ELSE "default", !.all = argv.all]
SetConfirm(c) == input' = [input EXCEPT !.confirm = IF c THEN "yes" ELSE "no", !.all = argv.all]
GateForceReject(rejectWhen) ==
  /\ SetConfirm(Confirm)
  /\ IF ~Confirm /\ rejectWhen THEN Stop("pass_force") ELSE Step("extra") /\ UNCHANGED said
  /\ UNCHANGED asked
GateHintSilent(hintWhen) ==
  /\ SetConfirm(Confirm)
  /\ IF ~Confirm /\ ~argv.dry /\ hintWhen THEN Stop("hint") ELSE Step("extra") /\ UNCHANGED said
  /\ UNCHANGED asked
GatePassthroughForce ==
  SetConfirm(argv.force) /\ Step("extra") /\ UNCHANGED <<said, asked>>
GateNone == Step("extra") /\ UNCHANGED <<input, said, asked>>
GateInteractivePrompt ==
  \/ Confirm /\ SetConfirm(TRUE) /\ Step("extra") /\ UNCHANGED <<said, asked>>
  \/ ~Confirm /\ ~argv.tty /\ Stop("pass_force") /\ UNCHANGED <<input, asked>>
  \/ /\ ~Confirm /\ argv.tty
     /\ \E yes \in BOOLEAN :
          /\ asked' = [name |-> typedName, yes |-> yes, count |-> 0]
          /\ IF yes THEN SetConfirm(TRUE) /\ Step("extra") /\ UNCHANGED said
             ELSE Stop("aborted") /\ UNCHANGED input

PinsGate == GateHintSilent(argv.all \/ input.target # "none")
DNSGate == GateForceReject(input.target # "none")
WebsitesGate == GateForceReject(TheOp.target = "website" /\ input.target # "none")
WorkspacesGate == GateForceReject(input.target # "none")
VaultGate == GateForceReject(TRUE)
AdminGate == IF argv.op = "platform_domains_delete" THEN GateInteractivePrompt ELSE GateForceReject(TRUE)
DestructiveGate ==
  /\ point = "gate" /\ TheOp.destructive
  /\ \/ TheOp.domain = "pins" /\ PinsGate
     \/ TheOp.domain = "dns" /\ DNSGate
     \/ TheOp.domain = "websites" /\ WebsitesGate
     \/ TheOp.domain = "ipns" /\ GateNone
     \/ TheOp.domain = "admin" /\ AdminGate
     \/ TheOp.domain = "workspaces" /\ WorkspacesGate
     \/ TheOp.domain = "api_keys" /\ GatePassthroughForce
     \/ TheOp.domain = "vault" /\ VaultGate
  /\ UNCHANGED <<argv, typedName, scan, objects, taken>>

UpdateGuard ==
  /\ point = "gate" /\ ~TheOp.destructive
  /\ IF argv.fields \/ TheOp.domain \notin {"pins", "websites"} THEN Step("execute") /\ UNCHANGED said ELSE Stop("nothing_to_update")
  /\ UNCHANGED <<argv, input, typedName, scan, objects, asked, taken>>

(* Removing every pin asks for the number of pins to be typed, unless --yes *)
(* or --force says otherwise: one listing is counted here, another removed. *)
ExtraConfirm ==
  /\ point = "extra"
  /\ IF argv.op # "pins_rm" \/ ~argv.all \/ argv.dry \/ argv.yes \/ argv.force \/ objects = {}
     THEN Step("execute") /\ UNCHANGED <<asked, said>>
     ELSE \E yes \in BOOLEAN :
            /\ asked' = [name |-> "all", yes |-> yes, count |-> Cardinality(objects)]
            /\ IF yes THEN Step("execute") /\ UNCHANGED said ELSE Stop("aborted")
  /\ UNCHANGED <<argv, input, typedName, scan, objects, taken>>

-----------------------------------------------------------------------------
(* The handlers are the catalogue library's.  They want a target and, where *)
(* the operation declares a confirm argument, a confirmation that is not    *)
(* refused; a workspace is named by its label or its row.                   *)
TargetOf ==
  IF argv.all /\ argv.op = "pins_rm" THEN objects
  ELSE {r \in objects : IF Numeric(input.target) THEN r = RowOf(input.target) ELSE NameOf[r] = input.target}
Execute ==
  /\ point = "execute"
  /\ IF argv.dry THEN Stop("dry_run") /\ UNCHANGED <<objects, taken>>
     ELSE IF input.target = "none" /\ ~input.all THEN Stop("missing_argument") /\ UNCHANGED <<objects, taken>>
     ELSE IF ~TheOp.destructive THEN Step("render") /\ UNCHANGED <<objects, taken, said>>
     ELSE IF input.confirm = "no" THEN Stop("not_confirmed") /\ UNCHANGED <<objects, taken>>
     ELSE IF TargetOf = {} THEN Stop("failed") /\ UNCHANGED <<objects, taken>>
     ELSE /\ objects' = objects \ TargetOf /\ taken' = TargetOf
          /\ \E lost \in BOOLEAN : IF lost THEN Stop("failed") ELSE Step("render") /\ UNCHANGED said
  /\ UNCHANGED <<argv, input, typedName, scan, asked>>

(* A renderer knows the result types of its own domain and calls any other  *)
(* unroutable: an error after the operation was carried out.                *)
PinsResults == {"dry_run", "list", "pin", "status", "batch", "unpinned"}
DNSResults == {"list", "zone", "validation", "record", "zone_deleted", "record_deleted"}
WebsitesResults == {"list", "website", "ssl", "validation", "config", "website_deleted", "dns_requirements",
                    "domains", "domain", "dane", "domain_removed", "platform_domains", "availability"}
IPNSResults == {"list", "key", "key_deleted", "published", "republished", "resolved"}
AdminResults == {"list", "platform_domain", "website", "root_domain", "platform_domain_deleted",
                 "social_provider_deleted", "user_deleted", "user", "social_provider", "quota_plan", "billing"}
WorkspacesResults == {"list", "workspace", "access", "workspace_deleted"}
AccountResults == {"info", "email", "password", "otp_disabled", "subscription", "quota"}
OperationsResults == {"list", "operation"}
APIKeysResults == {"list", "key", "key_deleted"}
VaultResults == {"status", "list", "stat", "verify", "deleted", "synced", "share", "flush", "profiles", "sent", "version", "tags"}
Routed ==
  [pins |-> PinsResults, dns |-> DNSResults, websites |-> WebsitesResults, ipns |-> IPNSResults,
   admin |-> AdminResults, workspaces |-> WorkspacesResults, api_keys |-> APIKeysResults,
   vault |-> VaultResults, account |-> AccountResults, operations |-> OperationsResults]
Render ==
  /\ point = "render"
  /\ Stop(IF TheOp.result \in Routed[TheOp.domain] THEN "done" ELSE "unroutable")
  /\ UNCHANGED <<argv, input, typedName, scan, objects, asked, taken>>

OthersRemove(r) ==
  /\ point # "end" /\ r \in objects /\ Cardinality(Rows \ objects) - Cardinality(taken) < Changes
  /\ objects' = objects \ {r}
  /\ UNCHANGED <<argv, input, typedName, scan, asked, taken, said, point>>
OthersAdd(r) ==
  /\ point # "end" /\ r \notin objects /\ r \notin taken
  /\ objects' = objects \cup {r}
  /\ UNCHANGED <<argv, input, typedName, scan, asked, taken, said, point>>

-----------------------------------------------------------------------------
CommandInit ==
  /\ argv \in CommandLines
  /\ input = [target |-> "none", confirm |-> "default", all |-> FALSE]
  /\ typedName = "none" /\ scan = [next |-> 0, seen |-> {}]
  /\ objects \in SUBSET Rows
  /\ asked = [name |-> "none", yes |-> FALSE, count |-> 0]
  /\ taken = {} /\ said = "none" /\ point = "positional"

Others == \E r \in Rows : OthersRemove(r) \/ OthersAdd(r)
CommandNext ==
  \/ ResolvePositional \/ ResolveIDs \/ ScanNames \/ DestructiveGate \/ UpdateGuard
  \/ ExtraConfirm \/ Execute \/ Render \/ Others
CommandSpec == CommandInit /\ [][CommandNext]_commandVars

-----------------------------------------------------------------------------
CommandTypeOK ==
  /\ argv \in CommandLines /\ objects \subseteq Rows /\ taken \subseteq Rows
  /\ input.confirm \in {"default", "yes", "no"} /\ scan.next \in 0 .. Cardinality(Rows) + 1 /\ scan.seen \subseteq Rows
  /\ point \in {"positional", "ids", "scan", "gate", "extra", "execute", "render", "end"}

(* Whatever hook decides, a command removes something only with the consent *)
(* of its caller: a flag, or an answer to a prompt about that very object.  *)
(* IPNS keys are the one documented exception.  Without --all only the      *)
(* object that was named goes, and every removal can be reported            *)
(* (catalogActionAdapter, the gates and the ResolveIDs hooks).              *)
Consented ==
  \/ argv.force \/ argv.confirm \/ argv.op = "ipns_keys_delete"
  \/ asked.yes /\ asked.name = typedName
RemovalIsConsented ==
  /\ said # "unroutable"
  /\ taken # {} =>
    /\ Consented
    /\ ~argv.all => Cardinality(taken) = 1 /\ \A r \in taken : typedName \in {NameOf[r], TextOf[r]}

(* The number of pins the user typed is the number of pins removed          *)
(* (pinsCatalogConfig, ExtraConfirm).                                       *)
CountedIsRemoved == taken # {} /\ asked.count > 0 => Cardinality(taken) = asked.count
=============================================================================
