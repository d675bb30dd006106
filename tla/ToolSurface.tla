---------------------------- MODULE ToolSurface ----------------------------
(***************************************************************************)
(* The assembly of one MCP server's tools and the calls an agent makes on  *)
(* it: the compiled catalogue, the extension plan that is collected and    *)
(* completed before the server exists, the single materialization that     *)
(* projects it on the wire, and the search, describe, invoke and direct    *)
(* calls (src/internal/mcp: adapter, catalog, curated, custom_tools,       *)
(* server_materialization, sdk_official, catalogbridge, catalogdispatch,   *)
(* agent_guide).  A server is built by one goroutine and immutable after;  *)
(* what can go wrong is the order of the passes and the agreement of the   *)
(* surfaces they leave behind.                                             *)
(***************************************************************************)
EXTENDS Naturals, Sequences, FiniteSets

CONSTANTS Setups   \* the servers the callers of BuildServer ask for

VARIABLES
  setup,      \* listing strategy, domain scope, wiring and host of the server
  build,      \* the pass the assembly is in, or how it ended
  tools,      \* ToolCatalog.tools: the entry of each name
  specs,      \* serverExtensionRegistry.specs, in order of declaration
  custom,     \* ToolCatalog.DirectCustom
  instructions, \* the count in the initialize instructions
  wire,       \* the tools registered on the SDK server and their handlers
  views,      \* the installed app views
  direct,     \* MaterializedTooling.directIndex, or {} before it is finalized
  lastCall    \* what the agent's last call ran

surfaceVars == <<setup, build, tools, specs, custom, instructions, wire, views, direct, lastCall>>

Names == DOMAIN tools
MetaTools == {"search_tools", "describe_tool", "invoke_read", "invoke_write", "invoke_destructive"}
Entry(class, category, human, by) ==
  [class |-> class, category |-> category, human |-> human, by |-> by, direct |-> FALSE]
NoEntryYet == [n \in {} |-> Entry("read", "core", FALSE, "none")]
With(f, n, v) == [m \in DOMAIN f \cup {n} |-> IF m = n THEN v ELSE f[m]]

Scope(d) == d \in setup.scope
Flat == setup.strategy = "flat"
MetaOnWire == ~(Flat /\ ~setup.metaOnFlat)
AgentDirectSafe(e) == e.category \notin {"admin", "wizard"} /\ ~e.human
IsDirectEntry(e) == e.direct /\ AgentDirectSafe(e)

(* The names the module puts on every progressive wire. *)
DirectToolNames ==
  {"auth_status"} \cup (IF Scope("vault") THEN {"vault_create", "vault_status"} ELSE {})
    \cup (IF Scope("upload") THEN {"websites_create"} ELSE {})

-----------------------------------------------------------------------------
(* What the compiled catalogue holds for a scope: a reading, a changing, a  *)
(* destructive, an administrative and a human-only operation, and the two   *)
(* vault operations whose handlers become hand-offs.                        *)
CompiledOps ==
  LET ofAll == [auth_status |-> Entry("read", "account", FALSE, "compiled"),
                admin_users |-> Entry("read", "admin", FALSE, "compiled"),
                config_edit |-> Entry("write", "core", TRUE, "compiled")]
      vault == [vault_create |-> Entry("write", "storage", TRUE, "compiled"),
                vault_status |-> Entry("read", "storage", FALSE, "compiled"),
                vault_sync   |-> Entry("write", "storage", FALSE, "compiled")]
      ipfs  == [pins_add |-> Entry("write", "core", FALSE, "compiled"),
                pins_rm  |-> Entry("destructive", "core", FALSE, "compiled"),
                websites_create |-> Entry("write", "core", FALSE, "compiled")]
      f == [n \in DOMAIN ofAll \cup (IF Scope("vault") THEN DOMAIN vault ELSE {})
                               \cup (IF Scope("upload") THEN DOMAIN ipfs ELSE {}) |->
              IF n \in DOMAIN ofAll THEN ofAll[n] ELSE IF n \in DOMAIN vault THEN vault[n] ELSE ipfs[n]]
  IN IF setup.clash = "none" THEN f ELSE With(f, setup.clash, Entry("read", "core", FALSE, "compiled"))

RouteVaultSetupHandlers(f) ==
  IF "vault_create" \in DOMAIN f
  THEN With(f, "vault_create", [f["vault_create"] EXCEPT !.by = "handoff", !.human = FALSE]) ELSE f

StampDirectTools(f) ==
  [n \in DOMAIN f |->
     IF \/ Flat /\ AgentDirectSafe(f[n])
        \/ ~Flat /\ n \in DirectToolNames
     THEN [f[n] EXCEPT !.direct = TRUE] ELSE f[n]]

BuildCatalog ==
  /\ build = "compile"
  /\ tools' = StampDirectTools(RouteVaultSetupHandlers(CompiledOps))
  /\ build' = "collect"
  /\ UNCHANGED <<setup, specs, custom, instructions, wire, views, direct, lastCall>>

-----------------------------------------------------------------------------
(* The extension plan: each spec has a name, roles and an entry.            *)
Spec(name, roles, e) == [name |-> name, roles |-> roles, entry |-> e]
Extension(class) == Entry(class, "core", FALSE, "extension")
SearchableOnly(name) == <<Spec(name, {"search"}, Extension("write"))>>
DirectSearchable(name, class) == <<Spec(name, {"search", "direct"}, Extension(class))>>
Launcher(name) == <<Spec(name, {"search", "app"}, Extension("read"))>>
If(c, s) == IF c THEN s ELSE <<>>

CoLocated == setup.mode = "stdio"
Tunnelled == setup.mode = "openai"
DropReachable == setup.drop /\ ~Tunnelled
TransferBranch == IF CoLocated THEN setup.localPath ELSE DropReachable \/ (Tunnelled /\ setup.relay)

Avail ==
  [uploadFile |-> Scope("upload") /\ TransferBranch,
   vaultPut   |-> Scope("vault") /\ TransferBranch,
   uploadURL  |-> Scope("upload") /\ setup.relay /\ "source_url" \in setup.features,
   download   |-> Scope("upload") /\ setup.relay]

AuthSpecs == If(setup.oob, <<Spec("auth_sso", {"search"}, [Extension("write") EXCEPT !.direct = TRUE])>>
                             \o SearchableOnly("auth_resume") \o Launcher("open_sso_signin"))
VaultSpecs == If(Scope("vault"), SearchableOnly("vault_create_resume") \o Launcher("open_vault_create"))
FileSpec(name, drop) == <<Spec(name, IF drop THEN {"direct", "search"} ELSE {"direct"}, Extension("write"))>>
VaultPutSpecs == If(Avail.vaultPut, If(DropReachable, Launcher("open_vault_manager")) \o FileSpec("vault_put_file", setup.drop))
UploadSpecs == If(Avail.uploadFile, If(DropReachable, Launcher("open_upload_manager")) \o FileSpec("upload_file", setup.drop))
RelaySpecs == If(Avail.uploadURL, DirectSearchable("upload_url", "write"))
DownloadSpecs == If(Avail.download, Launcher("open_download_manager") \o DirectSearchable("download_file", "read"))
GuideSpecs == DirectSearchable("capabilities", "read") \o DirectSearchable("agent_guide", "read")

CollectServerExtensions ==
  /\ build = "collect"
  /\ specs' = SearchableOnly("open_app") \o AuthSpecs \o VaultSpecs \o Launcher("open_pin_list")
              \o VaultPutSpecs \o RelaySpecs \o DownloadSpecs \o UploadSpecs \o GuideSpecs
  /\ build' = "complete"
  /\ UNCHANGED <<setup, tools, custom, instructions, wire, views, direct, lastCall>>

-----------------------------------------------------------------------------
ValidSpec(s) ==
  /\ s.roles # {}
  /\ "app" \in s.roles => "search" \in s.roles /\ "direct" \notin s.roles

RejectDuplicates(f) ==
  \/ \E i, j \in DOMAIN specs : i # j /\ specs[i].name = specs[j].name
  \/ \E i \in DOMAIN specs : specs[i].name \in DOMAIN f

(* beforeDirectTools: the wizard tools and the developer tools.             *)
Provided ==
  LET wiz == [n \in {"websites_wizard_start", "websites_wizard_step"} |-> Entry("write", "wizard", FALSE, "provision")]
  IN IF setup.wizard THEN wiz ELSE NoEntryYet

Merge(f, g) == [n \in DOMAIN f \cup DOMAIN g |-> IF n \in DOMAIN g THEN g[n] ELSE f[n]]
Named(ss, role) == {i \in DOMAIN ss : role \in ss[i].roles}
SpecOf(name) == specs[CHOOSE i \in DOMAIN specs : specs[i].name = name]

CompleteExtensions ==
  /\ build = "complete"
  /\ LET provided == Merge(tools, Provided)
         fails == \/ \E i \in DOMAIN specs : ~ValidSpec(specs[i])
                  \/ RejectDuplicates(tools)
                  \/ \E n \in DOMAIN Provided : n \in Names
                  \/ RejectDuplicates(provided)
     IN IF fails THEN build' = "refused" /\ UNCHANGED <<tools, custom>>
        ELSE /\ tools' = Merge(provided,
                           [n \in {specs[i].name : i \in Named(specs, "search")} |-> SpecOf(n).entry])
             /\ custom' = {specs[i].name : i \in Named(specs, "direct") \ Named(specs, "search")}
             /\ build' = "serve"
  /\ UNCHANGED <<setup, specs, instructions, wire, views, direct, lastCall>>

(* The SDK server.  The instructions are written from the catalogue that is *)
(* complete now, before anything is on the wire: they count it, name the    *)
(* steps of the start-here flows and say which tools are listed directly.   *)
Has(n) == n \in Names \/ n \in custom
OnboardingFlows == [account |-> {"auth_status", "auth_sso", "auth_resume"},
                    vault   |-> {"vault_create", "vault_create_resume", "vault_status"},
                    upload  |-> {"pins_add", "pins_rm"}]
FlowLines == {n \in UNION {OnboardingFlows[d] : d \in setup.scope} : Has(n)}
PublishLine == {n \in {"upload_file", "websites_create"} : Has(n) /\ Has("websites_create")}
OOBClause ==
  IF ~Has("auth_sso") \/ ~Has("auth_resume") THEN {}
  ELSE IF Flat /\ setup.metaOnFlat THEN {"auth_sso", "auth_resume"} ELSE {"auth_sso"}
TailText == {n \in {"upload_file", "vault_put_file"} : Has(n)}
Instructions ==
  [count |-> Cardinality(Names), named |-> FlowLines \cup PublishLine \cup {"agent_guide"},
   listed |-> OOBClause \cup TailText]

(* The meta-tools are registered unless a flat wire drops them.             *)
OfficialServer ==
  /\ build = "serve"
  /\ instructions' = Instructions
  /\ wire' = IF MetaOnWire THEN [n \in MetaTools |-> "meta"] ELSE [n \in {} |-> "meta"]
  /\ build' = "apps"
  /\ UNCHANGED <<setup, tools, specs, custom, views, direct, lastCall>>

-----------------------------------------------------------------------------
(* materialize: apps, stamp, direct entries, direct specs, hooks, finalize. *)
InstallApps ==
  /\ build = "apps"
  /\ views' = {specs[i].name : i \in Named(specs, "app")}
  /\ build' = "direct"
  /\ UNCHANGED <<setup, tools, specs, custom, instructions, wire, direct, lastCall>>

DirectNames(f) == {n \in DOMAIN f : IsDirectEntry(f[n])}
SpecDirect(f) == {specs[i].name : i \in Named(specs, "direct")} \ DirectNames(f)

RegisterDirect ==
  /\ build = "direct"
  /\ LET f == StampDirectTools(tools)
         unsafe == \E n \in SpecDirect(f) : ~AgentDirectSafe(SpecOf(n).entry)
     IN /\ tools' = f
        /\ wire' = Merge(wire, [n \in DirectNames(f) \cup SpecDirect(f) |->
                                  IF n \in DOMAIN f THEN f[n].by ELSE "extension"])
        /\ build' = IF unsafe THEN "refused" ELSE "hooks"
  /\ UNCHANGED <<setup, specs, custom, instructions, views, direct, lastCall>>

(* The open_app hook rebuilds the entry once every view is installed and    *)
(* registers it again when it is direct.                                    *)
OpenAppHook ==
  LET e == [Entry("write", "core", FALSE, "rebuilt") EXCEPT !.direct = "apps" \in setup.features \/ Flat]
  IN /\ tools' = With(tools, "open_app", e)
     /\ wire' = IF e.direct THEN With(wire, "open_app", "rebuilt") ELSE wire

RunHooks ==
  /\ build = "hooks"
  /\ OpenAppHook
  /\ build' = "finalize"
  /\ UNCHANGED <<setup, specs, custom, instructions, views, direct, lastCall>>

(* The direct index: the direct entries of the catalogue as it is now, and  *)
(* the specs that were registered beside it.                                *)
FinalizeBeforeHooks ==   \* fault: the index misses what the hooks registered
  /\ build = "finalize"
  /\ direct' = {n \in DirectNames(tools) : tools[n].by # "rebuilt"} \cup SpecDirect(tools)
  /\ build' = "ready"
  /\ UNCHANGED <<setup, tools, specs, custom, instructions, wire, views, lastCall>>
Finalize ==
  /\ build = "finalize"
  /\ direct' = DirectNames(tools) \cup SpecDirect(tools)
  /\ build' = "ready"
  /\ UNCHANGED <<setup, tools, specs, custom, instructions, wire, views, lastCall>>

-----------------------------------------------------------------------------
(* Discovery.                                                               *)
CardTools ==
  (IF Flat THEN direct ELSE DirectToolNames \cap direct) \cup (IF MetaOnWire THEN MetaTools ELSE {})

SearchFor(category) ==
  {n \in Names : /\ ~tools[n].human
                 /\ tools[n].category \in {"wizard", "admin"} => category = tools[n].category
                 /\ category # "none" => category = tools[n].category}
Suggest == {n \in Names : tools[n].category \notin {"wizard", "admin"} /\ ~tools[n].human}
Onboarding ==
  {n \in Names : /\ ~tools[n].human /\ tools[n].category # "wizard"
                 /\ n \in {"agent_guide"} \cup UNION {OnboardingFlows[d] : d \in DOMAIN OnboardingFlows}}
Dispatcher(e) == [read |-> "invoke_read", write |-> "invoke_write", destructive |-> "invoke_destructive"][e.class]
Describe(n) == IF n \in Names /\ tools[n].category # "admin" THEN Dispatcher(tools[n]) ELSE "error"
ToolAvailable(n) == n \in Names \/ n \in direct

(* The guide's flows: gate, fixed steps, required steps, branch steps.      *)
Flow(gate, steps, required, branches) ==
  [gate |-> gate, steps |-> steps, required |-> required, branches |-> branches]
FlowSpecs ==
  {Flow("account", {"auth_status", "auth_sso", "auth_resume"}, {}, {}),
   Flow("vault", {"vault_create", "vault_create_resume", "vault_status"}, {}, {}),
   Flow("upload", {"capabilities"}, {"upload_file"}, {{"upload_file"}, {"upload_url"}}),
   Flow("vault", {}, {"vault_put_file"}, {{"vault_put_file"}}),
   Flow("upload", {"capabilities", "download_file"}, {"download_file"}, {}),
   Flow("vault", {"vault_status", "vault_sync"}, {"vault_sync"}, {}),
   Flow("upload", {"pins_add", "pins_rm"}, {}, {}),
   Flow("upload", {}, {"websites_create"}, {{"websites_create"}})}

FilterSteps(steps) == {s \in steps : ToolAvailable(s)}
FilterFlow(f) ==
  [f EXCEPT !.steps = FilterSteps(f.steps), !.branches = {FilterSteps(b) : b \in f.branches} \ {{}}]
GuideFlows ==
  {f \in {FilterFlow(g) : g \in {h \in FlowSpecs : Scope(h.gate) /\ \A r \in h.required : ToolAvailable(r)}} :
     f.steps # {} \/ f.branches # {}}
GuideSteps == UNION {f.steps \cup UNION f.branches : f \in GuideFlows}

(* The summary sends guided onboarding to the wizard tools.                 *)
GuideSummary ==
  LET wizardTools == {"websites_wizard_start", "websites_wizard_step"}
  IN IF \A n \in wizardTools : ToolAvailable(n) THEN wizardTools ELSE {}

(* The onboarding prompt is registered when its wizard is in the catalogue. *)
Prompts == IF "websites_wizard_start" \in Names THEN {"websites_wizard_start"} ELSE {}

Capabilities == {n \in {"upload_file", "upload_url", "vault_put_file", "download_file"} :
                   [upload_file |-> Avail.uploadFile, upload_url |-> Avail.uploadURL,
                    vault_put_file |-> Avail.vaultPut, download_file |-> Avail.download][n]}

-----------------------------------------------------------------------------
(* Calls.  A compiled handler runs under the credential of the request, or  *)
(* the one the resolver finds for its identity.                             *)
Ran(n, via, by, cred) == [tool |-> n, via |-> via, by |-> by, cred |-> cred]
Nothing == Ran("none", "none", "none", "none")

CompiledHandler(n, via, by, cred) ==
  LET tok == IF cred # "none" THEN cred ELSE setup.resolver
  IN IF setup.resolver = "fails" /\ cred = "none" THEN Nothing
     ELSE Ran(n, via, by, IF tok = "unset" THEN "default" ELSE tok)

(* The operation catalogue may refuse: a required argument is missing, the   *)
(* operation wants a human's confirmation, the deadline passes, it fails.    *)
DispatchCatalogOp(ran) == {ran, Nothing}

Handle(n, via, by, cred) ==
  IF by = "compiled" THEN DispatchCatalogOp(CompiledHandler(n, via, by, cred)) ELSE {Ran(n, via, by, cred)}

InvokeAnyClass(n, via, cred) ==   \* fault: the dispatchers do not check the class
  IF n \notin Names \/ tools[n].category = "admin" \/ tools[n].human
  THEN {Nothing} ELSE Handle(n, via, tools[n].by, cred)
Invoke(n, via, cred) ==
  IF \/ n \notin Names
     \/ Dispatcher(tools[n]) # via
     \/ tools[n].category = "admin"
     \/ tools[n].human
  THEN {Nothing} ELSE Handle(n, via, tools[n].by, cred)

(* A served catalogue never changes, so one call stands for any number.     *)
CallMeta ==
  /\ build = "ready" /\ lastCall = Nothing
  /\ \E via \in DOMAIN wire \cap (MetaTools \ {"search_tools", "describe_tool"}),
        n \in Names \cup {"nosuch"}, cred \in {"none", "request"} : lastCall' \in Invoke(n, via, cred)
  /\ UNCHANGED <<setup, build, tools, specs, custom, instructions, wire, views, direct>>

CallDirect ==
  /\ build = "ready" /\ lastCall = Nothing
  /\ \E n \in DOMAIN wire \ MetaTools, cred \in {"none", "request"} :
       lastCall' \in Handle(n, "direct", wire[n], cred)
  /\ UNCHANGED <<setup, build, tools, specs, custom, instructions, wire, views, direct>>

-----------------------------------------------------------------------------
SurfaceInit ==
  /\ setup \in Setups
  /\ build = "compile" /\ tools = NoEntryYet /\ specs = <<>> /\ custom = {}
  /\ instructions = [count |-> 0, named |-> {}, listed |-> {}] /\ wire = [n \in {} |-> "meta"] /\ views = {} /\ direct = {}
  /\ lastCall = Nothing

SurfaceNext ==
  \/ BuildCatalog \/ CollectServerExtensions \/ CompleteExtensions \/ OfficialServer
  \/ InstallApps \/ RegisterDirect \/ RunHooks \/ Finalize
  \/ CallMeta \/ CallDirect

SurfaceSpec == SurfaceInit /\ [][SurfaceNext]_surfaceVars

SurfaceTypeOK ==
  /\ build \in {"compile", "collect", "complete", "serve", "apps", "direct", "hooks", "finalize", "ready", "refused"}
  /\ custom \subseteq {specs[i].name : i \in DOMAIN specs} /\ direct \subseteq DOMAIN wire
  /\ instructions.count \in Nat /\ views \subseteq {specs[i].name : i \in DOMAIN specs}

Callable(n) == n \in DOMAIN wire \/ (MetaOnWire /\ Describe(n) # "error")

(* The descriptions of a finished server agree with what it serves:    *)
(* the card lists the wire (all of a flat one), the direct index is the     *)
(* wire without the meta-tools, the instructions written before the wire    *)
(* existed still count the catalogue and call direct only what is, the      *)
(* capabilities report names exactly the transfer tools that exist, every   *)
(* app has its launcher, and every step of a guide flow or an instruction,  *)
(* every search result and every suggestion can be called, through the      *)
(* dispatcher describe_tool names for it.                                   *)
SurfacesAgree ==
  build = "ready" =>
    /\ CardTools \subseteq DOMAIN wire /\ (Flat => CardTools = DOMAIN wire)
    /\ direct = DOMAIN wire \ MetaTools
    /\ instructions.count = Cardinality(Names) /\ instructions.listed \subseteq DOMAIN wire
    /\ views \subseteq Names
    /\ Capabilities = {"upload_file", "upload_url", "vault_put_file", "download_file"} \cap DOMAIN wire
    /\ \A n \in GuideSteps \cup instructions.named : Callable(n)
    /\ MetaOnWire => \A n \in Onboarding \cup Suggest \cup UNION {SearchFor(c) : c \in {"none", "core", "account", "storage", "wizard"}} :
                       Invoke(n, Describe(n), "request") # {Nothing}

(* What a call runs is what the agent was shown: never an administrative or *)
(* a human-only operation, never a wizard step on the direct wire, a        *)
(* destructive handler only through the destructive dispatcher or its own   *)
(* direct entry, the handler the catalogue holds for the name, and never    *)
(* the server's own credential where requests carry an identity.            *)
NothingBypassesTheGate ==
  lastCall # Nothing =>
    LET n == lastCall.tool IN
    /\ n \in Names => /\ tools[n].category # "admin" /\ ~tools[n].human
                      /\ lastCall.by = tools[n].by
                      /\ lastCall.via = "direct" => AgentDirectSafe(tools[n])
                      /\ lastCall.via # "direct" => lastCall.via = Dispatcher(tools[n])
    /\ setup.resolver # "unset" => lastCall.cred # "default"

(* Every tool the guide names, in its summary too, can be called here.      *)
GuideIsCallable ==
  build = "ready" => \A n \in GuideSteps \cup GuideSummary \cup Prompts : Callable(n)

=============================================================================
