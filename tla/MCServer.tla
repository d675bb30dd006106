------------------------------ MODULE MCServer ------------------------------
(***************************************************************************)
(* The MCP server, from the installer to the tools.  The modules share no  *)
(* variable: `concern' says whose behaviour this is, and the variables of  *)
(* the others stay at Idle.  What each instance holds is what its module   *)
(* would hold on its own.                                                  *)
(***************************************************************************)
EXTENDS Naturals, Sequences, FiniteSets, TLC

CONSTANTS Tokens, Accounts, NoAccount, Starters, Revokers, Browsers, Pollers,
          MaxSpentTombstones,                     \* SSOLogin
          Sessions, Addresses, Posts, MaxLoginAttempts, \* WizardLogin
          Hosts, Visits, NoVisit, Coordinators,   \* ServerRun
          WizardNames, WizardLabels, WizardRoots, Emails, MaxSites, \* WizardSession
          Setups,                                 \* ToolSurface
          OAuthClients, PublicAddresses, LocalAddress, MaxGrants, MaxRestarts, \* OAuthFlow
          OtherServers, MaxTemps,                 \* AgentConfig
          InstAgents, HttpAgents, ProjectAgents,
          CommandLines, EnvFiles, NoFile,         \* McpInstall
          FileServers, FileSources, SizeCap       \* FileTools

Providers == {"empty", "ngrok", "cloudflared", "openai"}
EnvironmentFiles ==
  [provider : Providers, token : {"empty", "old", "flag", "typed", "password"},
   url : {"empty", "flag", "local", "ngrok", "cloudflared"},
   oauth : {"unset", "on", "off"}, creds : SUBSET (Providers \ {"empty"})]

ASSUME LoginAssumption  == NoAccount \notin Accounts /\ MaxSpentTombstones \in Nat
ASSUME FormAssumption   == IsFiniteSet(Posts) /\ MaxLoginAttempts \in Nat \ {0}
ASSUME VisitAssumption  == NoVisit \notin Visits
ASSUME SetupAssumption  == \A s \in Setups : s.resolver \in {"unset", "identity", "fails"}
ASSUME InstallAssumption ==
  /\ CommandLines \subseteq
       [command : {"install", "service_install", "service_control"}, quiet : BOOLEAN,
        transport : {"empty", "stdio", "http"}, token : BOOLEAN, url : BOOLEAN,
        tunnel : {"none"} \cup Providers,
        oauth : {"unset", "on", "off"}, service : {"unset", "on", "off"}]
  /\ EnvFiles \subseteq EnvironmentFiles \cup {NoFile} /\ NoFile \notin EnvironmentFiles
ASSUME OriginAssumption == "" \notin PublicAddresses \cup {LocalAddress}
ASSUME BoundAssumption  ==
  /\ MaxGrants \in Nat /\ MaxRestarts \in Nat /\ MaxTemps \in Nat
  /\ MaxSites \in Nat \ {0}

VARIABLES
  concern,
  handles, reg, stage, ask, verdict, told, ep, status, erred, email, old, at,
  mine, doing, target, pc, link, issued, edited, refused, signedIn,
  revoked, reaped,                                              \* SSOLogin
  opts, boot, listener, serving, tun, base, own, guard, issuer, sync,
  cancelled, cache, calls, mutex, visit, from, server,          \* ServerRun
  wizard, form, accepted, sites, bindings, token, logins, config, \* WizardSession
  setup, build, tools, specs, custom, instructions, wire, views, direct,
  lastCall,                                                     \* ToolSurface
  baseURL, resource, registry, database, agreed, oauthReply, restarts, \* OAuthFlow
  cmdline, envFile, unit, inst, entries, found,                 \* McpInstall
  agentCfg, edit, temps, cfgBefore,                             \* AgentConfig
  requests, request, throttle, post, guesses, astray, approved, settled, replaced,
                                                                \* WizardLogin
  fileServer, fileCall, source, fileStage, ctx, reply, excuse   \* FileTools

Idle == "-"

loginState ==
  <<handles, reg, stage, ask, verdict, told, ep, status, erred, email, old, at, mine,
    doing, target, pc, link, issued, edited, refused, signedIn, revoked, reaped>>
serveState ==
  <<opts, boot, listener, serving, tun, base, own, guard, issuer, sync,
    cancelled, cache, calls, mutex, visit, from, server>>
sessionState == <<wizard, form, accepted, sites, bindings, token, logins, config>>
surfaceState ==
  <<setup, build, tools, specs, custom, instructions, wire, views, direct, lastCall>>
oauthState   == <<baseURL, resource, registry, database, agreed, oauthReply, restarts>>
installState == <<cmdline, envFile, unit, inst, entries, found>>
agentState   == <<agentCfg, edit, temps, cfgBefore>>
formState    ==
  <<requests, request, throttle, post, guesses, astray, approved, settled, replaced>>
fileState    == <<fileServer, fileCall, source, fileStage, ctx, reply, excuse>>

Symmetry == Permutations(Tokens) \cup Permutations(Posts) \cup Permutations(Addresses)

-----------------------------------------------------------------------------
(* SSOLogin: two logins, one with and one without an address, one tombstone; *)
(* nobody polls or revokes (MCSSOLogin has those).                          *)
Login == INSTANCE SSOLogin

LoginIdle ==
  /\ handles = Idle /\ reg = Idle /\ stage = Idle /\ ask = Idle /\ verdict = Idle
  /\ told = Idle /\ ep = Idle /\ status = Idle /\ erred = Idle /\ email = Idle
  /\ old = Idle /\ at = Idle /\ mine = Idle /\ doing = Idle /\ target = Idle
  /\ pc = Idle /\ link = Idle /\ issued = Idle /\ edited = Idle /\ refused = Idle
  /\ signedIn = Idle /\ revoked = Idle /\ reaped = Idle

(* ServerRun: two hosts, two requests, two coordinators. *)
Serve == INSTANCE ServerRun

ServeIdle ==
  /\ opts = Idle /\ boot = Idle /\ listener = Idle /\ serving = Idle
  /\ tun = Idle /\ base = Idle /\ own = Idle /\ guard = Idle /\ issuer = Idle
  /\ sync = Idle /\ cancelled = Idle /\ cache = Idle /\ calls = Idle
  /\ mutex = Idle /\ visit = Idle /\ from = Idle /\ server = Idle

Session == INSTANCE WizardSession WITH agreed <- accepted

SessionIdle ==
  /\ wizard = Idle /\ form = Idle /\ accepted = Idle /\ sites = Idle
  /\ bindings = Idle /\ token = Idle /\ logins = Idle /\ config = Idle

-----------------------------------------------------------------------------
(* ToolSurface: both listing strategies on an HTTP server with and without   *)
(* the vault, out-of-band pages, wizards, apps and an identity resolver; the *)
(* modes that decide about relays and local paths; a name declared twice.    *)
Http == [strategy |-> "progressive", metaOnFlat |-> TRUE,
         scope |-> {"account", "vault", "upload"}, mode |-> "http", features |-> {},
         drop |-> TRUE, localPath |-> FALSE, relay |-> TRUE, oob |-> TRUE,
         wizard |-> TRUE, resolver |-> "unset", clash |-> "none"]
Strategies == {"progressive", "flat"}

Servers ==
  [strategy : Strategies, metaOnFlat : BOOLEAN,
   scope : {{"account", "upload"}, {"account", "vault", "upload"}}, mode : {"http"},
   features : {{}, {"apps"}}, drop : BOOLEAN, localPath : {FALSE}, relay : {TRUE},
   oob : BOOLEAN, wizard : BOOLEAN, resolver : {"unset", "identity", "fails"},
   clash : {"none"}] \cup
  {[Http EXCEPT !.mode = m, !.features = f, !.drop = d, !.localPath = l, !.relay = r,
                !.strategy = s] :
     m \in {"stdio", "http", "openai"}, f \in {{}, {"source_url"}},
     d, l, r \in BOOLEAN, s \in Strategies} \cup
  {[Http EXCEPT !.clash = c, !.strategy = s] :
     c \in {"capabilities", "websites_wizard_start", "open_app", "pins_rm"},
     s \in Strategies}

Surface == INSTANCE ToolSurface

(* What a server provides in some set-ups only is not in the catalogue of   *)
(* every one: it would refuse to start.                                    *)
ASSUME SurfaceAssumption ==
  \A s \in Setups :
    /\ s.scope \subseteq {"account", "vault", "upload"}
    /\ s.clash \notin Surface!MetaTools \cup
         {"upload_file", "upload_url", "vault_put_file", "download_file", "auth_sso"}

SurfaceIdle ==
  /\ setup = Idle /\ build = Idle /\ tools = Idle /\ specs = Idle /\ custom = Idle
  /\ instructions = Idle /\ wire = Idle /\ views = Idle /\ direct = Idle
  /\ lastCall = Idle

(* OAuthFlow: two clients, a tunnel that changes its address on a restart.  *)
OAuth == INSTANCE OAuthFlow WITH issuer <- resource

OAuthIdle ==
  /\ baseURL = Idle /\ resource = Idle /\ registry = Idle /\ database = Idle
  /\ agreed = Idle /\ oauthReply = Idle /\ restarts = Idle

-----------------------------------------------------------------------------
(* McpInstall: one agent that speaks HTTP and one that does not; flags given *)
(* and left out, over no environment file and over those of a local, a       *)
(* cloudflared, an ngrok and a half-written service.                         *)
InstallLines ==
  [command : {"install", "service_install", "service_control"}, quiet : BOOLEAN,
   transport : {"http"}, tunnel : {"none", "empty", "ngrok"}, token : BOOLEAN,
   url : {FALSE}, oauth : {"unset", "off"}, service : {"unset", "off"}] \cup
  [command : {"install"}, quiet : {FALSE}, transport : {"empty"}, tunnel : {"none"},
   token : {FALSE}, url : BOOLEAN, oauth : {"unset"}, service : {"unset"}]

EnvFound ==
  {NoFile,
   [provider |-> "empty", token |-> "old", url |-> "local", oauth |-> "unset", creds |-> {}],
   [provider |-> "cloudflared", token |-> "old", url |-> "cloudflared", oauth |-> "off",
    creds |-> {"cloudflared"}],
   [provider |-> "ngrok", token |-> "old", url |-> "ngrok", oauth |-> "on",
    creds |-> {"ngrok"}],
   [provider |-> "ngrok", token |-> "empty", url |-> "empty", oauth |-> "unset", creds |-> {}]}

Install == INSTANCE McpInstall

InstallIdle ==
  /\ cmdline = Idle /\ envFile = Idle /\ unit = Idle /\ inst = Idle
  /\ entries = Idle /\ found = Idle

Agent == INSTANCE AgentConfig

AgentIdle == agentCfg = Idle /\ edit = Idle /\ temps = Idle /\ cfgBefore = Idle

(* WizardLogin: two POSTs, a lockout at the second failure, and either one   *)
(* request under two addresses or two requests under one (FormBound).        *)
Form == INSTANCE WizardLogin WITH LoginIds <- Tokens

FormIdle ==
  /\ requests = Idle /\ request = Idle /\ throttle = Idle /\ post = Idle
  /\ guesses = Idle /\ astray = Idle /\ approved = Idle /\ settled = Idle
  /\ replaced = Idle

(* FileTools: a server of every transport with every feature that its hosts  *)
(* may have; files, archives and trees within, at and over a cap of 2.       *)
Capabilities == {"source_url", "source_data", "file_host_input"}
Uploaders ==
  [transport : {"stdio"}, features : {{"source_path"}}, presigned : {FALSE}] \cup
  [transport : {"http"}, presigned : BOOLEAN,
   features : {{"source_mint"} \cup f : f \in SUBSET Capabilities}] \cup
  [transport : {"openai"}, features : {Capabilities}, presigned : BOOLEAN]

Sources ==
  {[kind |-> "file", size |-> n, entries |-> <<n>>, declared |-> d, opens |-> FALSE] :
     n \in 1..3, d \in {"none", "right", "wrong"}} \cup
  [kind : {"archive"}, size : {1, 3}, entries : {<<1, 1>>, <<2, 1>>},
   declared : {"right"}, opens : BOOLEAN] \cup
  [kind : {"dir"}, size : {1}, entries : {<<1, 1>>, <<2, 1>>}, declared : {"none"},
   opens : {FALSE}] \cup
  [kind : {"missing"}, size : {1}, entries : {<<1>>}, declared : {"right"}, opens : {FALSE}]

Files == INSTANCE FileTools

(* A server has the features of its transport; sizes and their sums are      *)
(* numbers.                                                                *)
ASSUME FileAssumption ==
  /\ SizeCap \in Nat
  /\ \A s \in FileServers : Files!TransportOf(s.features) = s.transport
  /\ FileSources \subseteq [kind : {"file", "archive", "dir", "missing"}, size : Nat,
                           entries : Seq(Nat), declared : {"none", "right", "wrong"},
                           opens : BOOLEAN]
  /\ \A src \in FileSources : Files!Total(src) \in Nat /\ Files!Total(Files!Grown(src)) \in Nat

FilesIdle ==
  /\ fileServer = Idle /\ fileCall = Idle /\ source = Idle /\ fileStage = Idle
  /\ ctx = Idle /\ reply = Idle /\ excuse = Idle

-----------------------------------------------------------------------------
Concerns == {"login", "serve", "session", "surface", "oauth", "install", "agent",
             "form", "files"}

ServerInit ==
  /\ concern \in Concerns
  /\ IF concern = "login"  THEN Login!Init           ELSE LoginIdle
  /\ IF concern = "serve"   THEN Serve!ServeInit      ELSE ServeIdle
  /\ IF concern = "session" THEN Session!WizardInit   ELSE SessionIdle
  /\ IF concern = "surface" THEN Surface!SurfaceInit  ELSE SurfaceIdle
  /\ IF concern = "oauth"   THEN OAuth!OAuthInit      ELSE OAuthIdle
  /\ IF concern = "install" THEN Install!InstInit     ELSE InstallIdle
  /\ IF concern = "agent"   THEN Agent!CfgInit        ELSE AgentIdle
  /\ IF concern = "form"    THEN Form!WizInit         ELSE FormIdle
  /\ IF concern = "files"   THEN Files!FileInit       ELSE FilesIdle

Others(c) ==
  /\ concern = c /\ UNCHANGED concern
  /\ IF c = "login"  THEN TRUE ELSE UNCHANGED loginState
  /\ IF c = "serve"   THEN TRUE ELSE UNCHANGED serveState
  /\ IF c = "session" THEN TRUE ELSE UNCHANGED sessionState
  /\ IF c = "surface" THEN TRUE ELSE UNCHANGED surfaceState
  /\ IF c = "oauth"   THEN TRUE ELSE UNCHANGED oauthState
  /\ IF c = "install" THEN TRUE ELSE UNCHANGED installState
  /\ IF c = "agent"   THEN TRUE ELSE UNCHANGED agentState
  /\ IF c = "form"    THEN TRUE ELSE UNCHANGED formState
  /\ IF c = "files"   THEN TRUE ELSE UNCHANGED fileState

ServerNext ==
  \/ Others("login")  /\ Login!Next
  \/ Others("serve")   /\ Serve!ServeNext
  \/ Others("session") /\ Session!WizardNext
  \/ Others("surface") /\ Surface!SurfaceNext
  \/ Others("oauth")   /\ OAuth!OAuthNext
  \/ Others("install") /\ Install!InstNext
  \/ Others("agent")   /\ Agent!CfgNext
  \/ Others("form")    /\ Form!WizNext
  \/ Others("files")   /\ Files!FileNext

serverVars ==
  <<concern, loginState, serveState, sessionState, surfaceState, oauthState,
    installState, agentState, formState, fileState>>

ServerSpec == ServerInit /\ [][ServerNext]_serverVars

(* A sign-in that nobody polls or revokes never reads its handles, its       *)
(* continuations or its history but `edited', and reads the handle of a      *)
(* start and the link of a POST only while they are under way.  States that *)
(* differ in the rest alone have the same pending logins, and so have their *)
(* successors.                                                             *)
SignInRead ==
  <<concern, ep, status, erred, email, old, at, pc, edited,
    [s \in {x \in Starters : at[x] # "idle"} |-> mine[s]],
    [b \in {x \in Browsers : pc[x] # "idle"} |-> link[b]]>>

(* Nobody reads a request that is neither registered nor held by a POST, the *)
(* count of a counter that starts again anyway, or what a POST carried to a  *)
(* step it has passed; who left the map is of use only while it may not.     *)
FormRead ==
  LET held == {post[p].id : p \in {q \in Posts : post[q] # Form!NoPost}} IN
  <<concern, requests, approved \ (settled \cup replaced), guesses, astray,
    [id \in Tokens |->
       IF id \in requests \cup held THEN request[id] ELSE request[id] = Form!NoRequest],
    [a \in Addresses |->
       IF throttle[a].used = "recent" THEN throttle[a] ELSE throttle[a].locked],
    [p \in Posts |->
       CASE post[p].at \in {"open", "bound", "noted", "miscoded", "accepted", "cleared"} ->
              <<post[p].at, post[p].id>>
         [] post[p].at \in {"checking", "asking", "refused"} ->
              <<post[p].at, post[p].id, post[p].address>>
         [] OTHER -> post[p]]>>

ServerView ==
  CASE concern = "login" /\ Pollers = {} /\ Revokers = {} -> SignInRead
    [] concern = "form" -> FormRead
    [] OTHER -> serverVars

(* A second request is begun only while one address is all that was typed.   *)
FormBound ==
  \/ concern # "form"
  \/ \E id \in Tokens : request[id] = Form!NoRequest
  \/ \E a \in Addresses :
       /\ \A id \in Tokens : request[id].address = a
       /\ \A b \in Addresses \ {a} : throttle[b] = Form!NoCounter
       /\ \A p \in Posts : post[p] # Form!NoPost => post[p].address = a

-----------------------------------------------------------------------------
(* Every variable of the concern keeps its type. *)
ServerTypeOK ==
  /\ concern = "login"  => Login!TypeOK
  /\ concern = "serve"   => Serve!ServeTypeOK
  /\ concern = "session" => Session!WizardTypeOK
  /\ concern = "surface" => Surface!SurfaceTypeOK
  /\ concern = "oauth"   => OAuth!OAuthTypeOK
  /\ concern = "install" => Install!InstTypeOK
  /\ concern = "agent"   => Agent!CfgTypeOK
  /\ concern = "form"    => Form!WizTypeOK
  /\ concern = "files"   => Files!FileTypeOK

(* SSOLogin.SingleFlight: no two pending logins for one account.            *)
(* WizardLogin.AcceptedIsKept and GuessesBounded: a login the backend        *)
(* accepted stays with the wizard unless it begins again before the login is *)
(* completed, and an address whose guesses are checked and noted under its   *)
(* own name is locked after a burst of them, whatever requests they came     *)
(* through.                                                                  *)
LoginsKept ==
  /\ concern = "login" => Login!SingleFlight
  /\ concern = "form"  => Form!AcceptedIsKept /\ Form!GuessesBounded

(* FileTools.WholeOrRefused and AdvertisedModesWork: what is stored is the   *)
(* whole source in the shape the call asked for, a refusal has a reason, and *)
(* a mode the server names is not refused as unavailable.                    *)
FilesArriveRight ==
  concern = "files" => Files!WholeOrRefused /\ Files!AdvertisedModesWork

(* ServerRun.ServesAsAdvertised: links name an address that answers, and a  *)
(* host keeps one server.                                                   *)
ServesRight == concern = "serve" => Serve!ServesAsAdvertised

(* WizardSession.CompleteMeansAgreed: a wizard completes with what the      *)
(* human agreed to.                                                         *)
WizardCompletesRight == concern = "session" => Session!CompleteMeansAgreed

(* ToolSurface.SurfacesAgree: what is listed, what the guide describes and  *)
(* what a call runs are the same tools.                                     *)
ToolsAgree == concern = "surface" => Surface!SurfacesAgree

(* ToolSurface.NothingBypassesTheGate: no call runs a handler that the      *)
(* policy keeps from the agent.                                             *)
GateHolds == concern = "surface" => Surface!NothingBypassesTheGate

(* OAuthFlow.OnlyAuthorised: a request is served on a token the owner       *)
(* agreed to give that client for this server.                              *)
OnlyAuthorisedServed == concern = "oauth" => OAuth!OnlyAuthorised

(* McpInstall.EndpointAgrees, FailureRollsBack and ServiceComesBack: the    *)
(* agents' entries name the endpoint that the service serves, an installer  *)
(* that fails before it touches the service leaves the environment file as  *)
(* it found it, and one that stopped a service starts it again.             *)
InstallIsWhole ==
  concern = "install" =>
    Install!EndpointAgrees /\ Install!FailureRollsBack /\ Install!ServiceComesBack

(* AgentConfig.OthersSurvive: editing an agent's configuration file keeps   *)
(* the entries of other servers.                                            *)
OtherEntriesSurvive == concern = "agent" => Agent!OthersSurvive

(* McpInstall.AddressFollowsProvider: an address that is "stale under a     *)
(* different provider ... must be purged" (service_command.go:487-491).     *)
(* Violated: from no tunnel to a tunnel the old one stays.                  *)
InstalledAddressFollows == concern = "install" => Install!AddressFollowsProvider
=============================================================================
