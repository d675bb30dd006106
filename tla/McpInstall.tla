----------------------------- MODULE McpInstall ------------------------------
(***************************************************************************)
(* `pinner mcp install` (internal/cli/mcp_install*.go with                  *)
(* internal/mcp/services and internal/mcp/install): one wizard that edits    *)
(* the service environment file, installs and starts the managed service    *)
(* that reads that file when it starts, and writes the configuration of     *)
(* every chosen agent.  The three must agree in the end, and a failure       *)
(* half way must leave what was there.                                      *)
(***************************************************************************)
EXTENDS Naturals, FiniteSets

CONSTANTS
  InstAgents, HttpAgents, ProjectAgents,  \* agents, and what they support
  CommandLines,                \* the command lines considered
  EnvFiles,                    \* environment files found on disk, or NoFile
  NoFile

VARIABLES
  cmdline,                     \* the flags
  envFile, unit,               \* the environment file and the managed service
  inst,                        \* the wizard's state (InstallState)
  entries,                     \* the agents' configuration files
  found                        \* file and service as the wizard found them

instVars == <<cmdline, envFile, unit, inst, entries, found>>

Tunnels   == {"empty", "ngrok", "cloudflared", "openai"}   \* "empty" is localhost
Passwords == {"empty", "old", "flag", "typed", "password"}
Urls      == {"empty", "flag", "local", "ngrok", "cloudflared"}   \* whose address it is
NoEntry == [kind |-> "none", url |-> "empty", token |-> "empty"]

FreshState == [
  at |-> "agents", agents |-> {}, transport |-> "empty", scope |-> "empty",
  provider |-> "empty", decided |-> FALSE, token |-> "empty", asked |-> FALSE, oauth |-> "unset",
  creds |-> {}, url |-> "empty", created |-> FALSE, probe |-> FALSE,
  snapshot |-> NoFile, memory |-> "empty", publicURL |-> "empty", authToken |-> "empty",
  refused |-> FALSE, entered |-> FALSE]

(* A headless http install with --service=false is refused at once. *)
InstInit ==
  /\ cmdline \in {l \in CommandLines : ~(l.quiet /\ l.transport = "http" /\ l.service = "off")}
  /\ envFile \in EnvFiles
  /\ unit \in {[installed |-> FALSE, running |-> FALSE, loaded |-> NoFile],
               [installed |-> TRUE, running |-> FALSE, loaded |-> NoFile],
               [installed |-> TRUE, running |-> TRUE, loaded |-> envFile]}
  /\ inst = FreshState /\ found = [file |-> envFile, unit |-> unit]
  /\ entries = [p \in InstAgents \X {"global", "project"} |-> NoEntry]

Managed == cmdline.service # "off"
Skipped == inst.transport # "http" \/ inst.agents \cap HttpAgents = {}
FileThere == envFile # NoFile
InstAt(step) == inst.at = step
Starting(file) == [installed |-> TRUE, running |-> TRUE, loaded |-> file]

(* The wizard fails.  A service that was stopped for the tunnel probe is     *)
(* started again, unless the service manager refuses.                       *)
FailWith(s, file, u) ==
  /\ envFile' = file
  /\ \/ /\ s.probe /\ u.installed
        /\ unit' = IF u.running THEN u ELSE Starting(file)
        /\ inst' = [s EXCEPT !.at = "failed"]
     \/ /\ s.probe /\ u.installed /\ ~u.running
        /\ unit' = u /\ inst' = [s EXCEPT !.at = "failed", !.refused = TRUE]
     \/ /\ ~(s.probe /\ u.installed)
        /\ unit' = u /\ inst' = [s EXCEPT !.at = "failed"]

Flow(s) == inst' = s /\ UNCHANGED <<cmdline, envFile, unit, entries, found>>

-----------------------------------------------------------------------------
(* A prompt is cut off, or the binary is not found. *)
PromptFails ==
  /\ cmdline.command = "install"
  /\ inst.at \in {"agents", "scope", "transport", "provider", "password", "binary"}
  /\ FailWith(inst, envFile, unit) /\ UNCHANGED <<cmdline, entries, found>>

ChooseAgents ==
  /\ InstAt("agents") /\ cmdline.command = "install"
  /\ \E chosen \in SUBSET InstAgents \ {{}} : Flow([inst EXCEPT !.agents = chosen, !.at = "scope"])

ChooseScope ==
  /\ InstAt("scope")
  /\ \E scope \in (IF inst.agents \cap ProjectAgents = {} THEN {"global"} ELSE {"global", "project"}) :
       Flow([inst EXCEPT !.scope = scope, !.at = "transport"])

(* A flag is taken as it is, even when no chosen agent supports it. *)
ChooseTransport ==
  /\ InstAt("transport")
  /\ \E t \in (IF cmdline.transport # "empty" THEN {cmdline.transport}
               ELSE IF inst.agents \cap HttpAgents = {} THEN {"stdio"} ELSE {"stdio", "http"}) :
       Flow([inst EXCEPT !.transport = t,
                         !.at = IF t = "http" /\ inst.agents \cap HttpAgents # {}
                                THEN "provider" ELSE "binary"])

-----------------------------------------------------------------------------
(* What flags and the stored file decide before a tunnel step runs: --tunnel *)
(* decides the provider, everything else only fills what is still empty.     *)
SeedFromFlags(s) ==
  LET named == cmdline.tunnel # "none" IN
  [s EXCEPT !.provider = IF ~s.decided /\ named THEN cmdline.tunnel ELSE @,
            !.decided  = @ \/ named,
            !.token    = IF @ = "empty" /\ cmdline.token THEN "flag" ELSE @,
            !.url      = IF @ = "empty" /\ cmdline.url THEN "flag" ELSE @,
            !.creds    = IF named /\ cmdline.tunnel # "empty" THEN @ \union {cmdline.tunnel} ELSE @,
            !.oauth    = IF cmdline.oauth # "unset" THEN cmdline.oauth ELSE @]

(* The stored address is taken only under the provider it was stored for. *)
SeedFromFile(s) ==
  IF ~FileThere THEN s
  ELSE LET p == IF s.provider = "empty" /\ ~s.decided THEN envFile.provider ELSE s.provider IN
       [s EXCEPT !.provider = p,
                 !.token = IF @ = "empty" THEN envFile.token ELSE @,
                 !.url   = IF @ = "empty" /\ envFile.provider # "empty" /\ envFile.provider = p THEN envFile.url ELSE @,
                 !.creds = @ \union envFile.creds,
                 !.oauth = IF @ = "unset" THEN envFile.oauth ELSE @]

Seeded == SeedFromFile(SeedFromFlags(inst))
FromFlag == cmdline.tunnel # "none"

(* A provider named by a flag, or stored and not to be asked about, settles  *)
(* the step; otherwise the person chooses.                                  *)
ProviderStep ==
  /\ InstAt("provider")
  /\ LET s == Seeded
         Then(t) == Flow([t EXCEPT !.at = IF t.provider = "empty" THEN "write" ELSE "config"]) IN
     IF s.provider # "empty" /\ (FromFlag \/ cmdline.quiet) THEN Then(s)
     ELSE \E p \in Tunnels : Then([s EXCEPT !.provider = p, !.decided = TRUE])

(* Is everything the provider needs known already? *)
ConfigSeeded(s) ==
  /\ s.provider # "empty" /\ s.provider \in s.creds /\ s.token # "empty"
  /\ s.provider = "ngrok" => s.url # "empty"

(* The probe of the new tunnel would collide with the running one, so an     *)
(* installed service is stopped first.                                      *)
StopUnrecorded(s) == s
StopForProbe(s) ==
  IF Managed /\ unit.installed THEN [s EXCEPT !.probe = TRUE] ELSE s

(* What the fields may come to: the flag, the stored value, a typed one.     *)
TokensFor(s) ==
  IF cmdline.token THEN {"flag"}
  ELSE ({s.token} \ {"empty"}) \union (IF cmdline.quiet THEN {} ELSE {"typed"})
OAuthFor(s) == IF cmdline.quiet \/ cmdline.oauth # "unset" THEN {s.oauth} ELSE {"on", "off"}
Filled(s, t, o) ==
  [s EXCEPT !.token = t, !.asked = TRUE, !.oauth = o, !.creds = @ \union {s.provider},
            !.url = IF s.provider = "ngrok" /\ @ = "empty" THEN "ngrok" ELSE @,
            !.at = "write"]
Gathered(s) == {Filled(s, t, o) : t \in TokensFor(s), o \in OAuthFor(s)}

ConfigStep_ ==
  /\ InstAt("config")
  /\ LET s == Seeded
         stopped == IF Managed /\ unit.installed THEN [unit EXCEPT !.running = FALSE] ELSE unit IN
     \/ cmdline.quiet /\ FileThere /\ Flow([inst EXCEPT !.at = "write"])
     \/ /\ ~(cmdline.quiet /\ FileThere) /\ ConfigSeeded(s) /\ (FromFlag \/ cmdline.quiet)
        /\ Flow([s EXCEPT !.at = "write"])
     \/ /\ ~(cmdline.quiet /\ FileThere) /\ ~(ConfigSeeded(s) /\ (FromFlag \/ cmdline.quiet))
        /\ UNCHANGED <<cmdline, entries, found>>
        /\ \/ Managed /\ unit.installed /\ FailWith([s EXCEPT !.refused = TRUE], envFile, unit)
           \/ FailWith(StopForProbe(s), envFile, stopped)
           \/ /\ inst' \in Gathered(StopForProbe(s))
              /\ unit' = stopped /\ envFile' = envFile

StateToEnv(s) ==
  [provider |-> s.provider, token |-> s.token, url |-> s.url, oauth |-> s.oauth, creds |-> s.creds]

(* A file that is there is left for the collector; a new one turns the OAuth *)
(* handshake on unless that was decided.  A file half written is removed.    *)
WriteEnvStep ==
  /\ InstAt("write") /\ UNCHANGED <<cmdline, entries, found>>
  /\ LET s == IF FileThere THEN inst
              ELSE SeedFromFlags([inst EXCEPT !.created = TRUE,
                                              !.oauth = IF @ = "unset" THEN "on" ELSE @]) IN
     \/ /\ inst' = [s EXCEPT !.at = "reconcile"] /\ unit' = unit
        /\ envFile' = IF FileThere THEN envFile
                      ELSE StateToEnv(s)
     \/ ~FileThere /\ FailWith(s, NoFile, unit)

-----------------------------------------------------------------------------
(* The collector.  Explicit flags go over the stored file ... *)
FlagsOver(file) ==
  [file EXCEPT !.provider = IF FromFlag /\ cmdline.tunnel # "empty" THEN cmdline.tunnel ELSE @,
               !.token = IF cmdline.token THEN "flag" ELSE @,
               !.url   = IF cmdline.url THEN "flag" ELSE @,
               !.oauth = IF cmdline.oauth # "unset" THEN cmdline.oauth ELSE @,
               !.creds = IF FromFlag /\ cmdline.tunnel # "empty" THEN @ \union {cmdline.tunnel} ELSE @]

(* ... and then what the steps collected.  A change of provider, or to       *)
(* localhost, first drops the old provider's keys and its address, in the    *)
(* file and in the state, unless --public-url was given.                    *)
Switching(prev) == prev # "empty" /\ inst.provider # "empty" /\ prev # inst.provider
Downgrading(prev) == prev # "empty" /\ inst.decided /\ inst.provider = "empty"
Scrubbed(prev) ==
  IF Switching(prev) \/ Downgrading(prev)
  THEN [inst EXCEPT !.creds = @ \intersect {inst.provider},
                    !.url = IF cmdline.url THEN @ ELSE "empty"]
  ELSE inst
Purged(file, prev) ==
  IF Switching(prev) \/ Downgrading(prev)
  THEN [file EXCEPT !.creds = @ \ {prev}, !.provider = "empty", !.url = IF cmdline.url THEN @ ELSE "empty"]
  ELSE file
StateOver(file, s) ==
  [file EXCEPT !.provider = IF s.provider # "empty" THEN s.provider ELSE @,
               !.token = IF s.token # "empty" THEN s.token ELSE @,
               !.url   = IF s.url # "empty" THEN s.url ELSE @,
               !.oauth = IF s.oauth # "unset" THEN s.oauth ELSE @,
               !.creds = @ \union s.creds]

Reconcile ==
  /\ InstAt("reconcile") /\ UNCHANGED <<cmdline, entries, found>>
  /\ IF inst.created
     THEN inst' = [inst EXCEPT !.at = "validate"] /\ UNCHANGED <<envFile, unit>>
     ELSE LET prev == envFile.provider
              s == Scrubbed(prev) IN
          \/ /\ envFile' = StateOver(Purged(FlagsOver(envFile), prev), s)
             /\ inst' = [s EXCEPT !.snapshot = envFile, !.at = "validate"] /\ unit' = unit
          \/ FailWith(inst, envFile, unit)          \* a write failed; the file was put back

(* A public tunnel needs its credentials and a token. *)
EnvValid(file) ==
  file.provider = "empty" \/ (file.provider \in file.creds /\ (file.provider # "openai" => file.token # "empty"))

KeepFile == envFile
RolledBackFile == IF inst.snapshot # NoFile THEN inst.snapshot ELSE envFile

(* The address: as stored, else derived from the tunnel's domain or from     *)
(* the pinned local port, and stored; a failing store is ignored.            *)
DerivedUrl(file) ==
  IF file.url # "empty" THEN file.url
  ELSE IF file.provider = "empty" THEN "local"
  ELSE IF file.provider = "cloudflared" THEN "cloudflared" ELSE "empty"

Validate ==
  /\ InstAt("validate") /\ UNCHANGED <<cmdline, entries, found>>
  /\ \/ FailWith(inst, IF inst.created THEN NoFile ELSE RolledBackFile, unit)
     \/ EnvValid(envFile) /\ Managed /\ FailWith(inst, RolledBackFile, unit)   \* no service manager
     \/ /\ EnvValid(envFile)
        /\ inst' = [inst EXCEPT !.memory = DerivedUrl(envFile), !.at = IF Managed THEN "service" ELSE "url"]
        /\ unit' = unit
        /\ envFile' \in {envFile, [envFile EXCEPT !.url = DerivedUrl(envFile)]}

(* Stop what is installed, install, start.  Once this block is entered the   *)
(* file is not put back any more.                                           *)
InstallService ==
  /\ InstAt("service") /\ UNCHANGED <<cmdline, entries, found>>
  /\ LET down == [installed |-> TRUE, running |-> FALSE, loaded |-> unit.loaded]
         s == [inst EXCEPT !.entered = TRUE]
         no == [s EXCEPT !.refused = TRUE] IN
     \/ FailWith(no, envFile, unit)                                   \* status or stop
     \/ FailWith(no, envFile, [unit EXCEPT !.running = FALSE])        \* install
     \/ FailWith(no, envFile, down)                                   \* start
     \/ /\ unit' = Starting(envFile) /\ envFile' = envFile
        /\ inst' = [s EXCEPT !.at = IF cmdline.command = "install" THEN "url" ELSE "completed"]

(* An existing file is read again; without an address the install fails. *)
TakeUrl ==
  /\ InstAt("url") /\ UNCHANGED <<cmdline, entries, found>>
  /\ LET url == IF inst.snapshot # NoFile THEN envFile.url ELSE inst.memory IN
     IF url = "empty" THEN FailWith([inst EXCEPT !.entered = TRUE], envFile, unit)
     ELSE /\ inst' = [inst EXCEPT !.publicURL = url, !.authToken = envFile.token,
                                    !.entered = TRUE, !.at = "password"]
          /\ UNCHANGED <<envFile, unit>>

-----------------------------------------------------------------------------
(* Only a tunnel's service is restarted. *)
RestartWhatIsNew == Managed /\ inst.created
Restarts == Managed /\ inst.provider # "empty"

(* A new password goes to the file, the service is restarted to load it, and *)
(* a failing restart puts the old one back.                                 *)
PersistAuthToken(pw) ==
  LET new == [envFile EXCEPT !.token = pw]
      s == [inst EXCEPT !.entered = TRUE] IN
  \/ FailWith(s, envFile, unit)
  \/ /\ Restarts
     /\ \E file \in {envFile, new}, u \in {unit, [unit EXCEPT !.running = FALSE]} :
          FailWith([s EXCEPT !.refused = TRUE], file, u)
  \/ /\ envFile' = new /\ unit' = IF Restarts THEN Starting(new) ELSE unit
     /\ inst' = [inst EXCEPT !.authToken = pw, !.token = pw, !.at = "binary"]

(* Asked unless headless, or the tunnel step has just asked. *)
PasswordStep ==
  /\ InstAt("password") /\ UNCHANGED <<cmdline, entries, found>>
  /\ \/ /\ inst' = [inst EXCEPT !.at = "binary"] /\ UNCHANGED <<envFile, unit>>
     \/ ~cmdline.quiet /\ ~inst.asked /\ inst.authToken # "password" /\ PersistAuthToken("password")

(* One agent's entry: a command for stdio, else the address, with the token  *)
(* unless the OAuth handshake is on.                                        *)
EntryFor ==
  IF inst.transport = "http"
  THEN [kind |-> "http", url |-> inst.publicURL, token |-> IF inst.oauth = "on" THEN "empty" ELSE inst.authToken]
  ELSE [kind |-> "stdio", url |-> "empty", token |-> "empty"]

(* The global file of every agent that supports the transport, and the       *)
(* project's; a failing write ends the wizard with some of them written.     *)
WriteConfig ==
  /\ InstAt("binary") /\ UNCHANGED <<cmdline, found>>
  /\ LET able == IF inst.transport = "http" THEN inst.agents \cap HttpAgents ELSE inst.agents
         places == (able \X {"global"})
                     \union (IF inst.scope = "project" THEN (able \cap ProjectAgents) \X {"project"} ELSE {})
     IN \E done \in SUBSET places :
          /\ entries' = [p \in DOMAIN entries |-> IF p \in done THEN EntryFor ELSE entries[p]]
          /\ IF done = places
             THEN inst' = [inst EXCEPT !.at = "completed"] /\ UNCHANGED <<envFile, unit>>
             ELSE FailWith([inst EXCEPT !.entered = TRUE], envFile, unit)

(* `mcp service install` alone: a missing file is written from the flags,    *)
(* where OAuth is on unless refused, or by the tunnel steps; an invalid file  *)
(* made here is removed again.                                              *)
ServiceInstall ==
  /\ cmdline.command = "service_install" /\ InstAt("agents") /\ UNCHANGED <<cmdline, entries, found>>
  /\ LET flags == SeedFromFlags(inst)
         made == IF FileThere THEN {envFile}
                 ELSE IF FromFlag /\ cmdline.tunnel # "empty"
                 THEN {StateToEnv([flags EXCEPT !.oauth = IF @ = "unset" THEN "on" ELSE @])}
                 ELSE {StateToEnv(s) : s \in UNION {Gathered([flags EXCEPT !.provider = p]) : p \in Tunnels \ {"empty"}}}
     IN \/ FailWith(inst, envFile, unit)
        \/ \E file \in made : /\ EnvValid(file) /\ envFile' = file /\ unit' = unit
                              /\ inst' = [inst EXCEPT !.at = "service", !.created = ~FileThere]

(* `mcp service start`, `stop`, `restart` and `uninstall`. *)
ServiceControl ==
  /\ cmdline.command = "service_control" /\ InstAt("agents") /\ UNCHANGED <<cmdline, entries, found, envFile>>
  /\ inst' = [inst EXCEPT !.at = "completed"]
  /\ unit' \in {unit, [unit EXCEPT !.running = FALSE], [installed |-> FALSE, running |-> FALSE, loaded |-> NoFile]}
               \union (IF unit.installed THEN {Starting(envFile)} ELSE {})

InstNext ==
  \/ ServiceInstall \/ ServiceControl
  \/ PromptFails \/ ChooseAgents \/ ChooseScope \/ ChooseTransport
  \/ ProviderStep \/ ConfigStep_ \/ WriteEnvStep
  \/ Reconcile \/ Validate \/ InstallService \/ TakeUrl
  \/ PasswordStep \/ WriteConfig

InstSpec == InstInit /\ [][InstNext]_instVars

-----------------------------------------------------------------------------
IsFile(file) ==
  \/ file = NoFile
  \/ /\ file.provider \in Tunnels /\ file.token \in Passwords /\ file.url \in Urls
     /\ file.oauth \in {"unset", "on", "off"} /\ file.creds \subseteq Tunnels \ {"empty"}

(* Shape of the state. *)
InstTypeOK ==
  /\ cmdline \in CommandLines /\ IsFile(envFile)
  /\ unit.installed \in BOOLEAN /\ unit.running \in BOOLEAN /\ IsFile(unit.loaded)
  /\ inst.provider \in Tunnels /\ inst.token \in Passwords /\ inst.url \in Urls
  /\ inst.agents \subseteq InstAgents /\ IsFile(inst.snapshot)
  /\ \A p \in DOMAIN entries : entries[p].kind \in {"none", "stdio", "http"}

Through(p) == entries[p].kind = "http"

(* After a completed install behind a tunnel, what the service runs with,    *)
(* what the file says and what every agent was given are the same address   *)
(* and the same token.                                                      *)
EndpointAgrees ==
  (inst.at = "completed" /\ ~Skipped /\ Managed /\ envFile.provider # "empty") =>
    /\ unit.running /\ unit.loaded = envFile
    /\ \A p \in DOMAIN entries : Through(p) => /\ entries[p].url = DerivedUrl(envFile)
                                               /\ entries[p].token \in {"empty", envFile.token}

(* An install that fails before it touches the service and before it has     *)
(* looked for the address leaves the environment file it found; where there  *)
(* was none it leaves none that the next run would refuse.                   *)
FailureRollsBack ==
  (inst.at = "failed" /\ ~inst.entered) =>
    \/ envFile = found.file
    \/ found.file = NoFile /\ EnvValid(envFile)

(* A service that ran before a failed install runs after it, unless the      *)
(* service manager refused one of the wizard's calls.                       *)
ServiceComesBack ==
  (inst.at = "failed" /\ found.unit.running /\ ~inst.refused) => unit.running

(* The comment on persistAuthToken (cli/mcp_install_wizard.go:548): the      *)
(* running endpoint and the agents validate against the same credential.     *)
PasswordIsLive ==
  (inst.at = "completed" /\ ~Skipped /\ Managed) => unit.loaded.token = envFile.token

(* The comment on the switch of providers (services/service_command.go:522): *)
(* an address derived for another provider is stale and is purged so that    *)
(* the collector derives the right one.                                      *)
AddressFollowsProvider ==
  (inst.at = "url" /\ envFile.provider \in {"ngrok", "cloudflared"}) =>
    DerivedUrl(envFile) \in {"empty", "flag", envFile.provider}

(* The comment on StopManagedServiceIfInstalled (service_command.go:680): it *)
(* answers true when the service was actually stopped, so that callers can   *)
(* restart it: a service that was not running is not started by a failure.   *)
StoppedStaysStopped ==
  (inst.at = "failed" /\ found.unit.installed /\ ~found.unit.running /\ ~inst.entered) => ~unit.running

-----------------------------------------------------------------------------
=============================================================================
