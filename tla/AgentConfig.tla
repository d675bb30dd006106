----------------------------- MODULE AgentConfig -----------------------------
(***************************************************************************)
(* Editing an agent's own configuration file (internal/mcp/install): read    *)
(* it, put or remove one server entry, write it beside the file and rename.  *)
(* The file belongs to the agent and its user: everything else in it must    *)
(* survive, and a crash must not leave half a file.                         *)
(***************************************************************************)
EXTENDS Naturals, FiniteSets

CONSTANTS
  OtherServers,              \* entries of other servers a file may hold
  MaxTemps                   \* bound on the temporary files left behind

VARIABLES
  agentCfg,                  \* the file: format, how it parses, its server key, its entries
  edit,                      \* the running edit
  temps,                     \* temporary files left beside it
  cfgBefore                  \* the file when the edit began

cfgVars == <<agentCfg, edit, temps, cfgBefore>>

Families == {"standard", "cursor", "fx", "gemini", "codex", "opencode", "zed", "antigravity",
             "cline", "goose", "copilot", "grok", "kilo", "kimi", "kiro"}

(* Comments alone parse to a nil map in YAML, to an empty one elsewhere; the *)
(* server key may hold something that is no object.                         *)
ConfigFormats == {"json", "yaml", "toml"}
FormatOf(family) == CASE family = "goose" -> "yaml" [] family \in {"codex", "grok"} -> "toml" [] OTHER -> "json"

stdioEntry == [address |-> "command", type |-> FALSE, auth |-> "none"]

ConfigFile(format) ==
  {[format |-> format, parses |-> p, key |-> k, others |-> o, ours |-> u, comments |-> c] :
     p \in {"missing", "blank", "comments", "broken", "yes"}, k \in {"absent", "servers", "other"},
     o \in SUBSET OtherServers, u \in {{}, {stdioEntry}}, c \in BOOLEAN}
Sensible(f) ==
  /\ f.parses # "yes" => f.key = "absent"
  /\ f.key # "servers" => f.others = {} /\ f.ours = {}
  /\ f.parses \in {"missing", "blank"} => ~f.comments
  /\ f.parses = "comments" => f.comments
  /\ f.format = "json" => f.parses # "broken"      \* what the JSON editor does to one is not modelled

NoEdit == [kind |-> "none", at |-> "idle", answer |-> "", family |-> "standard",
           remote |-> FALSE, secret |-> FALSE, read |-> {}, raced |-> FALSE]

CfgInit ==
  \E family \in Families :
    /\ agentCfg \in {f \in ConfigFile(FormatOf(family)) : Sensible(f)}
    /\ edit = [NoEdit EXCEPT !.family = family] /\ temps = 0 /\ cfgBefore = agentCfg

-----------------------------------------------------------------------------
(* What a family writes for a remote server: where the address goes, and     *)
(* how the credential is carried.                                           *)
remoteStandardEntry(secret) == [address |-> "url", type |-> TRUE, auth |-> IF secret THEN "headers" ELSE "none"]
Bare(secret)                == [remoteStandardEntry(secret) EXCEPT !.type = FALSE]
transformCodex(secret)      == [remoteStandardEntry(secret) EXCEPT !.auth = IF secret THEN "http_headers" ELSE "none"]
transformAntigravity(secret) == [Bare(secret) EXCEPT !.address = "serverUrl"]
transformGoose(secret)      == [remoteStandardEntry(secret) EXCEPT !.address = "uri"]

(* fx refuses a literal Authorization header; the name of the variable that  *)
(* holds the token is written in its place.                                 *)
transformFx(secret) == [remoteStandardEntry(secret) EXCEPT !.auth = IF secret THEN "bearer_token_env" ELSE "none"]

Transform(family, remote, secret) ==
  IF ~remote THEN stdioEntry
  ELSE CASE family \in {"cursor", "zed", "grok", "kiro"} -> Bare(secret)
         [] family = "fx" -> transformFx(secret)
         [] family = "codex" -> transformCodex(secret)
         [] family = "antigravity" -> transformAntigravity(secret)
         [] family = "goose" -> transformGoose(secret)
         [] OTHER -> remoteStandardEntry(secret)

-----------------------------------------------------------------------------
Begin(kind) ==
  /\ edit.at = "idle" /\ cfgBefore' = agentCfg /\ UNCHANGED <<agentCfg, temps>>
  /\ \E remote, secret \in BOOLEAN :
       edit' = [edit EXCEPT !.kind = kind, !.at = "read", !.remote = remote,
                            !.secret = secret /\ remote, !.raced = FALSE, !.answer = ""]
WriteServerConfig == Begin("write")
RemoveServer      == Begin("remove")

Finish(answer) == edit' = [edit EXCEPT !.at = "idle", !.answer = answer]

(* A missing or blank file is an empty one.  JSON is edited as text, the     *)
(* others are parsed and written anew.                                      *)
ReadRoot ==
  /\ edit.at = "read" /\ UNCHANGED <<agentCfg, temps, cfgBefore>>
  /\ \/ Finish("error")                     \* unreadable
     \/ /\ agentCfg.parses # "broken"
        /\ edit' = [edit EXCEPT !.at = "change", !.read = {agentCfg}]

(* Put the entry under the server key, made where it is missing and never    *)
(* over something that is no object.  A nil map cannot be written to: the    *)
(* YAML path panics.                                                        *)
SetServerAnew ==
  /\ edit.at = "change" /\ edit.kind = "write" /\ UNCHANGED <<agentCfg, temps, cfgBefore>>
  /\ \E f \in edit.read :
       edit' = [edit EXCEPT !.at = "temp",
              !.read = {[f EXCEPT !.parses = "yes", !.key = "servers", !.others = {},
                                  !.ours = {Transform(edit.family, edit.remote, edit.secret)}]}]
SetServer ==
  /\ edit.at = "change" /\ edit.kind = "write" /\ UNCHANGED <<agentCfg, temps, cfgBefore>>
  /\ \E f \in edit.read :
       IF f.format = "yaml" /\ f.parses = "comments" THEN Finish("panic")
       ELSE IF f.key = "other" THEN Finish("error")
       ELSE edit' = [edit EXCEPT !.at = "temp",
              !.read = {[f EXCEPT !.parses = "yes", !.key = "servers",
                                  !.ours = {Transform(edit.family, edit.remote, edit.secret)},
                                  !.comments = f.comments /\ f.format = "json"]}]

(* Nothing to remove is no error, and no write. *)
DropServer ==
  /\ edit.at = "change" /\ edit.kind = "remove" /\ UNCHANGED <<agentCfg, temps, cfgBefore>>
  /\ \E f \in edit.read :
       IF f.ours = {} THEN Finish("ok")
       ELSE edit' = [edit EXCEPT !.at = "temp",
              !.read = {[f EXCEPT !.ours = {}, !.comments = f.comments /\ f.format = "json"]}]

(* The new content goes to a temporary file first; a write error removes it. *)
WriteTemp ==
  /\ edit.at = "temp" /\ UNCHANGED <<agentCfg, cfgBefore>>
  /\ \/ temps < MaxTemps /\ temps' = temps + 1 /\ edit' = [edit EXCEPT !.at = "rename"]
     \/ temps' = temps /\ Finish("error")

(* A failing rename leaves the temporary file where it is. *)
Rename ==
  /\ edit.at = "rename" /\ UNCHANGED cfgBefore
  /\ \/ agentCfg' \in edit.read /\ temps' = temps - 1 /\ Finish("ok")
     \/ UNCHANGED <<agentCfg, temps>> /\ Finish("error")

(* The process dies. *)
CfgCrash ==
  /\ edit.at \notin {"idle", "dead"} /\ edit' = [edit EXCEPT !.at = "dead"]
  /\ UNCHANGED <<agentCfg, temps, cfgBefore>>

(* The agent writes its own file; nothing keeps the two apart. *)
AgentSaves ==
  /\ agentCfg.parses = "yes" /\ agentCfg.key = "servers" /\ UNCHANGED temps
  /\ \E s \in OtherServers \ agentCfg.others : agentCfg' = [agentCfg EXCEPT !.others = @ \union {s}]
  /\ edit' = [edit EXCEPT !.raced = edit.at # "idle"]
  /\ cfgBefore' = IF edit.at = "idle" THEN agentCfg' ELSE cfgBefore

CfgNext ==
  \/ WriteServerConfig \/ RemoveServer \/ ReadRoot \/ SetServer \/ DropServer
  \/ WriteTemp \/ Rename \/ CfgCrash \/ AgentSaves

CfgSpec == CfgInit /\ [][CfgNext]_cfgVars

-----------------------------------------------------------------------------
CfgTypeOK ==
  /\ agentCfg.format \in ConfigFormats /\ agentCfg.others \subseteq OtherServers
  /\ edit.family \in Families /\ temps \in 0 .. MaxTemps

(* Whatever ends an edit, a crash included, the file on disk is the one the  *)
(* edit found or that one with nothing but our entry changed, unless the     *)
(* agent itself saved it meanwhile; and an edit that answered with success   *)
(* did change the entry, with a credential when it was given one.            *)
OthersSurvive ==
  (edit.at \in {"idle", "dead"} /\ ~edit.raced) =>
    /\ agentCfg.others = cfgBefore.others
    /\ agentCfg # cfgBefore => /\ agentCfg.parses = "yes" /\ agentCfg.key = "servers"
                               /\ agentCfg.ours # cfgBefore.ours \/ edit.kind = "write"
    /\ edit.answer = "error" => agentCfg = cfgBefore
    /\ (edit.answer = "ok" /\ edit.kind = "write" /\ edit.at = "idle") =>
         \A e \in agentCfg.ours : (e.auth # "none") <=> edit.secret
    /\ (edit.answer = "ok" /\ edit.kind = "remove" /\ edit.at = "idle") => agentCfg.ours = {}

=============================================================================
