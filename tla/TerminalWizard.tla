--------------------------- MODULE TerminalWizard ----------------------------
(***************************************************************************)
(* The wizards a person runs in a terminal (internal/cli/wizard and its     *)
(* users): `setup`, `websites wizard` and `websites domains wizard`.  The    *)
(* runner takes the steps in order; a step that is already satisfied is     *)
(* skipped, a step that fails ends the wizard, and a step that asks for it   *)
(* is executed again.                                                        *)
(***************************************************************************)
EXTENDS Naturals, Sequences

CONSTANTS
  SiteIds,                 \* websites the portal may list
  ValidationTries,         \* attempts of retry.Do (5 in the code)
  VerifyTries              \* maxVerifyAttempts (5 in the code)

VARIABLES
  term,                    \* kind, position, and how the wizard ended
  draft,                   \* what the wizard has collected
  settings,                \* the CLI's stored token, endpoint and secure flag
  listing, made, boundTo,  \* portal: listed websites, created ones, bindings
  announced                \* what the closing box and the tables claimed

termVars == <<term, draft, settings, listing, made, boundTo, announced>>

TermSteps == [
  setup    |-> <<"auth", "config", "completion", "tutorial", "mcp">>,
  websites |-> <<"auth", "source", "target", "domain", "dns", "create", "setup", "validate">>,
  domains  |-> <<"auth", "website", "domain", "namespace", "bind", "delegation", "verify">>]

EmptyDraft == [cid |-> FALSE, target |-> "none", domain |-> FALSE, dns |-> FALSE, site |-> "none",
               verdict |-> "none", bound |-> "none", verified |-> "none",
               tries |-> 0, again |-> FALSE, asked |-> "none"]

TermInit ==
  /\ term \in [kind : DOMAIN TermSteps, at : {1}, ended : {"no"},
               reset : BOOLEAN, installer : BOOLEAN]
  /\ draft = EmptyDraft /\ listing \in SUBSET SiteIds /\ made = 0 /\ boundTo = {}
  /\ settings \in [token : BOOLEAN, endpoint : {"unset", "old"}, secure : {FALSE}]
  /\ announced = {}

Doing(k, s) == term.kind = k /\ term.ended = "no" /\ TermSteps[k][term.at] = s

(* The step is over: run it again when it asks for that, else take the      *)
(* next; after the last one the wizard has completed.  The MCP step exists  *)
(* only when an installer was given.                                        *)
LastStep == IF term.kind = "setup" /\ ~term.installer THEN 4 ELSE Len(TermSteps[term.kind])
GoNext(d) ==
  term' = IF d.again THEN term
          ELSE IF term.at = LastStep THEN [term EXCEPT !.ended = "completed"]
          ELSE [term EXCEPT !.at = @ + 1]
Abort == term' = [term EXCEPT !.ended = "failed"]

Keep(d) == draft' = d /\ GoNext(d)
Portal  == <<listing, made, boundTo>>

(* A prompt is interrupted, or the portal or the disk refuses. *)
Break ==
  /\ term.ended = "no" /\ Abort
  /\ UNCHANGED <<draft, settings, Portal, announced>>

-----------------------------------------------------------------------------
(* setup: --reset clears the configuration before the first step. *)
Reset ==
  /\ term.kind = "setup" /\ term.reset /\ term.at = 1 /\ term.ended = "no"
  /\ settings' = [token |-> FALSE, endpoint |-> "unset", secure |-> TRUE]
  /\ term' = [term EXCEPT !.reset = FALSE]
  /\ draft' = [draft EXCEPT !.asked = "reset"]
  /\ UNCHANGED <<Portal, announced>>

(* A stored token, or --skip-auth, skips the step in every wizard. *)
AuthStep ==
  /\ term.ended = "no" /\ TermSteps[term.kind][term.at] = "auth"
  /\ ~(term.kind = "setup" /\ term.reset)
  /\ \/ settings.token /\ Keep(draft) /\ UNCHANGED settings
     \/ /\ ~settings.token /\ term.kind # "setup" /\ Abort /\ UNCHANGED <<draft, settings>>
     \/ /\ ~settings.token /\ term.kind = "setup" /\ Keep(draft)
        /\ \/ UNCHANGED settings
           \/ settings' = [settings EXCEPT !.token = TRUE]
  /\ UNCHANGED <<Portal, announced>>

(* --skip-config, or an endpoint that is set and was not just reset, skips   *)
(* the step.                                                                *)
(* "Skip" still turns HTTPS on; a custom endpoint is stored before the      *)
(* secure flag, and either write may fail.                                  *)
ConfigStep ==
  /\ Doing("setup", "config") /\ UNCHANGED <<Portal, announced>>
  /\ \/ Keep([draft EXCEPT !.asked = "kept"]) /\ UNCHANGED settings
     \/ /\ settings.endpoint = "unset" \/ draft.asked = "reset"
        /\ \/ /\ Keep([draft EXCEPT !.asked = "default"])
              /\ settings' = [settings EXCEPT !.secure = TRUE]
           \/ \E https \in BOOLEAN :
                LET half == [settings EXCEPT !.endpoint = "new"] IN
                \/ Abort /\ UNCHANGED draft /\ settings' = half
                \/ /\ Keep([draft EXCEPT !.asked = IF https THEN "https" ELSE "http"])
                   /\ settings' = [half EXCEPT !.secure = https]

(* Steps that only show something or leave all to the portal.  A failing     *)
(* MCP install is reported, never returned.                                 *)
Shown == Keep(draft) /\ UNCHANGED <<settings, Portal, announced>>
CompletionStep == Doing("setup", "completion") /\ Shown
TutorialStep   == Doing("setup", "tutorial") /\ Shown
McpStep        == Doing("setup", "mcp") /\ Shown
NamespaceStep  == Doing("domains", "namespace") /\ Shown
DnsSetupStep   == Doing("websites", "setup") /\ draft.site # "none" /\ Shown
DelegationStep == Doing("domains", "delegation") /\ draft.bound # "none" /\ Shown

-----------------------------------------------------------------------------
(* Prompts: only a valid CID or domain is accepted. *)
Answer(d) == Keep(d) /\ UNCHANGED <<settings, Portal, announced>>
SourceStep == Doing("websites", "source") /\ Answer([draft EXCEPT !.cid = TRUE])
TargetStep == Doing("websites", "target") /\ \E t \in {"ipfs", "ipns"} : Answer([draft EXCEPT !.target = t])
DomainStep == Doing("websites", "domain") /\ Answer([draft EXCEPT !.domain = TRUE])
DnsStep    == Doing("websites", "dns") /\ \E m \in BOOLEAN : Answer([draft EXCEPT !.dns = m])
NameStep   == Doing("domains", "domain") /\ Answer([draft EXCEPT !.domain = TRUE])

(* One request; when its answer is lost the wizard ends and the website     *)
(* stays.                                                                   *)
CreateStep ==
  /\ Doing("websites", "create") /\ made' = made + 1
  /\ \/ Keep([draft EXCEPT !.site = "new"])
     \/ Abort /\ UNCHANGED draft
  /\ UNCHANGED <<settings, listing, boundTo, announced>>

(* Managed DNS: up to ValidationTries attempts; running out of them, or a   *)
(* cancelled context, is only a warning.  Self-managed DNS is not checked.  *)
ValidateStep ==
  /\ Doing("websites", "validate") /\ draft.site # "none"
  /\ \/ /\ ~draft.dns /\ Keep(draft)
     \/ /\ draft.dns /\ draft.tries < ValidationTries /\ UNCHANGED term
        /\ \E v \in {draft.verdict, "invalid", "valid"} :
             draft' = [draft EXCEPT !.tries = IF v = "valid" THEN ValidationTries ELSE @ + 1,
                                    !.verdict = v]
     \/ draft.dns /\ draft.tries > 0 /\ Keep(draft)
  /\ UNCHANGED <<settings, Portal, announced>>

-----------------------------------------------------------------------------
(* domains: the websites are listed once, and one of the list is chosen. *)
SelectStep ==
  /\ Doing("domains", "website")
  /\ IF listing = {} THEN Abort /\ UNCHANGED draft
     ELSE \E s \in listing : Keep([draft EXCEPT !.site = s])
  /\ UNCHANGED <<settings, Portal, announced>>

BindStep ==
  /\ Doing("domains", "bind") /\ draft.domain
  /\ boundTo' = boundTo \cup {draft.site}
  /\ \/ \E status \in {"pending", "active"} : Keep([draft EXCEPT !.bound = status])
     \/ Abort /\ UNCHANGED draft
  /\ UNCHANGED <<settings, listing, made, announced>>

(* Mutant: the status the wizard already had counts as verified. *)
VerifyLoosely ==
  /\ Doing("domains", "verify") /\ draft.bound # "none"
  /\ \E answer \in {"none", "pending", "active"} :
       LET r == IF answer # "none" THEN answer ELSE draft.bound
           d == [draft EXCEPT !.bound = r, !.verified = answer]
       IN IF r = "active"
          THEN Keep([d EXCEPT !.again = FALSE]) /\ announced' = announced \cup {"verified"}
          ELSE /\ Keep([d EXCEPT !.tries = @ + 1, !.again = draft.tries + 1 < VerifyTries])
               /\ UNCHANGED announced
  /\ UNCHANGED <<settings, Portal>>

(* Mutant: verification is offered again without counting the attempts. *)
VerifyForever ==
  /\ Doing("domains", "verify") /\ draft.bound # "none"
  /\ \E answer \in {"none", "pending", "active"} :
       LET d == [draft EXCEPT !.bound = IF answer = "none" THEN @ ELSE answer,
                              !.verified = answer]
       IN IF answer = "active"
          THEN Keep([d EXCEPT !.again = FALSE]) /\ announced' = announced \cup {"verified"}
          ELSE Keep([d EXCEPT !.tries = @ + 1, !.again = TRUE]) /\ UNCHANGED announced
  /\ UNCHANGED <<settings, Portal>>

(* An error ends the wizard.  The answer of this attempt decides, never the *)
(* status the binding had before; an absent answer is not valid and does   *)
(* not replace the recorded result.                                         *)
VerifyStep ==
  /\ Doing("domains", "verify") /\ draft.bound # "none"
  /\ \E answer \in {"none", "pending", "active"} :
       LET d == [draft EXCEPT !.bound = IF answer = "none" THEN @ ELSE answer,
                              !.verified = answer]
       IN IF answer = "active"
          THEN Keep([d EXCEPT !.again = FALSE]) /\ announced' = announced \cup {"verified"}
          ELSE /\ Keep([d EXCEPT !.tries = @ + 1, !.again = draft.tries + 1 < VerifyTries])
               /\ UNCHANGED announced
  /\ UNCHANGED <<settings, Portal>>

(* The closing box says what the wizard holds. *)
Close ==
  /\ term.ended = "completed" /\ "completed" \notin announced
  /\ announced' = announced \cup {"completed"}
       \cup (IF draft.verdict = "valid" THEN {"validated"} ELSE {})
       \cup (IF draft.bound # "none" THEN {"bound"} ELSE {})
  /\ UNCHANGED <<term, draft, settings, Portal>>

-----------------------------------------------------------------------------
TermProgress ==
  \/ Reset \/ AuthStep \/ ConfigStep \/ CompletionStep \/ TutorialStep \/ McpStep
  \/ SourceStep \/ TargetStep \/ DomainStep \/ DnsStep \/ CreateStep \/ DnsSetupStep \/ ValidateStep
  \/ SelectStep \/ NameStep \/ NamespaceStep \/ BindStep \/ DelegationStep \/ VerifyStep
  \/ Close
TermNext == TermProgress \/ Break

(* The person answers every prompt and the portal every request. *)
TermSpec == TermInit /\ [][TermNext]_termVars /\ WF_termVars(TermProgress)

-----------------------------------------------------------------------------
TermTypeOK ==
  /\ term.kind \in DOMAIN TermSteps /\ term.at \in 1 .. Len(TermSteps[term.kind])
  /\ term.ended \in {"no", "completed", "failed"}
  /\ draft.tries \in 0 .. ValidationTries + VerifyTries /\ draft.again \in BOOLEAN
  /\ settings.token \in BOOLEAN /\ made \in 0 .. 1 /\ boundTo \subseteq SiteIds
  /\ announced \subseteq {"completed", "validated", "verified", "bound"}

(* What a wizard announces is so: "validated" was the portal's answer for   *)
(* the website it made, "verified" the answer of the last verification (the *)
(* stale status of the binding never counts,                                *)
(* websites_domains_wizard.go:42-46), and "completed" comes with every      *)
(* setting as chosen.                                                       *)
AnnouncedIsTrue ==
  /\ "verified" \in announced => draft.verified = "active" /\ draft.site \in boundTo
  /\ "validated" \in announced => made = 1 /\ draft.dns /\ draft.verdict = "valid"
  /\ "completed" \in announced /\ term.kind = "setup" =>
       /\ draft.asked = "default" => settings.secure
       /\ draft.asked \in {"http", "https"} =>
            settings.endpoint = "new" /\ settings.secure = (draft.asked = "https")

(* A wizard whose prompts and requests are answered ends. *)
WizardEnds == <>(term.ended # "no")
=============================================================================
