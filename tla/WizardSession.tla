---------------------------- MODULE WizardSession ----------------------------
(***************************************************************************)
(* The wizards an agent drives (internal/mcp/wizard): a session of one of  *)
(* three kinds walks a fixed line of steps, and each call of the step tool *)
(* runs the handler of the current step.  A handler that returns an error  *)
(* or a notice leaves the session on its step, but not always the form as  *)
(* it was.                                                                 *)
(*                                                                         *)
(* The session store (go.lumeweb.com/mcpplane) runs one call of a session  *)
(* at a time; the portal is what the wizard's service answers.             *)
(***************************************************************************)
EXTENDS Naturals, Sequences

CONSTANTS WizardNames, WizardLabels, WizardRoots, Emails,
          MaxSites         \* websites the portal can hold

VARIABLES
  wizard,                  \* kind and step of the session
  form,                    \* what the session has recorded
  agreed,                  \* per step, the input it accepted
  sites, bindings,         \* the portal: websites, and domains bound to them
  token, logins, config    \* signed in, browser logins, the CLI's settings

wizardVars == <<wizard, form, agreed, sites, bindings, token, logins, config>>
portal == <<sites, bindings>>
host   == <<token, logins, config>>

(* The transitions of the three state machines. *)
FirstStep == [websites |-> "auth_check", domains |-> "domain_auth_check", setup |-> "auth"]
After == [
  auth_check |-> "content_source", content_source |-> "target_type", target_type |-> "domain",
  domain |-> "dns_mode", dns_mode |-> "create", create |-> "dns_setup",
  dns_setup |-> "validate", validate |-> "complete",
  domain_auth_check |-> "domain_website", domain_website |-> "domain_name",
  domain_name |-> "domain_namespace", domain_namespace |-> "domain_bind",
  domain_bind |-> "domain_delegation_setup", domain_delegation_setup |-> "domain_verify",
  domain_verify |-> "domain_complete",
  auth |-> "config", config |-> "completion", completion |-> "tutorial",
  tutorial |-> "complete"]
WizardSteps == DOMAIN After
Completed == wizard.step \in {"complete", "domain_complete"}

LifecycleEvents == {
  <<"choose_source", "draft", "claimed">>, <<"bind_start", "claimed", "binding">>,
  <<"bind_start", "binding", "binding">>, <<"bind_start", "failed", "binding">>,
  <<"bind_success", "binding", "live">>, <<"bind_fail", "binding", "failed">>,
  <<"retry", "failed", "binding">>}
ContentEvents == {
  <<"prepared", "new", "ready">>, <<"prepared", "ready", "ready">>,
  <<"deployed", "ready", "deployed">>}
OpEvents == {
  <<"start", "pending", "running">>, <<"start", "succeeded", "running">>,
  <<"start", "failed", "running">>, <<"success", "running", "succeeded">>,
  <<"fail", "running", "failed">>}

Can(events, event, state)  == \E e \in events : e[1] = event /\ e[2] = state
Fire(events, event, state) ==
  IF Can(events, event, state)
  THEN (CHOOSE e \in events : e[1] = event /\ e[2] = state)[3] ELSE state

EmptyForm == [cid |-> "empty", target |-> "empty", source |-> "empty", domain |-> <<>>,
              namespace |-> "empty", label |-> "empty", generate |-> FALSE, root |-> "empty",
              dns |-> FALSE, life |-> "draft", content |-> "new", op |-> "pending",
              site |-> 0, result |-> "none"]

WizardInit ==
  /\ wizard = [kind |-> "none", step |-> "init"] /\ form = EmptyForm
  /\ agreed = [s \in WizardSteps |-> "none"]
  /\ sites \in {<<>>, <<[by |-> "other"]>>} /\ bindings = <<>>
  /\ token \in BOOLEAN /\ logins = [e \in Emails |-> "none"]
  /\ config = [endpoint |-> "old", secure |-> FALSE]

-----------------------------------------------------------------------------
(* The session: created on its first step, then one step at a time. *)
NewSession(k) ==
  /\ wizard.kind = "none" /\ wizard' = [kind |-> k, step |-> FirstStep[k]]
  /\ UNCHANGED <<form, agreed, portal, host>>

At(step) == wizard.step = step

Advance(input) ==
  /\ wizard' = [wizard EXCEPT !.step = After[@]]
  /\ agreed' = [agreed EXCEPT ![wizard.step] = input]

Remain == UNCHANGED <<wizard, agreed>>

(* Both portal wizards first look for the stored token. *)
CheckSiteAuth ==
  At("auth_check") /\ token /\ Advance("token") /\ UNCHANGED <<form, portal, host>>
CheckDomainAuth ==
  At("domain_auth_check") /\ token /\ Advance("token") /\ UNCHANGED <<form, portal, host>>

(* Steps that only move on. *)
Read == Advance("read") /\ UNCHANGED <<form, portal, host>>
SetupDns        == At("dns_setup") /\ Read
ShellCompletion == At("completion") /\ Read
Tutorial        == At("tutorial") /\ Read

-----------------------------------------------------------------------------
(* Website wizard.  An upload is refused: only a CID prepares the content. *)
SourceContent(cid) ==
  /\ At("content_source") /\ cid # "empty"
  /\ Can(ContentEvents, "prepared", form.content)
  /\ form' = [form EXCEPT !.cid = cid,
                          !.content = Fire(ContentEvents, "prepared", @)]
  /\ Advance(cid) /\ UNCHANGED <<portal, host>>

ChooseTarget(target) ==
  /\ At("target_type")
  /\ form' = [form EXCEPT !.target = target] /\ Advance(target)
  /\ UNCHANGED <<portal, host>>

(* Mutant: the source chosen first stays. *)
FirstSource(source) ==
  IF form.life = "draft" THEN [form EXCEPT !.life = "claimed", !.source = source] ELSE form

(* ChooseDomainSource: a changed source drops the domain claimed for the    *)
(* old one.                                                                 *)
Sourced(source) ==
  IF form.life = "draft"
  THEN [form EXCEPT !.life = Fire(LifecycleEvents, "choose_source", @), !.source = source]
  ELSE IF form.source \notin {"empty", source}
       THEN [form EXCEPT !.source = source, !.domain = <<>>] ELSE form

MayClaim(f) == f.life \notin {"live", "binding"}
Claimed(f, domain) == [f EXCEPT !.domain = domain]

SourceOf(i) == IF i.source # "empty" THEN i.source
               ELSE IF i.domain # "empty" THEN "custom" ELSE "platform"
NamespaceOf(i) == IF i.namespace = "empty" THEN "icann" ELSE i.namespace

OwnDomain(i) ==
  LET f == Sourced("custom") IN
  IF i.domain = "empty" \/ NamespaceOf(i) \notin {"icann", "hns"}
  THEN form' = f /\ Remain
  ELSE /\ MayClaim(f) /\ Advance(i)
       /\ form' = Claimed([f EXCEPT !.namespace = NamespaceOf(i)], <<i.domain>>)

(* The label and the wish to generate are recorded before the root is       *)
(* looked up, and the lookup may fail or find none.                         *)
PlatformDomain(i) ==
  LET wanted == IF i.root # "empty" THEN i.root ELSE i.domain
      f == [Sourced("platform") EXCEPT !.label = i.label,
                                       !.generate = i.generate \/ i.label = "empty"]
  IN \E root \in IF wanted # "empty" THEN {wanted} ELSE WizardRoots \cup {"empty"} :
       IF root = "empty" THEN form' = f /\ Remain
       ELSE /\ MayClaim(f) /\ Advance(i)
            /\ form' = Claimed([f EXCEPT !.root = root],
                               IF i.label # "empty" THEN <<i.label, root>> ELSE <<root>>)

DomainInputs ==
  [source : {"empty", "custom", "platform"}, domain : {"empty"} \cup WizardNames,
   namespace : {"empty", "hns", "other"}, label : {"empty"} \cup WizardLabels,
   generate : BOOLEAN, root : {"empty"} \cup WizardRoots]

ChooseDomain(i) ==
  /\ At("domain")
  /\ IF SourceOf(i) = "custom" THEN OwnDomain(i) ELSE PlatformDomain(i)
  /\ UNCHANGED <<portal, host>>

ChooseDns(managed) ==
  /\ At("dns_mode")
  /\ form' = [form EXCEPT !.dns = managed] /\ Advance(managed)
  /\ UNCHANGED <<portal, host>>

(* The request.  On a platform domain the DNS is always managed, and        *)
(* generate wins over the label.                                            *)
Request(f) ==
  [by |-> "session", cid |-> f.cid, target |-> IF f.target = "empty" THEN "ipfs" ELSE f.target,
   source |-> f.source, managed |-> f.source = "platform" \/ f.dns,
   domain    |-> IF f.source = "platform" THEN <<>> ELSE f.domain,
   namespace |-> IF f.source = "platform" THEN "empty" ELSE f.namespace,
   root      |-> IF f.source = "platform" THEN f.root ELSE "empty",
   generate  |-> f.source = "platform" /\ f.generate,
   label     |-> IF f.source = "platform" /\ ~f.generate THEN f.label ELSE "empty"]

Minted(r) == IF r.source # "platform" THEN r.domain
             ELSE IF r.generate THEN <<"generated", r.root>> ELSE <<r.label, r.root>>

(* A website recorded by an earlier attempt is resumed, never made again. *)
Resumable == form.site # 0 /\ form.life \in {"failed", "binding"}

Bound(f, id, domain) ==
  [f EXCEPT !.life = Fire(LifecycleEvents, "bind_success",
                          Fire(LifecycleEvents, "bind_start", @)),
            !.site = id, !.domain = domain, !.op = Fire(OpEvents, "success", @)]

CreateSite ==
  LET asked == [form EXCEPT !.dns = @ \/ form.source = "platform"]
      r     == Request(form)
      ready == Can(ContentEvents, "deployed", form.content) \/ form.content = "deployed"
  IN /\ At("create") /\ UNCHANGED <<bindings, host>>
     /\ form.source = "platform" \/ form.domain # <<>>
     /\ \/ Remain /\ form' = asked /\ UNCHANGED sites
        \/ /\ ~Resumable /\ Len(sites) < MaxSites /\ sites' = Append(sites, r)
           /\ \/ Remain /\ form' = asked
              \/ /\ ready /\ Advance("confirm")
                 /\ form' = Bound([asked EXCEPT !.content = Fire(ContentEvents, "deployed", @)],
                                  Len(sites) + 1, Minted(r))
        \/ /\ Resumable /\ Advance("confirm") /\ UNCHANGED sites
           /\ form' = Bound(asked, form.site, Minted(sites[form.site]))

(* A failed validation leaves the operation running; a verdict, valid or   *)
(* not, ends the step.                                                     *)
ValidateSite ==
  /\ At("validate") /\ form.site # 0
  /\ LET started == [form EXCEPT !.op = Fire(OpEvents, "start", @)] IN
     \/ form' = started /\ Remain
     \/ \E verdict \in {"valid", "invalid"} :
          /\ form' = [started EXCEPT !.result = verdict, !.op = Fire(OpEvents, "success", @)]
          /\ Advance(verdict)
  /\ UNCHANGED <<portal, host>>

-----------------------------------------------------------------------------
(* Domain wizard.  The website must be in the list the portal returns. *)
SelectSite(id) ==
  /\ At("domain_website") /\ id \in DOMAIN sites
  /\ form' = [form EXCEPT !.site = id] /\ Advance(id) /\ UNCHANGED <<portal, host>>

NameInputs == [domain : WizardNames, label : {"empty"} \cup WizardLabels,
               generate : BOOLEAN, root : {"empty"} \cup WizardRoots]

(* The root of a subdomain claim is the domain itself unless given. *)
NameDomain(i) ==
  /\ At("domain_name")
  /\ form' = [form EXCEPT !.domain = <<i.domain>>, !.label = i.label, !.generate = i.generate,
                !.root = IF i.root # "empty" THEN i.root
                         ELSE IF i.generate \/ i.label # "empty" THEN i.domain ELSE "empty"]
  /\ Advance(i) /\ UNCHANGED <<portal, host>>

ChooseNamespace(n) ==
  /\ At("domain_namespace") /\ form' = [form EXCEPT !.namespace = n]
  /\ Advance(n) /\ UNCHANGED <<portal, host>>

DomainRequest == [site |-> form.site, domain |-> form.domain, namespace |-> form.namespace,
                  label |-> form.label, generate |-> form.generate, root |-> form.root]

BindDomain ==
  /\ At("domain_bind") /\ form.domain # <<>> /\ form.namespace # "empty"
  /\ UNCHANGED <<sites, host>>
  /\ \/ /\ Len(bindings) < MaxSites /\ bindings' = Append(bindings, DomainRequest)
        /\ \/ Remain /\ UNCHANGED form
           \/ form' = [form EXCEPT !.result = "bound"] /\ Advance("confirm")
     \/ Remain /\ UNCHANGED <<form, bindings>>

(* Delegation requirements and verification: an answer is enough, and a    *)
(* missing one does not replace the recorded binding.                      *)
Delegate ==
  /\ At("domain_delegation_setup") /\ form.result # "none" /\ Advance("answered")
  /\ UNCHANGED <<form, portal, host>>

VerifyDomain ==
  /\ At("domain_verify") /\ form.result # "none" /\ Advance("answered")
  /\ \E r \in {"bound", "verified"} : form' = [form EXCEPT !.result = r]
  /\ UNCHANGED <<portal, host>>

-----------------------------------------------------------------------------
(* Setup wizard.  Signing in happens in a browser: the step starts a login, *)
(* says where, and moves on once that login is done.                        *)
SkipSignIn ==
  /\ At("auth") /\ Advance([choice |-> "skip"])
  /\ UNCHANGED <<form, portal, host>>

SignIn(e) ==
  /\ At("auth")
  /\ IF logins[e] = "done"
     THEN Advance([choice |-> "sign_in", email |-> e]) /\ UNCHANGED <<form, portal, host>>
     ELSE /\ Remain
          /\ logins' = [logins EXCEPT ![e] = "pending"]
          /\ UNCHANGED <<form, portal, token, config>>

(* The browser: the login succeeds and stores the token, or fails. *)
Browser(e) ==
  /\ logins[e] = "pending"
  /\ \/ logins' = [logins EXCEPT ![e] = "done"] /\ token' = TRUE
     \/ logins' = [logins EXCEPT ![e] = "failed"] /\ UNCHANGED token
  /\ UNCHANGED <<wizard, form, agreed, portal, config>>

ConfigInputs == {[choice |-> "defaults", endpoint |-> "empty", secure |-> TRUE],
                 [choice |-> "skip", endpoint |-> "old", secure |-> FALSE]} \cup
                [choice : {"custom"}, endpoint : {"new"}, secure : BOOLEAN]

(* Two settings, written one after the other; either write may fail. *)
Configure(i) ==
  /\ At("config") /\ UNCHANGED <<form, portal, token, logins>>
  /\ \/ i.choice = "skip" /\ Advance(i) /\ UNCHANGED config
     \/ /\ i.choice # "skip"
        /\ \/ Remain /\ UNCHANGED config
           \/ Remain /\ config' = [config EXCEPT !.endpoint = i.endpoint]
           \/ Advance(i) /\ config' = [endpoint |-> i.endpoint, secure |-> i.secure]

-----------------------------------------------------------------------------
WizardNext ==
  \/ \E k \in DOMAIN FirstStep : NewSession(k)
  \/ CheckSiteAuth \/ CheckDomainAuth \/ SetupDns \/ ShellCompletion \/ Tutorial
  \/ CreateSite \/ ValidateSite \/ BindDomain \/ Delegate \/ VerifyDomain \/ SkipSignIn
  \/ SourceContent("cid")
  \/ \E t \in {"ipfs", "ipns"} : ChooseTarget(t)
  \/ \E i \in DomainInputs : ChooseDomain(i)
  \/ \E m \in BOOLEAN : ChooseDns(m)
  \/ \E id \in 1 .. MaxSites : SelectSite(id)
  \/ \E i \in NameInputs : NameDomain(i)
  \/ \E n \in {"icann", "hns"} : ChooseNamespace(n)
  \/ \E e \in Emails : SignIn(e) \/ Browser(e)
  \/ \E i \in ConfigInputs : Configure(i)

WizardSpec == WizardInit /\ [][WizardNext]_wizardVars

-----------------------------------------------------------------------------
WizardTypeOK ==
  /\ wizard.kind \in {"none"} \cup DOMAIN FirstStep
  /\ wizard.step \in {"init", "complete", "domain_complete"} \cup WizardSteps
  /\ form.life \in {"draft", "claimed", "binding", "live", "failed"}
  /\ form.content \in {"new", "ready", "deployed"}
  /\ form.op \in {"pending", "running", "succeeded", "failed"}
  /\ form.site \in 0 .. MaxSites /\ Len(sites) \in 0 .. MaxSites
  /\ logins \in [Emails -> {"none", "pending", "failed", "done"}]

SiteAsAgreed(s, d) ==
  /\ s.by = "session" /\ s.cid = agreed["content_source"] /\ s.target = agreed["target_type"]
  /\ s.source = SourceOf(d)
  /\ s.source = "custom" => /\ s.domain = <<d.domain>> /\ s.namespace = NamespaceOf(d)
                            /\ s.managed = agreed["dns_mode"]
  /\ s.source = "platform" => /\ s.managed /\ d.root # "empty" => s.root = d.root
                              /\ s.generate \/ s.label = d.label
                              /\ d.label = "empty" => s.generate

BindingAsAgreed(b, n) ==
  /\ b.site = agreed["domain_website"] /\ b.domain = <<n.domain>>
  /\ b.namespace = agreed["domain_namespace"] /\ b.label = n.label /\ b.generate = n.generate

(* A wizard that reports completion has done what its steps accepted:      *)
(* attempts that failed on the way, or were answered and lost, leave no     *)
(* trace in the website, the binding or the settings (wizard.go, "the       *)
(* session remains in state ..., you may retry").                           *)
CompleteMeansAgreed ==
  Completed =>
    /\ wizard.kind = "websites" =>
         SiteAsAgreed(sites[form.site], agreed["domain"]) /\ form.result # "none"
    /\ wizard.kind = "domains" =>
         BindingAsAgreed(bindings[Len(bindings)], agreed["domain_name"]) /\ form.result # "none"
    /\ wizard.kind = "setup" =>
         /\ agreed["auth"].choice = "sign_in" => token /\ logins[agreed["auth"].email] = "done"
         /\ agreed["config"].choice # "skip" =>
              config = [endpoint |-> agreed["config"].endpoint, secure |-> agreed["config"].secure]

(* websites_fsm.go:34 calls the live state "website created and validated". *)
LiveIsValidated == form.life = "live" => form.result = "valid"

(* The domain step claims label.root; the website made has that label. *)
LabelIsKept ==
  /\ wizard.step = "complete" /\ wizard.kind = "websites"
  /\ agreed["domain"].label # "empty" /\ SourceOf(agreed["domain"]) = "platform"
  => sites[form.site].label = agreed["domain"].label
=============================================================================
