# A TLA+ development of the Pinner CLI

Pinner CLI is a Go program with two front-ends over one catalogue of operations: a
command line (`internal/cli`) and an MCP server (`internal/mcp`) that lets a language
model run the operations as tools. This development models both: the hand-offs by which
the server keeps passwords and recovery phrases from the model, the server's own life
from installer to shutdown, the tools it assembles and the calls it accepts, and the
commands of the CLI with the batches, wizards, transfers and watches behind them.

## 1. Inventory

Paths are relative to `src/internal/`. `PROJECT.json` lists every component with its files.

| Component | State it keeps | Operations | Modelled in |
|---|---|---|---|
| one-time endpoint, `mcp/core/handoff/handoff.go` | live items, tombstones and their order | Mint, Resolve, Claim, Remove, prune, the GET/POST handler | `Endpoint`, `Handoff`, `OneTimeLink` |
| hand-off registry, `handoff_registry.go` | a continuation per handle, with its age | Begin, Get, End, the resume template | `HandoffRegistry`, `Resume` |
| vault restore, `mcp/oob/restore_oob.go`, `vault_handoff.go` | endpoint, outcome per claimed token | start, form POST, resume | `VaultRestore` |
| vault create and seed drop, `mcp/oob/create_oob.go`, `seed_drop.go` | two endpoints, outcome with the seed link | start, form POST, seed page, resume | `VaultCreate` |
| account change, `mcp/auth/account_oob.go` | endpoint, outcomes | Register, form POST | `AccountChange` |
| sign-in, `mcp/auth/auth_login.go`, `auth_sso.go` | login requests, tombstones, attempt counters | auth_sso, the login page, resume, revoke, the wizard's Begin and poll, reaper | `SSOLogin`, `WizardLogin` |
| vault writes, `mcp/core/transfer/upload_vault_http.go`, `mcp/vault` | upload tokens; the vault's objects | mint, PUT, relayed write, local path, tree | `VaultWrites` |
| file tools, `mcp/core/transfer`, `mcp/core/ieo`, `mcp/upload` | the open body of a call | upload_file, upload_url, upload_data, download_file, capabilities | `FileTools` |
| server lifetime, `mcp/adapter_tunnel.go`, `core/transport` | listener, tunnel, base URLs, guard, sync | start, requests, cancel, shutdown | `ServerRun` |
| per-host server cache, `mcp/host_server_cache.go` | server per host | lookup, build, insert | `ServerRun` |
| OAuth server, `mcp/auth/oauth.go`, `store.go` | clients, codes, tokens; resource | register, authorise, exchange, refresh, bearer check | `OAuthFlow` |
| session wizards, `mcp/wizard` | session and its form | the steps of the three wizards | `WizardSession` |
| tool surface: adapter, catalogue, dispatch, guide | the catalogue, the plan, the wire | assembly passes; search, describe, invoke, direct call | `ToolSurface` |
| service installer, `cli/mcp_install*.go`, `mcp/services` | environment file, unit, agents' entries | install, service install, service control | `McpInstall` |
| agents' configuration files, `mcp/install` | the file and its temporary copy | read, put or remove an entry, replace | `AgentConfig` |
| command tree, `clicatalog` | parents and leaves of a domain | place, fold | `CommandTree` |
| catalogue commands, `cli/catalog_*.go`, `*_wiring.go` | one command's input and scan | resolve, gate, confirm, execute, report | `CatalogCommand` |
| pinning client, `cli/pinning_client.go`, `unpin_all.go` | worker pool, batch result | pin, unpin, unpin all, update, status | `Pinning` |
| upload, download, sign-in commands, `cli/upload*.go`, `download*.go`, `auth.go` | the stored token, the output file | each command's requests | `Credentials` |
| watch loops, `cli/output.go`, `list.go`, `operations*.go` | the rows on the screen | poll, print, stop | `WatchLoops` |
| bench, `cli/bench_service.go` | uploads to clean up | measure, two clean-ups | `BenchRun` |
| vault create/restore commands, `cli/vault_create.go` | the seed file | create, restore | `VaultSetup` |
| vault copy, `cli/vault_cp.go` | the copy in hand | cp, flush, upload with verification | `VaultCopy` |
| terminal wizards, `cli/wizard`, `*_wizard.go` | the draft | steps, retries, closing box | `TerminalWizard` |
| tunnel providers, hosted mode, host shims, schema text, apps, CAR packing, output, mocks | – | external processes, text, byte formats | not modelled (section 6) |

How they interact. A **start tool** mints a link at its coordinator's endpoint, creates an
asynchronous handle and begins a continuation; a **browser** GETs and POSTs the link; the
**agent** polls a resume tool, which goes through the handle store, the registry and the
coordinator; clocks and capacities drop links, handles, outcomes and tombstones in between.
The coordinators' links carry the base URL that `ServerRun` sets while the tunnel comes
up; the session wizards of `WizardSession` begin and poll the logins of `WizardLogin`; the
tools of `FileTools`, `VaultWrites` and the coordinators are entries of the surface that
`ToolSurface` assembles; `OAuthFlow` guards the endpoint `ServerRun` opens; `McpInstall`
writes the environment `ServerRun` starts from, and the entries through `AgentConfig`. On
the command line, `CommandTree` decides which command a line means, `CatalogCommand` runs
those of the catalogue, and `Pinning`, `VaultCopy`, `Credentials`, `WatchLoops` and the
others are the hand-written ones.

What is hard there. On the server: half a dozen maps, each under a lock of its own, no lock
held from one to the next; a look-up, a call to a backend and a record that are three steps;
memory bounds that drop what a running flow needs; a start-up and a shutdown with a
dozen parts. On the command line: a worker pool with retries; listings that change between
the confirmation and the act, and from page to page; a wait that ends before its result;
files that must survive a crash. In the installer: steps over several files and services,
of which any may fail. `PROJECT.json` lists each hazard at its line, with its properties.

## 2. The modules

### Hand-offs

* **`Endpoint`** – the data structure: an endpoint is a record of `items`, `spent` and
  `order`, and each locked method is an operator from endpoint to endpoint. Payloads and
  times are left out; that a token's time has passed is a set given to the operators.
* **`OneTimeLink`** – what an endpoint promises: a link goes from unminted to open, and from
  open to taken and then ran, or to expired, and never back.
* **`Handoff`** – endpoint and handler: any number of POSTs in flight, each at one of the
  points where `handle` and `ConsumePOST` hold no lock. `LinkOf` maps its state to
  `OneTimeLink`; `ImplementsOneTimeLink` is the refinement.
* **`EndpointProofs`, `HandoffProofs`** – lemmas on the operators; the theorems. The proofs
  about the other modules are in `VaultRestoreProofs`, `VaultHandoffsProofs` (the create flow
  and both together), `SSOLoginProofs`, `LinksProofs` (registry, account pages, writes),
  `ServerProofs` and `CommandsProofs`.
* **`Resume`** – the poll, one step per store it touches. `told` is history: the final
  answers the agent has had about each handle.
* **`VaultRestore`**, **`VaultCreate`** – the two coordinators, extending `Resume`. Both map
  their POSTs to `Handoff`'s: they use their endpoint as `Handoff` allows, so by the theorem
  on `Handoff` every one of their links is a one-time link. The seed page of `VaultCreate`
  removes its link only after the copy at rest is destroyed, and has no claim.
* **`HandoffRegistry`** – the registry at its capacity with the handle store beside it. A handle
  may be begun any number of times, as `auth_sso` does with a sign-in it joins. `again` and `cut`
  are history: the handles begun twice, and those whose continuation was ended while they lived.
* **`AccountChange`** – the account page's POST and its outcome records.
* **`SSOLogin`** – the sign-in the agent starts. A request outlives its map entry, since a
  POST keeps the pointer. `signedIn`, `refused`, `revoked` and `reaped` are history: what the
  backend said of a login and what took it out of the map.
* **`WizardLogin`** – the same coordinator as a setup wizard uses it, keyed by session and
  address, with the attempt counters: a POST looks its counter up under one lock and changes
  it under another, and the reaper may drop it from the map in between. It reads the address of
  its request for the check, for the attempt and for the count, and another POST of the same
  request may type another one in between; `astray` is history: the addresses that were tried
  without their own check or refused without a note in their own counter. `replaced` is history
  too: the logins that gave way to a new Begin before they were completed.
* **`VaultWrites`** – a mint, a PUT, a relayed write or a local path, from the profile guard
  to the bytes in a vault, while profiles and files change.

### The server

* **`ServerRun`** – `pinner mcp` from its flags to its exit; `boot` is the step the command
  has reached, `visit` that of a request. Requests come as soon as the listener is served,
  which is before the tunnel has an address.
* **`ToolSurface`** – one action per pass of the assembly (`build`), then the agent's calls.
* **`OAuthFlow`** – registration, authorisation, exchanges, the bearer check, a restart on
  the same database and the tunnel that changes the address.
* **`WizardSession`** – one action per step handler; a handler that fails leaves the session
  on its step, but not always the form as it was.
* **`FileTools`** – one call at a time, from the mode of the transport to what is stored; a
  file grows, a connection breaks, the caller gives up.
* **`McpInstall`**, **`AgentConfig`** – the installer's steps with their roll-back; the edit
  of one configuration file with an agent that saves it and a crash between any two steps.

### The commands

* **`Pinning`** – the worker pool over the retrying client; `made` and `gone` are history:
  what each task did to the service.
* **`BenchRun`** – the loop and its two clean-ups on shared variables without a lock: an entry of
  the report is appended in two steps, the list read and the longer list written back. The signal
  is caught during the loop alone; before it and in the deferred clean-up it ends the process.
* **`VaultSetup`** – the seed file, the approval and the registration, with creates that fail,
  crash or overlap.
* **`VaultCopy`** – `vault cp` in its three directions, `vault flush`, uploads and downloads.
* **`TerminalWizard`** – the runner and the steps of the three terminal wizards.
* **`CommandTree`** – the compilation of a domain's operations to commands; the declared
  operations of each domain are data of the module.
* **`CatalogCommand`** – the pipeline of `catalog_adapter.go` with each domain's hooks.
* **`WatchLoops`**, **`Credentials`** – the watches; the token of every request, and what a
  transfer leaves behind.

Conventions. A step is one critical section, or one call to something external that
succeeds or fails. `pc`, `stage`, `at`, `point` and `doing` say where a goroutine is between
two of them. Variables under a comment `history` are read by no guard. An operator that a
comment calls a mutant is in no specification: it is a plausible bug in the definition that
follows it, and the property it is listed with in `PROJECT.json` fails when it takes that
definition's place.

`MCCommands`, `MCServer`, `MCLinks` and `MCVaultHandoffs` put several modules into one run.
The bounds of the modules with theorems are constants given in the `.cfg`, so that the theorems
hold for every bound.
The modules of such a run share no variable: `command`, `concern` or `flow` says whose
behaviour this is, and the variables of the others stay at `Idle`. What a run checks of each
module is what a run of its own would check; nothing is claimed of their interleaving.

## 3. Runs

| Run | Instance | Shows |
|---|---|---|
| `handoff` | 3 links, 2 POSTs, 1 tombstone | indexes in step, single use, the oldest tombstone goes first, refinement of `OneTimeLink`; the invariant of the proofs |
| `vault_handoffs` | create: 1 link and its seed link, 2 POSTs, 2 confirmations, 1 poll, 1 tombstone; restore: 1 link, 2 POSTs, 2 polls, 0 tombstones | truthful answers, the record of a running restore, outcomes kept, the seed in reach, refinement of `Handoff`, an answer in the end |
| `sso` | 1 login; a starter, a revoker, a POST, 2 polls, the reaper | every final answer is accounted for by what became of the login; how an accepted login may leave; an answer in the end |
| `links` | registry: 3 handles, begun again at will, for 2 places; account: 2 links, 2 POSTs, 1 tombstone; writes: 3 calls, 2 profiles, a tree of 2 files | bounds, no orphans but those of handles begun again, account answers are true, bytes land once and in the vault named |
| `commands` | see below | reports are true, the phrase is safe, every command is reachable, removals were agreed to, watches end with final tables, batches, wizards and watches end |
| `server` | see below | logins are kept and guesses bounded while addresses are retyped, links name an address that answers, wizards complete with what was agreed, the surfaces agree and no call bypasses the gate, only authorised requests are served, files arrive whole, installs are whole or undone |

Instances of `commands`: 2 workers, 2 requests at the service and 2 attempts per pin, over
every batch of up to two CIDs, which includes a duplicate; 2 benchmark iterations, signals and 2 unpin attempts; 3 vault
creates one at a time; 2 vaults and 2 verifications; 5 tries of each wizard loop and 2 sites;
all ten domains of the command tree; each look-up command by position and by name, each
combination of the flags of `pins rm`, one change by another client; 3 watched items on
pages of 2; 2 commands in a row with 2 accounts' tokens and 2 probes for the pin.

Instances of `server`: 2 logins, one with an address; 2 hosts, 2 requests, 2 coordinators;
2 addresses and 3 sites; both listing strategies with and without vault, pages, wizards, apps
and resolver, and a name declared twice; 2 OAuth clients, 2 public addresses, 3 grants,
1 restart; an agent that speaks HTTP and one that does not, over no environment file and
those of four services; 1 other server entry and 1 temporary file; for `WizardLogin`
2 POSTs and a lockout at the second failure, over one request under 2 addresses or 2 requests
under one; for
`FileTools` every transport with every set of features its hosts may have, and files, archives
and trees of 2 entries within, at and over a cap of 2.

Six runs refute a statement the repository makes of itself; `findings` quotes them.

| Run | What happens |
|---|---|
| `account_twice` | the account changes twice, because the claim comes after the update |
| `sso_done` | a poll of a login that expired, failed or was revoked reports "Sign-in complete" |
| `seed_overlap` | two overlapping creates: the second overwrites the phrase of a vault whose approval is under way |
| `identity` | with `--auth-token` some requests of a command carry the stored token |
| `terminal` | a watch with coloured statuses, or of certificates, calls pending items terminal |
| `address` | a service that moves from no tunnel to a tunnel keeps its local public URL |

**Bounds and why they are enough.** Two POSTs, workers, hosts or creates are the smallest
number that race, and each is used again for any number of requests in turn. Tokens interact
only through tombstones and outcomes: `handoff` has three tokens for one tombstone, and the
flows take 0 or 1, so that a token is forgotten as early as any real constant allows. A
capacity of 2 with 4 handles makes eviction, expiry and re-use of a slot overlap. Counters
that the code bounds by a constant (attempts, tries, tombstones, guesses) are run at the
smallest bound at which the last step differs from the first. Sizes matter only in
comparison with the cap: below, at and above it. The wizard's sign-in has two addresses, so that
a POST may retype one between the check of another POST, its attempt and its note; and it has two
requests, so that a Begin may take the place of one at the backend. Both at once are cut off by a
constraint (`FormBound`): once a second address was typed no second request is begun, and the
other way round. The theorem needs no such bound. Where the code looks at a page of a
listing, there is one item more than a page. `Symmetry` is used only where no liveness is
checked. The run of `MCServer` has a `VIEW` as well (`ServerView`): its sign-in has no polls and no
revocations, so nothing ever reads the handles, the continuations and most of the history, and TLC
takes states that differ in them alone for one. The wizard's sign-in drops what no step reads any
more: a request that is neither registered nor held, a count that starts again anyway. For the other
behaviours, and for a sign-in with polls or revocations, the view is the whole state. `CHECK_DEADLOCK FALSE` stands where the system stops by itself: a command that
has ended, a server that has shut down, or an instance whose handles are used up.

**Fairness.** In the hand-offs: clocks advance, the reaper's ticker fires, a handler or poll
that was called runs to its end, and the agent calls the resume tool again for every handle
it holds, as each pending answer tells it to (strong fairness, because a poll in flight keeps
its caller busy). Nothing is assumed of the human: none on opening, posting, confirming or
revoking. In the commands: every call of a pin command has a deadline, so it or its wait
fails in the end; the ticker of a watch keeps polling and the service settles what it works
on; a person answers a wizard's prompts and the portal its requests. The other modules are
checked for safety alone.

## 4. Proofs

Each theorem is about the specification TLC checks (`Spec` of the module, or `BothSpec`,
`LinksSpec`, `ServerSpec` and `CommandsSpec` of the composed ones), for every value of the
constants. What they assume: caps and bounds are natural numbers, and there is room for at least
one attempt, one website of a portal and one entry of the registry (`TombstoneCap`,
`RestoreTombstoneCap`, `LinksAssumption`, `LoginAssumption`, `BoundAssumption`, `FormAssumption`,
`PinAssumption`, `BenchBounds`, `CopyAssumption`, `UploadAssumption`, `WizardAssumption`,
`WatchAssumption`, `RegistryAssumption`); names such as `NoCall` or `NoCid` are none of the things
they stand in for; the POSTs that guess passwords and the creates of a profile are finitely many
(`FormAssumption`, `MCCommands.SetupAssumption`), since they are counted; no address is empty
(`OriginAssumption`); an option is one of the values the code knows (`MCServer.SetupAssumption` for
the identity resolver, `InstallAssumption` for flags and environment file, whose credentials are
those of named tunnels); rows are numbers, no two share a name, and a command line names an
operation of the catalogue (`CatalogAssumption`); no command of the catalogue has the name of a
tool that the server adds in some set-ups only (`SurfaceAssumption`); the entries of a file source
and of one that grew have a size, which is said of the sum because it is a fold (`FileAssumption`).
Other sets (tokens, requests, polls, profiles, workers, CIDs, visits, grants) are arbitrary, finite
or not. TLC looked at the inductive invariants on the small instances before they were proved.

**The endpoint** (`EndpointProofs`, `HandoffProofs`). `Invariance` is `Spec => []HandoffInv`;
`TypeCorrectness`, `EndpointConsistency` and `SingleUse` follow from it, and `Refinement` is
`Spec => ImplementsOneTimeLink`. `RunsAtMostOnce` is not inductive: nothing in it says why a
second POST cannot get through. `HandoffInv` adds that a POST past its claim holds its link
alone and the link is no longer live (`ExclusiveClaim`), that a link not yet run by a holder
has run zero times and a live link has never run (`LinkInv`), and that the endpoint's three
indexes agree (`ConsistentEndpoint`). The argument per action is short once each endpoint
operator is known to preserve consistency: marking, pruning a prefix of an injective sequence,
resolving, removing, and sweeping a finite set in any order (`EndpointKept` gathers these for
the other proofs). `OldestForgottenFirst` is an action property of the same operators: what pruning
drops is the front of the queue, so a token that goes was marked before any that stays, and pruning
stops at the cap. For the refinement, every action either leaves `LinkOf` unchanged or is the
link's step of the same name.

**The restore** (`VaultRestoreProofs`). `RestoreImplementsHandoff` shows that every step of the
flow is a step of `Handoff` or leaves its state unchanged, under `GenericStage`; composed with
`Refinement`, `RestoreLinkIsOneTime` says that each restore link is a one-time link. The
invariant `RestoreInv` takes `HandoffInv` over through this mapping and adds two things about
the outcomes, which `Handoff` does not have: `Recorded` ties each POST's stage to the outcome
of its token and says that an outcome without a POST is that of the restore that ran, and
`Polling` says that what a poll has read remains true until it reports it. The latter is what
makes `Truthful` inductive: a poll reads the token and the outcome under two locks and cleans
up under two more, so its verdict must stay right through everything others do in between.
That needs `HandoffInv`: a link that is gone without a claim never runs afterwards.

**Both vault flows** (`VaultHandoffsProofs`). The create flow has the same two parts and a
third, `SeedInv`: the seed's endpoint is consistent, a seed link exists only for an active
create, and a link that has gone from it was confirmed or lapsed. The theorems `AgentIsToldTruth`,
`RunningStaysRecorded`, `SeedStaysInReach`, `OutcomeIsKept`, `BothRefineHandoff` and
`BothTypesCorrect` state the safety properties of the run `vault_handoffs` over `BothSpec`.

**The sign-in** (`SSOLoginProofs`). `LoginInv` says that everything held of a login, by a start
tool, a POST, a poll or the agent, is of one that was born (`Held`); that a login out of the map
was signed in to, revoked or reaped, or that its failure is in the hands of a poll or was told, and
that one that is completed was accepted or refused (`Accounted`); that an accepted login is completed
or in the hands of the POST that was told so (`InHand`); and that a poll that cleans up has read
something final that is out of the map (`Decided`). `LoginAnswersAccounted`,
`OneLoginPerAccount` and `AcceptedLeavesAsTold` follow. `LoginAnswersAccounted` is as much as the
code allows: that a handle is never answered both "failed" and "done" is refuted (section 5). Revocation adds tombstones without pruning, so this endpoint keeps its indexes in step
but not its cap, which only the reaper restores.

**Registry, account pages, vault writes** (`LinksProofs`). For the registry, `RegistryIsBounded`
holds by itself; `RegistryIsKept` adds that no live handle is without a continuation. Handles are
begun again at will, so nobody owns one. `RegistryInv` needs that what is live, or about to be
ended, was handed out before (`Recorded`), that a Begin retires what it evicted before the next one
(`Evicted`), and that a handle that lives while its continuation is about to be ended was handed out
again (`Over`): that is the one way in which a live handle loses its continuation, and `cut` keeps
it. For the account pages, `AccountInv` adds that a
POST past its update was answered by the service (`Answered`) and that everything known of a
link was minted. For the writes, `BytesLandWhereTold` needs that an upload link is carried by
one PUT (`Tickets`), that the profile stamped at the mint is the one written to (`Routed`), and
how much of a tree is written at each step (`Written`).

**The server** (`ServerProofs`). `ConcernInv` is the invariant of whichever module runs.

* *Guesses* (`FormInv`). `GuessesBounded` compares a history with a bound, so the invariant has to
  say where each guess is, for each address that nothing was sent astray from. While it is open, its
  guesses are those on its counter plus the refused passwords not yet noted (`Pool`); once it is
  locked, only the POSTs that were past the check can add to them (`Ahead`, `Counted`). A POST moves
  from the pool of one address to that of another only by way of `astray`; a fresh counter starts a
  fresh count. Sums of cardinalities carry the argument, hence the finite set of POSTs.
* *One login per account* is taken over from `SSOLoginProofs`, instantiated with the same variables.
* *Tokens* (`OAuthInv`). Everything in the store, fresh or stale, names a client and a resource the
  owner typed the secret for (`StoreAgreed`), through exchanges, refreshes, restarts and a change
  of the address.
* *Configuration files* (`AgentInv`). What the edit holds in memory is the file as read, then the
  file as it shall be, and the file itself changes only if the agent saves it (`EditTrue`).
* *Lifetime and cache* (`ServeInv`). Nothing is served early (`BootTrue`), a tunnel has a token and
  the token a guard (`TunnelTrue`), addresses are replaced one coordinator at a time and the issuer
  follows (`AddressTrue`), and what a request was given is what the cache holds (`CacheTrue`).
* *Tools* (`SurfaceInv`). Extensions enter the catalogue as they were declared (`Plan`, `Taken`),
  the hand-offs of the vault and the stamp of direct tools keep class, category and handler, and
  from the registration on a name on the wire is safe to call directly and runs the catalogue's
  entry of that name (`WireRuns`); the hooks that rebuild `open_app` keep that. The calls then look
  the name up in the very catalogue they check it against.
* *Listings* (`ListInv`). Each stage of the build leaves something that the next relies on: the plan
  declares a transfer tool exactly when the capabilities name it and declares it direct (`PlanTells`);
  whatever the guide can name is safe to call if it is in the catalogue at all (`Guided`); the
  instructions, written before the wire, name only tools that the wire will list or the dispatchers
  reach (`InstructionsTell`); and the wire without the meta-tools is the direct tools of the
  catalogue and of the plan (`Listed`). `SurfacesAgree` is then a consequence in the last state, and
  needs what `SurfaceInv` says of the wire's handlers.
* *File tools* (`FileInv`). The source of a call in flight is one its caller may point at, as it was
  or grown, and it grows on the way by a path only (`SourceTold`); each stage belongs to its mode, and
  a path that did not grow since its check is within the cap (`WayTold`). Totals are never expanded:
  what is stored is compared with the same total that was checked.
* *Installer* (`InstInv`). The file is the one found until it is reconciled; then the state keeps a
  snapshot or knows that there was none (`FileTold`). A service that ran runs, or the wizard
  remembers that it stopped it for the probe (`ServiceTold`). A provider in the file is known to the
  wizard too (`ProviderTold`): a state that settled on none has the stored one dropped, which is why
  a new password always restarts a tunnel's service. With that, address and token of file, service
  and state agree from the step that takes the address on (`EndpointTold`).
* *Session wizards* (`SessInv`). Each step knows what the form holds of the inputs accepted before it:
  the content, the target and the source while no website was made (`SiteTold`), the name and the
  namespace up to the binding (`BindTold`), the login once signed in (`SignedTold`). So a step that
  failed may leave the form half changed, since the input that is accepted in the end overwrites what
  it left (`DomainsTell`), and a website or binding that was made and not answered is not the one
  reported.

* *Types* (`TypesTold`). What `ServerTypeOK` says beside the invariants. A token exchange may put two
  grants into the OAuth store when there is room for one, hence "one more than the bound"; that two
  unused numbers are left for them is a count of the numbers given out (`NumbersLeft`), and that no
  number is in two of its tables follows (`StoreKept`). The catalogue is finite, so that the
  instructions can count it, and what is listed or shown has a place in the plan (`SurfaceTold`). A
  rename has a temporary file to take away (`TempsKept`); a wizard works on a site the portal has, if
  it has room for one at all (`SiteKept`, `BoundAssumption`). The tunnel's fields are asked for only
  under a provider (`ProviderTold`), so no file and no state ever holds credentials of none.

**The commands** (`CommandsProofs`). `CommandInv` is the invariant of whichever command runs.

* *Batches* (`PinInv`). `ReportIsTrue` says what holds when the report is made; the invariant says
  what holds of each worker meanwhile. `PoolTrue`: a task that was given away has an outcome or
  exactly one worker, and the rest have not begun. `WorkTrue`: a worker that adds has made at most
  one request per try; one that deletes or replaces holds a request of its task's CID (the listed
  one, for `unpin --all`) and, if it removed anything, removed that one and it is no longer live,
  so that the retry of a lost answer removes nothing else. Others may add, settle and remove at any
  time because the service never brings a request back or gives it another CID (`ServiceGrows`).
* *Clean-ups of a benchmark* (`BenchInv`). A CID is listed only after its upload (`ListPast`), so
  neither clean-up meets one that appears later. What a clean-up has in hand, to be appended or read
  for it, was removed and stays so, hence a write over the other's entries loses some and adds
  nothing untrue. Run's own clean-up begins when the list is whole; with no signal it writes alone, so
  what its last batch did not remove is on the list or in hand.
* *Recovery phrase* (`SetupInv`). The file is empty when a create is about to write it and holds its
  phrase from there until it was shown (`FileHolds`). This needs `OneCreate`: without it the
  property is false (run `seed_overlap`).
* *Copies and transfers* (`CopyInv`, `CredInv`). A path with a state has bytes and other clients do
  not replace them, so those a command flushes are still the ones it held (`BytesStay`). An upload
  is queued once it was sent and pinned once it was verified (`UploadKnown`); one that waited is
  pinned or was unpinned by another client (`UploadWaits`). A file stays as it was found until a
  download writes to it, and one that was there is written to with `--force` only (`FileWhole`).
* *Terminal wizards* (`TermInv`). The step a wizard is at tells what it has done (`PlaceTells`): a
  setup has chosen nothing up to its second step, a website is made by the sixth, a domain bound by
  the fifth, and only the last steps verify or validate. Since what they find is announced when
  nothing can change any more (`AnnouncedLast`), neither an earlier verdict nor the status of the
  binding is ever what is announced.
* *Catalogue commands* (`CatalogInv`). Up to the removal the target is the text that was typed or
  the number of the row that carries the typed name, whatever rows a look-up has seen while others
  moved them (`Naming`); and from the gate on, a command that will remove something has a flag or an
  answer that was given for this very name (`Agreed`). No two rows share a name, so that is enough.
* *Watches* (`WatchInv`). Nearly inductive as it stands; the work is in the rows a list without
  colours is rendered to (`TerminalRows`).
* *Types* (`TypesInv`). What `CommandsTypeOK` says beside the invariants. A wizard counts a try only
  while tries are left, so a running wizard is below its cap (`TermBounds`, which is why
  `WizardAssumption` wants `VerifyTries` positive; the code has 5). A transfer that got as far as
  finding or checking its upload has a token, so what it sends is never the empty one (`CredBounds`).
  A node of the command tree begins with the domain that is compiled: every list of operations is
  shown to, list by list (`RegistryRooted`), and so are the commands written by hand.

**Only model-checked.** Liveness (`AgentAnswered`, `EveryLoginAnswered`, `EveryCommandEnds`): the
prover does not treat fairness or ENABLED. `CommandsReachable` rests on definitions that recurse and
fold over the tree of commands. The six refuted statements are false and have nothing to prove.

## 5. Observations without a run

Statements of the repository that the models refute are also definitions of their modules;
those without a run of their own are these.

| Definition | Statement, and what happens |
|---|---|
| `VaultRestore.InFlightIsPending` | `vault_handoff.go:123-126`: a running restore is pending. A poll between the claim (`restore_oob.go:153`) and the record (`:168`) answers *dead* |
| `VaultCreate.DoneMeansRetrieved` | `vault_handoff.go:66`, `:167-173`: done means the seed was retrieved. A seed link that expired and is opened late reads as done |
| `HandoffRegistry.CleanupSparesRegistered` | `auth_sso.go:77-79`: creating and beginning again the handle of a sign-in that is joined is idempotent. At capacity, or past its time, Begin evicts that very entry and then deletes the handle just registered |
| `SSOLogin.AnswersAgree` | `auth_sso.go:233`: "pending until approval is done, then reports done". Of two polls of one handle, the first reads the failure and forgets the login, the second finds no login and reports done |
| `SSOLogin.RevokedIsNotSignedIn` | `auth_login.go:419-427`: only a login that is still pending is called off. One the backend has accepted is pending until `completeReq` |
| `WizardLogin.NothingAstray` | `auth_login.go:751-757`: nothing can reset the counter, and the threshold locks the address out. A POST that retypes the address sends the guess of another to an address that was not checked (`:642`, `:648`), or its note to another counter (`:653`) |
| `WizardLogin.NeverReplaced` | `auth_login.go:84-90`: a POST that completes a login is never dropped by a concurrent Begin. One between the backend's answer and `completeReq` drops it |
| `Pinning.UnpinIsConfirmed` | `README.md:408`: "Unpin (prompts for confirmation)". A batch is unpinned without flag or prompt |
| `BenchRun.CleanupRuns` | `bench_service.go:103`: "cleanup runs no matter what". A signal before the CID is listed, or a passed deadline, skips it |
| `BenchRun.CleanupReportComplete` | `bench_service.go:148-155`: what the clean-up could not unpin is listed as failed. The signal's clean-up and the deferred one write over each other's entries |
| `VaultCopy.StampNamesVault` | `vault_cp.go:198`: the metadata records the real profile. `--profile` chooses the vault, and the active profile is recorded |
| `VaultCopy.CpFlushIsDurable` | `vault_cp.go:126`: "--flush: wait for durable write". The flush does nothing for a buffer that the background flusher has taken |
| `ServerRun.SyncStopsFirst` | `adapter_tunnel.go:384-387`: the exit waits for a sync in flight. Nothing waits for it |
| `WizardSession.LiveIsValidated`, `LabelIsKept` | `websites_fsm.go:34`: "live" is created and validated, but an invalid verdict completes the wizard too; the site does not always get the label the domain step accepted |
| `McpInstall.PasswordIsLive`, `StoppedStaysStopped` | `mcp_install_wizard.go:548`, `service_command.go:680`: a running service may use another token than the one written; a failed install may start a service that was stopped |
| `ToolSurface.GuideIsCallable` | `agent_guide.go:586-588`: every tool the guide names can be called. On some hosts one cannot |
| `CatalogCommand.CountedIsRemoved` | `catalog_wiring.go:207`: the count the user typed is the number removed. It is that of an earlier listing |
| `OAuthFlow.SurvivesRestart` | `README.md:692`: a token survives a restart. Not when the public address changed |

Read in the source and present in the models, without a statement of the repository against it:

* *Hand-offs.* Two POSTs that pass the check for a spent login together can complete and then
  fail it (`auth_login.go:579-580`), and the wizard's next Begin then drops it; an `auth_sso`
  that joined a login before its revocation puts handle and continuation back afterwards
  (`auth_sso.go:174-175`); a poll that takes an outcome leaves no tombstone
  (`auth_login.go:544-545`); a seed link whose tombstone was evicted is pending for good
  (`vault_handoff.go:73-74`); a failure noted on a counter that the reaper dropped is lost; an end
  meant for a handle's earlier life ends the continuation of its present one.
* *Server.* Between the start of the tunnel (`adapter_tunnel.go:766`) and the new base URL
  (`:777`) links carry the local address; the fallback for a host whose assembly failed is
  cached (`host_server_cache.go:71`); the restore, create and seed coordinators are not
  stopped at shutdown; the catalogue's `Add` replaces silently (`catalog.go:144`); base URL and
  issuer are written without a lock (`adapter_tunnel.go:827`); a user is the hash of an access
  token and changes with a refresh (`oauth.go:547`).
* *Files.* The body of `upload_url` is bounded by 2 minutes (`upload_url.go`) although the
  upload's budget grows with the size; a path is checked before it is read, so a file that
  grows passes the cap; with a cap of 0, trees are unlimited, single files refused and relays
  fall back to their default.
* *Installer.* From cloudflared to ngrok without `--public-url` the address is cleared
  (`service_command.go:541`); overrides stay when a later step fails (`mcp_install.go:312`); a
  YAML file of comments only has no map to write to (`writer.go:121`); a save by the agent
  between the read and the rename is lost.
* *Commands.* `unpin --all --force` alone skips the typed count (`unpin_all.go:20`); a retried
  add may leave duplicates of which unpin removes the first; `bench --auth-token` uploads with
  the stored token; `vault cp` looks and then writes; `download --force` truncates before it
  copies; `pins rm --all --confirm` over an empty listing removes pins made since; a numeric
  workspace name resolves as a row id; `operations list --watch` covers one page; `--secure` is
  ignored by the catalogue's domains; a wait that ended leaves its metadata update no time.

## 6. What is left out

*Assumed.* Tokens and handles are never generated twice. A start tool fills its stores in one
step, as nobody knows the token yet. Creation times of registry entries are distinct. An
error has a non-empty text. One profile per vault create over MCP. Bodies of the HTTP
services, the vault library, the IPFS, TUS and OAuth libraries, the service manager and the
tunnels' processes are external: each call succeeds, fails or gets lost, as the code that
calls them distinguishes.

*Left out of modelled parts.* `HandoffRegistry.Prune`, which only tests call; `tokenDone` and
`forgetOutcome` of the account pages, which have no caller; `Stop` of the coordinators; page
texts, CSRF tokens and origins (a refused request is one disjunct); bodies and texts of
tools; the address checks of the file relay and the upload and download task lists;
the reading tools of the vault; migrations of the OAuth store; rendering. The confirmation that
`DispatchCatalogOp` asks for before a destructive call is one of the reasons for which a call may be
refused (`ToolSurface`), so `GateHolds` says nothing of it. `unpin --all` removes what its second
listing shows (`unpin_all.go:86`); nothing is stated of the difference from the count that was
confirmed. A POST that reads the address of its request while another writes it reads one of the
two addresses: a torn read of the string is left out.

*Not modelled.* Tunnel providers beyond "starts, fails, has an address", the hosted entry
point, host shims, schema texts and apps, CAR packing and readers, output and browser
helpers, mocks and build code: text, metadata, byte formats and wrappers around external
processes, with no state of their own.

## 7. Plan

Done so far: the hand-offs with the proofs about their endpoint; then the vault writes, the
commands, the server and the installer, composed in `MCCommands`, `MCServer`, `MCLinks` and
`MCVaultHandoffs`; the wizard's sign-in and the file tools.

The proofs about the endpoint, the two vault flows, both sign-ins, the registry, the account pages,
the vault writes, the server's lifetime, its tokens, tools, listings, file tools and session wizards,
the installer, the agents' files, the pin batches, the benchmark, the vault creates, the copies and
transfers, the terminal wizards, the catalogue commands and the watches are done, and so are the types
of the server and of the commands.

What is left: `CommandsReachable`, which needs induction over the tree.
