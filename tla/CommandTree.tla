---------------------------- MODULE CommandTree ----------------------------
(***************************************************************************)
(* How the flat list of catalogue operations becomes the nested `pinner`   *)
(* command tree (src/internal/clicatalog/shape.go with the shapes_*.go     *)
(* registries) and what the callers in src/internal/cli mount beside it.   *)
(* The compiler places one operation after the other and knows nothing of  *)
(* the names its siblings answer to: a leaf beside a parent of the same    *)
(* name, an alias taken twice or a hand-written command would silently     *)
(* hide a command, because the CLI runs the first child that has the name. *)
(***************************************************************************)
EXTENDS Integers, Sequences, FiniteSets, SequencesExt

CONSTANTS Domains   \* the domain roots that are compiled

VARIABLES
  domain,   \* the root under compilation
  placed,   \* how many operations of its registry have been placed
  nodes,    \* the tree: one record per parent or leaf, root excluded
  folds,    \* the operations to fold into a parent once all are placed
  phase     \* "sections" | "place" | "fold" | "done" | "panic"

treeVars == <<domain, placed, nodes, folds, phase>>

Op(path) == [path |-> path, aliases |-> {}, fold |-> FALSE, excluded |-> FALSE, order |-> 0]
Group(prefix, tokens) == [i \in DOMAIN tokens |-> Op(prefix \o <<tokens[i]>>)]
Aka(op, alias) == [op EXCEPT !.aliases = {alias}]
Folded(path) == [Op(path) EXCEPT !.fold = TRUE]

PinsShapes == <<Aka(Op(<<"pins", "list">>), "ls")>> \o Group(<<"pins">>, <<"add", "rm", "status", "update">>)
DNSShapes == Group(<<"dns", "zones">>, <<"list", "create", "get", "delete", "validate">>)
             \o Group(<<"dns", "records">>, <<"list", "create", "get", "update", "delete">>)
IPNSShapes == Group(<<"ipns", "keys">>, <<"list", "create", "get", "delete">>)
              \o Group(<<"ipns">>, <<"publish", "republish", "resolve">>)
OperationsShapes == <<Op(<<"operations", "get">>), [Op(<<"operations", "list">>) EXCEPT !.order = 1]>>
WorkspacesShapes == <<Aka(Op(<<"workspaces", "list">>), "ls")>>
                    \o Group(<<"workspaces">>, <<"create", "get", "attach", "suspend", "resume", "access", "delete">>)
AccountShapes == Group(<<"account">>, <<"info", "update_email", "update_password", "subscription", "quota">>)
                 \o <<[Op(<<"account", "otp_disable">>) EXCEPT !.excluded = TRUE]>>
APIKeysShapes == Group(<<"api-keys">>, <<"list", "create", "delete">>)
WebsitesShapes ==
  <<Aka(Op(<<"websites", "list">>), "ls"), Aka(Op(<<"websites", "enable_ipns">>), "ipns")>>
  \o Group(<<"websites">>, <<"get", "create", "update", "delete", "validate", "config">>)
  \o <<Op(<<"websites", "ssl", "status">>), Aka(Op(<<"websites", "domains", "list">>), "ls"),
       Op(<<"websites", "domains", "add">>), Aka(Op(<<"websites", "domains", "remove">>), "rm")>>
  \o Group(<<"websites", "domains">>, <<"verify", "dns_requirements", "convert_onchain", "update">>)
  \o <<Op(<<"websites", "domains", "dane", "republish">>)>>
  \o Group(<<"websites", "platform">>, <<"domains_list", "domain_availability">>)
VaultShapes ==
  Group(<<"vault">>, <<"status", "ls", "stat", "verify", "search", "rm", "sync", "profiles", "send", "forget">>)
  \o <<Folded(<<"vault", "flush">>), Folded(<<"vault", "share">>)>>
  \o Group(<<"vault", "version">>, <<"ls", "get", "restore">>) \o Group(<<"vault", "tag">>, <<"add", "rm", "set", "ls">>)
  \o <<Op(<<"vault", "flush", "status">>), Op(<<"vault", "share", "accept">>), Op(<<"vault", "profile", "use">>)>>
  \o Group(<<"vault", "cache">>, <<"rebuild", "clear">>)
QuotaShapes ==
  Group(<<"admin", "quota", "plans">>, <<"list", "get", "create", "update", "delete", "set-default">>)
  \o Group(<<"admin", "quota", "allowances">>, <<"list", "create", "update", "delete">>)
  \o Group(<<"admin", "quota", "user-configs">>, <<"list", "update", "reset">>)
  \o Group(<<"admin", "quota">>, <<"stats", "reconcile", "cleanup">>)
BillingShapes ==
  Group(<<"admin", "billing", "credits">>,
        <<"list", "get", "create", "delete", "restore", "purge", "user-balance", "user-deleted-credits">>)
  \o Group(<<"admin", "billing", "price-lines">>,
           <<"list", "get", "create", "update", "delete", "add-plan", "delete-plan", "update-plan-position">>)
  \o Group(<<"admin", "billing", "pricing-plans">>, <<"list", "get", "create", "update", "delete", "sync", "sync-all">>)
  \o Group(<<"admin", "billing", "pricing-plan-periods">>, <<"list", "get", "create", "update", "delete">>)
  \o Group(<<"admin", "billing", "subscribers">>,
           <<"list", "get", "list-gateway", "list-user", "cancel", "abort-cancel", "change-plan", "pause", "resume">>)
  \o <<Op(<<"admin", "billing", "overview">>)>>
AdminShapes ==
  Group(<<"admin", "platform-domains">>, <<"list", "register", "update", "delete", "bind">>)
  \o Group(<<"admin", "websites">>, <<"block", "unblock">>)
  \o Group(<<"admin", "social-providers">>, <<"list", "get", "create", "update", "delete", "enable", "disable">>)
  \o Group(<<"admin", "users">>, <<"list", "get", "verify", "create", "update", "delete">>)

ShapesOf(d) ==
  CASE d = "pins" -> PinsShapes [] d = "dns" -> DNSShapes [] d = "ipns" -> IPNSShapes
    [] d = "operations" -> OperationsShapes [] d = "workspaces" -> WorkspacesShapes
    [] d = "account" -> AccountShapes [] d = "api-keys" -> APIKeysShapes
    [] d = "websites" -> WebsitesShapes [] d = "vault" -> VaultShapes
    [] d = "admin" -> AdminShapes \o QuotaShapes \o BillingShapes

AdminSections == <<"quota", "billing", "websites", "platform-domains", "social-providers", "users">>

(* The name a segment of a path is displayed under, and its aliases.        *)
segmentFor(key) ==
  [name |-> IF key = <<"websites", "platform">> THEN "platform-domain" ELSE Last(key),
   aliases |-> IF key = <<"websites", "domains">> THEN {"domain"} ELSE {}]
Hyphens == [update_email |-> "update-email", update_password |-> "update-password",
            otp_disable |-> "otp-disable", enable_ipns |-> "enable-ipns",
            dns_requirements |-> "dns-requirements", convert_onchain |-> "convert-onchain",
            domains_list |-> "domains-list", domain_availability |-> "domain-availability"]
leafName(token) == IF token \in DOMAIN Hyphens THEN Hyphens[token] ELSE token

-----------------------------------------------------------------------------
Node(key, name, aliases, leaf, order, decl) ==
  [key |-> key, name |-> name, aliases |-> aliases, leaf |-> leaf, fold |-> 0, order |-> order, decl |-> decl]
Parents == {n \in nodes : n.leaf = 0}
Unmade(path) ==
  {i \in 2..Len(path) - 1 : ~\E n \in Parents : n.key = SubSeq(path, 1, i)}
Goes(p) == phase' = p /\ UNCHANGED domain

(* Sections are parents declared on the domain root itself.                 *)
DeclareSections ==
  /\ phase = "sections"
  /\ nodes' = IF domain = "admin"
              THEN {Node(<<"admin", AdminSections[i]>>, AdminSections[i], {}, 0, 0, i - 1) : i \in DOMAIN AdminSections}
              ELSE {}
  /\ Goes("place") /\ UNCHANGED <<placed, folds>>

PlaceWith(foldable) ==
  /\ phase = "place" /\ placed < Len(ShapesOf(domain))
  /\ LET op == ShapesOf(domain)[placed + 1]
         made == {LET key == SubSeq(op.path, 1, i)
                  IN Node(key, segmentFor(key).name, segmentFor(key).aliases, 0, 0, placed) : i \in Unmade(op.path)}
         leaf == Node(op.path, leafName(Last(op.path)), op.aliases, placed + 1, op.order, placed)
     IN IF op.excluded THEN UNCHANGED <<nodes, folds>>
        ELSE IF op.fold /\ foldable THEN folds' = Append(folds, placed + 1) /\ UNCHANGED nodes
        ELSE nodes' = nodes \cup made \cup {leaf} /\ UNCHANGED folds
  /\ placed' = placed + 1 /\ Goes(IF placed + 1 = Len(ShapesOf(domain)) THEN "fold" ELSE "place")

(* Planted mistake: an operation that folds into its parent is placed as a   *)
(* leaf of its own.                                                         *)
PlaceUnfolded == PlaceWith(FALSE)
PlaceOp == PlaceWith(TRUE)

(* A folded operation runs when its parent is called without a sub-command. *)
FoldOp ==
  /\ phase = "fold" /\ folds # <<>>
  /\ LET key == SubSeq(ShapesOf(domain)[Head(folds)].path, 1, 2)
         parent == {n \in Parents : n.key = key}
     IN IF parent = {} \/ \E n \in parent : n.fold # 0
        THEN Goes("panic") /\ UNCHANGED <<nodes, folds>>
        ELSE /\ nodes' = {IF n \in parent THEN [n EXCEPT !.fold = Head(folds)] ELSE n : n \in nodes}
             /\ folds' = Tail(folds) /\ Goes("fold")
  /\ UNCHANGED placed

(* The commands the callers append after (or, for account, before) the      *)
(* compiled ones; the domain wizard goes under the compiled `domains`.      *)
ByHand(path, decl) == Node(path, Last(path), {}, 1000, 0, decl)
HandWritten(d) ==
  CASE d = "vault" -> {ByHand(<<"vault", c>>, 900) : c \in {"create", "restore", "cp", "cat"}}
    [] d = "websites" -> {ByHand(<<"websites", "wizard">>, 900), ByHand(<<"websites", "domains", "wizard">>, 900)}
    [] d = "account" -> {[ByHand(<<"account", c>>, 0) EXCEPT !.order = -1] : c \in {"otp", "api-keys"}}
    [] d = "admin" -> {ByHand(<<"admin", "pprof">>, 900)}
    [] OTHER -> {}

Mount ==
  /\ phase = "fold" /\ folds = <<>>
  /\ nodes' = nodes \cup HandWritten(domain)
  /\ Goes("done") /\ UNCHANGED <<placed, folds>>

-----------------------------------------------------------------------------
(* The CLI walks the tree: the first child in display order that has the    *)
(* name, or an alias of it, is taken.                                       *)
Children(key) == {n \in nodes : Front(n.key) = key}
Earlier(m, n) == m.order < n.order \/ (m.order = n.order /\ m.decl < n.decl)
Answers(n, token) == token = n.name \/ token \in n.aliases
Taken(key, token) ==
  {n \in Children(key) : Answers(n, token) /\ \A m \in Children(key) : Answers(m, token) => ~Earlier(m, n)}
Names(n) == {n.name} \cup n.aliases

Reached(i) ==
  LET path == ShapesOf(domain)[i].path
  IN /\ \A k \in 2..Len(path) - 1 :
          \A p \in {n \in Parents : n.key = SubSeq(path, 1, k)} :
            \A t \in Names(p) : Taken(SubSeq(path, 1, k - 1), t) = {p}
     /\ \E n \in nodes : /\ n.key = path /\ i \in {n.leaf, n.fold}
                         /\ \A t \in Names(n) : Taken(Front(path), t) = {n}

(* Every operation of a domain that is not excluded can be run under each   *)
(* of its names, whatever was placed, folded or mounted beside it, and the  *)
(* compilation of the shipped registries never panics at start-up           *)
(* (CompileCommandTree, buildCLIParent and the callers that append).        *)
EveryCommandReachable ==
  /\ phase # "panic"
  /\ phase = "done" => \A i \in DOMAIN ShapesOf(domain) : ~ShapesOf(domain)[i].excluded => Reached(i)

-----------------------------------------------------------------------------
TreeInit ==
  /\ domain \in Domains
  /\ placed = 0 /\ nodes = {} /\ folds = <<>> /\ phase = "sections"

TreeNext == DeclareSections \/ PlaceOp \/ FoldOp \/ Mount
TreeSpec == TreeInit /\ [][TreeNext]_treeVars

TreeTypeOK ==
  /\ domain \in Domains /\ placed \in 0..Len(ShapesOf(domain))
  /\ phase \in {"sections", "place", "fold", "done", "panic"}
  /\ \A n \in nodes : Head(n.key) = domain /\ n.leaf \in 0..1000
  /\ \A i \in DOMAIN folds : ShapesOf(domain)[folds[i]].fold
=============================================================================
