----------------------------- MODULE OAuthFlow -----------------------------
(***************************************************************************)
(* The authorisation server of `pinner mcp --oauth`                        *)
(* (src/internal/mcp/auth/oauth.go, store.go and the wiring in             *)
(* adapter_tunnel.go): registration, the authorise page, the two token     *)
(* exchanges, the middleware in front of /mcp, a restart on the same       *)
(* database, and the tunnel that gives the server its public address once  *)
(* it is already listening.  The rules of codes, PKCE and rotation are the *)
(* oauth library's: external, modelled as oauth.go uses them.              *)
(***************************************************************************)
EXTENDS Naturals, FiniteSets

CONSTANTS
  OAuthClients,   \* MCP clients
  PublicAddresses,\* addresses a tunnel may give the server
  LocalAddress,   \* the loopback origin
  MaxGrants,      \* bound: codes and tokens ever issued
  MaxRestarts     \* bound: restarts of the server

VARIABLES
  baseURL,        \* BaseURL, "" while the process is down
  issuer,         \* the resource the library's issuer names
  registry,       \* resources registered with the library
  database,       \* the durable store: clients, codes, access and refresh tokens
  agreed,         \* history: client and resource the owner typed the secret for
  oauthReply,     \* the answer given last
  restarts        \* restarts so far

oauthVars == <<baseURL, issuer, registry, database, agreed, oauthReply, restarts>>

Origins == PublicAddresses \cup {LocalAddress}
Down == baseURL = ""
Reply(kind, token, resource) == [kind |-> kind, token |-> token, at |-> resource]
NoGrant == [id |-> 0, client |-> "", resource |-> "", fresh |-> FALSE]
Say(kind) == oauthReply' = Reply(kind, NoGrant, "")
Issued == database.codes \cup database.access \cup database.refresh
Room == Cardinality(Issued) < MaxGrants
GrantOf(id, client, resource) == [id |-> id, client |-> client, resource |-> resource, fresh |-> TRUE]
NewIds == CHOOSE p \in (1..(MaxGrants + 2)) \X (1..(MaxGrants + 2)) :
            p[1] < p[2] /\ \A g \in Issued : g.id \notin {p[1], p[2]}
Quiet == UNCHANGED <<baseURL, issuer, registry, agreed, restarts>>

mcpResourceURL == baseURL

-----------------------------------------------------------------------------
(* The store is opened, or created, and the server built on the listener's  *)
(* address; /mcp is registered as its resource.                             *)
OpenOAuthStore(db) == db
NewOAuthServer(addr) ==
  /\ baseURL' = addr /\ issuer' = addr
  /\ database' = OpenOAuthStore(database)
RegisterMCPResource(addr) == registry' = registry \cup {addr}
OAuthStart ==
  /\ Down /\ NewOAuthServer(LocalAddress) /\ registry' = {LocalAddress}
  /\ Say("") /\ UNCHANGED <<agreed, restarts>>

(* The tunnel is up: address, issuer and registered resource follow it.     *)
TunnelUp ==
  /\ baseURL = LocalAddress
  /\ \E addr \in PublicAddresses :
       baseURL' = addr /\ issuer' = addr /\ RegisterMCPResource(addr)
  /\ UNCHANGED <<database, agreed, oauthReply, restarts>>

(* The process ends and may be started again; the database stays.           *)
OAuthStop ==
  /\ ~Down /\ restarts < MaxRestarts
  /\ baseURL' = "" /\ issuer' = "" /\ registry' = {} /\ restarts' = restarts + 1
  /\ Say("") /\ UNCHANGED <<database, agreed>>

-----------------------------------------------------------------------------
(* Discovery: the metadata name the current address.                        *)
AsMetadataHandler == ~Down /\ oauthReply' = Reply("metadata", NoGrant, issuer) /\ UNCHANGED database /\ Quiet
ProtectedResourceHandler ==
  /\ ~Down /\ oauthReply' = Reply("resource", NoGrant, mcpResourceURL) /\ UNCHANGED database /\ Quiet

(* A client registers itself.                                               *)
RegisterHandler(c) ==
  /\ ~Down
  /\ \/ database' = [database EXCEPT !.clients = @ \cup {c}] /\ Say("registered")
     \/ Say("bad metadata") /\ UNCHANGED database
  /\ Quiet

(* The library's check of an authorise request: a known client, and a       *)
(* resource of this server.                                                 *)
validateAuthorizeQuery(c, r) == c \in database.clients /\ r \in registry \cup {issuer}

AuthorizeGET(c, r) ==
  /\ ~Down
  /\ Say(IF validateAuthorizeQuery(c, r) THEN "page" ELSE "bad request")
  /\ UNCHANGED database /\ Quiet

(* The owner's secret first, then the request, then the code.               *)
AuthorizePOST(c, r, secretRight) ==
  /\ ~Down
  /\ CASE ~secretRight -> Say("page again") /\ UNCHANGED <<database, agreed>>
       [] secretRight /\ ~validateAuthorizeQuery(c, r) -> Say("bad request") /\ UNCHANGED <<database, agreed>>
       [] OTHER ->
            /\ Room /\ Say("redirect")
            /\ database' = [database EXCEPT !.codes = @ \cup {GrantOf(NewIds[1], c, r)}]
            /\ agreed' = agreed \cup {<<c, r>>}
  /\ UNCHANGED <<baseURL, issuer, registry, restarts>>

(* A code buys one access and one refresh token, for its client and its     *)
(* resource (one of this server's), with the verifier of its challenge.     *)
OwnResource(g) == g.resource \in registry \cup {issuer}
exchangeCode(c, g, verified) ==
  /\ ~Down /\ g \in database.codes
  /\ IF g.fresh /\ g.client = c /\ verified /\ OwnResource(g)
     THEN /\ Room
          /\ database' = [database EXCEPT
                            !.codes = (@ \ {g}) \cup {[g EXCEPT !.fresh = FALSE]},
                            !.access = @ \cup {GrantOf(NewIds[1], c, g.resource)},
                            !.refresh = @ \cup {GrantOf(NewIds[2], c, g.resource)}]
          /\ Say("tokens")
     ELSE Say("invalid grant") /\ UNCHANGED database
  /\ Quiet

(* A refresh token buys a new access token; presented again within the      *)
(* reuse window it is accepted again.                                       *)
exchangeRefreshToken(g) ==
  /\ ~Down /\ g \in database.refresh
  /\ IF g.fresh /\ OwnResource(g)
     THEN /\ Room /\ Say("tokens")
          /\ database' = [database EXCEPT !.access = @ \cup {GrantOf(NewIds[1], g.client, g.resource)}]
     ELSE Say("invalid grant") /\ UNCHANGED database
  /\ Quiet

(* Codes and tokens expire; the reaper drops what has expired.              *)
Lapse ==
  /\ \E g \in database.access :
       database' = [database EXCEPT !.access = (@ \ {g}) \cup {[g EXCEPT !.fresh = FALSE]}]
  /\ UNCHANGED oauthReply /\ Quiet
reapLocked ==
  /\ ~Down
  /\ database' = [database EXCEPT !.codes = {g \in @ : g.fresh}, !.access = {g \in @ : g.fresh}]
  /\ UNCHANGED oauthReply /\ Quiet

-----------------------------------------------------------------------------
(* /mcp: the token must be known, unexpired and issued for this server.     *)
\* Mutant: any token of the database is accepted.
AudienceBlind(t) == t \in database.access /\ t.fresh
validTokenInfo(t) == t \in database.access /\ t.fresh /\ t.resource = mcpResourceURL

(* A rejection becomes an invalid_token challenge; a handler's own 401      *)
(* passes through.                                                          *)
\* Mutant: every 401 is made a challenge.
Every401(rejected) == TRUE
isOAuthBearerFailure(rejected) == rejected
WriteHeader(t, rejected) ==
  oauthReply' = Reply(IF isOAuthBearerFailure(rejected) THEN "challenge" ELSE "unauthorized", t, mcpResourceURL)
OfficialMiddleware(t) ==
  /\ ~Down
  /\ IF validTokenInfo(t)
     THEN \/ oauthReply' = Reply("served", t, mcpResourceURL)
          \/ WriteHeader(t, FALSE)
     ELSE WriteHeader(t, TRUE)
  /\ UNCHANGED database /\ Quiet

OAuthInit ==
  /\ baseURL = "" /\ issuer = "" /\ registry = {} /\ restarts = 0
  /\ database = [clients |-> {}, codes |-> {}, access |-> {}, refresh |-> {}]
  /\ agreed = {} /\ oauthReply = Reply("", NoGrant, "")
OAuthNext ==
  \/ OAuthStart \/ TunnelUp \/ OAuthStop
  \/ AsMetadataHandler \/ ProtectedResourceHandler
  \/ \E c \in OAuthClients :
       \/ RegisterHandler(c)
       \/ \E r \in Origins : AuthorizeGET(c, r) \/ \E s \in BOOLEAN : AuthorizePOST(c, r, s)
       \/ \E g \in database.codes, v \in BOOLEAN : exchangeCode(c, g, v)
  \/ \E g \in database.refresh : exchangeRefreshToken(g)
  \/ \E t \in database.access \cup database.refresh \cup {NoGrant} : OfficialMiddleware(t)
  \/ Lapse \/ reapLocked
OAuthSpec == OAuthInit /\ [][OAuthNext]_oauthVars

-----------------------------------------------------------------------------
(* Every variable keeps its type.                                           *)
OAuthTypeOK ==
  /\ baseURL \in Origins \cup {""} /\ issuer \in Origins \cup {""}
  /\ registry \subseteq Origins /\ agreed \subseteq OAuthClients \X Origins
  /\ database.clients \subseteq OAuthClients /\ Cardinality(Issued) <= MaxGrants + 1

(* A request is served only for a client and a resource the owner typed the *)
(* secret for, on the address the server had when it was served; and a      *)
(* client is told its token is invalid only when it is, so that it never    *)
(* throws a good one away because a tool answered 401.                      *)
OnlyAuthorised ==
  LET t == oauthReply.token IN
    /\ oauthReply.kind = "served" => <<t.client, t.resource>> \in agreed /\ t.resource = oauthReply.at
    /\ oauthReply.kind = "challenge" /\ t \in database.access /\ t.fresh => t.resource # oauthReply.at

(* adapter_tunnel.go:550-553, the "resume-after-restart guarantee": "a      *)
(* still-valid 24h access token survives a restart".  Once the server is    *)
(* back on a public address, it accepts every unexpired token it issued     *)
(* on a public address.                                                     *)
SurvivesRestart ==
  baseURL \in PublicAddresses =>
    \A t \in database.access : t.fresh /\ t.resource \in PublicAddresses => validTokenInfo(t)
=============================================================================
