------------------------------ MODULE ServerRun ------------------------------
(***************************************************************************)
(* `pinner mcp` from its flags to its exit (internal/mcp/adapter_tunnel.go  *)
(* MCPCommand and serveHTTP): the startup server, the background vault sync *)
(* (adapter.go startVaultSync), the listener, the tunnel, the base URL of   *)
(* the hand-off coordinators (core/transport/loopback.go), the OAuth issuer,*)
(* and the servers per host (host_server_cache.go).  Requests come in as    *)
(* soon as the listener is served, which is before the tunnel is up.        *)
(***************************************************************************)
EXTENDS Naturals, FiniteSets

CONSTANTS Hosts,           \* host types the detector knows
          Visits,          \* requests to /mcp
          NoVisit,
          Coordinators     \* sign-in, seed, restore, create, account, uploads, download

VARIABLES
  opts, boot,              \* the flags; the step the command has reached
  listener, serving,       \* the port; the goroutine in httpSrv.Serve
  tun, base, own,          \* the tunnel; per coordinator: its base URL, and
                           \*   whether it listens on a port of its own
  guard, issuer,           \* what /mcp asks for; the OAuth issuer
  sync, cancelled,         \* the sync scheduler; the context is done
  cache, calls, mutex,     \* servers by host; calls of the factory; c.mu
  visit, from, server      \* per request: its step, host and server

setup   == <<opts, boot>>
front   == <<listener, serving, tun, base, own, guard, issuer>>
sharing == <<cache, calls, mutex>>
visits  == <<visit, from, server>>
serveVars == <<setup, front, sync, cancelled, sharing, visits>>

Modes == {"stdio", "openai", "http"}
Flags == {o \in [mode : Modes, tunnel : BOOLEAN, url : BOOLEAN,
                 token : BOOLEAN, oauth : BOOLEAN] :
            o.mode # "http" => ~o.tunnel /\ ~o.url /\ ~o.token /\ ~o.oauth}

ServeInit ==
  /\ opts \in {o \in Flags : o.mode = "stdio"} /\ boot = "flags"
  /\ listener = "closed" /\ serving = FALSE /\ tun = "none"
  /\ base = [c \in Coordinators |-> "none"] /\ own = {}
  /\ guard = "none" /\ issuer = "none" /\ sync = "off" /\ cancelled = FALSE
  /\ cache = [h \in Hosts |-> "none"] /\ calls = [h \in Hosts |-> 0] /\ mutex = NoVisit
  /\ visit = [v \in Visits |-> "none"] /\ from \in [Visits -> Hosts]
  /\ server = [v \in Visits |-> "none"]

Boot(s, t) == boot = s /\ boot' = t
Return == boot' = "returned" /\ listener' = "closed"

-----------------------------------------------------------------------------
(* The catalogue and the startup server are built; then the sync scheduler  *)
(* starts, unless it is not wired or its interval is 0.                     *)
Assemble ==
  /\ boot = "flags" /\ opts' \in Flags /\ boot' \in {"sync", "returned"}
  /\ UNCHANGED <<front, sync, cancelled, sharing, visits>>

StartVaultSync ==
  /\ Boot("sync", IF opts.mode = "http" THEN "bind" ELSE opts.mode)
  /\ sync' \in {"off", "idle"}
  /\ UNCHANGED <<opts, front, cancelled, sharing, visits>>

Tick ==
  /\ boot # "returned"
  /\ \/ sync = "idle" /\ ~cancelled /\ sync' = "tick"
     \/ sync = "tick" /\ sync' = "idle"
  /\ UNCHANGED <<setup, front, cancelled, sharing, visits>>

(* The goroutine that waits for the context; sched.Shutdown waits for the   *)
(* tick in flight.                                                          *)
CloseSync ==
  /\ boot # "returned" /\ cancelled /\ sync = "idle" /\ sync' = "closed"
  /\ UNCHANGED <<setup, front, cancelled, sharing, visits>>

Cancel ==
  /\ ~cancelled /\ boot # "returned" /\ cancelled' = TRUE
  /\ UNCHANGED <<setup, front, sync, sharing, visits>>

(* RunStdio, and the embedded OpenAI tunnel, end with the context, with the *)
(* client, or because the tunnel does not start.                            *)
EndStream ==
  /\ boot \in {"stdio", "openai"} /\ Return
  /\ UNCHANGED <<opts, serving, tun, base, own, guard, issuer, sync, cancelled,
                 sharing, visits>>

-----------------------------------------------------------------------------
(* serveHTTP before it serves: an error returns and closes the listener.    *)
GiveUp ==
  /\ boot \in {"bind", "tunnel", "base", "oauth"} /\ Return
  /\ UNCHANGED <<opts, serving, tun, base, own, guard, issuer, sync, cancelled,
                 sharing, visits>>

Bind ==
  /\ Boot("bind", "tunnel") /\ listener' = "open"
  /\ UNCHANGED <<opts, serving, tun, base, own, guard, issuer, sync, cancelled,
                 sharing, visits>>

(* A tunnel needs its credentials and an --auth-token. *)
BuildTunnel ==
  /\ Boot("tunnel", "base")
  /\ opts.tunnel => opts.token
  /\ tun' = IF opts.tunnel THEN "built" ELSE "none"
  /\ UNCHANGED <<opts, listener, serving, base, own, guard, issuer, sync, cancelled,
                 sharing, visits>>

(* Mutant: only a public address is handed to the coordinators. *)
SetBaseIfPublic ==
  /\ Boot("base", "oauth")
  /\ base' = [c \in Coordinators |-> IF opts.url THEN "public" ELSE base[c]]
  /\ UNCHANGED <<opts, listener, serving, tun, own, guard, issuer, sync, cancelled,
                 sharing, visits>>

SetBaseURL ==
  /\ Boot("base", "oauth")
  /\ base' = [c \in Coordinators |-> IF opts.url THEN "public" ELSE "local"]
  /\ UNCHANGED <<opts, listener, serving, tun, own, guard, issuer, sync, cancelled,
                 sharing, visits>>

(* --oauth without a token uses a stored or a generated secret, which is not*)
(* allowed with a tunnel or a public URL.                                   *)
OpenOAuth ==
  /\ Boot("oauth", "serve")
  /\ opts.oauth /\ ~opts.token => tun = "none" /\ ~opts.url
  /\ guard' = CASE opts.oauth -> "oauth" [] opts.token -> "bearer" [] OTHER -> "none"
  /\ issuer' = CASE ~opts.oauth -> "none" [] opts.url -> "public" [] OTHER -> "local"
  /\ UNCHANGED <<opts, listener, serving, tun, base, own, sync, cancelled, sharing,
                 visits>>

Serve ==
  /\ Boot("serve", IF tun = "built" THEN "account" ELSE "ready")
  /\ serving' = TRUE
  /\ UNCHANGED <<opts, listener, tun, base, own, guard, issuer, sync, cancelled,
                 sharing, visits>>

-----------------------------------------------------------------------------
(* The tunnel comes up while requests are served.  Every step may fail, and *)
(* then the server is shut down.                                            *)
StepTunnel(s, t, state) ==
  /\ Boot(s, t) /\ tun' = state
  /\ UNCHANGED <<opts, listener, serving, base, own, guard, issuer, sync, cancelled,
                 sharing, visits>>

CheckAccount == StepTunnel("account", "start", "built")
StartTunnel  == StepTunnel("start", "url", "up")
TunnelURL    == StepTunnel("url", "rebase", "up")

(* Each coordinator has its own lock. *)
Rebase(c) ==
  /\ boot = "rebase" /\ base[c] # "tunnel"
  /\ base' = [base EXCEPT ![c] = "tunnel"]
  /\ boot' = IF \A d \in Coordinators \ {c} : base[d] = "tunnel" THEN "issuer" ELSE boot
  /\ UNCHANGED <<opts, listener, serving, tun, own, guard, issuer, sync, cancelled,
                 sharing, visits>>

(* OAuthBaseURL prefers the public URL, if there is one. *)
Repoint ==
  /\ Boot("issuer", "ready")
  /\ issuer' = CASE ~opts.oauth -> "none" [] opts.url -> "public" [] OTHER -> "tunnel"
  /\ UNCHANGED <<opts, listener, serving, tun, base, own, guard, sync, cancelled,
                 sharing, visits>>

FailTunnel ==
  /\ boot \in {"account", "start", "url", "rebase", "issuer"} /\ boot' = "stop"
  /\ UNCHANGED <<opts, front, sync, cancelled, sharing, visits>>

(* httpSrv.Serve fails; the select in serveHTTP sees it when it gets there. *)
ServeFails ==
  /\ serving /\ boot # "returned" /\ serving' = FALSE
  /\ UNCHANGED <<setup, listener, tun, base, own, guard, issuer, sync, cancelled,
                 sharing, visits>>

BeginShutdown ==
  /\ boot = "ready" /\ (cancelled \/ ~serving) /\ boot' = "stop"
  /\ UNCHANGED <<opts, front, sync, cancelled, sharing, visits>>

(* Mutant: an exit that leaves the tunnel to the process. *)
StopServerOnly ==
  /\ boot = "stop" /\ serving' = FALSE /\ Return
  /\ UNCHANGED <<opts, tun, base, own, guard, issuer, sync, cancelled, sharing, visits>>

(* The coordinators' and the tunnel's Stop, then httpSrv.Shutdown. *)
Shutdown ==
  /\ \/ /\ boot = "stop" /\ boot' = "drain" /\ UNCHANGED <<listener, serving>>
        /\ tun' = IF tun = "none" THEN tun ELSE "stopped"
     \/ boot = "drain" /\ serving' = FALSE /\ Return /\ UNCHANGED tun
  /\ UNCHANGED <<opts, base, own, guard, issuer, sync, cancelled, sharing, visits>>

-----------------------------------------------------------------------------
(* A request: hostServerCache.Get, and a tool that mints a hand-off link.   *)
Go(v, s) == visit' = [visit EXCEPT ![v] = s]
Give(v, s) == Go(v, "served") /\ server' = [server EXCEPT ![v] = s]

(* A stream has one server and no cache. *)
Stream(v) ==
  /\ boot \in {"stdio", "openai"} /\ visit[v] = "none" /\ Give(v, "startup")
  /\ UNCHANGED <<setup, front, sync, cancelled, sharing, from>>

Arrive(v) ==
  /\ serving /\ listener = "open" /\ visit[v] = "none" /\ mutex = NoVisit
  /\ IF cache[from[v]] # "none" THEN Give(v, cache[from[v]])
                                ELSE Go(v, "missed") /\ UNCHANGED server
  /\ UNCHANGED <<setup, front, sync, cancelled, sharing, from>>

(* Mutant: no second look under the write lock. *)
LockBlindly(v) ==
  /\ visit[v] = "missed" /\ mutex = NoVisit
  /\ mutex' = v /\ Go(v, "build") /\ UNCHANGED server
  /\ UNCHANGED <<setup, front, sync, cancelled, cache, calls, from>>

Lock(v) ==
  /\ visit[v] = "missed" /\ mutex = NoVisit
  /\ IF cache[from[v]] # "none"
       THEN Give(v, cache[from[v]]) /\ UNCHANGED mutex
       ELSE mutex' = v /\ Go(v, "build") /\ UNCHANGED server
  /\ UNCHANGED <<setup, front, sync, cancelled, cache, calls, from>>

(* The factory: the startup server when the host needs no other listing and *)
(* when the assembly fails, else a server of the host's own.                *)
Build(v) ==
  /\ visit[v] = "build" /\ mutex' = NoVisit
  /\ calls' = [calls EXCEPT ![from[v]] = @ + 1]
  /\ \E s \in {"startup", "own"} :
       Give(v, s) /\ cache' = [cache EXCEPT ![from[v]] = s]
  /\ UNCHANGED <<setup, front, sync, cancelled, from>>

(* EnsureLoopback: a port of its own for a coordinator without a base URL.  *)
MintLink(v, c) ==
  /\ visit[v] = "served" /\ boot # "returned" /\ base[c] = "none"
  /\ own' = own \cup {c}
  /\ UNCHANGED <<setup, listener, serving, tun, base, guard, issuer, sync, cancelled,
                 sharing, visits>>

-----------------------------------------------------------------------------
Startup ==
  \/ Assemble \/ StartVaultSync \/ Bind \/ BuildTunnel \/ SetBaseURL \/ OpenOAuth
  \/ Serve \/ CheckAccount \/ StartTunnel \/ TunnelURL \/ Repoint
  \/ \E c \in Coordinators : Rebase(c)

ServeNext ==
  \/ Startup \/ GiveUp \/ FailTunnel \/ EndStream \/ ServeFails
  \/ BeginShutdown \/ Shutdown \/ Tick \/ CloseSync \/ Cancel
  \/ \E v \in Visits :
       \/ Stream(v) \/ Arrive(v) \/ Lock(v) \/ Build(v)
       \/ \E c \in Coordinators : MintLink(v, c)

ServeSpec == ServeInit /\ [][ServeNext]_serveVars

ServeTypeOK ==
  /\ opts \in Flags /\ listener \in {"open", "closed"} /\ serving \in BOOLEAN
  /\ tun \in {"none", "built", "up", "stopped"}
  /\ base \in [Coordinators -> {"none", "local", "public", "tunnel"}]
  /\ own \subseteq Coordinators
  /\ guard \in {"none", "bearer", "oauth"} /\ issuer \in {"none", "local", "public", "tunnel"}
  /\ sync \in {"off", "idle", "tick", "closed"}
  /\ cache \in [Hosts -> {"none", "startup", "own"}] /\ mutex \in Visits \cup {NoVisit}
  /\ visit \in [Visits -> {"none", "missed", "build", "served"}]
  /\ server \in [Visits -> {"none", "startup", "own"}]

(* A server that starts, serves and stops in any interleaving with its      *)
(* requests (adapter_tunnel.go:439-468, :475-518, :707-744, :777-840;       *)
(* host_server_cache.go:34-36; loopback.go:25-27):                          *)
(*  - the factory is called at most once per host type, and all requests of *)
(*    one host get the same server;                                         *)
(*  - over HTTP no coordinator opens a port of its own;                     *)
(*  - the tunnel is never up while /mcp asks for nothing;                   *)
(*  - a server that is ready hands out links and an issuer at the address   *)
(*    it advertises, and none at an earlier one;                            *)
(*  - when the command has returned, port and tunnel are closed.            *)
Address == IF tun = "up" THEN "tunnel" ELSE IF opts.url THEN "public" ELSE "local"

ServesAsAdvertised ==
  /\ \A h \in Hosts : calls[h] <= 1
  /\ \A v, w \in Visits : server[v] # "none" /\ server[w] # "none" /\ from[v] = from[w]
                            => server[v] = server[w]
  /\ opts.mode = "http" => own = {}
  /\ tun = "up" => guard # "none"
  /\ boot = "ready" => /\ \A c \in Coordinators : base[c] = Address
                       /\ opts.oauth /\ ~opts.url => issuer = Address
  /\ boot = "returned" => listener = "closed" /\ tun # "up"

(* adapter_tunnel.go:384-387 "The returned shutdown (cancels the loop's     *)
(* context and waits for any in-flight tick to finish) is deferred so a     *)
(* signal-driven server exit does not leak a running sync goroutine."       *)
(* Violated: startVaultSync returns no shutdown, and nothing waits for it.  *)
SyncStopsFirst == boot = "returned" /\ cancelled => sync # "tick"
=============================================================================
