---------------------------- MODULE Credentials ----------------------------
(***************************************************************************)
(* Which credential the requests of a command carry, and what a transfer   *)
(* leaves behind: `pinner auth`, `upload`, `download`, `cat`, `ls`, the    *)
(* pin commands, `status`, `bench` and the catalogue domains               *)
(* (src/internal/cli/auth.go, config.go, register.go, upload.go,           *)
(* upload_client.go, download.go, download_client.go and the *_wiring.go   *)
(* files).  Commands of one user run one after the other; the service and  *)
(* another client of the account act at any time.  A token is the account  *)
(* it belongs to and whether it is an API key or a login token.            *)
(***************************************************************************)
EXTENDS Naturals, FiniteSets

CONSTANTS
  Invocations,   \* the command lines: name, token, force, dry, wait, meta, path
  MaxCommands,   \* bound: commands in a row
  MaxProbes      \* pin checks of a waiting upload (ten in the code)

VARIABLES
  storedToken,   \* the token of the configuration file
  invocation,    \* the command line being run
  stageOf,       \* where the command is
  sentWith,      \* the tokens its requests carried: [for, token]
  remoteOp,      \* the service's operations for the content: older and newer
  remotePin,     \* the pin of the content
  takenAway,     \* another client removed the pin during this command
  localFile,     \* the file at the output path: what the command found, what is there
  verdict,       \* how the last command ended
  probes,        \* pin checks left
  commands       \* commands run so far

credVars == <<storedToken, invocation, stageOf, sentWith, remoteOp, remotePin,
              takenAway, localFile, verdict, probes, commands>>

NoToken == [account |-> "", kind |-> ""]
TokenKinds == {"api", "login"}
TokensOf(a) == [account : {a}, kind : TokenKinds]
NoInvocation == [name |-> "", token |-> NoToken, force |-> FALSE, dry |-> FALSE,
                 wait |-> FALSE, meta |-> FALSE, path |-> ""]
world == <<remoteOp, remotePin, takenAway>>

-----------------------------------------------------------------------------
(* The credential of a command: the flag, else the configuration.           *)
GetAuthToken == IF invocation.token # NoToken THEN invocation.token ELSE storedToken
ConfigToken == storedToken

(* The dependencies of the catalogue domains take the flag when the adapter *)
(* passes it on; the admin and vault domains never see it.                  *)
PinsToken == GetAuthToken
DNSToken == GetAuthToken
IPNSToken == GetAuthToken
APIKeysToken == GetAuthToken
OperationsToken == GetAuthToken
WebsitesToken == GetAuthToken
WorkspacesToken == GetAuthToken
AccountToken == GetAuthToken
AdminToken == ConfigToken
DomainToken ==
  [pins |-> PinsToken, dns |-> DNSToken, ipns |-> IPNSToken, websites |-> WebsitesToken,
   apikeys |-> APIKeysToken, operations |-> OperationsToken,
   workspaces |-> WorkspacesToken, account |-> AccountToken, admin |-> AdminToken]

(* The services of the direct commands.                                     *)
PinServiceToken == GetAuthToken
UploadToken == ConfigToken
DownloadToken == GetAuthToken

Sends(what, token) == sentWith' = sentWith \cup {[for |-> what, token |-> token]}
Ends(how) == verdict' = how /\ stageOf' = "ended"
GoesTo(s) == stageOf' = s /\ UNCHANGED verdict
In(s, names) == stageOf = s /\ invocation.name \in names

(* An API key is exchanged for a login token of its account, which may      *)
(* fail; any other token is used as it is.                                  *)
exchangeIfAPIKey(token) ==
  IF token.kind = "api" THEN {[token EXCEPT !.kind = "login"], NoToken} ELSE {token}

-----------------------------------------------------------------------------
(* A command starts: the configuration is loaded.                           *)
newCommandContext(i) ==
  /\ stageOf \in {"idle", "ended"} /\ commands < MaxCommands
  /\ invocation' = i /\ stageOf' = "start" /\ sentWith' = {} /\ verdict' = ""
  /\ commands' = commands + 1 /\ probes' = MaxProbes
  /\ \E f \in {"absent", "old"} : localFile' = [found |-> f, now |-> f]
  /\ takenAway' = FALSE
  /\ UNCHANGED <<storedToken, remoteOp, remotePin>>

(* A catalogue command: one service, or the domain's sign-in error.         *)
CatalogueCommand ==
  /\ stageOf = "start" /\ invocation.name \in DOMAIN DomainToken
  /\ LET token == DomainToken[invocation.name] IN
       IF token = NoToken
       THEN Ends("not_authenticated") /\ UNCHANGED sentWith
       ELSE Sends("service", token) /\ Ends("ok")
  /\ UNCHANGED <<storedToken, invocation, world, localFile, probes, commands>>

(* pin, unpin, unpin-all and list: the pinning service refuses to start     *)
(* without a token.                                                         *)
PinCommand ==
  /\ In("start", {"pin"})
  /\ IF PinServiceToken = NoToken
     THEN Ends("not_authenticated") /\ UNCHANGED sentWith
     ELSE Sends("pins", PinServiceToken) /\ Ends("ok")
  /\ UNCHANGED <<storedToken, invocation, world, localFile, probes, commands>>

(* status asks for the pin first; without one it falls back to the          *)
(* operations of the account, through a service of its own.                 *)
StatusCommand ==
  /\ In("start", {"status"})
  /\ IF PinServiceToken = NoToken
     THEN Ends("not_authenticated") /\ UNCHANGED sentWith
     ELSE IF remotePin # "none"
     THEN Sends("pins", PinServiceToken) /\ Ends("ok")
     ELSE sentWith' = {[for |-> "pins", token |-> PinServiceToken]}
                        \cup {[for |-> "operations", token |-> t] : t \in {ConfigToken} \ {NoToken}}
          /\ Ends(IF ConfigToken = NoToken \/ DOMAIN remoteOp = {} THEN "failed" ELSE "ok")
  /\ UNCHANGED <<storedToken, invocation, world, localFile, probes, commands>>

(* bench uploads and polls operations with the stored token, and lists and  *)
(* removes its pins with the flag's.                                        *)
BenchCommand ==
  /\ In("start", {"bench"})
  /\ IF ConfigToken = NoToken
     THEN Ends("not_authenticated") /\ UNCHANGED sentWith
     ELSE sentWith' = {[for |-> "bytes", token |-> UploadToken], [for |-> "operations", token |-> ConfigToken],
                       [for |-> "pins", token |-> PinServiceToken]} /\ Ends("ok")
  /\ UNCHANGED <<storedToken, invocation, world, localFile, probes, commands>>

-----------------------------------------------------------------------------
(* pinner upload.                                                           *)
resolveUploadInput ==
  /\ In("start", {"upload"})
  /\ \/ invocation.path = "" /\ Ends("no_path")
     \/ invocation.path # "" /\ (Ends("unreadable") \/ GoesTo("input"))
  /\ UNCHANGED <<storedToken, invocation, sentWith, world, localFile, probes, commands>>
handleUpload ==
  /\ In("input", {"upload"})
  /\ IF invocation.dry THEN Ends("dry") ELSE GoesTo("upload")
  /\ UNCHANGED <<storedToken, invocation, sentWith, world, localFile, probes, commands>>

(* The bytes go up: the service has a new operation for them, after those   *)
(* of earlier uploads of the same content.                                  *)
UploadTaken(token) ==
  /\ Sends("bytes", token)
  /\ remoteOp' = [o \in DOMAIN remoteOp \cup {IF DOMAIN remoteOp = {} THEN "older" ELSE "newer"} |->
                    IF o \in DOMAIN remoteOp /\ DOMAIN remoteOp = {"older"} THEN remoteOp[o] ELSE "running"]
  /\ IF invocation.wait THEN GoesTo("find") ELSE GoesTo("meta")
  /\ UNCHANGED <<remotePin, takenAway>>
UploadSpurned(token) == Sends("bytes", token) /\ Ends("failed") /\ UNCHANGED world
Upload ==
  /\ In("upload", {"upload"})
  /\ IF UploadToken = NoToken
     THEN Ends("not_authenticated") /\ UNCHANGED <<sentWith, world>>
     ELSE \E t \in exchangeIfAPIKey(UploadToken) :
            IF t = NoToken THEN Ends("failed") /\ UNCHANGED <<sentWith, world>>
            ELSE UploadTaken(t) \/ UploadSpurned(t)
  /\ UNCHANGED <<storedToken, invocation, localFile, probes, commands>>

(* The first operation the account lists for the content, then its end,     *)
(* then the pin, asked for up to MaxProbes times.  A pin that does not      *)
(* exist yet is waited for while an operation is listed.                    *)
Listed1 == IF "older" \in DOMAIN remoteOp THEN "older" ELSE "newer"
waitForPin ==
  /\ In("find", {"upload"})
  /\ IF DOMAIN remoteOp = {} THEN Ends("failed") ELSE GoesTo("settle")
  /\ UNCHANGED <<storedToken, invocation, sentWith, world, localFile, probes, commands>>
waitForOperation ==
  /\ In("settle", {"upload"}) /\ remoteOp[Listed1] # "running"
  /\ IF remoteOp[Listed1] = "completed" THEN GoesTo("verify") ELSE Ends("failed")
  /\ UNCHANGED <<storedToken, invocation, sentWith, world, localFile, probes, commands>>
\* Mutant: a finished operation is taken for a pin.
OperationIsEnough(p) == TRUE
IsPinned(p) == p = "pinned"
verifyPin ==
  /\ In("verify", {"upload"})
  /\ Sends("pins", ConfigToken)
  /\ IF IsPinned(remotePin) THEN GoesTo("meta") /\ UNCHANGED probes
     ELSE /\ probes' = probes - 1
          /\ IF probes = 1 THEN Ends("failed") ELSE GoesTo("verify")
  /\ UNCHANGED <<storedToken, invocation, world, localFile, commands>>

(* The metadata of the new pin, set with the flag's token and under the     *)
(* deadline of the whole command.                                           *)
updateUploadMetadata ==
  /\ In("meta", {"upload"})
  /\ IF invocation.meta
     THEN Sends("metadata", PinServiceToken) /\ (Ends("ok") \/ Ends("failed"))
     ELSE Ends("ok") /\ UNCHANGED sentWith
  /\ UNCHANGED <<storedToken, invocation, world, localFile, probes, commands>>

(* Ctrl+C ends a waiting command; its own timeout ends the wait.            *)
WaitCutShort ==
  /\ stageOf \in {"find", "settle", "verify"} /\ Ends("failed")
  /\ UNCHANGED <<storedToken, invocation, sentWith, world, localFile, probes, commands>>

-----------------------------------------------------------------------------
(* pinner download, cat and ls.                                             *)
handleDownload ==
  /\ In("start", {"download", "cat", "ls"})
  /\ IF invocation.path = "" THEN Ends("no_path")
     ELSE IF invocation.dry /\ invocation.name = "download" THEN Ends("dry")
     ELSE IF DownloadToken = NoToken THEN Ends("not_authenticated")
     ELSE GoesTo("service")
  /\ UNCHANGED <<storedToken, invocation, sentWith, world, localFile, probes, commands>>
newSDKDownloadService ==
  /\ In("service", {"download", "cat", "ls"})
  /\ \E t \in exchangeIfAPIKey(DownloadToken) :
       IF t = NoToken THEN Ends("failed") /\ UNCHANGED sentWith
       ELSE Sends("content", t) /\ GoesTo("open")
  /\ UNCHANGED <<storedToken, invocation, world, localFile, probes, commands>>

Kept == UNCHANGED localFile
FileInTheWay == localFile.found # "absent" /\ ~invocation.force
(* Download: an existing file needs --force; the file is created only when  *)
(* the content has been opened, and removed when the copy breaks.           *)
DownloadOpen ==
  /\ In("open", {"download"})
  /\ IF FileInTheWay THEN Ends("file_exists") /\ Kept
     ELSE \/ Ends("failed") /\ Kept
          \/ GoesTo("copy") /\ localFile' = [localFile EXCEPT !.now = "partial"]
  /\ UNCHANGED <<storedToken, invocation, sentWith, world, probes, commands>>
\* Mutant: a broken copy leaves what was written.
LeftBehind == "partial"
AfterBrokenCopy == "absent"
Download ==
  /\ In("copy", {"download"})
  /\ \/ localFile' = [localFile EXCEPT !.now = "new"] /\ Ends("ok")
     \/ localFile' = [localFile EXCEPT !.now = AfterBrokenCopy] /\ Ends("failed")
  /\ UNCHANGED <<storedToken, invocation, sentWith, world, probes, commands>>

Cat ==
  /\ In("open", {"cat"}) /\ (Ends("ok") \/ Ends("failed")) /\ Kept
  /\ UNCHANGED <<storedToken, invocation, sentWith, world, probes, commands>>
(* ls falls back to the entry of the file itself when it is no directory.   *)
listFileEntry == Ends("ok")
ListDirectory ==
  /\ In("open", {"ls"}) /\ (Ends("ok") \/ listFileEntry \/ Ends("failed")) /\ Kept
  /\ UNCHANGED <<storedToken, invocation, sentWith, world, probes, commands>>

-----------------------------------------------------------------------------
(* pinner auth: a token given on the command line is stored once it has the *)
(* form of a token; otherwise the password is checked, and a one-time       *)
(* password when the account asks for one, before a token is stored: an API *)
(* key, or with --no-create-key (meta) the login token.                     *)
validateJWTFormat(t) == t # NoToken
saveAuthToken ==
  /\ In("start", {"auth_token"})
  /\ IF ~validateJWTFormat(invocation.token)
     THEN Ends("invalid") /\ UNCHANGED storedToken
     ELSE \/ storedToken' = invocation.token /\ Ends("ok")
          \/ Ends("failed") /\ UNCHANGED storedToken
  /\ UNCHANGED <<invocation, sentWith, world, localFile, probes, commands>>
authLogin ==
  /\ In("start", {"auth"})
  /\ \/ Ends("failed") \/ GoesTo("complete") \/ GoesTo("otp")
  /\ UNCHANGED <<storedToken, invocation, sentWith, world, localFile, probes, commands>>
interactiveLogin ==
  /\ In("otp", {"auth"}) /\ (Ends("failed") \/ GoesTo("complete"))
  /\ UNCHANGED <<storedToken, invocation, sentWith, world, localFile, probes, commands>>
finishAuthLogin ==
  /\ In("complete", {"auth"})
  /\ \/ /\ storedToken' = [account |-> "C", kind |-> IF invocation.meta THEN "login" ELSE "api"]
        /\ Ends("ok")
     \/ Ends("failed") /\ UNCHANGED storedToken
  /\ UNCHANGED <<invocation, sentWith, world, localFile, probes, commands>>
authLogout ==
  /\ In("start", {"auth_logout"})
  /\ \/ storedToken' = NoToken /\ Ends("ok")
     \/ storedToken # NoToken /\ Ends("failed") /\ UNCHANGED storedToken
  /\ UNCHANGED <<invocation, sentWith, world, localFile, probes, commands>>
authStatus ==
  /\ In("start", {"auth_status"})
  /\ IF storedToken = NoToken THEN Ends("not_authenticated") /\ UNCHANGED sentWith
     ELSE Sends("account", storedToken) /\ Ends("ok")
  /\ UNCHANGED <<storedToken, invocation, world, localFile, probes, commands>>
(* register makes an account and stores nothing.                            *)
register ==
  /\ In("start", {"register"}) /\ (Ends("ok") \/ Ends("failed"))
  /\ UNCHANGED <<storedToken, invocation, sentWith, world, localFile, probes, commands>>
(* config set auth_token <value>: the value is stored as it is typed.       *)
setConfig ==
  /\ In("start", {"config_set"})
  /\ \/ ~invocation.dry /\ storedToken' = invocation.token /\ Ends("ok")
     \/ Ends(IF invocation.dry THEN "dry" ELSE "failed") /\ UNCHANGED storedToken
  /\ UNCHANGED <<invocation, sentWith, world, localFile, probes, commands>>
getConfig ==
  /\ In("start", {"config_get"}) /\ Ends("ok")
  /\ UNCHANGED <<storedToken, invocation, sentWith, world, localFile, probes, commands>>

-----------------------------------------------------------------------------
(* The service finishes an operation, works on the pin of uploaded content, *)
(* and another client of the account removes a pin.                         *)
OperationSettles ==
  /\ \E o \in DOMAIN remoteOp, s \in {"completed", "failed"} :
       remoteOp[o] = "running" /\ remoteOp' = [remoteOp EXCEPT ![o] = s]
  /\ UNCHANGED <<storedToken, invocation, stageOf, sentWith, remotePin, takenAway,
                 localFile, verdict, probes, commands>>
PinProgress ==
  /\ \E p \in {"queued", "pinned", "failed"} :
       /\ <<remotePin, p>> \in {<<"none", "queued">>, <<"queued", "pinned">>, <<"queued", "failed">>}
       /\ p = "queued" => \E o \in DOMAIN remoteOp : remoteOp[o] = "completed"
       /\ remotePin' = p
  /\ UNCHANGED <<storedToken, invocation, stageOf, sentWith, remoteOp, takenAway,
                 localFile, verdict, probes, commands>>
OtherClientRemoves ==
  /\ remotePin # "none" /\ remotePin' = "none" /\ takenAway' = TRUE
  /\ UNCHANGED <<storedToken, invocation, stageOf, sentWith, remoteOp,
                 localFile, verdict, probes, commands>>

CredInit ==
  /\ storedToken \in {NoToken} \cup TokensOf("C")
  /\ invocation = NoInvocation /\ stageOf = "idle" /\ sentWith = {}
  /\ remoteOp = <<>> /\ remotePin = "none" /\ takenAway = FALSE
  /\ localFile = [found |-> "absent", now |-> "absent"] /\ verdict = "" /\ probes = MaxProbes /\ commands = 0
CredNext ==
  \/ \E i \in Invocations : newCommandContext(i)
  \/ CatalogueCommand \/ PinCommand \/ StatusCommand \/ BenchCommand
  \/ resolveUploadInput \/ handleUpload \/ Upload
  \/ waitForPin \/ waitForOperation \/ verifyPin \/ updateUploadMetadata \/ WaitCutShort
  \/ handleDownload \/ newSDKDownloadService \/ DownloadOpen \/ Download \/ Cat \/ ListDirectory
  \/ saveAuthToken \/ authLogin \/ interactiveLogin \/ finishAuthLogin
  \/ authLogout \/ authStatus \/ register \/ setConfig \/ getConfig
  \/ OperationSettles \/ PinProgress \/ OtherClientRemoves
CredSpec == CredInit /\ [][CredNext]_credVars

-----------------------------------------------------------------------------
(* Every variable keeps its type.                                           *)
CredTypeOK ==
  /\ \A q \in sentWith : q.token.account \in {"C", "T"} /\ q.token.kind \in TokenKinds
  /\ remotePin \in {"none", "queued", "pinned", "failed"} /\ takenAway \in BOOLEAN
  /\ DOMAIN remoteOp \in {{}, {"older"}, {"older", "newer"}}
  /\ localFile \in [found : {"absent", "old"}, now : {"absent", "old", "partial", "new"}] /\ probes \in 0..MaxProbes

(* An upload that waited and says it succeeded left the content pinned,     *)
(* unless another client removed the pin since.  A download that ended      *)
(* leaves the whole file or none; without --force an existing file is       *)
(* untouched.                                                               *)
TransferIsTrue ==
  stageOf = "ended" =>
    /\ invocation.name = "upload" /\ invocation.wait /\ verdict = "ok" =>
         remotePin = "pinned" \/ takenAway
    /\ invocation.name = "download" =>
         /\ verdict = "ok" <=> localFile.now = "new"
         /\ localFile.now # "partial"
         /\ localFile.found = "old" /\ ~invocation.force => localFile.now = "old"

(* README.md:824, "--auth-token: Override auth token": every request of a   *)
(* command that was given a token belongs to the account of that token.     *)
OneIdentity ==
  invocation.token # NoToken =>
    \A q \in sentWith : q.token.account = invocation.token.account
=============================================================================
