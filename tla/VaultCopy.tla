------------------------------ MODULE VaultCopy ------------------------------
(***************************************************************************)
(* Files to and from the user's disk: `pinner vault cp` in its three        *)
(* directions and `vault flush` (internal/cli/vault_cp.go,                  *)
(* catalog_vault_wiring.go), `pinner upload` with its wait for the pin      *)
(* (upload.go, upload_client.go) and `pinner download` (download.go,        *)
(* download_client.go).                                                     *)
(*                                                                         *)
(* One command runs; the background flusher of a vault, other clients and   *)
(* other programs on the disk go on meanwhile.  There is one remote path in *)
(* each vault and one local path.  `vault cat` is the Get of a copy.        *)
(***************************************************************************)
EXTENDS Naturals, FiniteSets

CONSTANTS Vaults, NoVaultName,
          Verifications    \* attempts of the pin verification (10 in the code)

Data == {"none", "mine", "theirs", "part"}

VARIABLES
  object, status, stamp,   \* by vault: the data at the path, its state, the
                           \*   profile in its metadata
  default,                 \* the active profile
  file,                    \* the local file
  copy,                    \* the command: kind, vaults, flags
  point, held, answer,     \* its next step, the bytes it holds, its answer
  upload, verified         \* the IPFS upload: "none", "queued", "pinned",
                           \*   "failed"; verifications made

vaultState == <<object, status, stamp>>
ipfsState  == <<upload, verified>>
copyVars   == <<vaultState, default, file, copy, point, held, answer, ipfsState>>

NoCopy == [kind |-> "none", from |-> NoVaultName, to |-> NoVaultName, flags |-> {}]

CopyInit ==
  /\ object = [v \in Vaults |-> "none"] /\ status = [v \in Vaults |-> "none"]
  /\ stamp = [v \in Vaults |-> NoVaultName]
  /\ default \in Vaults /\ file \in {"none", "theirs"}
  /\ copy = NoCopy /\ point = "start" /\ held = "none" /\ answer = "none"
  /\ upload = "none" /\ verified = 0

-----------------------------------------------------------------------------
(* External: other writers of a vault; its background flusher, which may    *)
(* crash and lose a buffer it took; the pin service; other programs.        *)
PutBytes(v, d, p) ==
  /\ object' = [object EXCEPT ![v] = d] /\ status' = [status EXCEPT ![v] = "staged"]
  /\ stamp' = [stamp EXCEPT ![v] = p]

OtherPuts(v) ==
  /\ object[v] = "none" /\ PutBytes(v, "theirs", v)
  /\ UNCHANGED <<default, file, copy, point, held, answer, ipfsState>>

Flushed(v, from, to) ==
  /\ status[v] = from /\ status' = [status EXCEPT ![v] = to]
  /\ UNCHANGED <<object, stamp, default, file, copy, point, held, answer, ipfsState>>

Flusher(v) ==
  \/ Flushed(v, "staged", "flushing")
  \/ Flushed(v, "flushing", "ok") \/ Flushed(v, "flushing", "lost")

UseProfile(v) ==
  /\ v # default /\ default' = v
  /\ UNCHANGED <<vaultState, file, copy, point, held, answer, ipfsState>>

OtherCreates ==
  /\ file = "none" /\ file' = "theirs"
  /\ UNCHANGED <<vaultState, default, copy, point, held, answer, ipfsState>>

PinSettles ==
  /\ upload = "queued" /\ upload' \in {"pinned", "failed"}
  /\ UNCHANGED <<vaultState, default, file, copy, point, held, answer, verified>>

-----------------------------------------------------------------------------
(* A command.  cpAction and the handlers choose the direction; the vault of *)
(* a path is its authority, else --profile, else the active profile.        *)
First(k) == CASE k = "put" -> "check" [] k = "copy" -> "read" [] k = "get" -> "exists"
              [] k = "flush" -> "state" [] k = "download" -> "exists"
              [] k = "upload" -> "send"

Start(k, from, to, fs) ==
  /\ point = "start"
  /\ copy' = [kind |-> k, from |-> from, to |-> to, flags |-> fs]
  /\ point' = First(k) /\ held' = IF k \in {"put", "upload"} THEN "mine" ELSE "none"
  /\ UNCHANGED <<vaultState, default, file, answer, ipfsState>>

Has(f) == f \in copy.flags
To(p)  == point' = p
Finish(a) == point' = "end" /\ answer' = a

(* Any call fails or the process is killed, which leaves the destination as *)
(* it is.                                                                   *)
AbortCopy ==
  /\ point \notin {"start", "end"}
  /\ Finish(IF point = "ipfsWrite" THEN "killed" ELSE "error")
  /\ UNCHANGED <<vaultState, default, file, copy, held, ipfsState>>

(* The destination must not exist, unless --force is given.  In a copy      *)
(* between vaults the source has been read into a private file before.      *)
CheckObject ==
  /\ point = "check"
  /\ IF object[copy.to] # "none" /\ ~Has("force")
       THEN Finish("exists") ELSE To("store") /\ UNCHANGED answer
  /\ UNCHANGED <<vaultState, default, file, copy, held, ipfsState>>

(* Put, stamped with the authority or the profile that is active then; it   *)
(* stages the bytes, or stores them at once.                                *)
StampOf == IF Has("authority") THEN copy.to ELSE default

Store ==
  /\ point = "store" /\ PutBytes(copy.to, held, StampOf)
  /\ \/ Has("flush") /\ To("flush") /\ UNCHANGED answer
     \/ ~Has("flush") /\ Finish("staged")
     \/ Finish("error")
  /\ UNCHANGED <<default, file, copy, held, ipfsState>>

StoreDurably ==
  /\ point = "store"
  /\ object' = [object EXCEPT ![copy.to] = held]
  /\ status' = [status EXCEPT ![copy.to] = "ok"]
  /\ stamp' = [stamp EXCEPT ![copy.to] = StampOf]
  /\ Finish("ok")
  /\ UNCHANGED <<default, file, copy, held, ipfsState>>

(* FlushPath uploads a staged buffer and is a silent no-op without one. *)
FlushPath(v) ==
  IF status[v] = "staged" THEN status' = [status EXCEPT ![v] = "ok"] ELSE status' = status

FlushCopy ==
  /\ point = "flush" /\ FlushPath(copy.to) /\ Finish("ok")
  /\ UNCHANGED <<object, stamp, default, file, copy, held, ipfsState>>

(* vault flush <path>: the state before, FlushPath, the state after. *)
FlushState ==
  /\ point = "state"
  /\ IF status[copy.to] \in {"ok", "lost"} THEN Finish("nothing") ELSE To("sync") /\ UNCHANGED answer
  /\ UNCHANGED <<vaultState, default, file, copy, held, ipfsState>>

FlushSync ==
  /\ point = "sync" /\ FlushPath(copy.to) /\ To("confirm")
  /\ UNCHANGED <<object, stamp, default, file, copy, held, answer, ipfsState>>

(* Mutant: a flush without an error is a flush. *)
ConfirmBlindly ==
  /\ point = "confirm" /\ Finish("ok")
  /\ UNCHANGED <<vaultState, default, file, copy, held, ipfsState>>

FlushConfirm ==
  /\ point = "confirm"
  /\ Finish(CASE status[copy.to] = "ok"   -> "ok"
              [] status[copy.to] = "none" -> "error"
              [] OTHER                    -> "noop")
  /\ UNCHANGED <<vaultState, default, file, copy, held, ipfsState>>

(* Get from a vault: to a new temporary file, which is renamed over the     *)
(* destination when it is complete.                                         *)
CheckFile ==
  /\ point = "exists"
  /\ IF file # "none" /\ ~Has("force") THEN Finish("exists")
       ELSE To(IF copy.kind = "download" THEN "create" ELSE "read") /\ UNCHANGED answer
  /\ UNCHANGED <<vaultState, default, file, copy, held, ipfsState>>

ReadObject ==
  /\ point = "read" /\ object[copy.from] # "none"
  /\ held' = object[copy.from]
  /\ To(IF copy.kind = "copy" THEN "check" ELSE "rename")
  /\ UNCHANGED <<vaultState, default, file, copy, answer, ipfsState>>

Rename ==
  /\ point = "rename" /\ file' = held /\ Finish("ok")
  /\ UNCHANGED <<vaultState, default, copy, held, ipfsState>>

(* An IPFS download creates or truncates the destination and writes into it;*)
(* an error removes the file.                                               *)
CreateFile ==
  /\ point = "create" /\ file' = "part" /\ To("ipfsWrite")
  /\ UNCHANGED <<vaultState, default, copy, held, answer, ipfsState>>

WriteFile ==
  /\ point = "ipfsWrite"
  /\ \/ file' = "mine" /\ Finish("ok")
     \/ file' = "none" /\ Finish("error")
  /\ UNCHANGED <<vaultState, default, copy, held, ipfsState>>

(* An IPFS upload: the CAR is sent; with --wait (the default) its operation *)
(* is found and waited for, and the pin is verified a bounded number of     *)
(* times; metadata are set after all that, and may fail on their own.       *)
Send ==
  /\ point = "send" /\ upload' = "queued"
  /\ \/ Has("wait") /\ To("operation") /\ UNCHANGED answer
     \/ ~Has("wait") /\ Has("meta") /\ To("meta") /\ UNCHANGED answer
     \/ ~Has("wait") /\ ~Has("meta") /\ Finish("ok")
  /\ UNCHANGED <<vaultState, default, file, copy, held, verified>>

WaitOperation ==
  /\ point = "operation" /\ upload # "queued"
  /\ IF upload = "failed" THEN Finish("error") ELSE To("verify") /\ UNCHANGED answer
  /\ UNCHANGED <<vaultState, default, file, copy, held, ipfsState>>

(* The pin may be seen late. *)
Verify ==
  /\ point = "verify" /\ verified < Verifications /\ verified' = verified + 1
  /\ \/ UNCHANGED <<point, answer>>
     \/ /\ upload = "pinned"
        /\ IF Has("meta") THEN To("meta") /\ UNCHANGED answer ELSE Finish("ok")
  /\ UNCHANGED <<vaultState, default, file, copy, held, upload>>

SetMeta ==
  /\ point = "meta" /\ Finish("ok")
  /\ UNCHANGED <<vaultState, default, file, copy, held, ipfsState>>

-----------------------------------------------------------------------------
CopyStep ==
  \/ CheckObject \/ Store \/ StoreDurably \/ FlushCopy \/ FlushState \/ FlushSync
  \/ FlushConfirm \/ CheckFile \/ ReadObject \/ Rename \/ CreateFile \/ WriteFile
  \/ Send \/ WaitOperation \/ Verify \/ SetMeta

CopyNext ==
  \/ \E v \in Vaults : OtherPuts(v) \/ Flusher(v) \/ UseProfile(v)
  \/ OtherCreates \/ PinSettles
  \/ \E v, w \in Vaults, fs \in SUBSET {"force", "flush", "authority"} :
       Start("put", v, v, fs) \/ (v # w /\ Start("copy", v, w, fs))
  \/ \E v \in Vaults, fs \in SUBSET {"force"} :
       Start("get", v, v, fs) \/ Start("download", v, v, fs) \/ Start("flush", v, v, {})
  \/ \E v \in Vaults, fs \in SUBSET {"wait", "meta"} : Start("upload", v, v, fs)
  \/ CopyStep \/ AbortCopy

CopySpec == CopyInit /\ [][CopyNext]_copyVars

CopyTypeOK ==
  /\ object \in [Vaults -> Data \ {"part"}]
  /\ status \in [Vaults -> {"none", "staged", "flushing", "ok", "lost"}]
  /\ stamp \in [Vaults -> Vaults \cup {NoVaultName}] /\ default \in Vaults
  /\ file \in Data /\ held \in Data
  /\ answer \in {"none", "ok", "staged", "nothing", "noop", "exists", "error", "killed"}
  /\ verified \in 0 .. Verifications

(* What a finished command says of a file is so, although flushers, other   *)
(* clients and other programs work on the same paths (vault_cp.go           *)
(* flushUploadDurability, createVaultDownloadTemp; catalog_vault_wiring.go  *)
(* vaultFlushSyncAction; upload_client.go waitForPin):                      *)
(*  - bytes said to be stored, or flushed by `vault flush`, are durable;    *)
(*  - bytes said to be staged are not lost by the command itself: they are  *)
(*    there, and a path with an authority is stamped with it;               *)
(*  - an upload that waited is pinned;                                      *)
(*  - a partial file is on disk only while an IPFS download writes, or when *)
(*    it was killed; a copy from a vault never shows one, however it ends.  *)
CopyAnswerIsTrue ==
  /\ answer = "ok" /\ copy.kind \in {"put", "copy", "flush"} /\ ~Has("flush")
       => status[copy.to] = "ok"
  /\ answer \in {"ok", "staged"} /\ copy.kind \in {"put", "copy"}
       => /\ object[copy.to] = held
          /\ Has("authority") => stamp[copy.to] = copy.to
  /\ answer = "ok" /\ copy.kind = "upload" /\ Has("wait") => upload = "pinned"
  /\ file = "part" => copy.kind = "download" /\ (point = "ipfsWrite" \/ answer = "killed")

(* vault_cp.go:198 "to record the real one": the profile in the metadata is the*)
(* one that was written to.  Violated: --profile chooses the vault, and the *)
(* active profile is recorded.                                              *)
StampNamesVault ==
  \A v \in Vaults : object[v] = "mine" => stamp[v] = v

(* vault_cp.go:126 "--flush: wait for durable write".  Violated: FlushPath  *)
(* does nothing for a buffer that the background flusher has taken.         *)
CpFlushIsDurable ==
  answer = "ok" /\ Has("flush") => status[copy.to] = "ok"
=============================================================================
