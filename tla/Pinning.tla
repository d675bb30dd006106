------------------------------- MODULE Pinning -------------------------------
(***************************************************************************)
(* Pins by command line: pin, unpin, unpin all, pins update, status        *)
(* (internal/cli/pin.go, unpin.go, unpin_all.go, status.go) on the pinning *)
(* service client with its worker pool (pinning_client.go) and its retries *)
(* (internal/pinning_client_boxo.go).                                      *)
(*                                                                         *)
(* One command runs at a time; its workers and other clients of the same   *)
(* account change the service concurrently.  A single CID is a batch of    *)
(* one: the code calls Pin or Unpin directly, in the same steps.           *)
(***************************************************************************)
EXTENDS Integers, Sequences, FiniteSets, SequencesExt

CONSTANTS Cids, NoCid,
          Requests,        \* the request identifiers the service hands out
          NoRequest,
          Workers,         \* --parallel
          MaxAttempts,     \* max_retries of the configuration
          Batches          \* the CID lists a user gives

VARIABLES
  of, live, settled,       \* the service: the CID of every request it made,
                           \*   the live ones, those that are pinned or failed
  op, flags, stage,        \* the command in hand
  tasks, next,             \* its items, and the first not given to a worker
  outcome, firstError,     \* result.Succeeded and result.Failed; firstError
  at, job, req, tries,     \* the workers
  made, gone               \* history: per task, requests made and deleted

service == <<of, live, settled>>
command == <<op, flags, stage, tasks, next>>
workers == <<at, job, req, tries>>
reports == <<outcome, firstError, made, gone>>
pinVars == <<service, command, workers, reports>>

Issued    == {r \in Requests : of[r] # NoCid}
PinsOf(c) == {r \in live : of[r] = c}

PinInit ==
  /\ of = [r \in Requests |-> NoCid] /\ live = {} /\ settled = {}
  /\ op = "none" /\ flags = {} /\ stage = "idle"
  /\ tasks = << >> /\ next = 1
  /\ outcome = << >> /\ firstError = FALSE /\ made = << >> /\ gone = << >>
  /\ at = [w \in Workers |-> "idle"] /\ job = [w \in Workers |-> 0]
  /\ req = [w \in Workers |-> NoRequest] /\ tries = [w \in Workers |-> 0]

-----------------------------------------------------------------------------
(* External: what the service does when asked, the pins it settles, and the *)
(* pins that other clients of the account add and remove.                   *)
Put(r, c) == of' = [of EXCEPT ![r] = c]

Settle(r) ==
  /\ r \in live \ settled
  /\ settled' = settled \cup {r}
  /\ UNCHANGED <<of, live, command, workers, reports>>

OtherAdds(r, c) ==
  /\ r \notin Issued
  /\ Put(r, c) /\ live' = live \cup {r}
  /\ UNCHANGED <<settled, command, workers, reports>>

OtherRemoves(r) ==
  /\ r \in live
  /\ live' = live \ {r}
  /\ UNCHANGED <<of, settled, command, workers, reports>>

-----------------------------------------------------------------------------
(* The items become tasks, none of which has an outcome yet. *)
Item(c, r) == [cid |-> c, req |-> r]

Submit(items) ==
  /\ tasks' = items /\ next' = 1 /\ firstError' = FALSE
  /\ outcome' = [i \in DOMAIN items |-> "none"]
  /\ made' = [i \in DOMAIN items |-> {}] /\ gone' = [i \in DOMAIN items |-> {}]

FlagsOf(o) ==
  CASE o = "pin"       -> {"wait", "continue"}
    [] o = "unpin"     -> {"force", "continue"}
    [] o = "unpin_all" -> {"force", "confirm", "yes", "continue", "status"}
    [] o = "status"    -> {"wait"}
    [] o = "update"    -> {}

(* pin, unpin, update and status.  An unpin of one CID without --force only *)
(* prints a hint; a batch goes to UnpinBatch, which does not ask.           *)
Invoke(o, batch, fs) ==
  /\ stage = "idle"
  /\ o \in {"update", "status"} => Len(batch) = 1
  /\ o = "unpin" /\ Len(batch) = 1 => "force" \in fs
  /\ op' = o /\ flags' = fs /\ stage' = "run"
  /\ Submit([i \in DOMAIN batch |-> Item(batch[i], NoRequest)])
  /\ UNCHANGED <<service, workers>>

(* unpin all asks for --force (or its hidden alias --confirm), counts the   *)
(* pins and, unless --force or --yes is given, has the count typed.         *)
InvokeAll(fs) ==
  /\ stage = "idle" /\ fs \cap {"force", "confirm"} # {}
  /\ op' = "unpin_all" /\ flags' = fs /\ stage' = "count"
  /\ Submit(<< >>)
  /\ UNCHANGED <<service, workers>>

Matching == {r \in live : "status" \in flags => r \in settled}

CountPins ==
  /\ stage = "count"
  /\ stage' = CASE Matching = {}                      -> "idle"
                 [] flags \cap {"force", "yes"} # {}   -> "list"
                 [] OTHER                              -> "prompt"
  /\ UNCHANGED <<service, op, flags, tasks, next, workers, reports>>

TypeCount ==
  /\ stage = "prompt" /\ stage' = "list"
  /\ UNCHANGED <<service, op, flags, tasks, next, workers, reports>>

(* PinningService.UnpinAll lists the pins again and submits those. *)
ListPins ==
  /\ stage = "list" /\ stage' = "run"
  /\ LET found == SetToSeq(Matching)
     IN  Submit([i \in DOMAIN found |-> Item(of[found[i]], found[i])])
  /\ UNCHANGED <<service, op, flags, workers>>

(* The user types something else, a listing fails, or the time is over. *)
AbortCommand ==
  /\ stage \in {"count", "prompt", "list"} /\ stage' = "idle"
  /\ UNCHANGED <<service, op, flags, tasks, next, workers, reports>>

(* Mutant: the pool is stopped without waiting for the running tasks. *)
ReportEarly ==
  /\ stage = "run" /\ next > Len(tasks) /\ stage' = "idle"
  /\ UNCHANGED <<service, op, flags, tasks, next, workers, reports>>

(* wp.StopWait: the report is made when no task is left and none runs. *)
Report ==
  /\ stage = "run" /\ next > Len(tasks) /\ \A w \in Workers : at[w] = "idle"
  /\ stage' = "idle"
  /\ UNCHANGED <<service, op, flags, tasks, next, workers, reports>>

-----------------------------------------------------------------------------
(* The worker pool. *)
FirstStage ==
  CASE op = "pin" -> "add" [] op = "unpin_all" -> "delete" [] OTHER -> "find"

Take(w) ==
  /\ stage = "run" /\ next <= Len(tasks) /\ at[w] = "idle"
  /\ job' = [job EXCEPT ![w] = next] /\ next' = next + 1
  /\ at' = [at EXCEPT ![w] = FirstStage]
  /\ req' = [req EXCEPT ![w] = tasks[next].req]
  /\ UNCHANGED <<service, op, flags, stage, tasks, tries, reports>>

Cid(w) == tasks[job[w]].cid

Free(w) ==
  /\ at' = [at EXCEPT ![w] = "idle"] /\ job' = [job EXCEPT ![w] = 0]
  /\ req' = [req EXCEPT ![w] = NoRequest] /\ tries' = [tries EXCEPT ![w] = 0]

(* The end of a task.  Without --continue the first error becomes that of   *)
(* the command; the tasks that are left run all the same.                   *)
End(w, o) ==
  /\ outcome' = [outcome EXCEPT ![job[w]] = o]
  /\ firstError' = (firstError \/ (o = "failed" /\ "continue" \notin flags))
  /\ Free(w)

GoOn(w, to, r) ==
  /\ at' = [at EXCEPT ![w] = to] /\ req' = [req EXCEPT ![w] = r]
  /\ tries' = [tries EXCEPT ![w] = 0] /\ UNCHANGED <<job, outcome, firstError>>

(* The answer of an attempt is lost or an error: a timeout is retried,      *)
(* anything else, an expired context or the last attempt ends the task.     *)
NoAnswer(w) ==
  \/ /\ tries[w] + 1 < MaxAttempts
     /\ tries' = [tries EXCEPT ![w] = @ + 1]
     /\ UNCHANGED <<at, job, req, outcome, firstError>>
  \/ End(w, "failed")

CallFails(w) ==
  /\ at[w] # "idle"
  /\ NoAnswer(w)
  /\ UNCHANGED <<service, command, made, gone>>

Add(w) ==
  /\ at[w] = "add"
  /\ \E r \in Requests \ Issued :
       /\ Put(r, Cid(w)) /\ live' = live \cup {r}
       /\ made' = [made EXCEPT ![job[w]] = @ \cup {r}]
       /\ \/ "wait" \in flags /\ GoOn(w, "wait", r)
          \/ "wait" \notin flags /\ End(w, "ok")
          \/ NoAnswer(w)
  /\ UNCHANGED <<settled, command, gone>>

(* waitForPinCompletion: the ticker reads the status until it settles. *)
Wait(w) ==
  /\ at[w] = "wait" /\ req[w] \in settled
  /\ \E o \in {"ok", "failed"} : End(w, o)
  /\ UNCHANGED <<service, command, made, gone>>

(* watchPinStatus looks the CID up again at every tick. *)
Watch(w) ==
  /\ at[w] = "watch"
  /\ \/ PinsOf(Cid(w)) = {} /\ End(w, "failed")
     \/ PinsOf(Cid(w)) \cap settled # {} /\ \E o \in {"ok", "failed"} : End(w, o)
  /\ UNCHANGED <<service, command, made, gone>>

(* Unpin, UpdatePin and Status look the CID up and take the first match. *)
Find(w) ==
  /\ at[w] = "find"
  /\ \/ PinsOf(Cid(w)) = {} /\ End(w, "failed")
     \/ \E r \in PinsOf(Cid(w)) :
          \/ op = "unpin"  /\ GoOn(w, "delete", r)
          \/ op = "update" /\ GoOn(w, "replace", r)
          \/ op = "status" /\ "wait" \notin flags /\ End(w, "ok")
          \/ op = "status" /\ "wait" \in flags /\ GoOn(w, "watch", r)
  /\ UNCHANGED <<service, command, made, gone>>

(* DeleteByID: a request that is no longer there is an error. *)
Delete(w) ==
  /\ at[w] = "delete"
  /\ \/ /\ req[w] \in live /\ live' = live \ {req[w]}
        /\ gone' = [gone EXCEPT ![job[w]] = @ \cup {req[w]}]
        /\ (End(w, "ok") \/ NoAnswer(w))
     \/ req[w] \notin live /\ End(w, "failed") /\ UNCHANGED <<live, gone>>
  /\ UNCHANGED <<of, settled, command, made>>

(* Replace: the service puts a new request in the place of the old one. *)
Replace(w) ==
  /\ at[w] = "replace"
  /\ \/ /\ req[w] \in live
        /\ \E r \in Requests \ Issued :
             /\ Put(r, Cid(w)) /\ live' = (live \ {req[w]}) \cup {r}
             /\ made' = [made EXCEPT ![job[w]] = @ \cup {r}]
             /\ gone' = [gone EXCEPT ![job[w]] = @ \cup {req[w]}]
        /\ (End(w, "ok") \/ NoAnswer(w))
     \/ req[w] \notin live /\ End(w, "failed") /\ UNCHANGED <<of, live, made, gone>>
  /\ UNCHANGED <<settled, command>>

Work(w) ==
  \/ Take(w) \/ CallFails(w) \/ Add(w) \/ Wait(w) \/ Watch(w)
  \/ Find(w) \/ Delete(w) \/ Replace(w)

Proceed == CountPins \/ TypeCount \/ ListPins \/ AbortCommand \/ Report

-----------------------------------------------------------------------------
PinNext ==
  \/ \E r \in Requests : Settle(r) \/ OtherRemoves(r)
  \/ \E r \in Requests, c \in Cids : OtherAdds(r, c)
  \/ \E o \in {"pin", "unpin", "update", "status"}, b \in Batches :
       \E fs \in SUBSET FlagsOf(o) : Invoke(o, b, fs)
  \/ \E fs \in SUBSET FlagsOf("unpin_all") : InvokeAll(fs)
  \/ Proceed \/ \E w \in Workers : Work(w)

PinSpec == PinInit /\ [][PinNext]_pinVars

(* Every context of these commands has a deadline, so a call or a wait that *)
(* gets nowhere fails in the end; the prompt answers, if only with an error.*)
PinFair ==
  /\ WF_pinVars(Proceed)
  /\ \A w \in Workers : WF_pinVars(Work(w))

-----------------------------------------------------------------------------
PinTypeOK ==
  /\ of \in [Requests -> Cids \cup {NoCid}] /\ live \subseteq Issued
  /\ settled \subseteq Issued
  /\ stage \in {"idle", "count", "prompt", "list", "run"}
  /\ \A i \in DOMAIN tasks : tasks[i].cid \in Cids
  /\ next \in 1 .. Len(tasks) + 1
  /\ outcome \in [DOMAIN tasks -> {"none", "ok", "failed"}]
  /\ firstError \in BOOLEAN
  /\ at \in [Workers -> {"idle", "add", "wait", "watch", "find", "delete", "replace"}]
  /\ job \in [Workers -> 0 .. Len(tasks)] /\ tries \in [Workers -> 0 .. MaxAttempts - 1]
  /\ made \in [DOMAIN tasks -> SUBSET Issued] /\ gone \in [DOMAIN tasks -> SUBSET Issued]

(* What a command reports is what it did, whatever its workers, its retries *)
(* and other clients do to the service (pinning_client.go PinBatch,         *)
(* UnpinBatch, UnpinAll: results are collected under one lock by workers    *)
(* that outlive each other's errors):                                       *)
(*  - a report is made after every task has ended, and none acts afterwards;*)
(*  - a task that is reported done did it: the pin was made, the pin it     *)
(*    found was removed, or both for an update;                             *)
(*  - no task removes more than one request, nor one of another CID, nor    *)
(*    (unpin all) one that was not in the listing;                          *)
(*  - retries make at most MaxAttempts requests out of one pin;             *)
(*  - without --continue the command ends in an error iff a task failed.    *)
Complete ==
  stage = "idle" => /\ \A w \in Workers : at[w] = "idle"
                    /\ \A i \in DOMAIN tasks : outcome[i] # "none"

Done(i) ==
  CASE op = "pin"                     -> made[i] # {}
    [] op \in {"unpin", "unpin_all"}  -> gone[i] # {}
    [] op = "update"                  -> made[i] # {} /\ gone[i] # {}
    [] OTHER                          -> TRUE

Asked(i, r) ==
  of[r] = tasks[i].cid /\ (op = "unpin_all" => r = tasks[i].req)

ReportIsTrue ==
  /\ Complete
  /\ \A i \in DOMAIN tasks :
       /\ outcome[i] = "ok" => Done(i)
       /\ \A r \in gone[i] : Asked(i, r)
       /\ Cardinality(gone[i]) <= 1 /\ Cardinality(made[i]) <= MaxAttempts
  /\ "continue" \notin flags =>
       (firstError <=> \E i \in DOMAIN tasks : outcome[i] = "failed")

(* Every command comes to its report. *)
CommandReturns == stage # "idle" ~> stage = "idle"

(* README.md:408 "Unpin (prompts for confirmation)" and :411 "Skip          *)
(* confirmation ... --force": without the flag nothing is unpinned.         *)
(* Violated: a batch is unpinned without flag or prompt.                    *)
UnpinIsConfirmed ==
  \A i \in DOMAIN tasks : op = "unpin" /\ gone[i] # {} => "force" \in flags
=============================================================================
