------------------------------- MODULE BenchRun ------------------------------
(***************************************************************************)
(* The benchmark (internal/cli/bench.go, bench_service.go): iterations that*)
(* upload fresh data and poll the server's processing of it, and a clean-up*)
(* that unpins what they uploaded.  The clean-up is deferred by Run and is *)
(* also run by the goroutine that waits for SIGINT, on the same variables  *)
(* and without a lock.  Run stops the signals first (its defers run last to *)
(* first): one that comes during its own clean-up ends the process.         *)
(***************************************************************************)
EXTENDS Integers, FiniteSets

CONSTANTS Iterations,      \* --iterations; iteration i uploads its own data
          UnpinAttempts    \* of the clean-up (5 in the code)

ASSUME BenchBounds == Iterations \in Nat \ {0} /\ UnpinAttempts \in Nat \ {0}

VARIABLES
  pinned,                  \* the uploads that are on the server
  noCleanup, expired,      \* --no-cleanup; the deadline of the command
  main, iter,              \* Run
  listed,                  \* uploadedCIDs
  signalled,               \* the goroutine on sigChan
  attempt, batch,          \* per cleaner: attempts, and what of the last
                           \* batchResult is still to be recorded
  slice,                   \* per cleaner: the list it is about to write back
  unpinned, failed,        \* result.Cleanup
  process                  \* "running", or how it ended

benchVars == <<pinned, noCleanup, expired, main, iter, listed, signalled,
               attempt, batch, slice, unpinned, failed, process>>

report == <<slice, unpinned, failed>>

Cleaners == {"run", "signal"}
Uploads  == 1 .. Iterations
NoBatch  == [ok |-> {}, bad |-> {}]
NoSlice  == [list |-> "none", to |-> {}]

BenchInit ==
  /\ pinned = {} /\ noCleanup = FALSE /\ expired = FALSE
  /\ main = "flags" /\ iter = 1 /\ listed = {} /\ signalled = "waiting"
  /\ attempt = [c \in Cleaners |-> 0] /\ batch = [c \in Cleaners |-> NoBatch]
  /\ slice = [c \in Cleaners |-> NoSlice]
  /\ unpinned = {} /\ failed = {} /\ process = "running"

Running == process = "running"

-----------------------------------------------------------------------------
(* bench: a bad option, a dry run or a failed sign-in ends the command.     *)
ReadOptions ==
  /\ Running /\ main = "flags"
  /\ \/ noCleanup' \in BOOLEAN /\ main' = "upload" /\ process' = process
     \/ main' = "returned" /\ process' = "exited" /\ noCleanup' = noCleanup
  /\ UNCHANGED <<pinned, expired, iter, listed, signalled, attempt, batch, report>>

Expire ==
  /\ Running /\ ~expired /\ expired' = TRUE
  /\ UNCHANGED <<pinned, noCleanup, main, iter, listed, signalled, attempt,
                 batch, report, process>>

(* runIteration: the data are generated and uploaded.  Without a CID the    *)
(* iteration ends, although a lost answer may hide a finished upload.       *)
NextIteration == IF iter < Iterations
                   THEN main' = "upload" /\ iter' = iter + 1
                   ELSE main' = "cleanup" /\ iter' = iter

Upload ==
  /\ Running /\ main = "upload"
  /\ \/ ~expired /\ main' = "poll" /\ iter' = iter /\ pinned' = pinned \cup {iter}
     \/ NextIteration /\ (pinned' = pinned \/ (~expired /\ pinned' = pinned \cup {iter}))
  /\ UNCHANGED <<noCleanup, expired, listed, signalled, attempt, batch,
                 report, process>>

(* pollOperationStages ends when the operation is found to be settled, when *)
(* it cannot be found, or with the context; the CID is kept in any case.    *)
Poll ==
  /\ Running /\ main = "poll" /\ main' = "append"
  /\ UNCHANGED <<pinned, noCleanup, expired, iter, listed, signalled, attempt,
                 batch, report, process>>

AppendCID ==
  /\ Running /\ main = "append"
  /\ listed' = listed \cup {iter} /\ NextIteration
  /\ UNCHANGED <<pinned, noCleanup, expired, signalled, attempt, batch, report,
                 process>>

-----------------------------------------------------------------------------
(* SIGINT or SIGTERM during the loop: the goroutine cleans up and exits.    *)
Interrupt ==
  /\ Running /\ main \in {"upload", "poll", "append"} /\ signalled = "waiting"
  /\ signalled' = "cleanup"
  /\ UNCHANGED <<pinned, noCleanup, expired, main, iter, listed, attempt, batch,
                 report, process>>

(* Before signal.Notify and after signal.Stop it ends the process.          *)
Killed ==
  /\ Running /\ main \in {"flags", "cleanup", "record"} /\ process' = "killed"
  /\ UNCHANGED <<pinned, noCleanup, expired, main, iter, listed, signalled,
                 attempt, batch, report>>

Stage(c) == IF c = "run" THEN main ELSE signalled
GoTo(c, stage) ==
  IF c = "run" THEN main' = stage /\ signalled' = signalled
               ELSE signalled' = stage /\ main' = main

(* The goroutine reads uploadedCIDs while the loop appends to it, or both   *)
(* clean-ups are at the lists of the result: a slice header that is half    *)
(* written is a wild read.                                                  *)
WildRead ==
  /\ Running
  /\ \/ signalled = "cleanup" /\ main = "append" /\ ~noCleanup
     \/ \A c \in Cleaners : Stage(c) = "record"
  /\ process' = "crashed"
  /\ UNCHANGED <<pinned, noCleanup, expired, main, iter, listed, signalled,
                 attempt, batch, report>>

(* One attempt of UnpinBatch.  A CID whose pin is gone or not yet visible   *)
(* fails, and so may any other call, with or without its effect.            *)
Attempt(c) ==
  /\ Running /\ Stage(c) = "cleanup" /\ ~noCleanup /\ listed # {} /\ ~expired
  /\ attempt[c] < UnpinAttempts /\ batch[c].ok = {}
  /\ \E removed \in SUBSET (listed \cap pinned) : \E ok \in SUBSET removed :
       /\ pinned' = pinned \ removed
       /\ batch' = [batch EXCEPT ![c] = [ok |-> ok, bad |-> listed \ ok]]
  /\ attempt' = [attempt EXCEPT ![c] = @ + 1]
  /\ UNCHANGED <<noCleanup, expired, main, iter, listed, signalled, report, process>>

(* The attempts end when one pin was removed, when none is left, and when   *)
(* the deadline of the command has passed.                                  *)
EndAttempts(c) ==
  /\ Running /\ Stage(c) = "cleanup" /\ GoTo(c, "record")
  /\ \/ noCleanup \/ listed = {} \/ expired
     \/ attempt[c] = UnpinAttempts \/ batch[c].ok # {}
  /\ UNCHANGED <<pinned, noCleanup, expired, iter, listed, attempt, batch, report,
                 process>>

(* Mutant: every CID that was tried is recorded as unpinned. *)
RecordTried(c, i) == [list |-> "unpinned", to |-> unpinned \cup {i}]

(* The list that an entry goes into, as it is now, and with the entry.      *)
Record(c, i) ==
  IF i \in batch[c].ok THEN [list |-> "unpinned", to |-> unpinned \cup {i}]
                       ELSE [list |-> "failed", to |-> failed \cup {i}]

(* result.Cleanup.X = append(result.Cleanup.X, entry), entry by entry, the  *)
(* unpinned ones first: the list is read, and then written over whatever    *)
(* the other clean-up has appended meanwhile.                               *)
ReadReport(c) ==
  /\ Running /\ Stage(c) = "record" /\ slice[c] = NoSlice
  /\ \E i \in IF batch[c].ok # {} THEN batch[c].ok ELSE batch[c].bad :
       /\ slice' = [slice EXCEPT ![c] = Record(c, i)]
       /\ batch' = [batch EXCEPT ![c] = [ok |-> @.ok \ {i}, bad |-> @.bad \ {i}]]
  /\ UNCHANGED <<pinned, noCleanup, expired, main, iter, listed, signalled, attempt,
                 unpinned, failed, process>>

WriteReport(c) ==
  /\ Running /\ Stage(c) = "record"
  /\ \/ slice[c].list = "unpinned" /\ unpinned' = slice[c].to /\ failed' = failed
     \/ slice[c].list = "failed" /\ failed' = slice[c].to /\ unpinned' = unpinned
  /\ slice' = [slice EXCEPT ![c] = NoSlice]
  /\ UNCHANGED <<pinned, noCleanup, expired, main, iter, listed, signalled, attempt,
                 batch, process>>

(* The end of Run, or os.Exit(130). *)
Leave(c) ==
  /\ Running /\ Stage(c) = "record" /\ slice[c] = NoSlice
  /\ batch[c].ok = {} /\ batch[c].bad = {}
  /\ GoTo(c, "returned") /\ process' = IF c = "run" THEN "exited" ELSE "killed"
  /\ UNCHANGED <<pinned, noCleanup, expired, iter, listed, attempt, batch, report>>

Cleanup(c) ==
  Attempt(c) \/ EndAttempts(c) \/ ReadReport(c) \/ WriteReport(c) \/ Leave(c)

-----------------------------------------------------------------------------
Progress ==
  ReadOptions \/ Upload \/ Poll \/ AppendCID \/ \E c \in Cleaners : Cleanup(c)

BenchNext == Progress \/ Expire \/ Interrupt \/ Killed \/ WildRead

BenchSpec == BenchInit /\ [][BenchNext]_benchVars

(* Uploads and polls end with the context at the latest. *)
BenchFair == WF_benchVars(Progress)

BenchTypeOK ==
  /\ pinned \subseteq Uploads /\ listed \subseteq Uploads /\ iter \in Uploads
  /\ noCleanup \in BOOLEAN /\ expired \in BOOLEAN
  /\ main \in {"flags", "upload", "poll", "append", "cleanup", "record", "returned"}
  /\ signalled \in {"waiting", "cleanup", "record", "returned"}
  /\ attempt \in [Cleaners -> 0 .. UnpinAttempts]
  /\ batch \in [Cleaners -> [ok : SUBSET Uploads, bad : SUBSET Uploads]]
  /\ slice \in [Cleaners -> [list : {"none", "unpinned", "failed"}, to : SUBSET Uploads]]
  /\ unpinned \subseteq Uploads /\ failed \subseteq Uploads
  /\ process \in {"running", "exited", "killed", "crashed"}

(* The report of the clean-up is true although two goroutines may make it:  *)
(* what it lists as unpinned is off the server, and, unless a signal came,  *)
(* a CID that is still pinned when the command returns by itself is listed  *)
(* as failed, or no attempt was made at all.  With --no-cleanup nothing is  *)
(* unpinned.                                                                *)
CleanupReportIsTrue ==
  /\ unpinned \cap pinned = {}
  /\ process = "exited" /\ attempt["run"] > 0 /\ signalled = "waiting" =>
       listed \cap pinned \subseteq failed
  /\ noCleanup => unpinned \cup failed = {} /\ attempt = [c \in Cleaners |-> 0]

(* Refuted, without a run: with a signal the report may miss a CID that is  *)
(* still pinned, as the two clean-ups write over each other's entries.      *)
CleanupReportComplete ==
  process = "exited" /\ attempt["run"] > 0 => listed \cap pinned \subseteq failed

(* Refuted, without a run: bench_service.go:103 "Ensure cleanup runs no     *)
(* matter what".  A signal before the CID is listed, or a deadline that     *)
(* passed, skips it.                                                        *)
CleanupRuns ==
  ~Running /\ main # "flags" /\ ~noCleanup /\ pinned # {} =>
    \E c \in Cleaners : attempt[c] > 0
=============================================================================
