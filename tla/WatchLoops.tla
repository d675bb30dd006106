----------------------------- MODULE WatchLoops -----------------------------
(***************************************************************************)
(* The commands that poll: `pinner list --watch`, `websites ssl status     *)
(* --watch`, `operations list|get --watch` and `status --watch`            *)
(* (src/internal/cli/output.go, list.go, websites_ssl.go, operations.go,   *)
(* operations_service.go, status.go and src/internal/core/status).  The    *)
(* service works on the items while they are watched; a watch ends when it *)
(* finds everything settled, when nothing is left, on an error or on       *)
(* Ctrl+C.                                                                 *)
(***************************************************************************)
EXTENDS Naturals, FiniteSets

CONSTANTS
  WatchItems,   \* pins, operations or certificates by number, newest last
  WatchLines,   \* the command lines: command, watch, json, colour, filter, piped
  PageLimit     \* operations on one page

VARIABLES
  watchLine,    \* the command line
  itemState,    \* the service's status of every item
  client,       \* the account client the operations service holds
  display,      \* the rows printed last: item -> status text
  ended         \* how the command ended

watchVars == <<watchLine, itemState, client, display, ended>>

Waiting == {"queued", "pinning"}
\* Mutant: a failure is not a settled state.
OnlyDone(s) == s = "done"
IsSettled(s) == s \in {"done", "failed"}
ItemStates == {"absent"} \cup Waiting \cup {"done", "failed"}
Existing == {i \in WatchItems : itemState[i] # "absent"}

(* A status as it is printed: on a colour terminal it is wrapped in colour  *)
(* codes.                                                                   *)
formatStatusWithColor(s) == IF watchLine.colour THEN [text |-> s, plain |-> FALSE] ELSE [text |-> s, plain |-> TRUE]

(* The status column is the third; a row with fewer columns has none.  Only *)
(* the plain words queued and pinning keep a watch going.                   *)
\* Mutant: a pin that is being pinned counts as settled.
QueuedOnly(rows) == \A r \in rows : ~(r.columns >= 3 /\ r.status.plain /\ r.status.text = "queued")
allTerminal(rows) == \A r \in rows : ~(r.columns >= 3 /\ r.status.plain /\ r.status.text \in Waiting)

End(how) == ended' = how
Show(items) == display' = [i \in items |-> itemState[i]]
Running == ended = "" /\ watchLine.watch

-----------------------------------------------------------------------------
(* output.Watch: fetch, print, stop on an empty list or when every row is   *)
(* terminal.                                                                *)
watchLoop(items, rows) ==
  /\ Show(items)
  /\ CASE rows = {} -> End("empty")
       [] rows # {} /\ allTerminal(rows) -> End("terminal")
       [] OTHER -> UNCHANGED ended
  /\ UNCHANGED <<watchLine, itemState, client>>

Filtered == {i \in Existing : watchLine.filter # "" => itemState[i] = watchLine.filter}
PinRows(items) == {[item |-> i, columns |-> 4, status |-> formatStatusWithColor(itemState[i])] : i \in items}
ListWatch == Running /\ watchLine.command = "list" /\ watchLoop(Filtered, PinRows(Filtered))

SSLRows(i) == {[item |-> i, columns |-> 2, status |-> [text |-> "", plain |-> TRUE]]}
SSLWatch ==
  /\ Running /\ watchLine.command = "ssl"
  /\ \E i \in Existing :
       /\ \A j \in Existing : i <= j
       /\ watchLoop({i}, SSLRows(i))

-----------------------------------------------------------------------------
(* The operations service: one authenticated client, kept; pages of the     *)
(* newest operations; without a filter and without --watch only those that  *)
(* are still running.                                                       *)
RequireAuthenticated ==
  /\ ended = "" /\ client = "none"
  /\ \E ok \in BOOLEAN : IF ok THEN client' = "held" /\ UNCHANGED ended ELSE End("unauthenticated") /\ UNCHANGED client
  /\ UNCHANGED <<watchLine, itemState, display>>

Listed ==
  LET running == {i \in Existing : itemState[i] \in Waiting}
  IN IF watchLine.filter = "" /\ ~watchLine.watch THEN running ELSE Filtered
PageOf(items) == {i \in items : Cardinality({j \in items : j > i}) < PageLimit}
allOperationsSettled(items) == \A i \in items : IsSettled(itemState[i])

(* The first listing is printed and may end the watch at once, even empty;  *)
(* later an empty page ends it with another message.                        *)
OperationsWatch(polled) ==
  /\ Running /\ client = "held" /\ watchLine.command = "operations" /\ ~watchLine.json
  /\ polled = (display # [i \in {} |-> ""])
  /\ LET page == PageOf(Listed)
     IN IF polled /\ page = {} THEN End("empty") /\ UNCHANGED display
        ELSE Show(page) /\ IF allOperationsSettled(page) THEN End("terminal") ELSE UNCHANGED ended
  /\ UNCHANGED <<watchLine, itemState, client>>

OperationWatch ==
  /\ Running /\ client = "held" /\ watchLine.command = "operation" /\ ~watchLine.json
  /\ \E i \in WatchItems :
       /\ \A j \in WatchItems : i <= j
       /\ IF itemState[i] = "absent" THEN End("failed") /\ UNCHANGED display
          ELSE Show({i}) /\ IF IsSettled(itemState[i]) THEN End("terminal") ELSE UNCHANGED ended
  /\ UNCHANGED <<watchLine, itemState, client>>

(* Without --watch, and with --json, an operations command lists once.      *)
OperationsOnce ==
  /\ ended = "" /\ client = "held" /\ watchLine.command \in {"operations", "operation"}
  /\ ~watchLine.watch \/ watchLine.json
  /\ Show(PageOf(Listed)) /\ End("listed")
  /\ UNCHANGED <<watchLine, itemState, client>>

ListOnce ==
  /\ ended = "" /\ ~watchLine.watch /\ watchLine.command \in {"list", "ssl"}
  /\ Show(Filtered) /\ End("listed")
  /\ UNCHANGED <<watchLine, itemState, client>>

-----------------------------------------------------------------------------
(* `status`: item 1 is the pin of the CID, the others are operations for    *)
(* it.  A pin is polled until it settles; if there is none, one operation   *)
(* for the CID is shown, and not watched.  CIDs that are piped in are shown *)
(* once each.                                                               *)
FindOperation(i) == i \in Existing \ {1}
lookupOperation ==
  \/ \E i \in WatchItems : FindOperation(i) /\ Show({i}) /\ End("operation")
  \/ Existing \ {1} = {} /\ End("missing") /\ UNCHANGED display
StatusOf ==
  /\ ended = "" /\ client = "held" /\ watchLine.command = "status" /\ ~watchLine.piped
  /\ IF 1 \notin Existing THEN lookupOperation
     ELSE IF watchLine.watch /\ ~IsSettled(itemState[1]) THEN UNCHANGED <<ended, display>>
     ELSE Show({1}) /\ End("pin")
  /\ UNCHANGED <<watchLine, itemState, client>>
StatusTable ==
  /\ ended = "" /\ client = "held" /\ watchLine.command = "status" /\ watchLine.piped
  /\ Show(Existing) /\ End("listed")
  /\ UNCHANGED <<watchLine, itemState, client>>

(* Ctrl+C: the single operation says so and succeeds, the others return the *)
(* context's error.                                                         *)
Interrupted ==
  /\ Running
  /\ End(IF watchLine.command = "operation" THEN "stopped" ELSE "cancelled")
  /\ UNCHANGED <<watchLine, itemState, client, display>>

(* The service settles items, and a user may add or remove some.            *)
Advance(i) ==
  /\ itemState[i] \in Waiting
  /\ \E s \in IF itemState[i] = "queued" THEN {"pinning"} ELSE {"done", "failed"} : itemState' = [itemState EXCEPT ![i] = s]
  /\ UNCHANGED <<watchLine, client, display, ended>>
Appear(i) ==
  /\ itemState[i] = "absent" /\ ended = ""
  /\ itemState' = [itemState EXCEPT ![i] = "queued"]
  /\ UNCHANGED <<watchLine, client, display, ended>>

-----------------------------------------------------------------------------
WatchInit ==
  /\ watchLine \in WatchLines
  /\ itemState \in [WatchItems -> {"absent", "queued", "done"}]
  /\ watchLine.command = "ssl" => Existing # {}
  /\ client = IF watchLine.command \in {"operations", "operation", "status"} THEN "none" ELSE "other"
  /\ display = [i \in {} |-> ""] /\ ended = ""
Poll == ListWatch \/ SSLWatch \/ OperationsWatch(TRUE) \/ OperationsWatch(FALSE) \/ OperationWatch
          \/ StatusOf \/ StatusTable \/ OperationsOnce \/ ListOnce
WatchNext ==
  \/ RequireAuthenticated \/ Poll \/ Interrupted
  \/ \E i \in WatchItems : Advance(i) \/ Appear(i)

(* The ticker keeps polling, the request for a client returns, and the      *)
(* service settles what it works on.                                        *)
WatchFair ==
  WF_watchVars(RequireAuthenticated) /\ WF_watchVars(Poll) /\ \A i \in WatchItems : WF_watchVars(Advance(i))
WatchSpec == WatchInit /\ [][WatchNext]_watchVars /\ WatchFair

-----------------------------------------------------------------------------
WatchTypeOK ==
  /\ watchLine \in WatchLines /\ itemState \in [WatchItems -> ItemStates]
  /\ client \in {"none", "held", "other"} /\ DOMAIN display \subseteq WatchItems
  /\ ended \in {"", "terminal", "empty", "unauthenticated", "failed", "listed", "operation", "missing", "pin", "cancelled", "stopped"}

(* A watch over operations, and one over pins without colours, that ends    *)
(* with its terminal message leaves on the screen what the items are now:   *)
(* settled for good (watchLoop, watchOperationsList, watchOperation).       *)
ColourBlind == watchLine.command \in {"operations", "operation"} \/ (watchLine.command = "list" /\ ~watchLine.colour)
TerminalWatchIsFinal ==
  ended = "terminal" /\ ColourBlind =>
    \A i \in DOMAIN display : display[i] = itemState[i] /\ IsSettled(itemState[i])

(* Every watch comes to an end once the service has settled its items.      *)
WatchEnds == <>(ended # "")

(* "checks if all rows indicate terminal status": a watch says terminal     *)
(* only of settled items.                                                   *)
TerminalIsTrue == ended = "terminal" => \A i \in DOMAIN display : IsSettled(itemState[i])
=============================================================================
