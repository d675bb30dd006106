---------------------------- MODULE WizardLogin ----------------------------
(***************************************************************************)
(* The sign-in that a setup wizard starts and polls by session and address *)
(* (auth_login.go), with the attempt counter that SSOLogin leaves out.  A  *)
(* POST fetches the counter under the coordinator's lock and uses it under *)
(* the counter's own; the reaper may have dropped it from the map in       *)
(* between, and then what the POST does to it is lost.  The POST also reads *)
(* the address of its request three times, and another POST of the request *)
(* may type a new one in between: the address that is checked for a        *)
(* lockout, the one that is tried, and the one the failure is noted under  *)
(* need not be the same.  Ages are left out: a request, a counter or a     *)
(* lockout may be past its time at any moment.                             *)
(***************************************************************************)
EXTENDS Naturals, FiniteSets

CONSTANTS LoginIds, Sessions, Addresses, Posts,
          MaxLoginAttempts   \* failures before the lockout

VARIABLES requests,   \* the coordinator's map: ids of the live requests
          request,    \* each request object, once begun
          throttle,   \* the counter of each address
          post,       \* where each POST is
          (* history *)
          guesses,    \* refused passwords of an address since it was last clear
          astray,     \* addresses that were tried without the check of their
                      \* counter, or refused without a note in it
          approved,   \* accepted by the backend while registered
          settled,    \* polled, reaped or failed since
          replaced    \* gave way to a new Begin before they were completed

wizVars == <<requests, request, throttle, post, guesses, astray, approved, settled,
             replaced>>

NoRequest  == [status |-> "none"]
NewRequest(s, a) == [session |-> s, address |-> a, status |-> "pending", error |-> FALSE]
NoCounter  == [failed |-> 0, locked |-> FALSE, used |-> "absent"]
NewCounter == [failed |-> 0, locked |-> FALSE, used |-> "never"]
NoPost     == [at |-> "idle"]

Succeeded(id) == request[id].status = "completed" /\ ~request[id].error

WizInit ==
  /\ requests = {} /\ request = [id \in LoginIds |-> NoRequest]
  /\ throttle = [a \in Addresses |-> NoCounter]
  /\ post = [p \in Posts |-> NoPost]
  /\ guesses = [a \in Addresses |-> 0] /\ astray = {}
  /\ approved = {} /\ settled = {} /\ replaced = {}

loginPart   == <<requests, request, approved, settled, replaced>>
counterPart == <<throttle, guesses, astray>>

-----------------------------------------------------------------------------
(* The wizard. *)

Register(id, s, a, evicted) ==
  /\ request[id] = NoRequest
  /\ requests' = (requests \ evicted) \cup {id}
  /\ request' = [request EXCEPT ![id] = NewRequest(s, a)]
  /\ replaced' = replaced \cup {e \in evicted : ~Succeeded(e)}
  /\ UNCHANGED <<counterPart, post, approved, settled>>

SameLogin(s, a) == {id \in requests : request[id].session = s /\ request[id].address = a}

(* A request of the same session and address gives way to the new one,      *)
(* unless the browser has completed it: then it is returned, and of the     *)
(* others only those the loop came across before it are gone.  A mutant     *)
(* evicts whatever there is.                                                *)
BeginOverAny(s, a) == \E id \in LoginIds : Register(id, s, a, SameLogin(s, a))
Begin(s, a) ==
  LET same == SameLogin(s, a)
      done == {id \in same : Succeeded(id)}
  IN \/ done = {} /\ \E id \in LoginIds : Register(id, s, a, same)
     \/ /\ done # {}
        /\ \E gone \in SUBSET (same \ done) :
             requests' = requests \ gone /\ replaced' = replaced \cup gone
        /\ UNCHANGED <<request, counterPart, post, approved, settled>>

(* The request a poll resolves: the one with the address, or the only one.  *)
Candidates(s) == {id \in requests : request[id].session = s}
Resolves(s, a, id) ==
  /\ id \in Candidates(s)
  /\ request[id].address = a \/ Candidates(s) = {id}

PendingOutcome(s, a) ==
  \E id \in LoginIds :
    /\ Resolves(s, a, id) /\ request[id].status # "pending"
    /\ requests' = requests \ {id} /\ settled' = settled \cup {id}
    /\ UNCHANGED <<request, counterPart, post, approved, replaced>>

-----------------------------------------------------------------------------
(* A POST of the login page.  Every step is one critical section.           *)

At(p, where) == post[p].at = where
GoTo(p, where) == post' = [post EXCEPT ![p].at = where]
Leave(p) == post' = [post EXCEPT ![p] = NoPost]

(* A link that completed or expired shows the spent page; a failed one may  *)
(* be tried again.                                                          *)
LoginPage(p, id) ==
  /\ At(p, "idle") /\ id \in requests
  /\ request[id].status # "expired" /\ ~Succeeded(id)
  /\ post' = [post EXCEPT ![p] = [at |-> "open", id |-> id, kept |-> FALSE,
                                  address |-> request[id].address]]
  /\ UNCHANGED <<loginPart, counterPart>>

(* The account the human typed is bound to the request. *)
BindAddress(p, a) ==
  /\ At(p, "open") /\ GoTo(p, "bound")
  /\ request' = [request EXCEPT ![post[p].id].address = a]
  /\ UNCHANGED <<requests, approved, settled, replaced, counterPart>>

(* A form without a password, or without the token of the page. *)
RefuseForm(p) == At(p, "bound") /\ Leave(p) /\ UNCHANGED <<loginPart, counterPart>>

(* throttleFor: the counter in the map, made if there is none.  `kept' says *)
(* that the POST holds the object that is in the map.                       *)
AddressOf(p) == request[post[p].id].address
ThrottleFor(p, where) ==
  LET a == AddressOf(p) IN
  /\ throttle' = [throttle EXCEPT ![a] = IF @ = NoCounter THEN NewCounter ELSE @]
  /\ post' = [post EXCEPT ![p].at = where, ![p].address = a, ![p].kept = TRUE]
  /\ UNCHANGED loginPart

(* The history: `more' go astray, and nothing is counted for them any more. *)
Tally(count, more) ==
  /\ astray' = astray \cup more
  /\ guesses' = [a \in Addresses |-> IF a \in astray' THEN 0 ELSE count[a]]

FetchForCheck(p) == At(p, "bound") /\ ThrottleFor(p, "fetched") /\ UNCHANGED <<guesses, astray>>

(* A counter that was dropped may have been locked by another POST since.   *)
ThrottleLocked(p) ==
  /\ At(p, "fetched")
  /\ \/ ~(post[p].kept /\ throttle[post[p].address].locked) /\ GoTo(p, "checking")
     \/ (post[p].kept => throttle[post[p].address].locked) /\ Leave(p)
  /\ UNCHANGED <<loginPart, counterPart>>

(* LoginCheck is called with the address that the request has by now.       *)
LoginCheck(p) ==
  LET a == AddressOf(p) IN
  /\ At(p, "checking")
  /\ post' = [post EXCEPT ![p].at = "asking", ![p].address = a]
  /\ Tally(guesses, {a} \ {post[p].address})
  /\ UNCHANGED <<loginPart, throttle>>

(* Its answer and those of the calls after it.  A refused password is a     *)
(* guess; an unfinished login, or a one-time password still to be typed, is *)
(* not.                                                                     *)
Refuse(p) ==
  /\ At(p, "asking") /\ GoTo(p, "refused")
  /\ Tally([guesses EXCEPT ![post[p].address] = @ + 1], {})
  /\ UNCHANGED <<loginPart, throttle>>
Accept(p)  ==
  LET id == post[p].id IN
  /\ At(p, "asking") /\ GoTo(p, "accepted")
  /\ IF id \in requests
     THEN approved' = approved \cup {id} /\ settled' = settled \ {id}
     ELSE UNCHANGED <<approved, settled>>
  /\ UNCHANGED <<requests, request, replaced, counterPart>>
AskOtp(p)  == At(p, "asking") /\ Leave(p) /\ UNCHANGED <<loginPart, counterPart>>
Unfinished(p) == At(p, "asking") /\ GoTo(p, "noted") /\ UNCHANGED <<loginPart, counterPart>>

(* The failure is noted, or the counter cleared, under the address that the *)
(* request has then.                                                        *)
FetchForFailure(p) ==
  At(p, "refused") /\ ThrottleFor(p, "failing") /\ Tally(guesses, {post[p].address} \ {AddressOf(p)})
FetchForReset(p) ==
  At(p, "accepted") /\ ThrottleFor(p, "clearing") /\ UNCHANGED <<guesses, astray>>

(* The refused passwords that no counter has seen yet. *)
Unnoted(a, but) ==
  Cardinality({p \in Posts \ but : post[p].at \in {"refused", "failing"} /\ post[p].address = a})

(* One failure more, from zero after a day without; the last one locks the  *)
(* address and starts from zero.                                            *)
Failed(c) ==
  LET n == (IF c.used = "recent" THEN c.failed ELSE 0) + 1
  IN [failed |-> IF n >= MaxLoginAttempts THEN 0 ELSE n,
      locked |-> c.locked \/ n >= MaxLoginAttempts, used |-> "recent"]

NoteFailure(p) ==
  LET a == post[p].address IN
  /\ At(p, "failing") /\ (GoTo(p, "noted") \/ GoTo(p, "miscoded"))
  /\ IF post[p].kept
     THEN /\ throttle' = [throttle EXCEPT ![a] = Failed(@)]
          /\ Tally([guesses EXCEPT ![a] =
                      IF throttle[a].used = "recent" THEN @ ELSE Unnoted(a, {p}) + 1], {})
     ELSE Tally(guesses, {a}) /\ UNCHANGED throttle
  /\ UNCHANGED loginPart

(* A refused password ends the request, a refused code only marks it.       *)
EndRequest(p, status) ==
  /\ Leave(p)
  /\ request' = [request EXCEPT ![post[p].id].status = status, ![post[p].id].error = TRUE]
  /\ settled' = settled \cup {post[p].id}
  /\ UNCHANGED <<requests, approved, replaced, counterPart>>
FailReq(p)  == At(p, "noted") /\ EndRequest(p, "completed")
MarkCode(p) == At(p, "miscoded") /\ EndRequest(p, request[post[p].id].status)

ResetThrottle(p) ==
  LET a == post[p].address IN
  /\ At(p, "clearing") /\ GoTo(p, "cleared")
  /\ IF post[p].kept
     THEN /\ throttle' = [throttle EXCEPT ![a] = NewCounter]
          /\ Tally([guesses EXCEPT ![a] = Unnoted(a, {})], {})
     ELSE UNCHANGED counterPart
  /\ UNCHANGED loginPart

CompleteReq(p) ==
  LET id == post[p].id IN
  /\ At(p, "cleared") /\ Leave(p)
  /\ request' = [request EXCEPT ![id].status = "completed", ![id].error = FALSE]
  /\ settled' = IF id \in requests THEN settled \ {id} ELSE settled
  /\ UNCHANGED <<requests, approved, replaced, counterPart>>

-----------------------------------------------------------------------------
(* Time. *)

Unlock(a) ==
  /\ throttle[a].locked
  /\ throttle' = [throttle EXCEPT ![a].locked = FALSE]
  /\ Tally([guesses EXCEPT ![a] = Unnoted(a, {})], {})
  /\ UNCHANGED <<loginPart, post>>

(* A day passes since the last failure; lockouts are shorter. *)
GrowIdle(a) ==
  /\ throttle[a].used = "recent" /\ ~throttle[a].locked
  /\ throttle' = [throttle EXCEPT ![a].used = "idle"]
  /\ UNCHANGED <<loginPart, guesses, astray, post>>

(* The reaper: old requests are expired and removed, completed ones are     *)
(* removed after their time, and an idle counter without a lockout leaves   *)
(* the map, whoever holds it.                                               *)
Idle(a) == throttle[a].used \in {"never", "idle"} /\ ~throttle[a].locked
Reap ==
  \E old \in SUBSET requests :
    LET idle == {a \in Addresses : Idle(a)} IN
    /\ old # {} \/ idle # {}
    /\ requests' = requests \ old
    /\ request' = [id \in LoginIds |->
         IF id \in old /\ request[id].status = "pending"
         THEN [request[id] EXCEPT !.status = "expired"] ELSE request[id]]
    /\ settled' = settled \cup old
    /\ throttle' = [a \in Addresses |-> IF a \in idle THEN NoCounter ELSE throttle[a]]
    /\ post' = [p \in Posts |->
         IF post[p] # NoPost /\ post[p].address \in idle THEN [post[p] EXCEPT !.kept = FALSE]
         ELSE post[p]]
    /\ Tally([a \in Addresses |-> IF a \in idle THEN Unnoted(a, {}) ELSE guesses[a]], {})
    /\ UNCHANGED <<approved, replaced>>

WizNext ==
  \/ \E s \in Sessions, a \in Addresses : Begin(s, a) \/ PendingOutcome(s, a)
  \/ \E p \in Posts :
       \/ \E id \in LoginIds : LoginPage(p, id)
       \/ \E a \in Addresses : BindAddress(p, a)
       \/ RefuseForm(p) \/ FetchForCheck(p) \/ ThrottleLocked(p) \/ LoginCheck(p)
       \/ Refuse(p) \/ Accept(p) \/ AskOtp(p) \/ Unfinished(p)
       \/ FetchForFailure(p) \/ NoteFailure(p) \/ FailReq(p) \/ MarkCode(p)
       \/ FetchForReset(p) \/ ResetThrottle(p) \/ CompleteReq(p)
  \/ \E a \in Addresses : Unlock(a) \/ GrowIdle(a)
  \/ Reap

-----------------------------------------------------------------------------
(* Shape of the state. *)
WizTypeOK ==
  /\ requests \subseteq LoginIds
  /\ \A id \in LoginIds : request[id].status \in {"none", "pending", "completed", "expired"}
  /\ \A a \in Addresses :
       /\ throttle[a].used \in {"absent", "never", "recent", "idle"}
       /\ throttle[a].failed \in 0..MaxLoginAttempts - 1 /\ guesses[a] \in Nat
  /\ approved \cup settled \cup replaced \subseteq LoginIds /\ astray \subseteq Addresses

(* auth_login.go:84-90, 321-325: a sign-in the backend accepted while the   *)
(* wizard's request was registered stays there, and from completeReq on as  *)
(* accepted, until a poll takes it, the reaper drops it or a second POST of *)
(* the page fails it.  A wizard that begins again takes its place only      *)
(* before completeReq.                                                      *)
AcceptedIsKept ==
  \A id \in approved \ (settled \cup replaced) :
    /\ id \in requests
    /\ Succeeded(id) \/ \E p \in Posts :
         post[p] # NoPost /\ post[p].id = id /\ post[p].at \in {"accepted", "clearing", "cleared"}

(* auth_login.go:745-757: an address is locked after MaxLoginAttempts       *)
(* refused passwords, whatever requests they came through; only the POSTs   *)
(* already past the check may add to them, one each.  It holds of an address *)
(* whose guesses were all checked and noted under its own name, in a        *)
(* counter the reaper had not dropped meanwhile, whatever becomes of the    *)
(* others.                                                                  *)
GuessesBounded ==
  \A a \in Addresses \ astray : guesses[a] <= MaxLoginAttempts + Cardinality(Posts) - 1

-----------------------------------------------------------------------------
(* Refuted, without a run: "neither restarting a login nor churning         *)
(* sessions can reset the counter" and "once the burst threshold is         *)
(* reached, locks it out" (auth_login.go:751-757) hold of no address for    *)
(* sure, as a POST that retypes the address while another is at the backend *)
(* sends its guess or its note astray; and "a browser POST that completes a *)
(* login is never dropped by a concurrent Begin" (:84-90), as one that      *)
(* begins between the backend's answer and completeReq drops it.            *)
NothingAstray == astray = {}

NeverReplaced == approved \cap replaced = {}
=============================================================================
