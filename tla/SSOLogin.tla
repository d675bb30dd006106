------------------------------- MODULE SSOLogin -----------------------------
(***************************************************************************)
(* The out-of-band sign-in (internal/mcp/auth/auth_login.go and            *)
(* auth_sso.go): auth_sso begins a login or joins the one in flight, the   *)
(* human types credentials on the login page, auth_resume polls, and       *)
(* auth_sso_revoke calls it off.  A reaper expires abandoned logins.       *)
(*                                                                         *)
(* For these tools one identifier is the request, the link and the handle. *)
(* The coordinator's maps are an endpoint state: items are the keys of     *)
(* o.requests, spent and order its own tombstones.  A request outlives its *)
(* entry in the map, because a POST keeps the pointer it looked up.        *)
(* Left out: the wizard's Begin, and the brute-force counter, which only   *)
(* adds one more reason for a POST to be turned away.                      *)
(***************************************************************************)
EXTENDS Resume

CONSTANTS Accounts,      \* the e-mail addresses
          NoAccount,     \* the empty address
          Starters,      \* calls of auth_sso at once
          Revokers,      \* calls of auth_sso_revoke at once
          Browsers       \* POSTs of the login page at once

ASSUME AccountAssumption == NoAccount \notin Accounts

VARIABLES
  ep,                    \* o.requests (keys), o.spent, o.spentOrder
  status, erred, email,  \* the requests: status, loginError # nil, email
  old,                   \* the requests pendingLoginTTL has passed for
  at, mine,              \* auth_sso: where each call is, and its handle
  doing, target,         \* auth_sso_revoke
  pc, link,              \* POSTs
  issued, edited, refused, signedIn, revoked, reaped   \* history

requests == <<ep, status, erred, email, old>>
starts   == <<at, mine>>
revokes  == <<doing, target>>
posts    == <<pc, link>>
history  == <<issued, edited, refused, signedIn, revoked, reaped>>
vars     == <<requests, starts, revokes, posts, history, resumeVars>>

Statuses == {"unborn", "pending", "completed", "expired"}

Init ==
  /\ ep = EmptyEndpoint
  /\ status = [t \in Tokens |-> "unborn"] /\ erred = {} /\ old = {}
  /\ email = [t \in Tokens |-> NoAccount]
  /\ at = [s \in Starters |-> "idle"]  /\ mine \in [Starters -> Tokens]
  /\ doing = [v \in Revokers |-> "idle"] /\ target \in [Revokers -> Tokens]
  /\ pc = [b \in Browsers |-> "idle"]  /\ link \in [Browsers -> Tokens]
  /\ issued = {} /\ edited = {} /\ refused = {} /\ signedIn = {}
  /\ revoked = {} /\ reaped = {}
  /\ ResumeInit

-----------------------------------------------------------------------------
(* auth_sso: one critical section looks for a pending login that fits and   *)
(* inserts a new one if there is none; the handle and its continuation      *)
(* follow, each under the lock of its own store.                            *)
Compatible(e) ==
  {t \in ep.items : status[t] = "pending" /\ e \in {NoAccount, email[t]}}

Join(s, e) ==
  /\ at[s] = "idle" /\ at' = [at EXCEPT ![s] = "begun"]
  /\ \E t \in Compatible(e) : mine' = [mine EXCEPT ![s] = t]
  /\ UNCHANGED <<requests, revokes, posts, history, resumeVars>>

Insert(s, e, t) ==
  /\ at[s] = "idle" /\ at' = [at EXCEPT ![s] = "begun"]
  /\ mine' = [mine EXCEPT ![s] = t]
  /\ status[t] = "unborn" /\ status' = [status EXCEPT ![t] = "pending"]
  /\ ep' = Minted(ep, t) /\ email' = [email EXCEPT ![t] = e]
  /\ UNCHANGED <<erred, old, revokes, posts, history, resumeVars>>

(* Mutant: a new login although one that fits is in flight. *)
BeginAnew(s, e) == Join(s, e) \/ \E t \in Tokens : Insert(s, e, t)

BeginOrResume(s, e) ==
  \/ Join(s, e)
  \/ Compatible(e) = {} /\ \E t \in Tokens : Insert(s, e, t)

CreateHandle(s) ==
  /\ at[s] = "begun" /\ at' = [at EXCEPT ![s] = "created"]
  /\ handles' = handles \cup {mine[s]}
  /\ UNCHANGED <<requests, mine, revokes, posts, history, reg, stage, ask, verdict, told>>

Register(s) ==
  /\ at[s] = "created" /\ at' = [at EXCEPT ![s] = "idle"]
  /\ reg' = reg \cup {mine[s]} /\ issued' = issued \cup {mine[s]}
  /\ UNCHANGED <<requests, mine, revokes, posts, edited, refused, signedIn, revoked, reaped,
                 handles, stage, ask, verdict, told>>

Start(s) == CreateHandle(s) \/ Register(s)

-----------------------------------------------------------------------------
(* auth_sso_revoke: the request, the handle, the continuation. *)
Retire(v, t) ==
  /\ doing[v] = "idle" /\ doing' = [doing EXCEPT ![v] = "revoked"]
  /\ target' = [target EXCEPT ![v] = t]
  /\ ep' = Taken(ep, t) /\ revoked' = revoked \cup {t}
  /\ UNCHANGED <<status, erred, email, old, starts, posts, issued, edited, refused,
                 signedIn, reaped, resumeVars>>

Overlook(v, t) ==
  /\ doing[v] = "idle" /\ doing' = [doing EXCEPT ![v] = "revoked"]
  /\ target' = [target EXCEPT ![v] = t]
  /\ UNCHANGED <<requests, starts, posts, history, resumeVars>>

IsPending(t) == t \in ep.items /\ status[t] = "pending"

(* Mutant: whatever state the login is in. *)
RevokeAny(v, t) == t \in issued /\ Retire(v, t)

(* Revoke: only a pending login is called off. *)
Revoke(v, t) ==
  /\ t \in issued
  /\ (IsPending(t) /\ Retire(v, t)) \/ (~IsPending(t) /\ Overlook(v, t))

RevokeHandle(v) ==
  /\ doing[v] = "revoked" /\ doing' = [doing EXCEPT ![v] = "deleted"]
  /\ handles' = handles \ {target[v]}
  /\ UNCHANGED <<requests, starts, target, posts, history, reg, stage, ask, verdict, told>>

RevokeContinuation(v) ==
  /\ doing[v] = "deleted" /\ doing' = [doing EXCEPT ![v] = "idle"]
  /\ reg' = reg \ {target[v]}
  /\ UNCHANGED <<requests, starts, target, posts, history, handles, stage, ask, verdict, told>>

CallOff(v) == RevokeHandle(v) \/ RevokeContinuation(v)

-----------------------------------------------------------------------------
(* The POST of the login page. *)
Go(b, from, to) == pc[b] = from /\ pc' = [pc EXCEPT ![b] = to]

Open(b, t) ==
  /\ t \in ep.items /\ Go(b, "idle", "found") /\ link' = [link EXCEPT ![b] = t]
  /\ UNCHANGED <<requests, starts, revokes, history, resumeVars>>

(* loginSpentReason: a login that succeeded or expired takes no more        *)
(* credentials; one that failed does.                                       *)
IsSpent(t) == status[t] = "expired" \/ (status[t] = "completed" /\ t \notin erred)

Check(b) ==
  /\ ~IsSpent(link[b]) /\ Go(b, "found", "open")
  /\ UNCHANGED <<requests, link, starts, revokes, history, resumeVars>>

(* Wrong origin, a spent login, a bad form.                                 *)
TurnAway(b) ==
  /\ Go(b, "found", "idle")
  /\ UNCHANGED <<requests, link, starts, revokes, history, resumeVars>>

(* The address the human typed replaces the request's. The password, the    *)
(* csrf value and the throttle are looked at afterwards.                    *)
Enter(b) ==
  /\ Go(b, "open", "asking") \/ Go(b, "open", "idle")
  /\ \E e \in Accounts \cup {email[link[b]]} :
       /\ email' = [email EXCEPT ![link[b]] = e]
       /\ edited' = IF e = email[link[b]] THEN edited ELSE edited \cup {link[b]}
  /\ UNCHANGED <<ep, status, erred, old, link, starts, revokes, issued, refused,
                 signedIn, revoked, reaped, resumeVars>>

(* LoginCheck or CompleteLogin fails, and failReq ends the request.         *)
Deny(b) ==
  /\ Go(b, "asking", "idle")
  /\ status' = [status EXCEPT ![link[b]] = "completed"]
  /\ erred' = erred \cup {link[b]} /\ old' = old \ {link[b]}
  /\ refused' = refused \cup {link[b]}
  /\ UNCHANGED <<ep, email, link, starts, revokes, issued, edited, signedIn, revoked,
                 reaped, resumeVars>>

(* The account wants a one-time password: the page shows that stage ...     *)
AskOtp(b) ==
  /\ Go(b, "asking", "idle")
  /\ UNCHANGED <<requests, link, starts, revokes, history, resumeVars>>

(* ... or the one that was sent is wrong: the error is noted.               *)
DenyOtp(b) ==
  /\ Go(b, "asking", "idle")
  /\ erred' = erred \cup {link[b]} /\ refused' = refused \cup {link[b]}
  /\ UNCHANGED <<ep, status, email, old, link, starts, revokes, issued, edited,
                 signedIn, revoked, reaped, resumeVars>>

(* CompleteLogin or LoginWithOTP succeeds; completeReq follows.             *)
Accept(b) ==
  /\ Go(b, "asking", "accepted")
  /\ signedIn' = signedIn \cup {link[b]}
  /\ UNCHANGED <<requests, link, starts, revokes, issued, edited, refused, revoked,
                 reaped, resumeVars>>

Complete(b) ==
  /\ Go(b, "accepted", "idle")
  /\ status' = [status EXCEPT ![link[b]] = "completed"]
  /\ erred' = erred \ {link[b]} /\ old' = old \ {link[b]}
  /\ UNCHANGED <<ep, email, link, starts, revokes, history, resumeVars>>

Serve(b) ==
  \/ Check(b) \/ TurnAway(b) \/ Enter(b) \/ Deny(b) \/ AskOtp(b) \/ DenyOtp(b)
  \/ Accept(b) \/ Complete(b)

-----------------------------------------------------------------------------
(* auth_resume.  PendingOutcome: a request that is over leaves the map, and *)
(* its answer is the last one; no request reads as done.                    *)
Forgotten(t) == [ep EXCEPT !.items = @ \ {t}]

(* Mutant: an outcome that was told stays in the map.                       *)
PeekLogin(p) ==
  LET t == ask[p]
  IN  /\ \/ t \notin ep.items /\ Answer(p, "dispatched", "delete", "done")
         \/ IsPending(t)      /\ Answer(p, "dispatched", "idle", "pending")
         \/ /\ t \in ep.items /\ status[t] = "completed"
            /\ Answer(p, "dispatched", "delete", IF t \in erred THEN "failed" ELSE "done")
      /\ UNCHANGED <<requests, starts, revokes, posts, history>>

ReadLogin(p) ==
  LET t == ask[p]
  IN  /\ \/ t \notin ep.items /\ Answer(p, "dispatched", "delete", "done")    /\ ep' = ep
         \/ IsPending(t)      /\ Answer(p, "dispatched", "idle", "pending")  /\ ep' = ep
         \/ /\ t \in ep.items /\ status[t] = "completed" /\ ep' = Forgotten(t)
            /\ Answer(p, "dispatched", "delete", IF t \in erred THEN "failed" ELSE "done")
      /\ UNCHANGED <<status, erred, email, old, starts, revokes, posts, history>>

Continue(p) ==
  \/ ReadLogin(p)
  \/ Bookkeeping(p) /\ UNCHANGED <<requests, starts, revokes, posts, history>>

CallResume(p, t) ==
  t \in issued /\ Poll(p, t) /\ UNCHANGED <<requests, starts, revokes, posts, history>>

-----------------------------------------------------------------------------
(* The clocks and capacities. *)
Grow(t) ==
  /\ t \in ep.items \ old /\ old' = old \cup {t}
  /\ UNCHANGED <<ep, status, erred, email, starts, revokes, posts, history, resumeVars>>

Forsake(t) == Drop(t) /\ UNCHANGED <<requests, starts, revokes, posts, history>>

(* Mutants: an expired login stays in the map; only finished ones are reaped. *)
ReapLeaves ==
  /\ status' = [t \in Tokens |-> IF IsPending(t) /\ t \in old THEN "expired" ELSE status[t]]
  /\ UNCHANGED <<ep, erred, email, old, starts, revokes, posts, history, resumeVars>>

ReapFinished ==
  /\ \E seq \in SweepOrders(ep, {t \in old : status[t] = "completed"}) : ep' = Swept(ep, seq)
  /\ reaped' = reaped \cup (ep.items \ ep'.items)
  /\ UNCHANGED <<status, erred, email, old, starts, revokes, posts, issued, edited,
                 refused, signedIn, revoked, resumeVars>>

(* The reaper: old pending logins expire, and every login that is over and  *)
(* old leaves a tombstone.                                                  *)
Reap ==
  /\ \E seq \in SweepOrders(ep, old) : ep' = Swept(ep, seq)
  /\ status' = [t \in Tokens |-> IF IsPending(t) /\ t \in old THEN "expired" ELSE status[t]]
  /\ reaped' = reaped \cup (ep.items \ ep'.items)
  /\ UNCHANGED <<erred, email, old, starts, revokes, posts, issued, edited, refused,
                 signedIn, revoked, resumeVars>>

Next ==
  \/ \E s \in Starters, e \in Accounts \cup {NoAccount} : BeginOrResume(s, e)
  \/ \E s \in Starters : Start(s)
  \/ \E v \in Revokers, t \in Tokens : Revoke(v, t)
  \/ \E v \in Revokers : CallOff(v)
  \/ \E b \in Browsers, t \in Tokens : Open(b, t)
  \/ \E b \in Browsers : Serve(b)
  \/ \E p \in Pollers, t \in Tokens : CallResume(p, t)
  \/ \E p \in Pollers : Continue(p)
  \/ \E t \in Tokens : Grow(t) \/ Forsake(t)
  \/ Reap

Spec == Init /\ [][Next]_vars

(* The clock and the reaper's ticker run, called handlers run to their end, *)
(* the agent keeps polling.                                                 *)
Fairness ==
  /\ \A t \in Tokens : WF_vars(Grow(t))
  /\ WF_vars(Reap)
  /\ \A s \in Starters : WF_vars(Start(s))
  /\ \A b \in Browsers : WF_vars(Serve(b))
  /\ \A p \in Pollers : WF_vars(Continue(p))
  /\ \A t \in Tokens : SF_vars(\E p \in Pollers : CallResume(p, t))

FairSpec == Spec /\ Fairness

-----------------------------------------------------------------------------
TypeOK ==
  /\ ep \in EndpointState
  /\ status \in [Tokens -> Statuses] /\ erred \subseteq Tokens
  /\ email \in [Tokens -> Accounts \cup {NoAccount}] /\ old \subseteq Tokens
  /\ at \in [Starters -> {"idle", "begun", "created"}] /\ mine \in [Starters -> Tokens]
  /\ doing \in [Revokers -> {"idle", "revoked", "deleted"}] /\ target \in [Revokers -> Tokens]
  /\ pc \in [Browsers -> {"idle", "found", "open", "asking", "accepted"}]
  /\ link \in [Browsers -> Tokens]
  /\ issued \cup edited \cup refused \cup signedIn \cup revoked \cup reaped \subseteq Tokens
  /\ \A t \in ep.items : status[t] \in {"pending", "completed"}
  /\ ResumeTypeOK

(* "two simultaneous triggers cannot both observe 'no login pending' and    *)
(* then both insert competing logins" (BeginOrResume): however auth_sso,    *)
(* revocation and the reaper interleave, two pending logins are for         *)
(* different accounts, unless a human changed one on its page.              *)
SingleFlight ==
  \A t, u \in Tokens :
    t # u /\ IsPending(t) /\ IsPending(u) /\ email[t] = email[u] =>
      t \in edited \/ u \in edited

(* A poll that took the failure of a login out of the map and has not said  *)
(* so yet.                                                                  *)
Failing(p, t) == stage[p] \in {"delete", "end"} /\ ask[p] = t /\ verdict[p] = "failed"

(* What a final answer of auth_resume is worth, however the human, the      *)
(* revoker, the reaper and other polls race (auth_login.go:492-509,         *)
(* auth_sso.go:121-163).  The login it is about can no longer be joined,    *)
(* revoked or polled as pending.  "failed" is said of a login that was      *)
(* refused, by one poll only: the one that took the failure out of the map. *)
(* "done" is said of a login that somebody signed in to, or that was        *)
(* revoked or reaped, or whose failure went to another poll: so one handle  *)
(* may be answered "failed" and "done" (AnswersAgree), but in no other way  *)
(* does "done" go wrong.                                                    *)
AnswersAccounted ==
  \A t \in Tokens :
    /\ told[t] \cap {"done", "failed"} # {} => t \notin ep.items
    /\ "failed" \in told[t] => t \in refused /\ \A p \in Pollers : ~Failing(p, t)
    /\ \A p, q \in Pollers : Failing(p, t) /\ Failing(q, t) => p = q
    /\ "done" \in told[t] =>
         \/ t \in signedIn \cup revoked \cup reaped
         \/ "failed" \in told[t] \/ \E p \in Pollers : Failing(p, t)

(* What becomes of a login that the backend accepted (auth_login.go:682-704) *)
(* while others act on it: it leaves the map in the hands of a poll, which  *)
(* answers "done", or "failed" if another POST was refused; when its time   *)
(* is over; or by a revocation that met it still pending, between the       *)
(* backend's answer and completeReq.  A login whose completion is recorded  *)
(* is never revoked.                                                        *)
AcceptedLeaves ==
  [][\A t \in (ep.items \ ep'.items) \cap signedIn :
       \/ \E p \in Pollers :
            /\ ask[p] = t /\ stage[p] = "dispatched"
            /\ verdict'[p] = IF t \in erred THEN "failed" ELSE "done"
       \/ t \in old
       \/ t \in revoked' /\ \E b \in Browsers : pc[b] = "accepted" /\ link[b] = t]_vars

(* Every handle that auth_sso returned is answered finally, if the agent    *)
(* keeps polling, whatever the human does: the reaper sees to it.           *)
EveryLoginAnswered == \A t \in Tokens : t \in issued ~> told[t] # {}

-----------------------------------------------------------------------------
(* auth_resume "Returns pending (needs_human) until approval is done, then  *)
(* reports done" (auth_sso.go:233).  Violated: once the reaper has evicted  *)
(* a login nobody approved, or it was revoked, or another poll took its     *)
(* failure, a poll whose handle is still there reports the sign-in          *)
(* complete.                                                                *)
DoneMeansSignedIn == \A t \in Tokens : "done" \in told[t] => t \in signedIn

(* Two more that the code refutes, without a run: a handle may be answered  *)
(* "failed" by one poll and "done" by another, and a login that the backend *)
(* accepted may be revoked all the same.                                    *)
AnswersAgree == \A t \in Tokens : ~({"done", "failed"} \subseteq told[t])

RevokedIsNotSignedIn == \A t \in revoked : t \notin signedIn
=============================================================================
