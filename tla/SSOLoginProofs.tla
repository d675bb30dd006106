---------------------------- MODULE SSOLoginProofs --------------------------
(***************************************************************************)
(* Theorems about the out-of-band sign-in, for every number of logins, of  *)
(* accounts, of start tools, revocations, POSTs and polls.                 *)
(***************************************************************************)
EXTENDS SSOLogin, EndpointProofs

(* A login is born in the critical section that inserts it. *)
Born == {t \in Tokens : status[t] # "unborn"}

(* The ways a login leaves the map otherwise than by the poll that is told  *)
(* its failure. *)
Ended == signedIn \cup revoked \cup reaped

(* The map and the tombstones; unlike the endpoint of a hand-off, revocation*)
(* adds a tombstone without pruning, so there is no bound between sweeps.   *)
MapKept ==
  /\ InSync(ep) /\ Apart(ep) /\ IsFiniteSet(ep.items)
  /\ ep.items \cup ep.spent \subseteq Born

(* Everything that is held of a login - by auth_sso, by the agent, by a     *)
(* POST, by a poll or in an answer - is of one that was born: a token never *)
(* comes back.                                                              *)
Held ==
  /\ issued \cup signedIn \subseteq Born
  /\ \A b \in Browsers : pc[b] # "idle" => link[b] \in Born
  /\ \A s \in Starters : at[s] # "idle" => mine[s] \in Born
  /\ \A p \in Pollers : stage[p] # "idle" => ask[p] \in Born
  /\ \A t \in Tokens : told[t] \cap {"done", "failed"} # {} => t \in Born

(* What left the map is known to have left it, and how; a login that is    *)
(* completed was refused or accepted, and an accepted one is completed, has *)
(* expired or is still in the hands of the POST that was told so.           *)
Accounted ==
  /\ \A t \in Born \ ep.items :
       \/ t \in Ended
       \/ "failed" \in told[t] \/ \E p \in Pollers : Failing(p, t)
  /\ \A t \in Tokens : status[t] = "completed" => t \in signedIn \cup erred
  /\ erred \subseteq refused
InHand ==
  /\ \A b \in Browsers : pc[b] = "accepted" => link[b] \in signedIn
  /\ \A t \in signedIn : status[t] = "pending" =>
       \E b \in Browsers : pc[b] = "accepted" /\ link[b] = t

(* A poll that cleans up has decided, and what it read is out of the map.   *)
Decided ==
  \A p \in Pollers : stage[p] \in {"delete", "end"} =>
    /\ ask[p] \notin ep.items /\ verdict[p] \in {"done", "failed"}
    /\ verdict[p] = "failed" => ask[p] \in refused

LoginInv ==
  /\ TypeOK /\ MapKept /\ Held /\ Accounted /\ InHand /\ Decided /\ AnswersAccounted
  /\ SingleFlight

-----------------------------------------------------------------------------
(* The initial state, and one lemma per group of actions.                  *)
LEMMA LoginInit == Init => LoginInv
<1> SUFFICES ASSUME Init
             PROVE  LoginInv
  OBVIOUS
<1>1. ep.items = {} /\ ep.spent = {} /\ ep.order = << >> /\ ep \in EndpointState
  BY DEF Init, EmptyEndpoint, EndpointState
<1>2. TypeOK
  BY <1>1 DEF Init, ResumeInit, TypeOK, ResumeTypeOK, Statuses, PollStages, Answers
<1>3. MapKept
  BY <1>1, FS_EmptySet DEF MapKept, InSync, Apart, IsInjective, Range
<1>4. Held /\ Accounted /\ InHand /\ Decided
  BY DEF Init, ResumeInit, Held, Accounted, InHand, Decided, Born
<1>5. AnswersAccounted /\ SingleFlight
  BY <1>1 DEF Init, ResumeInit, AnswersAccounted, Failing, SingleFlight, IsPending
<1> QED
  BY <1>2, <1>3, <1>4, <1>5 DEF LoginInv

LEMMA JoinKeepsLogins ==
  ASSUME LoginInv, NEW s \in Starters, NEW e, Join(s, e)
  PROVE  LoginInv'
<1> USE DEF Join, requests, revokes, posts, history, resumeVars
<1>1. PICK t \in Compatible(e) : mine' = [mine EXCEPT ![s] = t]
  OBVIOUS
<1>2. t \in Born /\ t \in Tokens
  BY DEF Compatible, LoginInv, TypeOK, EndpointState, Born
<1>3. TypeOK'
  BY <1>1, <1>2 DEF LoginInv, TypeOK, ResumeTypeOK
<1>4. Held'
  BY <1>1, <1>2 DEF LoginInv, TypeOK, Held, Born
<1>5. MapKept' /\ Accounted' /\ InHand' /\ Decided' /\ AnswersAccounted' /\ SingleFlight'
  BY DEF LoginInv, MapKept, Accounted, InHand, Decided, AnswersAccounted, Failing,
         SingleFlight, IsPending, Born, Ended
<1> QED
  BY <1>3, <1>4, <1>5 DEF LoginInv

LEMMA InsertKeepsLogins ==
  ASSUME LoginInv, NEW s \in Starters, NEW e \in Accounts \cup {NoAccount},
         Compatible(e) = {}, NEW t \in Tokens, Insert(s, e, t)
  PROVE  LoginInv'
<1> USE DEF Insert, revokes, posts, history, resumeVars
<1>1. /\ ep \in EndpointState /\ ep' = [ep EXCEPT !.items = @ \cup {t}]
      /\ t \notin Born /\ t \notin ep.items /\ t \notin ep.spent
  BY DEF LoginInv, TypeOK, MapKept, Born, Minted
<1>2. /\ ep' \in EndpointState /\ ep'.items = ep.items \cup {t}
      /\ ep'.spent = ep.spent /\ ep'.order = ep.order
  BY <1>1 DEF EndpointState
<1>3. Born' = Born \cup {t} /\ Ended' = Ended
  BY DEF LoginInv, TypeOK, Born, Ended
<1>4. TypeOK'
  BY <1>2 DEF LoginInv, TypeOK, ResumeTypeOK, Statuses
<1>5. MapKept'
  BY <1>1, <1>2, <1>3, FS_AddElement DEF LoginInv, MapKept, InSync, Apart
<1>6. Held'
  BY <1>3 DEF LoginInv, TypeOK, Held
<1>7. Accounted' /\ InHand'
  <2>1. \A p \in Pollers, u \in Tokens : Failing(p, u)' <=> Failing(p, u)
    BY DEF Failing
  <2>2. Accounted'
    <3>1. Born' \ ep'.items \subseteq Born \ ep.items
      BY <1>2, <1>3
    <3>2. \A u \in Tokens : status'[u] = "completed" => status[u] = "completed"
      BY DEF LoginInv, TypeOK
    <3> QED
      BY <1>3, <2>1, <3>1, <3>2 DEF LoginInv, Accounted, Born
  <2>3. \A u \in signedIn : status'[u] = status[u]
    BY <1>1 DEF LoginInv, TypeOK, Held
  <2> QED
    BY <2>2, <2>3 DEF LoginInv, InHand
<1>8. Decided'
  BY <1>1, <1>2 DEF LoginInv, Decided, Held
<1>9. AnswersAccounted'
  BY <1>1, <1>2 DEF LoginInv, TypeOK, AnswersAccounted, Failing, Held
<1>10. SingleFlight'
  BY <1>2 DEF LoginInv, TypeOK, SingleFlight, IsPending, Compatible
<1> QED
  BY <1>4, <1>5, <1>6, <1>7, <1>8, <1>9, <1>10 DEF LoginInv

LEMMA StartKeepsLogins ==
  ASSUME LoginInv, NEW s \in Starters, Start(s)
  PROVE  LoginInv'
<1> USE DEF Start, CreateHandle, Register, requests, revokes, posts, history, resumeVars
<1>1. TypeOK'
  BY DEF LoginInv, TypeOK, ResumeTypeOK
<1>2. Held'
  BY DEF LoginInv, TypeOK, Held, Born
<1>3. MapKept' /\ Accounted' /\ InHand' /\ Decided' /\ AnswersAccounted' /\ SingleFlight'
  BY DEF LoginInv, MapKept, Accounted, InHand, Decided, AnswersAccounted, Failing,
         SingleFlight, IsPending, Born, Ended
<1> QED
  BY <1>1, <1>2, <1>3 DEF LoginInv

-----------------------------------------------------------------------------
(* Logins leave the map: by revocation, by a poll, by the reaper.          *)
LEMMA LeavingKeepsLogins ==
  ASSUME LoginInv, TypeOK', MapKept', ep'.items \subseteq ep.items,
         ep.items \ ep'.items \subseteq Ended',
         revoked \subseteq revoked', reaped \subseteq reaped',
         \A t \in Tokens : status'[t] = status[t] \/ (status'[t] = "expired" /\ status[t] = "pending"),
         \A p \in Pollers : stage'[p] = stage[p] /\ verdict'[p] = verdict[p],
         UNCHANGED <<erred, email, at, mine, pc, link, issued, edited, refused, signedIn, ask,
                     told>>
  PROVE  LoginInv'
<1>1. Born' = Born
  BY DEF Born
<1>2. Ended \subseteq Ended'
  BY DEF Ended
<1>3. Held'
  BY <1>1 DEF LoginInv, Held
<1>0. \A p \in Pollers, t \in Tokens : Failing(p, t)' <=> Failing(p, t)
  BY DEF Failing
<1>4. Accounted' /\ InHand'
  BY <1>0, <1>1, <1>2 DEF LoginInv, TypeOK, Accounted, InHand, Born
<1>5. Decided'
  BY DEF LoginInv, Decided
<1>6. AnswersAccounted'
  BY <1>0, <1>2 DEF LoginInv, AnswersAccounted, Ended
<1>7. SingleFlight'
  BY DEF LoginInv, SingleFlight, IsPending
<1> QED
  BY <1>3, <1>4, <1>5, <1>6, <1>7 DEF LoginInv

LEMMA RevokeKeepsLogins ==
  ASSUME LoginInv, NEW v \in Revokers, NEW t \in Tokens, Revoke(v, t)
  PROVE  LoginInv'
<1> USE DEF starts, posts, resumeVars
<1>0. ep \in EndpointState /\ InSync(ep) /\ Apart(ep) /\ IsFiniteSet(ep.items)
  BY DEF LoginInv, TypeOK, MapKept
<1>1. CASE IsPending(t) /\ Retire(v, t)
  <2> USE DEF Retire
  <2>1. /\ ep' \in EndpointState /\ InSync(ep') /\ Apart(ep') /\ ep'.items = ep.items \ {t}
    BY <1>0, <1>1, TakenCorrect
  <2>2. ep'.spent \subseteq ep.spent \cup {t}
    BY <1>0, <1>1 DEF Taken, MarkSpent, EndpointState
  <2>3. TypeOK'
    BY <1>1, <2>1 DEF LoginInv, TypeOK, ResumeTypeOK
  <2>4. MapKept'
    BY <1>0, <1>1, <2>1, <2>2, FS_Subset DEF LoginInv, MapKept, Born, IsPending
  <2> QED
    <3>1. ep'.items \subseteq ep.items /\ ep.items \ ep'.items \subseteq Ended'
      BY <1>1, <2>1 DEF Ended
    <3>2. revoked \subseteq revoked' /\ reaped \subseteq reaped'
      BY <1>1
    <3>3. /\ \A u \in Tokens :
               status'[u] = status[u] \/ (status'[u] = "expired" /\ status[u] = "pending")
          /\ \A p \in Pollers : stage'[p] = stage[p] /\ verdict'[p] = verdict[p]
          /\ UNCHANGED <<erred, email, at, mine, pc, link, issued, edited, refused, signedIn,
                         ask, told>>
      BY <1>1
    <3> QED
      BY <2>3, <2>4, <3>1, <3>2, <3>3, LeavingKeepsLogins
<1>2. CASE Overlook(v, t)
  <2> USE DEF Overlook, requests, history
  <2>1. TypeOK'
    BY <1>2 DEF LoginInv, TypeOK, ResumeTypeOK
  <2>2. MapKept'
    BY <1>2 DEF LoginInv, MapKept, Born
  <2> QED
    <3>1. ep'.items \subseteq ep.items /\ ep.items \ ep'.items \subseteq Ended'
      BY <1>2
    <3>2. /\ revoked \subseteq revoked' /\ reaped \subseteq reaped'
          /\ \A u \in Tokens :
               status'[u] = status[u] \/ (status'[u] = "expired" /\ status[u] = "pending")
          /\ \A p \in Pollers : stage'[p] = stage[p] /\ verdict'[p] = verdict[p]
          /\ UNCHANGED <<erred, email, at, mine, pc, link, issued, edited, refused, signedIn,
                         ask, told>>
      BY <1>2
    <3> QED
      BY <2>1, <2>2, <3>1, <3>2, LeavingKeepsLogins
<1> QED
  BY <1>1, <1>2 DEF Revoke

LEMMA CallOffKeepsLogins ==
  ASSUME LoginInv, NEW v \in Revokers, CallOff(v)
  PROVE  LoginInv'
<1> USE DEF CallOff, RevokeHandle, RevokeContinuation, requests, starts, posts, history
<1>1. TypeOK'
  BY DEF LoginInv, TypeOK, ResumeTypeOK
<1>2. MapKept'
  BY DEF LoginInv, MapKept, Born
<1>3. ep'.items \subseteq ep.items /\ ep.items \ ep'.items \subseteq Ended'
  OBVIOUS
<1>4. /\ revoked \subseteq revoked' /\ reaped \subseteq reaped'
      /\ \A u \in Tokens :
           status'[u] = status[u] \/ (status'[u] = "expired" /\ status[u] = "pending")
      /\ \A p \in Pollers : stage'[p] = stage[p] /\ verdict'[p] = verdict[p]
      /\ UNCHANGED <<erred, email, at, mine, pc, link, issued, edited, refused, signedIn,
                     ask, told>>
  OBVIOUS
<1> QED
  BY <1>1, <1>2, <1>3, <1>4, LeavingKeepsLogins

LEMMA ReapKeepsLogins ==
  ASSUME LoginInv, Reap
  PROVE  LoginInv'
<1> USE DEF Reap, starts, revokes, posts, history, resumeVars
<1>0. ep \in EndpointState /\ InSync(ep) /\ Apart(ep) /\ IsFiniteSet(ep.items)
  BY DEF LoginInv, TypeOK, MapKept
<1>1. /\ ep' \in EndpointState /\ InSync(ep') /\ Apart(ep')
      /\ ep'.items = ep.items \ old /\ ep'.spent \subseteq ep.spent \cup ep.items
  BY <1>0, SweptCorrect DEF ConsistentEndpoint
<1>2. /\ status \in [Tokens -> Statuses] /\ status' \in [Tokens -> Statuses]
      /\ \A t \in Tokens : status'[t] =
            IF IsPending(t) /\ t \in old THEN "expired" ELSE status[t]
  BY DEF LoginInv, TypeOK, Statuses
<1>3. TypeOK'
  BY <1>1, <1>2 DEF LoginInv, TypeOK, ResumeTypeOK, EndpointState
<1>4. MapKept'
  BY <1>0, <1>1, <1>2, FS_Subset DEF LoginInv, TypeOK, MapKept, Born, EndpointState
<1>5. ep'.items \subseteq ep.items /\ ep.items \ ep'.items \subseteq Ended'
  BY <1>1 DEF Ended
<1>6. /\ revoked \subseteq revoked' /\ reaped \subseteq reaped'
      /\ \A u \in Tokens :
           status'[u] = status[u] \/ (status'[u] = "expired" /\ status[u] = "pending")
      /\ \A p \in Pollers : stage'[p] = stage[p] /\ verdict'[p] = verdict[p]
      /\ UNCHANGED <<erred, email, at, mine, pc, link, issued, edited, refused, signedIn,
                     ask, told>>
  BY <1>2 DEF IsPending
<1> QED
  BY <1>3, <1>4, <1>5, <1>6, LeavingKeepsLogins

-----------------------------------------------------------------------------
(* The POST of the login page: what it does to the requests.               *)
LEMMA BrowseKeepsLogins ==
  ASSUME LoginInv, NEW b \in Browsers,
         \/ \E t \in Tokens : Open(b, t)
         \/ Check(b) \/ TurnAway(b) \/ AskOtp(b) \/ Accept(b)
  PROVE  LoginInv'
<1> USE DEF Open, Check, TurnAway, AskOtp, Accept, Go, requests, starts, revokes, history,
            resumeVars
<1>1. /\ signedIn \subseteq signedIn' /\ signedIn' \subseteq Tokens
      /\ InHand'
      /\ UNCHANGED <<ep, status, erred, email, old, at, mine, doing, target, issued, edited,
                     refused, revoked, reaped, handles, reg, stage, ask, verdict, told>>
  BY DEF LoginInv, TypeOK, InHand
<1>2. TypeOK'
  <2>1. /\ pc' \in [Browsers -> {"idle", "found", "open", "asking", "accepted"}]
        /\ link' \in [Browsers -> Tokens]
    BY DEF LoginInv, TypeOK
  <2> QED
    BY <1>1, <2>1 DEF LoginInv, TypeOK, ResumeTypeOK
<1>3. MapKept' /\ Decided' /\ SingleFlight' /\ Born' = Born /\ Ended \subseteq Ended'
  BY <1>1 DEF LoginInv, MapKept, Decided, SingleFlight, IsPending, Born, Ended
<1>6. Held'
  <2>1. /\ \A c \in Browsers : pc'[c] # "idle" => link'[c] \in Born
        /\ signedIn' \subseteq Born
    BY DEF LoginInv, TypeOK, Held, MapKept
  <2> QED
    BY <1>1, <1>3, <2>1 DEF LoginInv, Held
<1>4. Accounted'
  BY <1>1, <1>3 DEF LoginInv, Accounted, Failing
<1>5. AnswersAccounted'
  BY <1>1 DEF LoginInv, AnswersAccounted, Failing
<1> QED
  BY <1>1, <1>2, <1>3, <1>4, <1>5, <1>6 DEF LoginInv

LEMMA EnterKeepsLogins ==
  ASSUME LoginInv, NEW b \in Browsers, Enter(b)
  PROVE  LoginInv'
<1> USE DEF Enter, Go, starts, revokes, resumeVars
<1>1. PICK e \in Accounts \cup {email[link[b]]} :
        /\ email' = [email EXCEPT ![link[b]] = e]
        /\ edited' = IF e = email[link[b]] THEN edited ELSE edited \cup {link[b]}
  OBVIOUS
<1>2. link[b] \in Tokens /\ email[link[b]] \in Accounts \cup {NoAccount}
  BY DEF LoginInv, TypeOK
<1>3. TypeOK'
  BY <1>1, <1>2 DEF LoginInv, TypeOK, ResumeTypeOK
<1>4. MapKept' /\ Held' /\ Accounted' /\ InHand' /\ Decided' /\ AnswersAccounted'
  BY DEF LoginInv, TypeOK, MapKept, Held, Accounted, InHand, Decided, AnswersAccounted,
         Failing, Born, Ended
<1>5. SingleFlight'
  BY <1>1, <1>2 DEF LoginInv, TypeOK, SingleFlight, IsPending
<1> QED
  BY <1>3, <1>4, <1>5 DEF LoginInv

(* A verdict on the credentials: the request is over, or its error noted.  *)
LEMMA JudgeKeepsLogins ==
  ASSUME LoginInv, NEW b \in Browsers, Deny(b) \/ DenyOtp(b) \/ Complete(b)
  PROVE  LoginInv'
<1> USE DEF Go, starts, revokes, history, resumeVars
<1> DEFINE t == link[b]
<1>1. /\ t \in Tokens /\ (pc[b] = "accepted" => t \in signedIn)
      /\ status \in [Tokens -> Statuses]
  BY DEF LoginInv, TypeOK, InHand
<1>2. /\ status' = status \/ (status' = [status EXCEPT ![t] = "completed"] /\ old' = old \ {t})
      /\ status'[t] = "completed" => t \in signedIn \cup erred'
      /\ erred' \in {erred \cup {t}, erred \ {t}} /\ (t \in erred' => t \in refused')
      /\ refused' \in {refused, refused \cup {t}} /\ old' \subseteq old
      /\ \A c \in Browsers : /\ pc'[c] = "accepted" => pc[c] = "accepted"
                             /\ pc[c] = "accepted" => pc'[c] = "accepted" \/ status'[link[c]] # "pending"
                             /\ pc'[c] # "idle" => pc[c] # "idle"
      /\ pc' \in [Browsers -> {"idle", "found", "open", "asking", "accepted"}]
      /\ UNCHANGED <<ep, email, link, at, mine, doing, target, issued, edited, signedIn,
                     revoked, reaped, handles, reg, stage, ask, verdict, told>>
  BY <1>1 DEF Deny, DenyOtp, Complete, LoginInv, TypeOK, Accounted
<1> HIDE DEF t
<1>3. \A u \in Tokens : \/ status'[u] = status[u]
                        \/ u = t /\ status'[u] = "completed"
  BY <1>1, <1>2
<1>4. Born' = Born \cup {u \in Tokens : u = t /\ status'[t] = "completed"} /\ Ended' = Ended
  BY <1>2, <1>3 DEF Born, Ended, LoginInv, TypeOK
<1>5. TypeOK'
  <2>1. status' \in [Tokens -> Statuses]
    BY <1>1, <1>2 DEF Statuses
  <2>2. \A u \in ep'.items : status'[u] \in {"pending", "completed"}
    BY <1>2, <1>3 DEF LoginInv, TypeOK, EndpointState
  <2>3. erred' \subseteq Tokens /\ refused' \subseteq Tokens /\ old' \subseteq Tokens
    BY <1>1, <1>2 DEF LoginInv, TypeOK
  <2> QED
    BY <1>2, <2>1, <2>2, <2>3 DEF LoginInv, TypeOK, ResumeTypeOK
<1>6. MapKept' /\ Held' /\ Decided'
  <2>1. MapKept' /\ Decided'
    BY <1>2, <1>4 DEF LoginInv, MapKept, Decided
  <2>2. Born \subseteq Born' /\ link' = link
    BY <1>2, <1>4
  <2>3. issued' \cup signedIn' \subseteq Born' /\ \A c \in Browsers : pc'[c] # "idle" => link'[c] \in Born'
    BY <1>2, <2>2 DEF LoginInv, Held
  <2>4. /\ \A s \in Starters : at'[s] # "idle" => mine'[s] \in Born'
        /\ \A p \in Pollers : stage'[p] # "idle" => ask'[p] \in Born'
        /\ \A u \in Tokens : told'[u] \cap {"done", "failed"} # {} => u \in Born'
    BY <1>2, <2>2 DEF LoginInv, Held
  <2> QED
    BY <2>1, <2>3, <2>4 DEF Held
<1>7. Accounted'
  <2>1. \A p \in Pollers, u \in Tokens : Failing(p, u)' <=> Failing(p, u)
    BY <1>2 DEF Failing
  <2>2. t \in Born
    BY <1>2 DEF LoginInv, Held, Deny, DenyOtp, Complete, t
  <2>3. Born' = Born
    BY <1>4, <2>2
  <2>4. erred' \subseteq refused'
    BY <1>2 DEF LoginInv, Accounted
  <2>5. \A u \in Tokens : status'[u] = "completed" => u \in signedIn' \cup erred'
    BY <1>2, <1>3 DEF LoginInv, Accounted
  <2> QED
    BY <1>2, <1>4, <2>1, <2>3, <2>4, <2>5 DEF LoginInv, Accounted, Born
<1>10. InHand'
  <2>1. \A c \in Browsers : pc'[c] = "accepted" => link'[c] \in signedIn'
    BY <1>2 DEF LoginInv, InHand
  <2>2. ASSUME NEW u \in signedIn, status'[u] = "pending"
        PROVE  \E c \in Browsers : pc'[c] = "accepted" /\ link'[c] = u
    <3>1. u \in Tokens /\ status[u] = "pending"
      BY <1>3, <2>2 DEF LoginInv, TypeOK
    <3>2. PICK c \in Browsers : pc[c] = "accepted" /\ link[c] = u
      BY <3>1 DEF LoginInv, InHand
    <3>3. pc'[c] = "accepted" /\ link'[c] = u
      BY <1>2, <2>2, <3>2
    <3> QED
      BY <3>3
  <2> QED
    BY <1>2, <2>1, <2>2 DEF InHand
<1>8. AnswersAccounted'
  BY <1>2 DEF LoginInv, AnswersAccounted, Failing
<1>9. SingleFlight'
  BY <1>2, <1>3 DEF LoginInv, SingleFlight, IsPending, TypeOK, EndpointState
<1> QED
  BY <1>5, <1>6, <1>7, <1>8, <1>9, <1>10 DEF LoginInv

-----------------------------------------------------------------------------
(* auth_resume.                                                            *)
LEMMA PollKeepsLogins ==
  ASSUME LoginInv,
         \/ \E p \in Pollers, t \in Tokens : CallResume(p, t)
         \/ \E p \in Pollers :
              (Dispatch(p) \/ DeleteHandle(p)) /\ UNCHANGED <<requests, starts, revokes, posts, history>>
         \/ \E t \in Tokens : Forsake(t) \/ Grow(t)
  PROVE  LoginInv'
<1> USE DEF CallResume, Poll, FindHandle, HandleDead, Dispatch, DeleteHandle, Forsake, Drop,
            Grow, Step, Tell, requests, starts, revokes, posts, history, resumeVars
<1>1. /\ UNCHANGED <<ep, status, erred, email, at, mine, doing, target, pc, link, issued,
                     edited, refused, signedIn, revoked, reaped, verdict>>
      /\ old' \subseteq Tokens /\ handles' \subseteq Tokens /\ reg' \subseteq Tokens
      /\ stage' \in [Pollers -> PollStages] /\ ask' \in [Pollers -> Tokens]
      /\ told' \in [Tokens -> SUBSET Answers]
  <2> USE DEF LoginInv, TypeOK, ResumeTypeOK
  <2>1. UNCHANGED <<ep, status, erred, email, at, mine, doing, target, pc, link, issued,
                    edited, refused, signedIn, revoked, reaped, verdict>>
    OBVIOUS
  <2>2. old' \subseteq Tokens /\ handles' \subseteq Tokens /\ reg' \subseteq Tokens
    BY DEF EndpointState
  <2>3. stage' \in [Pollers -> PollStages]
    BY DEF PollStages
  <2>4. ask' \in [Pollers -> Tokens]
    OBVIOUS
  <2>5. told' \in [Tokens -> SUBSET Answers]
    BY DEF Answers
  <2> QED
    BY <2>1, <2>2, <2>3, <2>4, <2>5
<1>2. /\ \A t \in Tokens : told'[t] \ {"dead"} = told[t] \ {"dead"}
      /\ \A p \in Pollers :
           /\ stage'[p] # "idle" => ask'[p] \in Born
           /\ stage'[p] \in {"delete", "end"} => stage[p] = "delete" \/ stage[p] = "end"
           /\ stage'[p] \in {"delete", "end"} => ask'[p] = ask[p]
           /\ stage[p] \in {"delete", "end"} => stage'[p] \in {"delete", "end"}
  BY DEF LoginInv, TypeOK, ResumeTypeOK, Held
<1>3. TypeOK'
  BY <1>1 DEF LoginInv, TypeOK, ResumeTypeOK
<1>4. /\ MapKept' /\ InHand' /\ SingleFlight'
      /\ \A p \in Pollers, t \in Tokens : Failing(p, t)' <=> Failing(p, t)
  BY <1>1, <1>2 DEF LoginInv, MapKept, InHand, SingleFlight, IsPending, Born, Failing
<1>8. Accounted'
  BY <1>1, <1>2, <1>4 DEF LoginInv, Accounted, Born, Ended
<1>5. Held'
  BY <1>1, <1>2 DEF LoginInv, Held, Born
<1>6. Decided'
  BY <1>1, <1>2 DEF LoginInv, Decided
<1>7. AnswersAccounted'
  BY <1>1, <1>2, <1>4 DEF LoginInv, AnswersAccounted
<1> QED
  BY <1>3, <1>4, <1>5, <1>6, <1>7, <1>8 DEF LoginInv

(* The final answer is what the poll decided when it read the request.     *)
LEMMA EndKeepsLogins ==
  ASSUME LoginInv, NEW p \in Pollers, EndContinuation(p),
         UNCHANGED <<requests, starts, revokes, posts, history>>
  PROVE  LoginInv'
<1> USE DEF EndContinuation, Step, Tell, Decide, requests, starts, revokes, posts, history
<1> DEFINE t == ask[p]
<1>1. /\ t \in Tokens /\ t \in Born \ ep.items /\ verdict[p] \in {"done", "failed"}
      /\ verdict[p] = "failed" => t \in refused
      /\ stage[p] = "end"
  BY DEF LoginInv, TypeOK, ResumeTypeOK, Held, Decided
<1>2. /\ \A u \in Tokens : told'[u] = IF u = t THEN told[u] \cup {verdict[p]} ELSE told[u]
      /\ told' \in [Tokens -> SUBSET Answers]
      /\ \A q \in Pollers : /\ stage'[q] = IF q = p THEN "idle" ELSE stage[q]
                            /\ q # p => verdict'[q] = verdict[q]
      /\ verdict' \in [Pollers -> (Answers \ {"dead"}) \cup {"pending"}]
      /\ UNCHANGED <<ep, status, erred, email, old, edited, signedIn, refused, revoked, reaped,
                     pc, link, ask>>
  <2> USE DEF LoginInv, TypeOK, ResumeTypeOK
  <2>1. /\ \A u \in Tokens : told'[u] = IF u = t THEN told[u] \cup {verdict[p]} ELSE told[u]
        /\ told' \in [Tokens -> SUBSET Answers]
    BY <1>1 DEF Answers
  <2>2. /\ \A q \in Pollers : /\ stage'[q] = IF q = p THEN "idle" ELSE stage[q]
                              /\ q # p => verdict'[q] = verdict[q]
        /\ verdict' \in [Pollers -> (Answers \ {"dead"}) \cup {"pending"}]
    OBVIOUS
  <2> QED
    BY <2>1, <2>2
<1> HIDE DEF t
<1>3. TypeOK'
  BY <1>2 DEF LoginInv, TypeOK, ResumeTypeOK, PollStages
<1>4. /\ MapKept' /\ InHand' /\ SingleFlight' /\ Born' = Born /\ Ended' = Ended
      /\ \A q \in Pollers, u \in Tokens : Failing(q, u)' <=> Failing(q, u) /\ q # p
      /\ \A u \in Tokens : Failing(p, u) <=> u = t /\ verdict[p] = "failed"
  BY <1>1, <1>2 DEF LoginInv, MapKept, InHand, SingleFlight, IsPending, Born, Ended, Failing, t
<1>9. \A u \in Tokens :
        ("failed" \in told[u] \/ \E q \in Pollers : Failing(q, u))
          => ("failed" \in told'[u] \/ \E q \in Pollers : Failing(q, u)')
  BY <1>2, <1>4
<1>8. Accounted'
  BY <1>2, <1>4, <1>9 DEF LoginInv, Accounted, Born
<1>5. Held'
  BY <1>1, <1>2 DEF LoginInv, Held, Born
<1>6. Decided'
  BY <1>2 DEF LoginInv, Decided
<1>7. AnswersAccounted'
  <2>1. \A u \in Tokens : "failed" \in told'[u] =>
          u \in refused /\ \A q \in Pollers : ~Failing(q, u)'
    BY <1>1, <1>2, <1>4 DEF LoginInv, AnswersAccounted
  <2>2. \A u \in Tokens : "done" \in told'[u] =>
          u \in Ended \/ "failed" \in told'[u] \/ \E q \in Pollers : Failing(q, u)'
    <3> SUFFICES ASSUME NEW u \in Tokens, "done" \in told'[u]
                 PROVE  u \in Ended \/ "failed" \in told'[u] \/ \E q \in Pollers : Failing(q, u)'
      OBVIOUS
    <3>1. CASE "done" \in told[u]
      BY <1>9, <3>1 DEF LoginInv, AnswersAccounted, Ended
    <3>2. CASE u = t
      BY <1>1, <1>9, <3>2 DEF LoginInv, Accounted
    <3> QED
      BY <1>2, <3>1, <3>2
  <2> QED
    BY <1>1, <1>2, <1>4, <2>1, <2>2 DEF LoginInv, AnswersAccounted, Ended
<1> QED
  BY <1>3, <1>4, <1>5, <1>6, <1>7, <1>8 DEF LoginInv

(* The read that decides takes a login that is over out of the map.        *)
LEMMA ReadKeepsLogins ==
  ASSUME LoginInv, NEW p \in Pollers, ReadLogin(p)
  PROVE  LoginInv'
<1> USE DEF ReadLogin, Answer, Step, Decide, starts, revokes, posts, history
<1> DEFINE t == ask[p]
<1>1. t \in Tokens /\ t \in Born /\ ep \in EndpointState /\ verdict'[p] \in Answers \cup {"pending"}
  BY DEF LoginInv, TypeOK, ResumeTypeOK, Held, Answers
<1>2. /\ ep' \in EndpointState /\ ep'.spent = ep.spent /\ ep'.order = ep.order
      /\ ep'.items \in {ep.items, ep.items \ {t}}
      /\ ep'.items # ep.items => status[t] = "completed"
  BY <1>1 DEF EndpointState, Forgotten
<1>3. /\ \/ stage'[p] = "idle" /\ verdict'[p] = "pending"
         \/ /\ stage'[p] = "delete" /\ t \notin ep'.items /\ verdict'[p] \in {"done", "failed"}
            /\ verdict'[p] = IF t \in ep.items /\ t \in erred THEN "failed" ELSE "done"
      /\ \A q \in Pollers \ {p} : stage'[q] = stage[q] /\ verdict'[q] = verdict[q]
  BY <1>1 DEF LoginInv, TypeOK, ResumeTypeOK, EndpointState, Forgotten, IsPending
<1>4. UNCHANGED <<status, erred, email, old, at, mine, doing, target, pc, link, issued,
                  edited, refused, signedIn, revoked, reaped, handles, reg, ask, told>>
  OBVIOUS
<1> HIDE DEF t, ReadLogin
<1>5. TypeOK'
  <2>1. /\ stage' \in [Pollers -> PollStages]
        /\ verdict' \in [Pollers -> (Answers \ {"dead"}) \cup {"pending"}]
    BY DEF ReadLogin, LoginInv, TypeOK, ResumeTypeOK, PollStages, Answers
  <2> QED
    BY <1>2, <1>4, <2>1 DEF LoginInv, TypeOK, ResumeTypeOK
<1>6. MapKept'
  BY <1>2, <1>4, FS_Subset DEF LoginInv, MapKept, InSync, Apart, Born
<1>7. Held'
  BY <1>1, <1>3, <1>4 DEF LoginInv, Held, Born, t
<1>8. /\ InHand' /\ SingleFlight'
      /\ \A q \in Pollers, u \in Tokens :
           Failing(q, u)' <=> IF q = p THEN u = t /\ stage'[p] = "delete" /\ verdict'[p] = "failed"
                                       ELSE Failing(q, u)
      /\ \A u \in Tokens : ~Failing(p, u)
  BY <1>2, <1>3, <1>4
  DEF LoginInv, InHand, SingleFlight, IsPending, Failing, ReadLogin, Answer, Step, t
<1>11. Accounted'
  <2>1. Born' = Born /\ Ended' = Ended
    BY <1>4 DEF Born, Ended
  <2>2. \A u \in Tokens :
          ("failed" \in told[u] \/ \E q \in Pollers : Failing(q, u))
            => ("failed" \in told'[u] \/ \E q \in Pollers : Failing(q, u)')
    BY <1>4, <1>8
  <2>3. ASSUME NEW u \in Tokens, u = t, u \in ep.items, u \notin ep'.items
        PROVE  u \in Ended \/ Failing(p, u)'
    <3>1. u \in signedIn \cup erred
      BY <1>1, <1>2, <2>3 DEF LoginInv, Accounted
    <3>2. stage'[p] = "delete"
      BY <1>4, <2>3 DEF ReadLogin, t, LoginInv, TypeOK, ResumeTypeOK, IsPending
    <3> QED
      BY <1>1, <1>3, <1>8, <2>3, <3>1, <3>2 DEF Ended
  <2>4. \A u \in Born' \ ep'.items :
          u \in Ended' \/ "failed" \in told'[u] \/ \E q \in Pollers : Failing(q, u)'
    <3> SUFFICES ASSUME NEW u \in Born, u \notin ep'.items
                 PROVE  u \in Ended \/ "failed" \in told'[u] \/ \E q \in Pollers : Failing(q, u)'
      BY <2>1
    <3>1. CASE u \notin ep.items
      BY <2>2, <3>1 DEF LoginInv, Accounted, Born
    <3>2. CASE u \in ep.items
      BY <1>1, <1>2, <2>3, <3>2 DEF Born
    <3> QED
      BY <3>1, <3>2
  <2> QED
    BY <1>4, <2>4 DEF LoginInv, Accounted
<1>9. Decided'
  BY <1>2, <1>3, <1>4 DEF LoginInv, Decided, Accounted, t
<1>10. AnswersAccounted'
  <2>1. \A q \in Pollers, u \in Tokens : Failing(q, u) => u \notin ep.items
    BY DEF LoginInv, Decided, Failing
  <2>2. \A u \in Tokens : u = t /\ Failing(p, u)' => u \in ep.items /\ u \in erred
    BY <1>1, <1>3, <1>8
  <2>3. \A q \in Pollers, u \in Tokens : Failing(q, u)' => Failing(q, u) \/ (q = p /\ u = t)
    BY <1>8
  <2>4. \A u \in Tokens :
          ("failed" \in told[u] \/ \E q \in Pollers : Failing(q, u))
            => ("failed" \in told'[u] \/ \E q \in Pollers : Failing(q, u)')
    BY <1>4, <1>8
  <2>5. \A u \in Tokens : "failed" \in told[u] => u \notin ep.items
    BY DEF LoginInv, AnswersAccounted
  <2>6. \A u \in Tokens : "failed" \in told'[u] => u \in refused' /\ \A q \in Pollers : ~Failing(q, u)'
    BY <1>4, <2>2, <2>3, <2>5 DEF LoginInv, AnswersAccounted, Accounted
  <2>7. \A u \in Tokens, q, w \in Pollers : Failing(q, u)' /\ Failing(w, u)' => q = w
    BY <2>1, <2>2, <2>3 DEF LoginInv, AnswersAccounted
  <2>8. \A u \in Tokens : told'[u] \cap {"done", "failed"} # {} => u \notin ep'.items
    BY <1>2, <1>4 DEF LoginInv, AnswersAccounted
  <2> QED
    BY <1>4, <2>4, <2>6, <2>7, <2>8 DEF LoginInv, AnswersAccounted
<1> QED
  BY <1>5, <1>6, <1>7, <1>8, <1>9, <1>10, <1>11 DEF LoginInv

-----------------------------------------------------------------------------
LEMMA LoginStep == LoginInv /\ [Next]_vars => LoginInv'
<1> SUFFICES ASSUME LoginInv, [Next]_vars
             PROVE  LoginInv'
  OBVIOUS
<1>1. ASSUME NEW s \in Starters, NEW e \in Accounts \cup {NoAccount}, BeginOrResume(s, e)
      PROVE  LoginInv'
  BY <1>1, JoinKeepsLogins, InsertKeepsLogins DEF BeginOrResume
<1>2. ASSUME NEW b \in Browsers, Serve(b)
      PROVE  LoginInv'
  BY <1>2, BrowseKeepsLogins, EnterKeepsLogins, JudgeKeepsLogins DEF Serve
<1>3. ASSUME NEW p \in Pollers, Continue(p)
      PROVE  LoginInv'
  BY <1>3, PollKeepsLogins, EndKeepsLogins, ReadKeepsLogins DEF Continue, Bookkeeping
<1>4. CASE UNCHANGED vars
  BY <1>4
  DEF vars, requests, starts, revokes, posts, history, resumeVars, LoginInv, TypeOK,
      ResumeTypeOK, MapKept, Held, Accounted, InHand, Decided, AnswersAccounted, Failing,
      SingleFlight, IsPending, Born, Ended
<1> QED
  BY <1>1, <1>2, <1>3, <1>4, StartKeepsLogins, RevokeKeepsLogins, CallOffKeepsLogins,
     BrowseKeepsLogins, PollKeepsLogins, ReapKeepsLogins
  DEF Next

LEMMA LoginInvHolds == Spec => []LoginInv
BY LoginInit, LoginStep, PTL DEF Spec

(* auth_login.go, auth_sso.go: the variables keep their types; a login in   *)
(* the map is pending or completed, never one the reaper expired.           *)
THEOREM LoginTypeCorrect == Spec => []TypeOK
<1>1. LoginInv => TypeOK
  BY DEF LoginInv
<1> QED
  BY <1>1, LoginInvHolds, PTL

(* auth_login.go BeginOrResume: however many calls, revocations and sweeps  *)
(* interleave, two pending logins are for different accounts, unless a      *)
(* human changed one.                                                       *)
THEOREM OneLoginPerAccount == Spec => []SingleFlight
<1>1. LoginInv => SingleFlight
  BY DEF LoginInv
<1> QED
  BY <1>1, LoginInvHolds, PTL

(* auth_resume, for every number of polls, revocations, POSTs and sweeps: a *)
(* final answer is of a login that is out of the map for good; the failure  *)
(* of a login is told by one poll at most; and "done" is said of a login    *)
(* that was signed in to, revoked or reaped, or whose failure another poll  *)
(* told or is about to tell.                                                *)
THEOREM LoginAnswersAccounted == Spec => []AnswersAccounted
<1>1. LoginInv => AnswersAccounted
  BY DEF LoginInv
<1> QED
  BY <1>1, LoginInvHolds, PTL

(* auth_login.go: a login that the backend accepted leaves the map only     *)
(* into the hands of a poll that answers as it was completed, once its time *)
(* is over, or by a revocation while the POST that was told of it has not   *)
(* completed it.                                                            *)
LEMMA AcceptedLeavesSo ==
  LoginInv /\ [Next]_vars =>
    \A t \in (ep.items \ ep'.items) \cap signedIn :
      \/ \E p \in Pollers :
           /\ ask[p] = t /\ stage[p] = "dispatched"
           /\ verdict'[p] = IF t \in erred THEN "failed" ELSE "done"
      \/ t \in old
      \/ t \in revoked' /\ \E b \in Browsers : pc[b] = "accepted" /\ link[b] = t
<1> SUFFICES ASSUME LoginInv, [Next]_vars, NEW t \in (ep.items \ ep'.items) \cap signedIn
             PROVE  \/ \E p \in Pollers :
                         /\ ask[p] = t /\ stage[p] = "dispatched"
                         /\ verdict'[p] = IF t \in erred THEN "failed" ELSE "done"
                    \/ t \in old
                    \/ t \in revoked' /\ \E b \in Browsers : pc[b] = "accepted" /\ link[b] = t
  OBVIOUS
<1>0. /\ ep \in EndpointState /\ InSync(ep) /\ Apart(ep) /\ IsFiniteSet(ep.items) /\ ep' # ep
      /\ t \in ep.items /\ t \notin ep'.items
  BY DEF LoginInv, TypeOK, MapKept
<1>1. ASSUME NEW s \in Starters, NEW e, NEW u \in Tokens, Insert(s, e, u)
      PROVE  FALSE
  BY <1>0, <1>1 DEF Insert, Minted, EndpointState
<1>2. ASSUME NEW v \in Revokers, NEW u \in Tokens, Revoke(v, u)
      PROVE  t \in revoked' /\ \E b \in Browsers : pc[b] = "accepted" /\ link[b] = t
  <2>1. IsPending(u) /\ ep' = Taken(ep, u) /\ u \in revoked'
    BY <1>0, <1>2 DEF Revoke, Retire, Overlook, requests
  <2>2. ep'.items = ep.items \ {u}
    BY <1>0, <2>1, TakenCorrect
  <2>3. t = u /\ status[t] = "pending"
    BY <1>0, <2>1, <2>2 DEF IsPending
  <2> QED
    BY <2>1, <2>3 DEF LoginInv, InHand
<1>3. CASE Reap
  <2>1. ep'.items = ep.items \ old
    BY <1>0, <1>3, SweptCorrect DEF Reap
  <2> QED
    BY <1>0, <2>1
<1>4. ASSUME NEW p \in Pollers, ReadLogin(p)
      PROVE  /\ ask[p] = t /\ stage[p] = "dispatched"
             /\ verdict'[p] = IF t \in erred THEN "failed" ELSE "done"
  BY <1>0, <1>4
  DEF ReadLogin, Forgotten, Answer, Step, Decide, LoginInv, TypeOK, ResumeTypeOK, EndpointState
<1> QED
  BY <1>0, <1>1, <1>2, <1>3, <1>4
  DEF Next, BeginOrResume, Join, Start, CreateHandle, Register, CallOff, RevokeHandle,
      RevokeContinuation, Open, Serve, Check, TurnAway, Enter, Deny, AskOtp, DenyOtp, Accept,
      Complete, CallResume, Continue, Grow, Forsake, requests, vars

THEOREM AcceptedLeavesAsTold == Spec => AcceptedLeaves
<1>1. LoginInv /\ [Next]_vars =>
        [\A t \in (ep.items \ ep'.items) \cap signedIn :
           \/ \E p \in Pollers :
                /\ ask[p] = t /\ stage[p] = "dispatched"
                /\ verdict'[p] = IF t \in erred THEN "failed" ELSE "done"
           \/ t \in old
           \/ t \in revoked' /\ \E b \in Browsers : pc[b] = "accepted" /\ link[b] = t]_vars
  BY AcceptedLeavesSo
<1> QED
  BY <1>1, LoginInvHolds, PTL DEF AcceptedLeaves, Spec
=============================================================================
