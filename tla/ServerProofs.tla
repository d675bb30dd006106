----------------------------- MODULE ServerProofs ---------------------------
(***************************************************************************)
(* Theorems about the MCP server of MCServer, for every value of the       *)
(* constants.                                                              *)
(***************************************************************************)
EXTENDS MCServer, FiniteSetTheorems, TLAPS

-----------------------------------------------------------------------------
(* The wizard's sign-in: the attempt counter of each address.               *)

Points == {"open", "bound", "fetched", "checking", "asking", "refused", "accepted",
           "noted", "miscoded", "failing", "clearing", "cleared"}
LivePosts == [at : Points, id : Tokens, address : Addresses, kept : BOOLEAN]
Begun     == [session : Sessions, address : Addresses,
              status : {"pending", "completed", "expired"}, error : BOOLEAN]
Counters  == [failed : 0 .. MaxLoginAttempts - 1, locked : BOOLEAN,
              used : {"absent", "never", "recent", "idle"}]

FormTypes ==
  /\ requests \subseteq Tokens /\ approved \subseteq Tokens /\ settled \subseteq Tokens
  /\ replaced \subseteq Tokens /\ astray \subseteq Addresses
  /\ request \in [Tokens -> {Form!NoRequest} \cup Begun]
  /\ throttle \in [Addresses -> Counters] /\ guesses \in [Addresses -> Nat]
  /\ post \in [Posts -> {Form!NoPost} \cup LivePosts]

(* A POST works on a request that was begun. *)
PostsPlaced ==
  /\ \A id \in requests : request[id] # Form!NoRequest
  /\ \A p \in Posts : post[p] # Form!NoPost => request[post[p].id] # Form!NoRequest

(* The refused passwords of an address that are not noted yet, and the      *)
(* POSTs that may add one to them although the address is locked.           *)
Pool(a)  == {p \in Posts : post[p].at \in {"refused", "failing"} /\ post[p].address = a}
Ahead(a) == {p \in Posts : /\ \/ post[p].at \in {"checking", "asking"}
                              \/ post[p].at = "fetched" /\ ~post[p].kept
                           /\ post[p].address = a}

(* Of an address that is not astray: while it is open, its guesses are      *)
(* those its counter has seen and those still to be noted; a lockout lets   *)
(* the POSTs past the check end and nobody else in.                         *)
Counted(a) ==
  IF throttle[a].locked
  THEN guesses[a] + Cardinality(Ahead(a)) <= MaxLoginAttempts + Cardinality(Posts) - 1
  ELSE guesses[a] <= throttle[a].failed + Cardinality(Pool(a))

AllCounted ==
  /\ \A a \in Addresses : throttle[a].locked => throttle[a].used = "recent"
  /\ \A a \in Addresses \ astray : Counted(a)

FormInv == FormTypes /\ PostsPlaced /\ AllCounted /\ Form!AcceptedIsKept

LEMMA SameCardinality == \A S : Form!Cardinality(S) = Cardinality(S)
BY DEF Form!Cardinality, Cardinality

LEMMA PoolSizes ==
  ASSUME NEW a
  PROVE  /\ IsFiniteSet(Posts) /\ IsFiniteSet(Pool(a)) /\ IsFiniteSet(Ahead(a))
         /\ Cardinality(Posts) \in Nat /\ Cardinality(Pool(a)) \in Nat
         /\ Cardinality(Ahead(a)) \in Nat
         /\ Cardinality(Pool(a)) + Cardinality(Ahead(a)) <= Cardinality(Posts)
<1> DEFINE pool == Pool(a)
           ahead == Ahead(a)
<1>1. /\ IsFiniteSet(Posts) /\ pool \subseteq Posts /\ ahead \subseteq Posts
      /\ pool \cap ahead = {}
  BY FormAssumption DEF Pool, Ahead
<1> HIDE DEF pool, ahead
<1>2. IsFiniteSet(pool) /\ IsFiniteSet(ahead)
  BY <1>1, FS_Subset
<1>3. /\ Cardinality(Posts) \in Nat /\ Cardinality(pool) \in Nat /\ Cardinality(ahead) \in Nat
  BY <1>1, <1>2, FS_CardinalityType
<1>4. Cardinality(pool \cup ahead)
        = Cardinality(pool) + Cardinality(ahead) - Cardinality(pool \cap ahead)
  BY <1>2, FS_Union
<1>5. Cardinality(pool \cap ahead) = 0
  BY <1>1, FS_EmptySet
<1>6. Cardinality(pool \cup ahead) <= Cardinality(Posts)
  BY <1>1, FS_Subset
<1>7. Cardinality(pool) + Cardinality(ahead) <= Cardinality(Posts)
  BY <1>3, <1>4, <1>5, <1>6
<1> QED
  BY <1>1, <1>2, <1>3, <1>7 DEF pool, ahead

(* The POSTs of a pool after a step are finitely many, too.                *)
LEMMA PoolSizesAfter ==
  ASSUME NEW a
  PROVE  /\ IsFiniteSet(Pool(a)') /\ IsFiniteSet(Ahead(a)')
         /\ Cardinality(Pool(a)') \in Nat /\ Cardinality(Ahead(a)') \in Nat
<1>1. IsFiniteSet(Posts) /\ Pool(a)' \subseteq Posts /\ Ahead(a)' \subseteq Posts
  BY FormAssumption DEF Pool, Ahead
<1>2. IsFiniteSet(Pool(a)') /\ IsFiniteSet(Ahead(a)')
  BY <1>1, FS_Subset
<1> QED
  BY <1>2, FS_CardinalityType

LEMMA FormTypesHold ==
  ASSUME FormTypes
  PROVE  Form!WizTypeOK
BY DEF FormTypes, Form!WizTypeOK, Begun, Counters, Form!NoRequest

LEMMA FormInit == Form!WizInit => FormInv
<1> SUFFICES ASSUME Form!WizInit
             PROVE  FormInv
  OBVIOUS
<1>1. FormTypes
  <2>1. Form!NoCounter \in Counters
    BY FormAssumption DEF Counters, Form!NoCounter
  <2> QED
    BY <2>1 DEF Form!WizInit, FormTypes
<1>2. PostsPlaced /\ Form!AcceptedIsKept
  BY DEF Form!WizInit, PostsPlaced, Form!AcceptedIsKept
<1>3. \A a \in Addresses : Pool(a) = {}
  BY DEF Form!WizInit, Pool, Form!NoPost
<1>4. AllCounted
  <2>1. \A a \in Addresses : /\ ~throttle[a].locked /\ throttle[a].failed = 0
                             /\ guesses[a] = 0 /\ Cardinality(Pool(a)) = 0
    BY <1>3, FS_EmptySet DEF Form!WizInit, Form!NoCounter
  <2> QED
    BY <2>1 DEF AllCounted, Counted
<1> QED
  BY <1>1, <1>2, <1>4 DEF FormInv

-----------------------------------------------------------------------------
(* What steps do to the count of one address.  A step that its counter does *)
(* not see keeps it: nothing refused is taken away, and nobody gets ahead   *)
(* of a lockout.                                                            *)
LEMMA QuietKeepsCounted ==
  ASSUME FormInv, NEW a \in Addresses, a \notin astray,
         Pool(a) \subseteq Pool(a)', guesses'[a] = guesses[a],
         throttle'[a].failed = throttle[a].failed,
         throttle'[a].locked = throttle[a].locked,
         throttle[a].locked => Ahead(a)' \subseteq Ahead(a)
  PROVE  Counted(a)'
<1>0. /\ guesses[a] \in Nat /\ throttle[a].failed \in Nat /\ MaxLoginAttempts \in Nat
      /\ Counted(a)
  BY FormAssumption DEF FormInv, FormTypes, Counters, AllCounted
<1>1. CASE throttle[a].locked
  <2>1. Cardinality(Ahead(a)') <= Cardinality(Ahead(a))
    BY <1>1, PoolSizes, FS_Subset
  <2>2. guesses[a] + Cardinality(Ahead(a)) <= MaxLoginAttempts + Cardinality(Posts) - 1
    BY <1>0, <1>1 DEF Counted
  <2>3. guesses'[a] + Cardinality(Ahead(a)') <= MaxLoginAttempts + Cardinality(Posts) - 1
    BY <1>0, <2>1, <2>2, PoolSizes, PoolSizesAfter
  <2> QED
    BY <1>1, <2>3 DEF Counted
<1>2. CASE ~throttle[a].locked
  <2>1. Cardinality(Pool(a)) <= Cardinality(Pool(a)')
    BY PoolSizesAfter, FS_Subset
  <2>2. guesses[a] <= throttle[a].failed + Cardinality(Pool(a))
    BY <1>0, <1>2 DEF Counted
  <2>3. guesses'[a] <= throttle'[a].failed + Cardinality(Pool(a)')
    BY <1>0, <2>1, <2>2, PoolSizes, PoolSizesAfter
  <2> QED
    BY <1>2, <2>3 DEF Counted
<1> QED
  BY <1>1, <1>2

(* A counter that starts afresh starts the guesses afresh: those of its    *)
(* pool are all there are.                                                 *)
LEMMA FreshKeepsCounted ==
  ASSUME NEW a \in Addresses, Pool(a)' = Pool(a), throttle'[a] \in Counters,
         ~throttle'[a].locked, guesses'[a] = Cardinality(Pool(a))
  PROVE  Counted(a)'
<1>1. /\ Cardinality(Pool(a)) \in Nat /\ throttle'[a].failed \in Nat
  BY PoolSizes, FormAssumption DEF Counters
<1>2. guesses'[a] <= throttle'[a].failed + Cardinality(Pool(a)')
  BY <1>1
<1> QED
  BY <1>2 DEF Counted

LEMMA UnnotedIsPool ==
  \A a : /\ Form!Unnoted(a, {}) = Cardinality(Pool(a))
         /\ \A p \in Posts : Form!Unnoted(a, {p}) = Cardinality(Pool(a) \ {p})
<1> SUFFICES ASSUME NEW a
             PROVE  /\ Form!Unnoted(a, {}) = Cardinality(Pool(a))
                    /\ \A p \in Posts : Form!Unnoted(a, {p}) = Cardinality(Pool(a) \ {p})
  OBVIOUS
<1>1. Pool(a) = {q \in Posts \ {} : post[q].at \in {"refused", "failing"} /\ post[q].address = a}
  BY DEF Pool
<1>2. \A p \in Posts : Pool(a) \ {p} =
        {q \in Posts \ {p} : post[q].at \in {"refused", "failing"} /\ post[q].address = a}
  BY DEF Pool
<1> QED
  BY <1>1, <1>2, SameCardinality DEF Form!Unnoted

(* The history of guesses: what is not astray afterwards was not before,   *)
(* and counts as told.                                                     *)
LEMMA TallyCounts ==
  ASSUME astray \subseteq Addresses, NEW count, NEW more \in SUBSET Addresses,
         \A a \in Addresses : count[a] \in Nat,
         Form!Tally(count, more)
  PROVE  /\ astray' \subseteq Addresses /\ guesses' \in [Addresses -> Nat]
         /\ \A a \in Addresses \ astray' :
              a \notin astray /\ a \notin more /\ guesses'[a] = count[a]
BY DEF Form!Tally

(* A step of one POST that leaves the requests alone: what the backend      *)
(* accepted stays in its hands.                                             *)
InHand == {"accepted", "clearing", "cleared"}
LEMMA MoveKeepsRequests ==
  ASSUME FormInv, NEW p \in Posts,
         \A q \in Posts \ {p} : post'[q] = post[q],
         post'[p] # Form!NoPost => request[post'[p].id] # Form!NoRequest,
         post[p] # Form!NoPost /\ post[p].at \in InHand =>
           post'[p] # Form!NoPost /\ post'[p].at \in InHand /\ post'[p].id = post[p].id,
         UNCHANGED <<requests, request, approved, settled, replaced>>
  PROVE  PostsPlaced' /\ Form!AcceptedIsKept'
<1>1. PostsPlaced'
  BY DEF FormInv, PostsPlaced
<1>2. ASSUME NEW id \in approved \ (settled \cup replaced)
      PROVE  /\ id \in requests
             /\ Form!Succeeded(id) \/ \E q \in Posts :
                  post'[q] # Form!NoPost /\ post'[q].id = id /\ post'[q].at \in InHand
  <2>1. id \in requests
    BY DEF FormInv, Form!AcceptedIsKept
  <2>2. CASE Form!Succeeded(id)
    BY <2>1, <2>2
  <2>3. CASE \E q \in Posts : post[q] # Form!NoPost /\ post[q].id = id /\ post[q].at \in InHand
    BY <2>1, <2>3
  <2> QED
    BY <2>2, <2>3 DEF FormInv, Form!AcceptedIsKept, InHand
<1> QED
  BY <1>1, <1>2 DEF Form!AcceptedIsKept, Form!Succeeded, InHand

(* A POST that moves keeps the rest of what it holds.                      *)
LEMMA PostMoves ==
  ASSUME FormTypes, NEW p \in Posts, post[p].at # "idle", NEW where \in Points,
         Form!GoTo(p, where)
  PROVE  /\ post' \in [Posts -> {Form!NoPost} \cup LivePosts]
         /\ post[p] \in LivePosts /\ post[p] # Form!NoPost /\ post'[p] # Form!NoPost
         /\ post'[p].at = where /\ post'[p].id = post[p].id
         /\ post'[p].address = post[p].address /\ post'[p].kept = post[p].kept
         /\ \A q \in Posts \ {p} : post'[q] = post[q]
<1>1. post[p] # Form!NoPost
  BY DEF Form!NoPost
<1>2. post[p] \in LivePosts
  BY <1>1 DEF FormTypes
<1>3. post' = [post EXCEPT ![p] = [post[p] EXCEPT !.at = where]]
  BY <1>2 DEF Form!GoTo, FormTypes
<1> DEFINE new == [post[p] EXCEPT !.at = where]
<1>4. /\ new \in LivePosts /\ new.at = where /\ new.id = post[p].id
      /\ new.address = post[p].address /\ new.kept = post[p].kept
  BY <1>2 DEF LivePosts
<1>5. new # Form!NoPost
  BY <1>4 DEF Form!NoPost, Points
<1> HIDE DEF new
<1> QED
  BY <1>1, <1>2, <1>3, <1>4, <1>5 DEF FormTypes, new

LEMMA PostLeaves ==
  ASSUME FormTypes, NEW p \in Posts, Form!Leave(p)
  PROVE  /\ post' \in [Posts -> {Form!NoPost} \cup LivePosts]
         /\ post'[p] = Form!NoPost /\ post'[p].at = "idle"
         /\ \A q \in Posts \ {p} : post'[q] = post[q]
BY DEF FormTypes, Form!Leave, Form!NoPost

(* The POST that moves is the only one whose place in a pool changes.      *)
LEMMA PoolsMove ==
  ASSUME NEW p \in Posts, \A q \in Posts \ {p} : post'[q] = post[q], NEW a
  PROVE  /\ Pool(a)' \ {p} = Pool(a) \ {p} /\ Ahead(a)' \ {p} = Ahead(a) \ {p}
         /\ p \in Pool(a) <=> post[p].at \in {"refused", "failing"} /\ post[p].address = a
         /\ p \in Pool(a)' <=> post'[p].at \in {"refused", "failing"} /\ post'[p].address = a
         /\ p \in Ahead(a) <=> /\ \/ post[p].at \in {"checking", "asking"}
                                  \/ post[p].at = "fetched" /\ ~post[p].kept
                               /\ post[p].address = a
         /\ p \in Ahead(a)' <=> /\ \/ post'[p].at \in {"checking", "asking"}
                                   \/ post'[p].at = "fetched" /\ ~post'[p].kept
                                /\ post'[p].address = a
BY DEF Pool, Ahead

-----------------------------------------------------------------------------
(* The requests of the wizard: begun, resolved.                            *)
LEMMA CountsStay ==
  ASSUME FormInv, UNCHANGED <<throttle, guesses, astray, post>>
  PROVE  AllCounted'
<1>1. \A a : Pool(a)' = Pool(a) /\ Ahead(a)' = Ahead(a)
  BY DEF Pool, Ahead
<1> QED
  BY <1>1 DEF FormInv, AllCounted, Counted

LEMMA BeginKeepsForm ==
  ASSUME FormInv, NEW s \in Sessions, NEW a \in Addresses, Form!Begin(s, a)
  PROVE  FormInv'
<1> DEFINE same == Form!SameLogin(s, a)
           done == {id \in same : Form!Succeeded(id)}
<1>0. same \subseteq requests /\ UNCHANGED <<throttle, guesses, astray, post, approved, settled>>
  BY DEF Form!Begin, Form!SameLogin, Form!Register, Form!counterPart
<1>1. AllCounted'
  BY <1>0, CountsStay
<1>2. CASE done = {} /\ \E id \in Tokens : Form!Register(id, s, a, same)
  <2>1. PICK id \in Tokens : Form!Register(id, s, a, same)
    BY <1>2
  <2>2. Form!NewRequest(s, a) \in Begun /\ Form!NewRequest(s, a) # Form!NoRequest
    BY DEF Form!NewRequest, Begun, Form!NoRequest
  <2>6. /\ request[id] = Form!NoRequest /\ requests' = (requests \ same) \cup {id}
        /\ request' = [request EXCEPT ![id] = Form!NewRequest(s, a)]
        /\ replaced' = replaced \cup same
    BY <1>2, <2>1 DEF Form!Register
  <2>3. FormTypes'
    BY <1>0, <2>2, <2>6 DEF FormInv, FormTypes
  <2>4. PostsPlaced'
    BY <1>0, <2>2, <2>6 DEF FormInv, FormTypes, PostsPlaced, LivePosts
  <2>5. Form!AcceptedIsKept'
    <3>1. ASSUME NEW i \in approved \ (settled \cup replaced')
          PROVE  i \in requests' /\ request'[i] = request[i]
      <4>1. i \in requests /\ i \notin same
        BY <2>6 DEF FormInv, Form!AcceptedIsKept
      <4>2. i # id
        BY <2>6, <4>1 DEF FormInv, PostsPlaced
      <4> QED
        BY <2>6, <4>1, <4>2 DEF FormInv, FormTypes
    <3>2. \A i \in approved \ (settled \cup replaced') : i \in approved \ (settled \cup replaced)
      BY <2>6
    <3> QED
      BY <1>0, <3>1, <3>2 DEF FormInv, Form!AcceptedIsKept, Form!Succeeded
  <2> QED
    BY <1>1, <2>3, <2>4, <2>5 DEF FormInv
<1>3. CASE \E gone \in SUBSET (same \ done) :
             /\ requests' = requests \ gone /\ replaced' = replaced \cup gone
             /\ UNCHANGED request
  <2>1. FormTypes' /\ PostsPlaced'
    BY <1>0, <1>3 DEF FormInv, FormTypes, PostsPlaced
  <2>2. Form!AcceptedIsKept'
    BY <1>0, <1>3 DEF FormInv, Form!AcceptedIsKept, Form!Succeeded
  <2> QED
    BY <1>1, <2>1, <2>2 DEF FormInv
<1> QED
  BY <1>2, <1>3 DEF Form!Begin

LEMMA PendingOutcomeKeepsForm ==
  ASSUME FormInv, NEW s \in Sessions, NEW a \in Addresses, Form!PendingOutcome(s, a)
  PROVE  FormInv'
<1> USE DEF Form!PendingOutcome, Form!counterPart
<1>1. FormTypes' /\ PostsPlaced'
  BY DEF FormInv, FormTypes, PostsPlaced
<1>2. Form!AcceptedIsKept'
  BY DEF FormInv, Form!AcceptedIsKept, Form!Succeeded
<1> QED
  BY <1>1, <1>2, CountsStay DEF FormInv

-----------------------------------------------------------------------------
(* A POST opens the page, and binds the address typed.                     *)
LEMMA LoginPageKeepsForm ==
  ASSUME FormInv, NEW p \in Posts, NEW id \in Tokens, Form!LoginPage(p, id)
  PROVE  FormInv'
<1> USE DEF Form!LoginPage, Form!loginPart, Form!counterPart, Form!At
<1> DEFINE new == [at |-> "open", id |-> id, kept |-> FALSE, address |-> request[id].address]
<1>1. /\ request[id] \in Begun /\ request[id] # Form!NoRequest /\ post[p].at = "idle"
      /\ FormTypes /\ PostsPlaced
  BY DEF FormInv, FormTypes, PostsPlaced
<1>2. new \in LivePosts /\ new.at = "open" /\ new.id = id
  BY <1>1 DEF LivePosts, Points, Begun
<1>3. post' = [post EXCEPT ![p] = new]
  OBVIOUS
<1> HIDE DEF new
<1>4. /\ post' \in [Posts -> {Form!NoPost} \cup LivePosts] /\ post'[p] = new
      /\ \A q \in Posts \ {p} : post'[q] = post[q]
  BY <1>1, <1>2, <1>3 DEF FormTypes
<1>5. FormTypes'
  BY <1>1, <1>4 DEF FormTypes
<1>6. PostsPlaced' /\ Form!AcceptedIsKept'
  BY <1>1, <1>2, <1>4, MoveKeepsRequests DEF InHand
<1>7. \A a : Pool(a) \subseteq Pool(a)' /\ Ahead(a)' \subseteq Ahead(a)
  BY <1>1, <1>2, <1>4, PoolsMove
<1>8. AllCounted'
  BY <1>7, QuietKeepsCounted DEF AllCounted, FormInv
<1> QED
  BY <1>5, <1>6, <1>8 DEF FormInv

LEMMA BindKeepsForm ==
  ASSUME FormInv, NEW p \in Posts, NEW a \in Addresses, Form!BindAddress(p, a)
  PROVE  FormInv'
<1> DEFINE id == post[p].id
<1>1. /\ post[p].at = "open" /\ Form!GoTo(p, "bound") /\ "bound" \in Points
      /\ request' = [request EXCEPT ![id].address = a]
      /\ UNCHANGED <<requests, approved, settled, replaced, throttle, guesses, astray>>
      /\ FormTypes /\ PostsPlaced /\ AllCounted /\ Form!AcceptedIsKept
  BY DEF Form!BindAddress, Points, Form!At, Form!counterPart, FormInv
<1>2. /\ post' \in [Posts -> {Form!NoPost} \cup LivePosts]
      /\ post[p] \in LivePosts /\ post[p] # Form!NoPost /\ post'[p] # Form!NoPost
      /\ post'[p].at = "bound" /\ post'[p].id = id
      /\ \A q \in Posts \ {p} : post'[q] = post[q]
  BY <1>1, PostMoves
<1>3. id \in Tokens /\ request[id] \in Begun
  BY <1>1, <1>2 DEF FormTypes, PostsPlaced, LivePosts
<1> HIDE DEF id
<1> DEFINE new == [request[id] EXCEPT !.address = a]
<1>4. /\ new \in Begun /\ new # Form!NoRequest
      /\ new.status = request[id].status /\ new.error = request[id].error
  BY <1>3 DEF Begun, Form!NoRequest
<1>5. request' = [request EXCEPT ![id] = new]
  BY <1>1, <1>3 DEF FormTypes
<1> HIDE DEF new
<1>6. /\ request' \in [Tokens -> {Form!NoRequest} \cup Begun] /\ request'[id] = new
      /\ \A i \in Tokens \ {id} : request'[i] = request[i]
  BY <1>1, <1>3, <1>4, <1>5 DEF FormTypes
<1>7. FormTypes'
  BY <1>1, <1>2, <1>6 DEF FormTypes
<1>8. PostsPlaced'
  <2>1. \A i \in Tokens : request[i] # Form!NoRequest => request'[i] # Form!NoRequest
    BY <1>4, <1>6
  <2>2. /\ \A i \in requests' : request'[i] # Form!NoRequest
        /\ \A q \in Posts \ {p} : post[q] # Form!NoPost => request'[post[q].id] # Form!NoRequest
    BY <1>1, <2>1 DEF FormTypes, PostsPlaced, LivePosts
  <2> QED
    BY <1>2, <1>4, <1>6, <2>2 DEF PostsPlaced
<1>9. Form!AcceptedIsKept'
  <2>1. \A i \in approved : Form!Succeeded(i) => Form!Succeeded(i)'
    BY <1>1, <1>4, <1>6 DEF Form!Succeeded, FormTypes
  <2>2. ASSUME NEW i \in approved \ (settled \cup replaced)
        PROVE  Form!Succeeded(i)' \/ \E q \in Posts :
                 /\ post'[q] # Form!NoPost /\ post'[q].id = i
                 /\ post'[q].at \in {"accepted", "clearing", "cleared"}
    <3>1. CASE Form!Succeeded(i)
      BY <2>1, <3>1
    <3>2. CASE ~Form!Succeeded(i)
      <4>1. PICK q \in Posts : /\ post[q] # Form!NoPost /\ post[q].id = i
                               /\ post[q].at \in {"accepted", "clearing", "cleared"}
        BY <1>1, <3>2 DEF Form!AcceptedIsKept
      <4> QED
        BY <1>1, <1>2, <4>1
    <3> QED
      BY <3>1, <3>2
  <2> QED
    BY <1>1, <2>2 DEF Form!AcceptedIsKept
<1>10. \A b : Pool(b) \subseteq Pool(b)' /\ Ahead(b)' \subseteq Ahead(b)
  BY <1>1, <1>2, PoolsMove
<1>11. AllCounted'
  BY <1>1, <1>10, QuietKeepsCounted DEF AllCounted
<1> QED
  BY <1>7, <1>8, <1>9, <1>11 DEF FormInv

(* throttleFor: the counter is made if there is none.                      *)
LEMMA FetchKeepsForm ==
  ASSUME FormInv, NEW p \in Posts,
         Form!FetchForCheck(p) \/ Form!FetchForFailure(p) \/ Form!FetchForReset(p)
  PROVE  FormInv'
<1> USE DEF Form!FetchForCheck, Form!FetchForFailure, Form!FetchForReset, Form!At
<1> DEFINE b == Form!AddressOf(p)
<1>1. /\ FormTypes /\ PostsPlaced /\ AllCounted
      /\ post[p] # Form!NoPost /\ post[p].at \in {"bound", "refused", "accepted"}
  BY DEF FormInv, Form!NoPost
<1>2. /\ post[p] \in LivePosts /\ request[post[p].id] \in Begun /\ b \in Addresses
  BY <1>1 DEF FormTypes, PostsPlaced, LivePosts, Form!AddressOf, Begun
<1>3. PICK where \in {"fetched", "failing", "clearing"} :
        /\ Form!ThrottleFor(p, where)
        /\ where = "failing" <=> post[p].at = "refused"
        /\ where = "clearing" <=> post[p].at = "accepted"
  OBVIOUS
<1>4. /\ astray' \subseteq Addresses /\ guesses' \in [Addresses -> Nat]
      /\ \A a \in Addresses \ astray' :
           /\ a \notin astray /\ guesses'[a] = guesses[a]
           /\ where = "failing" /\ post[p].address = a => b = a
  <2>1. CASE where = "failing"
    <3>1. Form!Tally(guesses, {post[p].address} \ {b})
      BY <1>3, <2>1
    <3>2. {post[p].address} \ {b} \in SUBSET Addresses
      BY <1>2 DEF LivePosts
    <3> HIDE DEF b, Form!FetchForCheck, Form!FetchForFailure, Form!FetchForReset
    <3> QED
      BY <1>1, <3>1, <3>2, TallyCounts DEF FormTypes
  <2>2. CASE where # "failing"
    BY <1>1, <1>3, <2>2 DEF FormTypes
  <2> QED
    BY <2>1, <2>2
<1> DEFINE new == [post[p] EXCEPT !.at = where, !.address = b, !.kept = TRUE]
<1>5. /\ post' = [post EXCEPT ![p] = new]
      /\ throttle' = [throttle EXCEPT ![b] = IF throttle[b] = Form!NoCounter
                                             THEN Form!NewCounter ELSE throttle[b]]
      /\ UNCHANGED <<requests, request, approved, settled, replaced>>
  BY <1>3 DEF Form!ThrottleFor, Form!loginPart
<1> HIDE DEF b, Form!FetchForCheck, Form!FetchForFailure, Form!FetchForReset
<1>6. /\ new \in LivePosts /\ new.at = where /\ new.id = post[p].id /\ new.address = b
      /\ new.kept = TRUE
  BY <1>2 DEF LivePosts, Points
<1> HIDE DEF new
<1>7. /\ post' \in [Posts -> {Form!NoPost} \cup LivePosts] /\ post'[p] = new
      /\ \A q \in Posts \ {p} : post'[q] = post[q]
  BY <1>1, <1>5, <1>6 DEF FormTypes
<1>8. /\ throttle' \in [Addresses -> Counters]
      /\ \A a \in Addresses :
           /\ throttle'[a].failed = throttle[a].failed
           /\ throttle'[a].locked = throttle[a].locked
           /\ throttle[a].locked => throttle'[a].used = throttle[a].used
  <2>1. Form!NewCounter \in Counters
    BY FormAssumption DEF Form!NewCounter, Counters
  <2>2. throttle \in [Addresses -> Counters]
    BY <1>1 DEF FormTypes
  <2>3. throttle' \in [Addresses -> Counters]
    BY <1>2, <1>5, <2>1, <2>2
  <2>4. /\ \A a \in Addresses \ {b} : throttle'[a] = throttle[a]
        /\ throttle[b] # Form!NoCounter => throttle'[b] = throttle[b]
        /\ throttle[b] = Form!NoCounter => throttle'[b] = Form!NewCounter
    BY <1>2, <1>5, <2>2
  <2>5. ASSUME throttle[b] = Form!NoCounter
        PROVE  /\ throttle'[b].failed = throttle[b].failed
               /\ throttle'[b].locked = throttle[b].locked
               /\ ~throttle[b].locked
    <3>1. throttle'[b] = Form!NewCounter
      BY <2>4, <2>5
    <3> QED
      BY <2>5, <3>1 DEF Form!NoCounter, Form!NewCounter
  <2> QED
    BY <2>3, <2>4, <2>5
<1>9. FormTypes'
  BY <1>1, <1>4, <1>5, <1>7, <1>8 DEF FormTypes
<1>10. PostsPlaced' /\ Form!AcceptedIsKept'
  BY <1>1, <1>2, <1>3, <1>5, <1>6, <1>7, MoveKeepsRequests
  DEF InHand, PostsPlaced, Form!NoPost
<1>11. \A a \in Addresses \ astray' : Pool(a) \subseteq Pool(a)' /\ Ahead(a)' \subseteq Ahead(a)
  BY <1>1, <1>3, <1>4, <1>6, <1>7, PoolsMove
<1>12. AllCounted'
  BY <1>1, <1>4, <1>8, <1>11, QuietKeepsCounted DEF AllCounted
<1> QED
  BY <1>9, <1>10, <1>12 DEF FormInv

(* The check of the lockout, and the answers that no counter sees.         *)
LEMMA QuietAnswersKeepForm ==
  ASSUME FormInv, NEW p \in Posts,
         \/ Form!RefuseForm(p) \/ Form!ThrottleLocked(p) \/ Form!AskOtp(p)
         \/ Form!Unfinished(p)
  PROVE  FormInv'
<1> USE DEF Form!RefuseForm, Form!ThrottleLocked, Form!AskOtp, Form!Unfinished, Form!At,
            Form!loginPart, Form!counterPart
<1>1. /\ post[p].at \in {"bound", "fetched", "asking"} /\ post[p] # Form!NoPost
      /\ UNCHANGED <<requests, request, approved, settled, replaced, guesses, astray, throttle>>
      /\ FormTypes /\ PostsPlaced /\ AllCounted
  BY DEF Form!NoPost, FormInv
<1>2. /\ post' \in [Posts -> {Form!NoPost} \cup LivePosts]
      /\ \A q \in Posts \ {p} : post'[q] = post[q]
      /\ \/ post'[p] = Form!NoPost /\ post'[p].at = "idle"
         \/ /\ post'[p].at \in {"checking", "noted"} /\ post'[p].id = post[p].id
            /\ post'[p].address = post[p].address
            /\ post'[p].at = "checking" =>
                 /\ post[p].at = "fetched" /\ post'[p].kept = post[p].kept
                 /\ ~(post[p].kept /\ throttle[post[p].address].locked)
  <2>1. CASE Form!Leave(p)
    BY <1>1, <2>1, PostLeaves
  <2>2. CASE Form!GoTo(p, "noted")
    BY <1>1, <2>2, PostMoves DEF Points
  <2>3. CASE /\ Form!GoTo(p, "checking") /\ post[p].at = "fetched"
             /\ ~(post[p].kept /\ throttle[post[p].address].locked)
    BY <1>1, <2>3, PostMoves DEF Points
  <2> QED
    BY <2>1, <2>2, <2>3
<1> HIDE DEF Form!RefuseForm, Form!ThrottleLocked, Form!AskOtp, Form!Unfinished
<1>3. FormTypes'
  BY <1>1, <1>2 DEF FormTypes
<1>4. PostsPlaced' /\ Form!AcceptedIsKept'
  BY <1>1, <1>2, MoveKeepsRequests DEF InHand, PostsPlaced
<1>5. \A a : /\ Pool(a) \subseteq Pool(a)'
             /\ throttle[a].locked => Ahead(a)' \subseteq Ahead(a)
  BY <1>1, <1>2, PoolsMove
<1>6. AllCounted'
  BY <1>1, <1>5, QuietKeepsCounted DEF AllCounted
<1> QED
  BY <1>3, <1>4, <1>6 DEF FormInv

(* LoginCheck is asked about the address of that moment: no other one gets *)
(* a POST ahead of its lockout.                                            *)
LEMMA LoginCheckKeepsForm ==
  ASSUME FormInv, NEW p \in Posts, Form!LoginCheck(p)
  PROVE  FormInv'
<1> DEFINE b == Form!AddressOf(p)
           new == [post[p] EXCEPT !.at = "asking", !.address = b]
<1>0. /\ post[p].at = "checking" /\ post' = [post EXCEPT ![p] = new]
      /\ UNCHANGED <<requests, request, approved, settled, replaced, throttle>>
      /\ Form!Tally(guesses, {b} \ {post[p].address})
  BY DEF Form!LoginCheck, Form!At, Form!loginPart
<1>1. /\ post[p].at = "checking" /\ post[p] # Form!NoPost /\ post' = [post EXCEPT ![p] = new]
      /\ UNCHANGED <<requests, request, approved, settled, replaced, throttle>>
      /\ Form!Tally(guesses, {b} \ {post[p].address})
      /\ FormTypes /\ PostsPlaced /\ AllCounted
  BY <1>0 DEF Form!NoPost, FormInv
<1>2. post[p] \in LivePosts /\ request[post[p].id] \in Begun /\ b \in Addresses
  BY <1>1 DEF FormTypes, PostsPlaced, LivePosts, Form!AddressOf, Begun
<1> HIDE DEF b
<1>3. new \in LivePosts /\ new.at = "asking" /\ new.id = post[p].id /\ new.address = b
  BY <1>2 DEF LivePosts, Points
<1> HIDE DEF new
<1>4. /\ post' \in [Posts -> {Form!NoPost} \cup LivePosts] /\ post'[p] = new
      /\ \A q \in Posts \ {p} : post'[q] = post[q]
  BY <1>1, <1>3 DEF FormTypes
<1>5. /\ astray' \subseteq Addresses /\ guesses' \in [Addresses -> Nat]
      /\ \A a \in Addresses \ astray' :
           /\ a \notin astray /\ guesses'[a] = guesses[a] /\ (b = a => post[p].address = a)
  <2>1. {b} \ {post[p].address} \in SUBSET Addresses /\ astray \subseteq Addresses
        /\ \A a \in Addresses : guesses[a] \in Nat
    BY <1>1, <1>2 DEF FormTypes
  <2> QED
    BY <1>1, <2>1, TallyCounts
<1>6. FormTypes'
  BY <1>1, <1>4, <1>5, <1>3 DEF FormTypes
<1>7. PostsPlaced' /\ Form!AcceptedIsKept'
  BY <1>1, <1>3, <1>4, MoveKeepsRequests DEF InHand, PostsPlaced
<1>8. \A a \in Addresses \ astray' : Pool(a) \subseteq Pool(a)' /\ Ahead(a)' \subseteq Ahead(a)
  BY <1>1, <1>3, <1>4, <1>5, PoolsMove
<1>9. AllCounted'
  BY <1>1, <1>5, <1>8, QuietKeepsCounted DEF AllCounted
<1> QED
  BY <1>6, <1>7, <1>9 DEF FormInv

(* The backend accepts: the request is in the hands of the POST.           *)
LEMMA AcceptKeepsForm ==
  ASSUME FormInv, NEW p \in Posts, Form!Accept(p)
  PROVE  FormInv'
<1> DEFINE id == post[p].id
<1>1. /\ post[p].at = "asking" /\ post[p] # Form!NoPost /\ Form!GoTo(p, "accepted")
      /\ UNCHANGED <<requests, request, replaced, guesses, astray, throttle>>
      /\ FormTypes /\ PostsPlaced /\ AllCounted /\ Form!AcceptedIsKept
      /\ \/ id \in requests /\ approved' = approved \cup {id} /\ settled' = settled \ {id}
         \/ id \notin requests /\ UNCHANGED <<approved, settled>>
  BY DEF Form!Accept, Form!At, Form!NoPost, Form!counterPart, FormInv
<1>2. /\ post' \in [Posts -> {Form!NoPost} \cup LivePosts] /\ post[p] \in LivePosts
      /\ post'[p] # Form!NoPost /\ post'[p].at = "accepted" /\ post'[p].id = id
      /\ post'[p].address = post[p].address
      /\ \A q \in Posts \ {p} : post'[q] = post[q]
  BY <1>1, PostMoves DEF Points
<1>3. FormTypes'
  BY <1>1, <1>2 DEF FormTypes
<1>4. PostsPlaced'
  BY <1>1, <1>2 DEF PostsPlaced
<1>5. Form!AcceptedIsKept'
  <2>1. ASSUME NEW i \in approved' \ (settled' \cup replaced)
        PROVE  /\ i \in requests
               /\ Form!Succeeded(i)' \/ \E q \in Posts :
                    /\ post'[q] # Form!NoPost /\ post'[q].id = i
                    /\ post'[q].at \in {"accepted", "clearing", "cleared"}
    <3>1. CASE i = id /\ id \in requests
      BY <1>2, <3>1
    <3>2. CASE ~(i = id /\ id \in requests)
      <4>1. i \in approved \ (settled \cup replaced)
        BY <1>1, <2>1, <3>2
      <4>2. Form!Succeeded(i)' <=> Form!Succeeded(i)
        BY <1>1 DEF Form!Succeeded
      <4> QED
        BY <1>1, <1>2, <4>1, <4>2 DEF Form!AcceptedIsKept
    <3> QED
      BY <3>1, <3>2
  <2> QED
    BY <1>1, <2>1 DEF Form!AcceptedIsKept
<1>6. \A a : Pool(a) \subseteq Pool(a)' /\ Ahead(a)' \subseteq Ahead(a)
  BY <1>1, <1>2, PoolsMove
<1>7. AllCounted'
  BY <1>1, <1>6, QuietKeepsCounted DEF AllCounted
<1> QED
  BY <1>3, <1>4, <1>5, <1>7 DEF FormInv

(* A refused password joins the pool.                                      *)
LEMMA RefuseKeepsForm ==
  ASSUME FormInv, NEW p \in Posts, Form!Refuse(p)
  PROVE  FormInv'
<1>0. PICK x : x = post[p].address
  OBVIOUS
<1>1. /\ post[p].at = "asking" /\ post[p] # Form!NoPost /\ Form!GoTo(p, "refused")
      /\ UNCHANGED <<requests, request, approved, settled, replaced, throttle>>
      /\ Form!Tally([guesses EXCEPT ![x] = @ + 1], {})
      /\ FormTypes /\ PostsPlaced /\ AllCounted
  BY <1>0 DEF Form!Refuse, Form!At, Form!NoPost, Form!loginPart, FormInv
<1>2. /\ post' \in [Posts -> {Form!NoPost} \cup LivePosts] /\ post[p] \in LivePosts
      /\ post'[p].at = "refused" /\ post'[p].id = post[p].id
      /\ post'[p].address = x
      /\ \A q \in Posts \ {p} : post'[q] = post[q]
  BY <1>0, <1>1, PostMoves DEF Points
<1>3. x \in Addresses
  BY <1>0, <1>2 DEF LivePosts
<1>4. /\ astray' \subseteq Addresses /\ guesses' \in [Addresses -> Nat]
      /\ \A a \in Addresses \ astray' :
           a \notin astray /\ guesses'[a] = IF a = x THEN guesses[x] + 1 ELSE guesses[a]
  <2> DEFINE count == [guesses EXCEPT ![x] = @ + 1]
  <2>1. /\ astray \subseteq Addresses
        /\ \A a \in Addresses : /\ count[a] = IF a = x THEN guesses[x] + 1 ELSE guesses[a]
                                /\ count[a] \in Nat
    BY <1>1, <1>3 DEF FormTypes
  <2>2. Form!Tally(count, {}) /\ {} \in SUBSET Addresses
    BY <1>1
  <2> HIDE DEF count
  <2> QED
    BY <2>1, <2>2, TallyCounts
<1>5. FormTypes'
  BY <1>1, <1>2, <1>4 DEF FormTypes
<1>6. PostsPlaced' /\ Form!AcceptedIsKept'
  BY <1>1, <1>2, MoveKeepsRequests DEF InHand, PostsPlaced
<1>7. \A a \in Addresses : a # x => Pool(a) \subseteq Pool(a)' /\ Ahead(a)' \subseteq Ahead(a)
  BY <1>0, <1>1, <1>2, PoolsMove
<1>8. /\ Pool(x)' = Pool(x) \cup {p} /\ p \notin Pool(x)
      /\ Ahead(x)' = Ahead(x) \ {p} /\ p \in Ahead(x)
  BY <1>0, <1>1, <1>2, PoolsMove
<1>9. /\ Cardinality(Pool(x)') = Cardinality(Pool(x)) + 1
      /\ Cardinality(Ahead(x)') = Cardinality(Ahead(x)) - 1
  <2>1. Cardinality(Pool(x) \cup {p}) = Cardinality(Pool(x)) + 1
    BY <1>8, PoolSizes, FS_AddElement
  <2>2. Cardinality(Ahead(x) \ {p}) = Cardinality(Ahead(x)) - 1
    BY <1>8, PoolSizes, FS_RemoveElement
  <2> QED
    BY <1>8, <2>1, <2>2
<1>10. x \notin astray' => Counted(x)'
  <2> SUFFICES ASSUME x \notin astray'
               PROVE  Counted(x)'
    OBVIOUS
  <2>1. /\ guesses'[x] = guesses[x] + 1 /\ guesses[x] \in Nat /\ Counted(x)
        /\ throttle[x].failed \in Nat /\ throttle' = throttle /\ MaxLoginAttempts \in Nat
    BY <1>1, <1>3, <1>4, FormAssumption DEF FormTypes, Counters, AllCounted
  <2>2. /\ Cardinality(Pool(x)) \in Nat /\ Cardinality(Ahead(x)) \in Nat
        /\ Cardinality(Posts) \in Nat
    BY PoolSizes
  <2>3. throttle[x].locked =>
          guesses'[x] + Cardinality(Ahead(x)') <= MaxLoginAttempts + Cardinality(Posts) - 1
    BY <1>9, <2>1, <2>2 DEF Counted
  <2>4. ~throttle[x].locked => guesses'[x] <= throttle[x].failed + Cardinality(Pool(x)')
    BY <1>9, <2>1, <2>2 DEF Counted
  <2> QED
    BY <2>1, <2>3, <2>4 DEF Counted
<1>11. \A a \in Addresses \ astray' : Counted(a)'
  BY <1>1, <1>4, <1>7, <1>10, QuietKeepsCounted
<1>12. AllCounted'
  BY <1>1, <1>11 DEF AllCounted
<1> QED
  BY <1>5, <1>6, <1>12 DEF FormInv

(* What a failure does to the counter of its address; the POST leaves the  *)
(* pool.                                                                   *)
LEMMA FailureKeepsCount ==
  ASSUME FormInv, NEW p \in Posts, NEW x \in Addresses, x \notin astray, p \in Pool(x),
         Pool(x)' = Pool(x) \ {p}, Ahead(x)' = Ahead(x),
         throttle'[x] = Form!Failed(throttle[x]),
         guesses'[x] = IF throttle[x].used = "recent" THEN guesses[x] ELSE Cardinality(Pool(x))
  PROVE  Counted(x)'
<1> DEFINE c == throttle[x]
           g == guesses[x]
           h == guesses'[x]
           n == (IF c.used = "recent" THEN c.failed ELSE 0) + 1
<1>1. /\ c \in Counters /\ g \in Nat /\ Counted(x) /\ MaxLoginAttempts \in Nat \ {0}
      /\ c.failed \in 0 .. MaxLoginAttempts - 1 /\ (c.locked => c.used = "recent")
      /\ c.locked \in BOOLEAN
  BY FormAssumption DEF FormInv, FormTypes, AllCounted, Counters
<1>2. Cardinality(Pool(x)') = Cardinality(Pool(x)) - 1
  BY PoolSizes, FS_RemoveElement
<1>3. /\ Cardinality(Pool(x)) \in Nat /\ Cardinality(Ahead(x)) \in Nat
      /\ Cardinality(Posts) \in Nat /\ Cardinality(Pool(x)') \in Nat
      /\ Cardinality(Pool(x)) + Cardinality(Ahead(x)) <= Cardinality(Posts)
      /\ Cardinality(Ahead(x)') = Cardinality(Ahead(x))
  BY PoolSizes, PoolSizesAfter
<1>4. /\ c.locked \/ n >= MaxLoginAttempts => throttle'[x].locked
      /\ ~c.locked /\ ~(n >= MaxLoginAttempts) => ~throttle'[x].locked /\ throttle'[x].failed = n
  <2>1. throttle'[x] = [failed |-> IF n >= MaxLoginAttempts THEN 0 ELSE n,
                        locked |-> c.locked \/ n >= MaxLoginAttempts, used |-> "recent"]
    BY DEF Form!Failed
  <2> DEFINE full == c.locked \/ n >= MaxLoginAttempts
  <2>2. throttle'[x].locked = full /\ (~(n >= MaxLoginAttempts) => throttle'[x].failed = n)
    BY <2>1
  <2>3. full \in BOOLEAN
    OBVIOUS
  <2>4. full => throttle'[x].locked
    BY Zenon, <2>2
  <2>5. ~full => ~throttle'[x].locked
    BY Zenon, <2>2
  <2> QED
    BY <2>2, <2>4, <2>5
<1>5. h \in Nat /\ n \in Nat
  BY <1>1, <1>3
<1>6. ~c.locked => h <= n - 1 + Cardinality(Pool(x))
  <2>1. CASE c.used = "recent" /\ ~c.locked
    <3>1. g <= c.failed + Cardinality(Pool(x))
      BY <1>1, <2>1 DEF Counted
    <3> QED
      BY <1>1, <1>3, <2>1, <3>1
  <2>2. CASE c.used # "recent"
    BY <1>1, <1>3, <2>2
  <2> QED
    BY <2>1, <2>2
<1>7. c.locked => h + Cardinality(Ahead(x)) <= MaxLoginAttempts + Cardinality(Posts) - 1
  BY <1>1 DEF Counted
<1>8. n <= MaxLoginAttempts
  BY <1>1
<1>9. CASE c.locked \/ n >= MaxLoginAttempts
  <2>1. throttle'[x].locked
    BY <1>1, <1>4, <1>9
  <2>2. h + Cardinality(Ahead(x)') <= MaxLoginAttempts + Cardinality(Posts) - 1
    <3> HIDE DEF n, h, c
    <3> QED
      BY <1>1, <1>3, <1>5, <1>6, <1>7, <1>8
  <2> QED
    BY <2>1, <2>2 DEF Counted
<1>10. CASE ~c.locked /\ ~(n >= MaxLoginAttempts)
  <2>1. ~throttle'[x].locked /\ throttle'[x].failed = n
    BY <1>4, <1>10
  <2>2. h <= n + Cardinality(Pool(x)')
    <3> HIDE DEF n, h, c
    <3> QED
      BY <1>2, <1>3, <1>5, <1>6, <1>10
  <2> QED
    BY <2>1, <2>2 DEF Counted
<1> QED
  BY <1>9, <1>10

LEMMA NoteFailureKeepsForm ==
  ASSUME FormInv, NEW p \in Posts, Form!NoteFailure(p)
  PROVE  FormInv'
<1>0. PICK x : x = post[p].address
  OBVIOUS
<1> DEFINE m == IF throttle[x].used = "recent" THEN guesses[x] ELSE Cardinality(Pool(x))
<1>1. /\ post[p].at = "failing" /\ post[p] # Form!NoPost
      /\ Form!GoTo(p, "noted") \/ Form!GoTo(p, "miscoded")
      /\ UNCHANGED <<requests, request, approved, settled, replaced>>
      /\ FormTypes /\ PostsPlaced /\ AllCounted
  BY DEF Form!NoteFailure, Form!At, Form!NoPost, Form!loginPart, FormInv
<1>2. /\ post' \in [Posts -> {Form!NoPost} \cup LivePosts] /\ post[p] \in LivePosts
      /\ post'[p].at \in {"noted", "miscoded"} /\ post'[p].id = post[p].id
      /\ \A q \in Posts \ {p} : post'[q] = post[q]
  BY <1>1, PostMoves DEF Points
<1>3. /\ x \in Addresses /\ p \in Pool(x) /\ throttle \in [Addresses -> Counters]
      /\ guesses \in [Addresses -> Nat] /\ astray \subseteq Addresses
  BY <1>0, <1>1, <1>2 DEF LivePosts, Pool, FormTypes
<1>4. Form!Unnoted(x, {p}) + 1 = Cardinality(Pool(x))
  <2>1. Form!Unnoted(x, {p}) = Cardinality(Pool(x) \ {p})
    BY UnnotedIsPool
  <2>2. Cardinality(Pool(x) \ {p}) = Cardinality(Pool(x)) - 1 /\ Cardinality(Pool(x)) \in Nat
    BY <1>3, PoolSizes, FS_RemoveElement
  <2> QED
    BY <2>1, <2>2
<1>5. m \in Nat
  BY <1>3, PoolSizes
<1>6. \/ /\ throttle' = [throttle EXCEPT ![x] = Form!Failed(throttle[x])]
         /\ Form!Tally([guesses EXCEPT ![x] = m], {})
      \/ Form!Tally(guesses, {x}) /\ throttle' = throttle
  BY <1>0, <1>4 DEF Form!NoteFailure
<1> HIDE DEF m
<1>7. /\ astray' \subseteq Addresses /\ guesses' \in [Addresses -> Nat]
      /\ throttle' \in [Addresses -> Counters]
      /\ \A a \in Addresses : a # x => throttle'[a] = throttle[a]
      /\ \A a \in Addresses \ astray' : a \notin astray /\ (a # x => guesses'[a] = guesses[a])
      /\ x \notin astray' => throttle'[x] = Form!Failed(throttle[x]) /\ guesses'[x] = m
      /\ throttle'[x] \in {throttle[x], Form!Failed(throttle[x])}
  <2>1. CASE /\ throttle' = [throttle EXCEPT ![x] = Form!Failed(throttle[x])]
             /\ Form!Tally([guesses EXCEPT ![x] = m], {})
    <3> DEFINE count == [guesses EXCEPT ![x] = m]
    <3>1. \A a \in Addresses : /\ count[a] = IF a = x THEN m ELSE guesses[a]
                               /\ count[a] \in Nat
      BY <1>3, <1>5
    <3>2. Form!Tally(count, {}) /\ {} \in SUBSET Addresses
      BY <2>1
    <3> HIDE DEF count
    <3>3. /\ astray' \subseteq Addresses /\ guesses' \in [Addresses -> Nat]
          /\ \A a \in Addresses \ astray' : a \notin astray /\ guesses'[a] = count[a]
      BY <1>3, <3>1, <3>2, TallyCounts
    <3>4. Form!Failed(throttle[x]) \in Counters
      BY <1>3, FormAssumption DEF Form!Failed, Counters
    <3> QED
      BY <1>3, <2>1, <3>1, <3>3, <3>4
  <2>2. CASE Form!Tally(guesses, {x}) /\ throttle' = throttle
    <3>1. {x} \in SUBSET Addresses /\ \A a \in Addresses : guesses[a] \in Nat
      BY <1>3
    <3>2. /\ astray' \subseteq Addresses /\ guesses' \in [Addresses -> Nat]
          /\ \A a \in Addresses \ astray' :
               a \notin astray /\ a \notin {x} /\ guesses'[a] = guesses[a]
      BY <1>3, <2>2, <3>1, TallyCounts
    <3> QED
      BY <1>3, <2>2, <3>2
  <2> QED
    BY <1>6, <2>1, <2>2
<1>8. FormTypes'
  BY <1>1, <1>2, <1>7 DEF FormTypes
<1>9. PostsPlaced' /\ Form!AcceptedIsKept'
  BY <1>1, <1>2, MoveKeepsRequests DEF InHand, PostsPlaced
<1>10. /\ \A a : a # x => Pool(a) \subseteq Pool(a)'
       /\ \A a : Ahead(a)' = Ahead(a) /\ Pool(x)' = Pool(x) \ {p}
  BY <1>0, <1>1, <1>2, PoolsMove
<1>11. x \notin astray' => Counted(x)'
  BY <1>3, <1>7, <1>10, FailureKeepsCount DEF m
<1>12. \A a \in Addresses \ astray' : Counted(a)'
  BY <1>7, <1>10, <1>11, QuietKeepsCounted
<1>13. \A a \in Addresses : throttle'[a].locked => throttle'[a].used = "recent"
  <2>1. Form!Failed(throttle[x]).used = "recent"
    BY DEF Form!Failed
  <2> QED
    BY <1>1, <1>3, <1>7, <2>1 DEF AllCounted
<1> QED
  BY <1>8, <1>9, <1>12, <1>13 DEF FormInv, AllCounted

(* The request is failed or completed; the counters stay.                  *)
LEMMA SettleKeepsForm ==
  ASSUME FormInv, NEW p \in Posts,
         Form!FailReq(p) \/ Form!MarkCode(p) \/ Form!CompleteReq(p)
  PROVE  FormInv'
<1> DEFINE id == post[p].id
<1>1. /\ post[p].at \in {"noted", "miscoded", "cleared"} /\ post[p] # Form!NoPost
      /\ Form!Leave(p)
      /\ UNCHANGED <<requests, approved, replaced, throttle, guesses, astray>>
      /\ FormTypes /\ PostsPlaced /\ AllCounted /\ Form!AcceptedIsKept
  BY DEF Form!FailReq, Form!MarkCode, Form!EndRequest, Form!CompleteReq, Form!At, Form!NoPost,
         Form!counterPart, FormInv
<1>2. /\ post' \in [Posts -> {Form!NoPost} \cup LivePosts]
      /\ post'[p] = Form!NoPost /\ post'[p].at = "idle"
      /\ \A q \in Posts \ {p} : post'[q] = post[q]
  BY <1>1, PostLeaves
<1>3. id \in Tokens /\ request[id] \in Begun /\ request[id] # Form!NoRequest
  BY <1>1 DEF FormTypes, PostsPlaced, LivePosts
<1>4. PICK st \in {"pending", "completed", "expired"}, err \in BOOLEAN :
        /\ request' = [request EXCEPT ![id] = [request[id] EXCEPT !.status = st,
                                                                  !.error = err]]
        /\ \/ settled' = settled \cup {id}
           \/ /\ st = "completed" /\ ~err
              /\ settled' = IF id \in requests THEN settled \ {id} ELSE settled
  <2>1. CASE Form!CompleteReq(p)
    BY <1>1, <1>3, <2>1 DEF Form!CompleteReq, FormTypes
  <2>2. CASE Form!FailReq(p)
    BY <1>1, <1>3, <2>2 DEF Form!FailReq, Form!EndRequest, FormTypes
  <2>3. CASE Form!MarkCode(p)
    BY <1>1, <1>3, <2>3 DEF Form!MarkCode, Form!EndRequest, FormTypes, Begun
  <2> QED
    BY <2>1, <2>2, <2>3
<1> HIDE DEF id
<1> DEFINE new == [request[id] EXCEPT !.status = st, !.error = err]
<1>5. new \in Begun /\ new # Form!NoRequest /\ new.status = st /\ new.error = err
  BY <1>3 DEF Begun, Form!NoRequest
<1> HIDE DEF new
<1>6. /\ request' \in [Tokens -> {Form!NoRequest} \cup Begun] /\ request'[id] = new
      /\ \A i \in Tokens \ {id} : request'[i] = request[i]
  BY <1>1, <1>3, <1>4, <1>5 DEF FormTypes, new
<1>7. FormTypes'
  BY <1>1, <1>2, <1>3, <1>4, <1>6 DEF FormTypes
<1>8. PostsPlaced'
  <2>1. \A i \in Tokens : request[i] # Form!NoRequest => request'[i] # Form!NoRequest
    BY <1>5, <1>6
  <2> QED
    BY <1>1, <1>2, <2>1 DEF FormTypes, PostsPlaced, LivePosts
<1>9. Form!AcceptedIsKept'
  <2>1. ASSUME NEW i \in approved \ (settled' \cup replaced)
        PROVE  /\ i \in requests
               /\ Form!Succeeded(i)' \/ \E q \in Posts :
                    /\ post'[q] # Form!NoPost /\ post'[q].id = i
                    /\ post'[q].at \in {"accepted", "clearing", "cleared"}
    <3>1. CASE i = id
      <4>1. st = "completed" /\ ~err
        BY <1>4, <2>1, <3>1
      <4>2. i \in requests
        BY <1>1, <1>4, <2>1, <3>1 DEF Form!AcceptedIsKept
      <4> QED
        BY <1>5, <1>6, <3>1, <4>1, <4>2 DEF Form!Succeeded
    <3>2. CASE i # id
      <4>1. /\ i \in approved \ (settled \cup replaced) /\ i \in Tokens
            /\ request'[i] = request[i]
        BY <1>1, <1>4, <1>6, <2>1, <3>2 DEF FormTypes
      <4>2. i \in requests
        BY <1>1, <4>1 DEF Form!AcceptedIsKept
      <4>3. CASE Form!Succeeded(i)
        BY <4>1, <4>2, <4>3 DEF Form!Succeeded
      <4>4. CASE \E q \in Posts : /\ post[q] # Form!NoPost /\ post[q].id = i
                                  /\ post[q].at \in {"accepted", "clearing", "cleared"}
        BY <1>2, <3>2, <4>2, <4>4 DEF id
      <4> QED
        BY <1>1, <4>1, <4>3, <4>4 DEF Form!AcceptedIsKept
    <3> QED
      BY <3>1, <3>2
  <2> QED
    BY <1>1, <2>1 DEF Form!AcceptedIsKept
<1>10. \A a : Pool(a) \subseteq Pool(a)' /\ Ahead(a)' \subseteq Ahead(a)
  BY <1>1, <1>2, PoolsMove
<1>11. AllCounted'
  BY <1>1, <1>10, QuietKeepsCounted DEF AllCounted
<1> QED
  BY <1>7, <1>8, <1>9, <1>11 DEF FormInv

-----------------------------------------------------------------------------
(* A counter is cleared, a lockout ends, a day passes.                     *)
LEMMA FreshKeepsAll ==
  ASSUME FormInv, NEW x \in Addresses, NEW c \in Counters, ~c.locked,
         throttle' = [throttle EXCEPT ![x] = c],
         Form!Tally([guesses EXCEPT ![x] = Cardinality(Pool(x))], {}),
         \A a : Pool(a)' = Pool(a),
         \A a : Ahead(a)' \subseteq Ahead(a)
  PROVE  /\ AllCounted' /\ throttle' \in [Addresses -> Counters]
         /\ guesses' \in [Addresses -> Nat] /\ astray' \subseteq Addresses
<1> DEFINE m == Cardinality(Pool(x))
           count == [guesses EXCEPT ![x] = m]
<1>1. /\ throttle \in [Addresses -> Counters] /\ guesses \in [Addresses -> Nat]
      /\ astray \subseteq Addresses /\ m \in Nat /\ AllCounted
  BY PoolSizes DEF FormInv, FormTypes
<1>2. Form!Tally(count, {}) /\ {} \in SUBSET Addresses
  OBVIOUS
<1> HIDE DEF m
<1>3. \A a \in Addresses : /\ count[a] = IF a = x THEN m ELSE guesses[a]
                           /\ count[a] \in Nat
  BY <1>1
<1> HIDE DEF count
<1>4. /\ astray' \subseteq Addresses /\ guesses' \in [Addresses -> Nat]
      /\ \A a \in Addresses \ astray' : a \notin astray /\ guesses'[a] = count[a]
  BY <1>1, <1>2, <1>3, TallyCounts
<1>5. /\ throttle' \in [Addresses -> Counters] /\ throttle'[x] = c
      /\ \A a \in Addresses \ {x} : throttle'[a] = throttle[a]
  BY <1>1
<1>6. x \notin astray' => Counted(x)'
  BY <1>3, <1>4, <1>5, FreshKeepsCounted DEF m
<1>7. \A a \in Addresses \ astray' : a # x => Counted(a)'
  BY <1>3, <1>4, <1>5, QuietKeepsCounted
<1>8. \A a \in Addresses : throttle'[a].locked => throttle'[a].used = "recent"
  BY <1>1, <1>5 DEF AllCounted
<1> QED
  BY <1>4, <1>5, <1>6, <1>7, <1>8 DEF AllCounted

LEMMA ResetKeepsForm ==
  ASSUME FormInv, NEW p \in Posts, Form!ResetThrottle(p)
  PROVE  FormInv'
<1>0. PICK x : x = post[p].address
  OBVIOUS
<1>1. /\ post[p].at = "clearing" /\ post[p] # Form!NoPost /\ Form!GoTo(p, "cleared")
      /\ UNCHANGED <<requests, request, approved, settled, replaced>>
      /\ FormTypes /\ PostsPlaced /\ AllCounted
  BY DEF Form!ResetThrottle, Form!At, Form!NoPost, Form!loginPart, FormInv
<1>2. /\ post' \in [Posts -> {Form!NoPost} \cup LivePosts] /\ post[p] \in LivePosts
      /\ post'[p] # Form!NoPost /\ post'[p].at = "cleared" /\ post'[p].id = post[p].id
      /\ \A q \in Posts \ {p} : post'[q] = post[q]
  BY <1>1, PostMoves DEF Points
<1>3. x \in Addresses
  BY <1>0, <1>2 DEF LivePosts
<1>4. \A a : Pool(a)' = Pool(a) /\ Ahead(a)' \subseteq Ahead(a)
  BY <1>1, <1>2, PoolsMove
<1>5. /\ AllCounted' /\ throttle' \in [Addresses -> Counters]
      /\ guesses' \in [Addresses -> Nat] /\ astray' \subseteq Addresses
  <2>1. CASE ~post[p].kept
    <3>1. UNCHANGED <<throttle, guesses, astray>>
      BY <2>1 DEF Form!ResetThrottle, Form!counterPart
    <3> QED
      BY <1>1, <1>4, <3>1, QuietKeepsCounted DEF FormTypes, AllCounted
  <2>2. CASE post[p].kept
    <3>1. /\ throttle' = [throttle EXCEPT ![x] = Form!NewCounter]
          /\ Form!Tally([guesses EXCEPT ![x] = Cardinality(Pool(x))], {})
      BY <1>0, <2>2, UnnotedIsPool DEF Form!ResetThrottle
    <3>2. Form!NewCounter \in Counters /\ ~Form!NewCounter.locked
      BY FormAssumption DEF Form!NewCounter, Counters
    <3> QED
      BY <1>3, <1>4, <3>1, <3>2, FreshKeepsAll
  <2> QED
    BY <2>1, <2>2
<1>6. FormTypes'
  BY <1>1, <1>2, <1>5 DEF FormTypes
<1>7. PostsPlaced' /\ Form!AcceptedIsKept'
  BY <1>1, <1>2, MoveKeepsRequests DEF InHand, PostsPlaced
<1> QED
  BY <1>5, <1>6, <1>7 DEF FormInv

LEMMA UnlockKeepsForm ==
  ASSUME FormInv, NEW x \in Addresses, Form!Unlock(x)
  PROVE  FormInv'
<1> DEFINE c == [throttle[x] EXCEPT !.locked = FALSE]
<1>1. /\ throttle' = [throttle EXCEPT ![x] = c]
      /\ Form!Tally([guesses EXCEPT ![x] = Cardinality(Pool(x))], {})
      /\ UNCHANGED <<requests, request, approved, settled, replaced, post>>
  BY UnnotedIsPool DEF Form!Unlock, Form!loginPart, FormInv, FormTypes
<1>2. c \in Counters /\ ~c.locked
  BY DEF FormInv, FormTypes, Counters
<1> HIDE DEF c
<1>3. \A a : Pool(a)' = Pool(a) /\ Ahead(a)' \subseteq Ahead(a)
  BY <1>1 DEF Pool, Ahead
<1>4. /\ AllCounted' /\ throttle' \in [Addresses -> Counters]
      /\ guesses' \in [Addresses -> Nat] /\ astray' \subseteq Addresses
  BY <1>1, <1>2, <1>3, FreshKeepsAll
<1>5. FormTypes' /\ PostsPlaced'
  BY <1>1, <1>4 DEF FormInv, FormTypes, PostsPlaced
<1>6. Form!AcceptedIsKept'
  BY <1>1 DEF FormInv, Form!AcceptedIsKept, Form!Succeeded
<1> QED
  BY <1>4, <1>5, <1>6 DEF FormInv

LEMMA GrowIdleKeepsForm ==
  ASSUME FormInv, NEW x \in Addresses, Form!GrowIdle(x)
  PROVE  FormInv'
<1> DEFINE c == [throttle[x] EXCEPT !.used = "idle"]
<1>1. /\ throttle' = [throttle EXCEPT ![x] = c] /\ ~throttle[x].locked
      /\ UNCHANGED <<requests, request, approved, settled, replaced, post, guesses, astray>>
      /\ throttle \in [Addresses -> Counters] /\ AllCounted
  BY DEF Form!GrowIdle, Form!loginPart, FormInv, FormTypes
<1>2. c \in Counters /\ ~c.locked /\ c.failed = throttle[x].failed
  BY <1>1 DEF Counters
<1> HIDE DEF c
<1>3. /\ throttle' \in [Addresses -> Counters]
      /\ \A a \in Addresses : /\ throttle'[a].failed = throttle[a].failed
                              /\ throttle'[a].locked <=> throttle[a].locked
                              /\ throttle[a].locked => throttle'[a] = throttle[a]
  BY <1>1, <1>2
<1>4. \A a : Pool(a)' = Pool(a) /\ Ahead(a)' = Ahead(a)
  BY <1>1 DEF Pool, Ahead
<1>5. AllCounted'
  BY <1>1, <1>3, <1>4 DEF AllCounted, Counted
<1>6. FormTypes' /\ PostsPlaced'
  BY <1>1, <1>3 DEF FormInv, FormTypes, PostsPlaced
<1>7. Form!AcceptedIsKept'
  BY <1>1 DEF FormInv, Form!AcceptedIsKept, Form!Succeeded
<1> QED
  BY <1>5, <1>6, <1>7 DEF FormInv

(* The reaper takes old requests, and the counters that are idle.          *)
LEMMA ReapKeepsForm ==
  ASSUME FormInv, Form!Reap
  PROVE  FormInv'
<1> DEFINE idle == {a \in Addresses : Form!Idle(a)}
           count == [a \in Addresses |-> IF a \in idle THEN Form!Unnoted(a, {}) ELSE guesses[a]]
<1>1. PICK gone \in SUBSET requests :
        /\ requests' = requests \ gone
        /\ request' = [id \in Tokens |->
             IF id \in gone /\ request[id].status = "pending"
             THEN [request[id] EXCEPT !.status = "expired"] ELSE request[id]]
        /\ settled' = settled \cup gone
        /\ throttle' = [a \in Addresses |-> IF a \in idle THEN Form!NoCounter ELSE throttle[a]]
        /\ post' = [p \in Posts |->
             IF post[p] # Form!NoPost /\ post[p].address \in idle
             THEN [post[p] EXCEPT !.kept = FALSE] ELSE post[p]]
        /\ Form!Tally(count, {})
        /\ approved' = approved /\ replaced' = replaced
  BY DEF Form!Reap
<1>2. FormTypes /\ PostsPlaced /\ AllCounted /\ Form!AcceptedIsKept
  BY DEF FormInv
<1>3. /\ request' \in [Tokens -> {Form!NoRequest} \cup Begun]
      /\ \A id \in Tokens : request[id] # Form!NoRequest => request'[id] # Form!NoRequest
      /\ \A id \in Tokens \ gone : request'[id] = request[id]
  <2>1. ASSUME NEW id \in Tokens
        PROVE  /\ request'[id] \in {Form!NoRequest} \cup Begun
               /\ request[id] # Form!NoRequest => request'[id] # Form!NoRequest
    <3>1. request[id] \in {Form!NoRequest} \cup Begun
      BY <1>2 DEF FormTypes
    <3>2. CASE id \in gone /\ request[id].status = "pending"
      <4>1. request[id] \in Begun
        BY <3>1, <3>2 DEF Form!NoRequest
      <4>2. request'[id] = [request[id] EXCEPT !.status = "expired"]
        BY <1>1, <3>2
      <4> QED
        BY <4>1, <4>2 DEF Begun, Form!NoRequest
    <3>3. CASE ~(id \in gone /\ request[id].status = "pending")
      BY <1>1, <3>1, <3>3
    <3> QED
      BY <3>2, <3>3
  <2> QED
    BY <1>1, <2>1
<1>4. /\ post' \in [Posts -> {Form!NoPost} \cup LivePosts]
      /\ \A p \in Posts :
           /\ post'[p].at = post[p].at
           /\ post'[p] # Form!NoPost <=> post[p] # Form!NoPost
           /\ post[p] # Form!NoPost =>
                /\ post'[p].id = post[p].id /\ post'[p].address = post[p].address
                /\ post[p].address \notin idle => post'[p] = post[p]
  <2>1. ASSUME NEW p \in Posts
        PROVE  /\ post'[p] \in {Form!NoPost} \cup LivePosts
               /\ post'[p].at = post[p].at
               /\ post'[p] # Form!NoPost <=> post[p] # Form!NoPost
               /\ post[p] # Form!NoPost =>
                    /\ post'[p].id = post[p].id /\ post'[p].address = post[p].address
                    /\ post[p].address \notin idle => post'[p] = post[p]
    <3>1. post[p] \in {Form!NoPost} \cup LivePosts
      BY <1>2 DEF FormTypes
    <3>2. CASE post[p] # Form!NoPost /\ post[p].address \in idle
      <4>1. post'[p] = [post[p] EXCEPT !.kept = FALSE] /\ post[p] \in LivePosts
        BY <1>1, <3>1, <3>2
      <4>2. /\ post'[p] \in LivePosts /\ post'[p].at = post[p].at /\ post'[p].id = post[p].id
            /\ post'[p].address = post[p].address
        BY <4>1 DEF LivePosts
      <4>3. post'[p] # Form!NoPost
        BY <4>2 DEF LivePosts, Points, Form!NoPost
      <4> QED
        BY <3>2, <4>2, <4>3
    <3>3. CASE ~(post[p] # Form!NoPost /\ post[p].address \in idle)
      BY <1>1, <3>1, <3>3
    <3> QED
      BY <3>2, <3>3
  <2>2. post' = [p \in Posts |-> post'[p]]
    BY <1>1
  <2> QED
    BY <2>1, <2>2
<1>5. \A p \in Posts : post[p] = Form!NoPost => post[p].at = "idle"
  BY DEF Form!NoPost
<1>6. /\ \A a : Pool(a)' = Pool(a)
      /\ \A a : a \notin idle => Ahead(a)' = Ahead(a)
  BY <1>4, <1>5 DEF Pool, Ahead
<1>7. /\ astray \subseteq Addresses /\ idle \subseteq Addresses
      /\ \A a \in Addresses :
           /\ count[a] = IF a \in idle THEN Cardinality(Pool(a)) ELSE guesses[a]
           /\ count[a] \in Nat
  BY <1>2, UnnotedIsPool, PoolSizes DEF FormTypes
<1> HIDE DEF count
<1>8. /\ astray' \subseteq Addresses /\ guesses' \in [Addresses -> Nat]
      /\ \A a \in Addresses \ astray' : a \notin astray /\ guesses'[a] = count[a]
  BY <1>1, <1>7, TallyCounts
<1>9. /\ throttle' \in [Addresses -> Counters]
      /\ \A a \in Addresses : throttle'[a] = IF a \in idle THEN Form!NoCounter ELSE throttle[a]
      /\ ~Form!NoCounter.locked
  BY <1>1, <1>2, FormAssumption DEF FormTypes, Form!NoCounter, Counters
<1> HIDE DEF idle
<1>10. ASSUME NEW a \in Addresses \ astray'
       PROVE  Counted(a)'
  <2>1. CASE a \in idle
    BY <1>6, <1>7, <1>8, <1>9, <2>1, FreshKeepsCounted
  <2>2. CASE a \notin idle
    BY <1>2, <1>6, <1>7, <1>8, <1>9, <2>2, QuietKeepsCounted
  <2> QED
    BY <2>1, <2>2
<1>11. AllCounted'
  BY <1>2, <1>9, <1>10 DEF AllCounted
<1>12. FormTypes'
  BY <1>1, <1>2, <1>3, <1>4, <1>8, <1>9 DEF FormTypes
<1>13. PostsPlaced'
  <2>1. \A id \in requests' : request'[id] # Form!NoRequest
    BY <1>1, <1>2, <1>3 DEF PostsPlaced, FormTypes
  <2>2. ASSUME NEW p \in Posts, post'[p] # Form!NoPost
        PROVE  request'[post'[p].id] # Form!NoRequest
    <3>1. post[p] # Form!NoPost /\ post'[p].id = post[p].id
      BY <1>4, <2>2
    <3>2. post[p].id \in Tokens /\ request[post[p].id] # Form!NoRequest
      BY <1>2, <3>1 DEF FormTypes, LivePosts, PostsPlaced
    <3> QED
      BY <1>3, <3>1, <3>2
  <2> QED
    BY <2>1, <2>2 DEF PostsPlaced
<1>14. Form!AcceptedIsKept'
  <2>1. ASSUME NEW i \in approved \ (settled' \cup replaced)
        PROVE  /\ i \in requests'
               /\ Form!Succeeded(i)' \/ \E q \in Posts :
                    /\ post'[q] # Form!NoPost /\ post'[q].id = i
                    /\ post'[q].at \in {"accepted", "clearing", "cleared"}
    <3>1. i \in approved \ (settled \cup replaced) /\ i \notin gone /\ i \in Tokens
      BY <1>1, <1>2, <2>1 DEF FormTypes
    <3>2. i \in requests' /\ request'[i] = request[i]
      BY <1>1, <1>2, <1>3, <3>1 DEF Form!AcceptedIsKept
    <3>3. CASE Form!Succeeded(i)
      BY <3>2, <3>3 DEF Form!Succeeded
    <3>4. CASE \E q \in Posts : /\ post[q] # Form!NoPost /\ post[q].id = i
                                /\ post[q].at \in {"accepted", "clearing", "cleared"}
      BY <1>4, <3>2, <3>4
    <3> QED
      BY <1>2, <3>1, <3>3, <3>4 DEF Form!AcceptedIsKept
  <2> QED
    BY <1>1, <2>1 DEF Form!AcceptedIsKept
<1> QED
  BY <1>11, <1>12, <1>13, <1>14 DEF FormInv

LEMMA FormStep == FormInv /\ [Form!WizNext]_formState => FormInv'
<1> SUFFICES ASSUME FormInv, [Form!WizNext]_formState
             PROVE  FormInv'
  OBVIOUS
<1>1. CASE UNCHANGED formState
  BY <1>1, CountsStay DEF formState, FormInv, FormTypes, PostsPlaced, Form!AcceptedIsKept,
                          Form!Succeeded
<1>2. CASE \E s \in Sessions, a \in Addresses : Form!Begin(s, a) \/ Form!PendingOutcome(s, a)
  BY <1>2, BeginKeepsForm, PendingOutcomeKeepsForm
<1>3. CASE \E a \in Addresses : Form!Unlock(a) \/ Form!GrowIdle(a)
  BY <1>3, UnlockKeepsForm, GrowIdleKeepsForm
<1>4. CASE Form!Reap
  BY <1>4, ReapKeepsForm
<1>5. ASSUME NEW p \in Posts,
             \/ Form!FetchForCheck(p) \/ Form!FetchForFailure(p) \/ Form!FetchForReset(p)
             \/ Form!RefuseForm(p) \/ Form!ThrottleLocked(p) \/ Form!AskOtp(p)
             \/ Form!Unfinished(p) \/ Form!FailReq(p) \/ Form!MarkCode(p)
             \/ Form!CompleteReq(p)
      PROVE  FormInv'
  BY <1>5, FetchKeepsForm, QuietAnswersKeepForm, SettleKeepsForm
<1>6. ASSUME NEW p \in Posts,
             \/ \E id \in Tokens : Form!LoginPage(p, id)
             \/ \E a \in Addresses : Form!BindAddress(p, a)
             \/ Form!LoginCheck(p) \/ Form!Refuse(p) \/ Form!Accept(p)
             \/ Form!NoteFailure(p) \/ Form!ResetThrottle(p)
      PROVE  FormInv'
  BY <1>6, LoginPageKeepsForm, BindKeepsForm, LoginCheckKeepsForm, RefuseKeepsForm,
     AcceptKeepsForm, NoteFailureKeepsForm, ResetKeepsForm
<1> QED
  BY <1>1, <1>2, <1>3, <1>4, <1>5, <1>6 DEF Form!WizNext

(* While the address is open, what its counter has seen and the pool; while *)
(* it is locked, what was there and the POSTs past the check.              *)
LEMMA FormKept ==
  ASSUME FormInv
  PROVE  Form!AcceptedIsKept /\ Form!GuessesBounded
<1>1. ASSUME NEW a \in Addresses \ astray
      PROVE  guesses[a] <= MaxLoginAttempts + Cardinality(Posts) - 1
  <2>1. /\ guesses[a] \in Nat /\ MaxLoginAttempts \in Nat /\ Counted(a)
        /\ throttle[a].failed \in 0 .. MaxLoginAttempts - 1
    BY FormAssumption DEF FormInv, FormTypes, Counters, AllCounted
  <2>2. /\ Cardinality(Pool(a)) \in Nat /\ Cardinality(Ahead(a)) \in Nat
        /\ Cardinality(Posts) \in Nat
        /\ Cardinality(Pool(a)) + Cardinality(Ahead(a)) <= Cardinality(Posts)
    BY PoolSizes
  <2>3. CASE throttle[a].locked
    <3>1. guesses[a] + Cardinality(Ahead(a)) <= MaxLoginAttempts + Cardinality(Posts) - 1
      BY <2>1, <2>3 DEF Counted
    <3> QED
      BY <2>1, <2>2, <3>1
  <2>4. CASE ~throttle[a].locked
    <3>1. guesses[a] <= throttle[a].failed + Cardinality(Pool(a))
      BY <2>1, <2>4 DEF Counted
    <3> QED
      BY <2>1, <2>2, <3>1
  <2> QED
    BY <2>3, <2>4
<1> QED
  BY <1>1, SameCardinality DEF Form!GuessesBounded, FormInv

-----------------------------------------------------------------------------
(* The OAuth authorisation server.  A grant of something the owner typed    *)
(* the secret for, and a store that holds no other.                        *)
Grants(ids) == [id : ids, client : OAuthClients, resource : OAuth!Origins, fresh : BOOLEAN]
Granted(g)  == (\E ids : g \in Grants(ids)) /\ <<g.client, g.resource>> \in agreed

StoreAgreed ==
  /\ database = [clients |-> database.clients, codes |-> database.codes,
                 access |-> database.access, refresh |-> database.refresh]
  /\ \A g \in database.codes \cup database.access \cup database.refresh : Granted(g)

OAuthInv == StoreAgreed /\ OAuth!OnlyAuthorised

(* A grant keeps what it is for when it goes stale; a new one for the same  *)
(* client and resource is as good.                                         *)
LEMMA GrantsStay ==
  ASSUME NEW g, Granted(g), agreed \subseteq agreed'
  PROVE  /\ Granted(g)'
         /\ Granted([g EXCEPT !.fresh = FALSE])'
         /\ [g EXCEPT !.fresh = FALSE].fresh = FALSE
         /\ \A i : Granted(OAuth!GrantOf(i, g.client, g.resource))'
<1>1. PICK ids : g \in Grants(ids)
  BY DEF Granted
<1>2. /\ [g EXCEPT !.fresh = FALSE] \in Grants(ids) /\ [g EXCEPT !.fresh = FALSE].fresh = FALSE
      /\ [g EXCEPT !.fresh = FALSE].client = g.client
      /\ [g EXCEPT !.fresh = FALSE].resource = g.resource
      /\ g.client \in OAuthClients /\ g.resource \in OAuth!Origins
  BY <1>1 DEF Grants
<1>3. Granted(g)' /\ Granted([g EXCEPT !.fresh = FALSE])'
  BY <1>1, <1>2 DEF Granted
<1>4. ASSUME NEW i PROVE Granted(OAuth!GrantOf(i, g.client, g.resource))'
  <2>1. /\ OAuth!GrantOf(i, g.client, g.resource) \in Grants({i})
        /\ OAuth!GrantOf(i, g.client, g.resource).client = g.client
        /\ OAuth!GrantOf(i, g.client, g.resource).resource = g.resource
    BY <1>2 DEF Grants, OAuth!GrantOf
  <2> QED
    BY <2>1 DEF Granted
<1> QED
  BY <1>2, <1>3, <1>4

LEMMA StoreStays ==
  ASSUME StoreAgreed, agreed \subseteq agreed', database' = database
  PROVE  StoreAgreed'
BY GrantsStay DEF StoreAgreed

(* Each part of the store holds grants only.                               *)
LEMMA StoreFrom ==
  ASSUME NEW k, NEW c, NEW a, NEW r,
         database' = [clients |-> k, codes |-> c, access |-> a, refresh |-> r],
         \A g \in c \cup a \cup r : Granted(g)'
  PROVE  StoreAgreed'
BY DEF StoreAgreed

LEMMA OtherAnswers ==
  ASSUME NEW k, k \notin {"served", "challenge"}, OAuth!Say(k)
  PROVE  OAuth!OnlyAuthorised'
BY Zenon DEF OAuth!Say, OAuth!Reply, OAuth!OnlyAuthorised

LEMMA RegisterKeepsStore ==
  ASSUME OAuthInv, NEW c \in OAuthClients, OAuth!RegisterHandler(c)
  PROVE  OAuthInv'
<1>1. StoreAgreed /\ agreed' = agreed
  BY Zenon DEF OAuthInv, OAuth!RegisterHandler, OAuth!Quiet
<1>2. OAuth!OnlyAuthorised'
  BY Zenon, OtherAnswers DEF OAuth!RegisterHandler
<1>3. CASE database' = database
  BY <1>1, <1>2, <1>3, StoreStays DEF OAuthInv
<1>4. CASE database' = [database EXCEPT !.clients = database.clients \cup {c}]
  <2>1. database' = [clients |-> database.clients \cup {c}, codes |-> database.codes,
                     access |-> database.access, refresh |-> database.refresh]
    BY <1>1, <1>4 DEF StoreAgreed
  <2>2. StoreAgreed'
    BY <1>1, <2>1, GrantsStay, StoreFrom DEF StoreAgreed
  <2> QED
    BY <1>2, <2>2 DEF OAuthInv
<1> QED
  BY Zenon, <1>3, <1>4 DEF OAuth!RegisterHandler

LEMMA AuthorizeKeepsStore ==
  ASSUME OAuthInv, NEW c \in OAuthClients, NEW r \in OAuth!Origins, NEW s \in BOOLEAN,
         OAuth!AuthorizePOST(c, r, s)
  PROVE  OAuthInv'
<1>1. StoreAgreed /\ agreed \subseteq agreed'
  BY Zenon DEF OAuthInv, OAuth!AuthorizePOST
<1>2. OAuth!OnlyAuthorised'
  BY Zenon, OtherAnswers DEF OAuth!AuthorizePOST
<1>3. CASE database' = database
  BY <1>1, <1>2, <1>3, StoreStays DEF OAuthInv
<1>4. ASSUME NEW i, <<c, r>> \in agreed',
             database' = [database EXCEPT !.codes =
                            database.codes \cup {OAuth!GrantOf(i, c, r)}]
      PROVE  OAuthInv'
  <2>1. Granted(OAuth!GrantOf(i, c, r))'
    <3>1. /\ OAuth!GrantOf(i, c, r) \in Grants({i}) /\ OAuth!GrantOf(i, c, r).client = c
          /\ OAuth!GrantOf(i, c, r).resource = r
      BY DEF Grants, OAuth!GrantOf
    <3> QED
      BY <1>4, <3>1 DEF Granted
  <2>2. database' = [clients |-> database.clients,
                     codes |-> database.codes \cup {OAuth!GrantOf(i, c, r)},
                     access |-> database.access, refresh |-> database.refresh]
    BY <1>1, <1>4 DEF StoreAgreed
  <2>3. StoreAgreed'
    BY <1>1, <2>1, <2>2, GrantsStay, StoreFrom DEF StoreAgreed
  <2> QED
    BY <1>2, <2>3 DEF OAuthInv
<1> QED
  BY Zenon, <1>3, <1>4 DEF OAuth!AuthorizePOST

LEMMA ExchangesKeepStore ==
  ASSUME OAuthInv, NEW g, Granted(g), NEW i, NEW j, agreed' = agreed,
         OAuth!Say("tokens"),
         \/ database' = [database EXCEPT
              !.access = database.access \cup {OAuth!GrantOf(i, g.client, g.resource)}]
         \/ database' = [database EXCEPT
              !.codes = (database.codes \ {g}) \cup {[g EXCEPT !.fresh = FALSE]},
              !.access = database.access \cup {OAuth!GrantOf(i, g.client, g.resource)},
              !.refresh = database.refresh \cup {OAuth!GrantOf(j, g.client, g.resource)}]
  PROVE  OAuthInv'
<1> DEFINE a == OAuth!GrantOf(i, g.client, g.resource)
           b == OAuth!GrantOf(j, g.client, g.resource)
           h == [g EXCEPT !.fresh = FALSE]
<1>1. StoreAgreed /\ Granted(a)' /\ Granted(b)' /\ Granted(h)'
  BY GrantsStay DEF OAuthInv
<1>2. \A x \in database.codes \cup database.access \cup database.refresh : Granted(x)'
  BY <1>1, GrantsStay DEF StoreAgreed
<1>3. OAuth!OnlyAuthorised'
  BY OtherAnswers
<1> HIDE DEF a, b, h
<1>4. CASE database' = [database EXCEPT !.access = database.access \cup {a}]
  <2>1. database' = [clients |-> database.clients, codes |-> database.codes,
                     access |-> database.access \cup {a}, refresh |-> database.refresh]
    BY <1>1, <1>4 DEF StoreAgreed
  <2>2. StoreAgreed'
    BY <1>1, <1>2, <2>1, StoreFrom
  <2> QED
    BY <1>3, <2>2 DEF OAuthInv
<1>5. CASE database' = [database EXCEPT !.codes = (database.codes \ {g}) \cup {h},
                                        !.access = database.access \cup {a},
                                        !.refresh = database.refresh \cup {b}]
  <2>1. database' = [clients |-> database.clients, codes |-> (database.codes \ {g}) \cup {h},
                     access |-> database.access \cup {a}, refresh |-> database.refresh \cup {b}]
    BY <1>1, <1>5 DEF StoreAgreed
  <2>2. StoreAgreed'
    BY <1>1, <1>2, <2>1, StoreFrom
  <2> QED
    BY <1>3, <2>2 DEF OAuthInv
<1> QED
  BY <1>4, <1>5 DEF a, b, h

LEMMA CodeKeepsStore ==
  ASSUME OAuthInv, NEW c \in OAuthClients, NEW g \in database.codes, NEW v \in BOOLEAN,
         OAuth!exchangeCode(c, g, v)
  PROVE  OAuthInv'
<1>1. StoreAgreed /\ agreed' = agreed /\ Granted(g)
  BY Zenon DEF OAuthInv, StoreAgreed, OAuth!exchangeCode, OAuth!Quiet
<1>2. CASE OAuth!Say("invalid grant") /\ UNCHANGED database
  BY Zenon, <1>1, <1>2, OtherAnswers, StoreStays DEF OAuthInv
<1>3. CASE g.client = c /\ OAuth!Say("tokens")
  <2>1. database' = [database EXCEPT
          !.codes = (database.codes \ {g}) \cup {[g EXCEPT !.fresh = FALSE]},
          !.access = database.access \cup
                       {OAuth!GrantOf(OAuth!NewIds[1], g.client, g.resource)},
          !.refresh = database.refresh \cup
                       {OAuth!GrantOf(OAuth!NewIds[2], g.client, g.resource)}]
    BY Zenon, <1>3 DEF OAuth!exchangeCode, OAuth!Say, OAuth!Reply
  <2> QED
    BY Zenon, <1>1, <1>3, <2>1, ExchangesKeepStore
<1> QED
  BY Zenon, <1>2, <1>3 DEF OAuth!exchangeCode

LEMMA RefreshKeepsStore ==
  ASSUME OAuthInv, NEW g \in database.refresh, OAuth!exchangeRefreshToken(g)
  PROVE  OAuthInv'
<1>1. StoreAgreed /\ agreed' = agreed /\ Granted(g)
  BY Zenon DEF OAuthInv, StoreAgreed, OAuth!exchangeRefreshToken, OAuth!Quiet
<1>2. CASE OAuth!Say("invalid grant") /\ UNCHANGED database
  BY Zenon, <1>1, <1>2, OtherAnswers, StoreStays DEF OAuthInv
<1>3. CASE /\ OAuth!Say("tokens")
           /\ database' = [database EXCEPT !.access = database.access \cup
                             {OAuth!GrantOf(OAuth!NewIds[1], g.client, g.resource)}]
  BY Zenon, <1>1, <1>3, ExchangesKeepStore
<1> QED
  BY Zenon, <1>2, <1>3 DEF OAuth!exchangeRefreshToken

(* Time, and the reaper: nothing fresh appears in the store, so a client    *)
(* that was challenged is still right to be.                               *)
LEMMA LapsingKeepsStore ==
  ASSUME OAuthInv, OAuth!Lapse \/ OAuth!reapLocked
  PROVE  OAuthInv'
<1> USE DEF OAuth!Quiet
<1>1. StoreAgreed /\ agreed' = agreed /\ oauthReply' = oauthReply
  BY DEF OAuthInv, OAuth!Lapse, OAuth!reapLocked
<1>2. CASE OAuth!Lapse
  <2>1. PICK g \in database.access :
          database' = [database EXCEPT
            !.access = (database.access \ {g}) \cup {[g EXCEPT !.fresh = FALSE]}]
    BY <1>2 DEF OAuth!Lapse
  <2>2. Granted([g EXCEPT !.fresh = FALSE])' /\ [g EXCEPT !.fresh = FALSE].fresh = FALSE
    BY <1>1, GrantsStay DEF StoreAgreed
  <2>3. StoreAgreed'
    BY <1>1, <2>1, <2>2, GrantsStay DEF StoreAgreed
  <2>4. \A t \in database'.access : t.fresh => t \in database.access
    BY <1>1, <2>1, <2>2 DEF StoreAgreed
  <2> QED
    BY <1>1, <2>3, <2>4 DEF OAuthInv, OAuth!OnlyAuthorised
<1>3. CASE OAuth!reapLocked
  <2>1. database' = [database EXCEPT !.codes = {g \in database.codes : g.fresh},
                                     !.access = {g \in database.access : g.fresh}]
    BY <1>3 DEF OAuth!reapLocked
  <2>2. StoreAgreed'
    BY <1>1, <2>1, GrantsStay DEF StoreAgreed
  <2>3. database'.access \subseteq database.access
    BY <1>1, <2>1 DEF StoreAgreed
  <2> QED
    BY <1>1, <2>2, <2>3 DEF OAuthInv, OAuth!OnlyAuthorised
<1> QED
  BY <1>2, <1>3

LEMMA OAuthStep == OAuthInv /\ [OAuth!OAuthNext]_oauthState => OAuthInv'
<1> SUFFICES ASSUME OAuthInv, [OAuth!OAuthNext]_oauthState
             PROVE  OAuthInv'
  OBVIOUS
<1> USE DEF OAuth!Quiet
<1>1. StoreAgreed
  BY DEF OAuthInv
<1>2. ASSUME UNCHANGED <<database, agreed>>,
             oauthReply' = oauthReply \/ oauthReply'.kind \notin {"served", "challenge"}
      PROVE  OAuthInv'
  BY <1>1, <1>2, StoreStays DEF OAuthInv, OAuth!OnlyAuthorised
<1>3. CASE OAuth!TunnelUp \/ UNCHANGED oauthState
  BY <1>2, <1>3 DEF OAuth!TunnelUp, oauthState
<1>4. CASE OAuth!OAuthStop \/ \E c \in OAuthClients, r \in OAuth!Origins : OAuth!AuthorizeGET(c, r)
  BY Zenon, <1>1, <1>4, OtherAnswers, StoreStays DEF OAuth!OAuthStop, OAuth!AuthorizeGET, OAuthInv
<1>5. CASE OAuth!AsMetadataHandler \/ OAuth!ProtectedResourceHandler
  BY <1>2, <1>5 DEF OAuth!AsMetadataHandler, OAuth!ProtectedResourceHandler, OAuth!Reply
<1>6. CASE OAuth!OAuthStart
  BY Zenon, <1>1, <1>6, OtherAnswers, StoreStays
  DEF OAuth!OAuthStart, OAuth!NewOAuthServer, OAuth!OpenOAuthStore, OAuthInv
<1>7. ASSUME NEW t \in database.access \cup database.refresh \cup {OAuth!NoGrant},
             OAuth!OfficialMiddleware(t)
      PROVE  OAuthInv'
  <2>1. PICK k : /\ oauthReply' = OAuth!Reply(k, t, baseURL)
                 /\ k = "served" => OAuth!validTokenInfo(t)
                 /\ k = "challenge" => ~OAuth!validTokenInfo(t)
    <3>1. CASE OAuth!validTokenInfo(t) /\ oauthReply' = OAuth!Reply("served", t, baseURL)
      BY <3>1
    <3>2. CASE OAuth!validTokenInfo(t) /\ oauthReply' = OAuth!Reply("unauthorized", t, baseURL)
      BY <3>2
    <3>3. CASE ~OAuth!validTokenInfo(t) /\ oauthReply' = OAuth!Reply("challenge", t, baseURL)
      BY <3>3
    <3> QED
      BY <1>7, <3>1, <3>2, <3>3
      DEF OAuth!OfficialMiddleware, OAuth!WriteHeader, OAuth!isOAuthBearerFailure,
          OAuth!mcpResourceURL
  <2>2. /\ database' = database /\ agreed' = agreed /\ oauthReply'.token = t
        /\ oauthReply'.at = baseURL
        /\ oauthReply'.kind = "served" => OAuth!validTokenInfo(t)
        /\ oauthReply'.kind = "challenge" => ~OAuth!validTokenInfo(t)
    BY <1>7, <2>1 DEF OAuth!OfficialMiddleware, OAuth!Reply
  <2>3. t \in database.access => <<t.client, t.resource>> \in agreed'
    BY <1>1, <2>2 DEF StoreAgreed, Granted
  <2>4. OAuth!OnlyAuthorised'
    BY <2>2, <2>3 DEF OAuth!OnlyAuthorised, OAuth!validTokenInfo, OAuth!mcpResourceURL
  <2> QED
    BY <1>1, <2>2, <2>4, StoreStays DEF OAuthInv
<1>8. CASE \/ \E c \in OAuthClients : \/ OAuth!RegisterHandler(c)
                                      \/ \E r \in OAuth!Origins, s \in BOOLEAN :
                                           OAuth!AuthorizePOST(c, r, s)
                                      \/ \E g \in database.codes, v \in BOOLEAN :
                                           OAuth!exchangeCode(c, g, v)
           \/ \E g \in database.refresh : OAuth!exchangeRefreshToken(g)
  BY <1>8, RegisterKeepsStore, AuthorizeKeepsStore, CodeKeepsStore, RefreshKeepsStore
<1>9. CASE OAuth!Lapse \/ OAuth!reapLocked
  BY <1>9, LapsingKeepsStore
<1> QED
  BY <1>3, <1>4, <1>5, <1>6, <1>7, <1>8, <1>9 DEF OAuth!OAuthNext

LEMMA OAuthStarts == OAuth!OAuthInit => OAuthInv
<1> SUFFICES ASSUME OAuth!OAuthInit
             PROVE  OAuthInv
  OBVIOUS
<1>1. /\ database = [clients |-> {}, codes |-> {}, access |-> {}, refresh |-> {}]
      /\ oauthReply = OAuth!Reply("", OAuth!NoGrant, "")
  BY Zenon DEF OAuth!OAuthInit
<1>2. StoreAgreed
  BY Zenon, <1>1 DEF StoreAgreed
<1>3. OAuth!OnlyAuthorised
  BY Zenon, <1>1 DEF OAuth!OnlyAuthorised, OAuth!Reply
<1> QED
  BY <1>2, <1>3 DEF OAuthInv

-----------------------------------------------------------------------------
(* The installer's edit of an agent's configuration file.                  *)
Entries  == [address : {"command", "url", "serverUrl", "uri"}, type : BOOLEAN,
             auth : {"none", "headers", "http_headers", "bearer_token_env"}]
CfgFiles == [format : Agent!ConfigFormats,
             parses : {"missing", "blank", "comments", "broken", "yes"},
             key : {"absent", "servers", "other"}, others : SUBSET OtherServers,
             ours : SUBSET Entries, comments : BOOLEAN]
Edits    == [kind : {"none", "write", "remove"},
             at : {"idle", "read", "change", "temp", "rename", "dead"},
             answer : {"", "ok", "error", "panic"}, family : Agent!Families,
             remote : BOOLEAN, secret : BOOLEAN, read : SUBSET CfgFiles, raced : BOOLEAN]

(* Our entry stands under the server key of a file that parses.            *)
Placed(f) == f.ours # {} => f.parses = "yes" /\ f.key = "servers"

AgentTypes ==
  /\ agentCfg \in CfgFiles /\ cfgBefore \in CfgFiles /\ edit \in Edits
  /\ edit.secret => edit.remote
  /\ Placed(agentCfg)

(* What the edit holds in memory is the file as it was read, then the file  *)
(* as it shall be; the file itself changes only if the agent saves it.     *)
EditTrue ==
  /\ edit.at \in {"read", "change", "temp", "rename"} =>
       /\ agentCfg.ours = cfgBefore.ours /\ edit.kind \in {"write", "remove"}
       /\ ~edit.raced => agentCfg = cfgBefore
  /\ edit.at = "change" =>
       \A f \in edit.read : /\ f.ours = agentCfg.ours /\ Placed(f)
                            /\ ~edit.raced => f = agentCfg
  /\ edit.at \in {"temp", "rename"} =>
       \A f \in edit.read :
         /\ f.parses = "yes" /\ f.key = "servers"
         /\ ~edit.raced => f.others = cfgBefore.others
         /\ edit.kind = "write" => \A e \in f.ours : (e.auth # "none") <=> edit.secret
         /\ edit.kind = "remove" => f.ours = {} /\ cfgBefore.ours # {}

(* An answer of success is true of our entry, whoever saved the file since. *)
AnsweredTrue ==
  edit.at = "idle" /\ edit.answer = "ok" =>
    /\ edit.kind = "write" => \A e \in agentCfg.ours : (e.auth # "none") <=> edit.secret
    /\ edit.kind = "remove" => agentCfg.ours = {}

AgentInv == AgentTypes /\ EditTrue /\ AnsweredTrue /\ Agent!OthersSurvive

LEMMA EntryWritten ==
  ASSUME NEW family, NEW remote \in BOOLEAN, NEW secret \in BOOLEAN
  PROVE  /\ Agent!Transform(family, remote, secret) \in Entries
         /\ (Agent!Transform(family, remote, secret).auth # "none") <=> (remote /\ secret)
<1> USE DEF Entries, Agent!Transform, Agent!stdioEntry, Agent!remoteStandardEntry, Agent!Bare,
            Agent!transformCodex, Agent!transformAntigravity, Agent!transformGoose,
            Agent!transformFx
<1>1. CASE ~remote
  BY <1>1
<1>2. CASE remote /\ secret
  BY <1>2
<1>3. CASE remote /\ ~secret
  BY <1>3
<1> QED
  BY <1>1, <1>2, <1>3

LEMMA AgentStarts == Agent!CfgInit => AgentInv
<1> SUFFICES ASSUME Agent!CfgInit
             PROVE  AgentInv
  OBVIOUS
<1>1. PICK family \in Agent!Families :
        /\ agentCfg \in {f \in Agent!ConfigFile(Agent!FormatOf(family)) : Agent!Sensible(f)}
        /\ edit = [Agent!NoEdit EXCEPT !.family = family] /\ cfgBefore = agentCfg
  BY DEF Agent!CfgInit
<1>2. agentCfg \in CfgFiles /\ Placed(agentCfg)
  <2>1. Agent!stdioEntry \in Entries /\ Agent!FormatOf(family) \in Agent!ConfigFormats
    BY DEF Entries, Agent!stdioEntry, Agent!FormatOf, Agent!ConfigFormats
  <2>2. Agent!ConfigFile(Agent!FormatOf(family)) \subseteq CfgFiles
    BY <2>1 DEF Agent!ConfigFile, CfgFiles
  <2> QED
    BY <1>1, <2>2 DEF Agent!Sensible, Placed
<1>3. edit \in Edits /\ edit.at = "idle" /\ edit.answer = "" /\ ~edit.secret
  BY Zenon, <1>1 DEF Agent!NoEdit, Edits
<1> QED
  BY Zenon, <1>1, <1>2, <1>3
  DEF AgentInv, AgentTypes, EditTrue, AnsweredTrue, Agent!OthersSurvive

(* An edit ends without having written: the file is the one it found.      *)
LEMMA EndsUnwritten ==
  ASSUME AgentInv, NEW answer \in {"ok", "error", "panic"}, Agent!Finish(answer),
         edit.at \in {"read", "change", "temp", "rename"},
         UNCHANGED <<agentCfg, cfgBefore>>,
         answer = "ok" => edit.kind = "remove" /\ agentCfg.ours = {}
  PROVE  AgentInv'
<1>1. /\ edit' = [edit EXCEPT !.at = "idle", !.answer = answer] /\ edit \in Edits
      /\ AgentTypes /\ EditTrue
  BY DEF Agent!Finish, AgentInv, AgentTypes
<1>2. /\ edit' \in Edits /\ edit'.at = "idle" /\ edit'.answer = answer /\ edit'.kind = edit.kind
      /\ edit'.raced = edit.raced /\ edit'.secret = edit.secret /\ edit'.remote = edit.remote
  BY Zenon, <1>1 DEF Edits
<1>3. ~edit.raced => agentCfg = cfgBefore
  BY <1>1 DEF EditTrue
<1>4. AgentTypes'
  BY <1>1, <1>2 DEF AgentTypes, Placed
<1>5. EditTrue' /\ AnsweredTrue'
  BY <1>2 DEF EditTrue, AnsweredTrue
<1>6. Agent!OthersSurvive'
  BY <1>2, <1>3 DEF Agent!OthersSurvive
<1> QED
  BY <1>4, <1>5, <1>6 DEF AgentInv

(* An edit goes on, or dies, without having written.                       *)
LEMMA GoesOn ==
  ASSUME AgentInv, edit' \in Edits, UNCHANGED <<agentCfg, cfgBefore>>,
         edit'.at # "idle", EditTrue', edit'.secret => edit'.remote,
         edit'.at = "dead" /\ ~edit'.raced => agentCfg = cfgBefore
  PROVE  AgentInv'
<1>1. AgentTypes' /\ AnsweredTrue'
  BY DEF AgentInv, AgentTypes, AnsweredTrue, Placed
<1>2. Agent!OthersSurvive'
  BY DEF Agent!OthersSurvive
<1> QED
  BY <1>1, <1>2 DEF AgentInv

LEMMA BeginKeepsAgent ==
  ASSUME AgentInv, NEW kind \in {"write", "remove"}, Agent!Begin(kind)
  PROVE  AgentInv'
<1>1. edit \in Edits /\ AgentTypes
  BY DEF AgentInv, AgentTypes
<1>2. PICK remote \in BOOLEAN, secret \in BOOLEAN :
        edit' = [edit EXCEPT !.kind = kind, !.at = "read", !.remote = remote,
                             !.secret = secret /\ remote, !.raced = FALSE, !.answer = ""]
  BY Zenon DEF Agent!Begin
<1>3. /\ edit' \in Edits /\ edit'.at = "read" /\ edit'.kind = kind
      /\ edit'.secret => edit'.remote
      /\ agentCfg' = agentCfg /\ cfgBefore' = agentCfg
  BY Zenon, <1>1, <1>2 DEF Edits, Agent!Begin
<1>4. AgentTypes' /\ EditTrue' /\ AnsweredTrue'
  BY <1>1, <1>3 DEF AgentTypes, Placed, EditTrue, AnsweredTrue
<1>5. Agent!OthersSurvive'
  BY <1>3 DEF Agent!OthersSurvive
<1> QED
  BY <1>4, <1>5 DEF AgentInv

LEMMA ReadKeepsAgent ==
  ASSUME AgentInv, Agent!ReadRoot
  PROVE  AgentInv'
<1>1. /\ edit \in Edits /\ edit.at = "read" /\ AgentTypes /\ EditTrue
      /\ UNCHANGED <<agentCfg, cfgBefore>>
  BY DEF AgentInv, AgentTypes, Agent!ReadRoot
<1>2. CASE Agent!Finish("error")
  BY <1>1, <1>2, EndsUnwritten
<1>3. CASE edit' = [edit EXCEPT !.at = "change", !.read = {agentCfg}]
  <2>1. /\ edit' \in Edits /\ edit'.at = "change" /\ edit'.read = {agentCfg}
        /\ edit'.kind = edit.kind /\ edit'.raced = edit.raced
        /\ edit'.secret = edit.secret /\ edit'.remote = edit.remote
    BY Zenon, <1>1, <1>3 DEF Edits, AgentTypes
  <2>2. EditTrue'
    BY <1>1, <2>1 DEF EditTrue, AgentTypes, Placed
  <2> QED
    BY <1>1, <2>1, <2>2, GoesOn DEF AgentTypes
<1> QED
  BY <1>2, <1>3 DEF Agent!ReadRoot

(* The file as it shall be, with our entry in it or without it.            *)
LEMMA SetKeepsAgent ==
  ASSUME AgentInv, Agent!SetServer
  PROVE  AgentInv'
<1>1. /\ edit \in Edits /\ edit.at = "change" /\ edit.kind = "write" /\ AgentTypes /\ EditTrue
      /\ UNCHANGED <<agentCfg, cfgBefore>>
  BY DEF AgentInv, AgentTypes, Agent!SetServer
<1>2. CASE Agent!Finish("error") \/ Agent!Finish("panic")
  BY <1>1, <1>2, EndsUnwritten
<1> DEFINE entry == Agent!Transform(edit.family, edit.remote, edit.secret)
<1>3. entry \in Entries /\ ((entry.auth # "none") <=> edit.secret)
  BY ZenonT(30), <1>1, EntryWritten DEF Edits, AgentTypes
<1> HIDE DEF entry
<1>4. ASSUME NEW f \in edit.read,
             edit' = [edit EXCEPT !.at = "temp",
               !.read = {[f EXCEPT !.parses = "yes", !.key = "servers", !.ours = {entry},
                                   !.comments = f.comments /\ f.format = "json"]}]
      PROVE  AgentInv'
  <2> DEFINE new == [f EXCEPT !.parses = "yes", !.key = "servers", !.ours = {entry},
                              !.comments = f.comments /\ f.format = "json"]
  <2>1. f \in CfgFiles
    BY Zenon, <1>1 DEF Edits
  <2>2. /\ new \in CfgFiles /\ new.parses = "yes" /\ new.key = "servers" /\ new.ours = {entry}
        /\ new.others = f.others
    BY <1>3, <2>1 DEF CfgFiles
  <2> HIDE DEF new
  <2>3. edit' = [edit EXCEPT !.at = "temp", !.read = {new}]
    BY <1>4 DEF new
  <2>4. /\ edit' \in Edits /\ edit'.at = "temp" /\ edit'.read = {new}
        /\ edit'.kind = edit.kind /\ edit'.raced = edit.raced
        /\ edit'.secret = edit.secret /\ edit'.remote = edit.remote
    BY Zenon, <1>1, <2>2, <2>3 DEF Edits
  <2>5. ~edit.raced => f = agentCfg /\ agentCfg = cfgBefore
    BY <1>1 DEF EditTrue
  <2>6. EditTrue'
    BY <1>1, <1>3, <2>2, <2>4, <2>5 DEF EditTrue
  <2> QED
    BY <1>1, <2>4, <2>6, GoesOn DEF AgentTypes
<1> QED
  BY Zenon, <1>2, <1>4 DEF Agent!SetServer, entry

LEMMA DropKeepsAgent ==
  ASSUME AgentInv, Agent!DropServer
  PROVE  AgentInv'
<1>1. /\ edit \in Edits /\ edit.at = "change" /\ edit.kind = "remove" /\ AgentTypes /\ EditTrue
      /\ UNCHANGED <<agentCfg, cfgBefore>>
  BY DEF AgentInv, AgentTypes, Agent!DropServer
<1>2. PICK f \in edit.read :
        IF f.ours = {} THEN Agent!Finish("ok")
        ELSE edit' = [edit EXCEPT !.at = "temp",
               !.read = {[f EXCEPT !.ours = {}, !.comments = f.comments /\ f.format = "json"]}]
  BY Zenon DEF Agent!DropServer
<1>3. /\ f \in CfgFiles /\ f.ours = agentCfg.ours /\ Placed(f)
      /\ agentCfg.ours = cfgBefore.ours
      /\ ~edit.raced => f = agentCfg /\ agentCfg = cfgBefore
  BY Zenon, <1>1 DEF EditTrue, Edits
<1>4. CASE f.ours = {}
  BY <1>1, <1>2, <1>3, <1>4, EndsUnwritten
<1>5. CASE f.ours # {}
  <2> DEFINE new == [f EXCEPT !.ours = {}, !.comments = f.comments /\ f.format = "json"]
  <2>1. /\ new \in CfgFiles /\ new.parses = f.parses /\ new.key = f.key /\ new.ours = {}
        /\ new.others = f.others
    BY <1>3 DEF CfgFiles
  <2> HIDE DEF new
  <2>2. edit' = [edit EXCEPT !.at = "temp", !.read = {new}]
    BY <1>2, <1>5 DEF new
  <2>3. /\ edit' \in Edits /\ edit'.at = "temp" /\ edit'.read = {new}
        /\ edit'.kind = edit.kind /\ edit'.raced = edit.raced
        /\ edit'.secret = edit.secret /\ edit'.remote = edit.remote
    BY Zenon, <1>1, <2>1, <2>2 DEF Edits
  <2>4. EditTrue'
    BY <1>1, <1>3, <1>5, <2>1, <2>3 DEF EditTrue, Placed
  <2> QED
    BY <1>1, <2>3, <2>4, GoesOn DEF AgentTypes
<1> QED
  BY <1>4, <1>5

LEMMA WriteKeepsAgent ==
  ASSUME AgentInv, Agent!WriteTemp \/ Agent!CfgCrash
  PROVE  AgentInv'
<1>1. /\ edit \in Edits /\ edit.at \in {"read", "change", "temp", "rename"} /\ AgentTypes
      /\ EditTrue /\ UNCHANGED <<agentCfg, cfgBefore>>
  BY Zenon DEF AgentInv, AgentTypes, Edits, Agent!WriteTemp, Agent!CfgCrash
<1>2. CASE Agent!Finish("error")
  BY <1>1, <1>2, EndsUnwritten
<1>3. ASSUME NEW to \in {"rename", "dead"}, edit' = [edit EXCEPT !.at = to],
             to = "rename" => edit.at = "temp"
      PROVE  AgentInv'
  <2>1. /\ edit' \in Edits /\ edit'.at = to /\ edit'.read = edit.read
        /\ edit'.kind = edit.kind /\ edit'.raced = edit.raced
        /\ edit'.secret = edit.secret /\ edit'.remote = edit.remote
    BY Zenon, <1>1, <1>3 DEF Edits
  <2>2. EditTrue'
    BY <1>1, <1>3, <2>1 DEF EditTrue
  <2>3. ~edit.raced => agentCfg = cfgBefore
    BY <1>1 DEF EditTrue
  <2> QED
    BY <1>1, <1>3, <2>1, <2>2, <2>3, GoesOn DEF AgentTypes
<1> QED
  BY <1>2, <1>3 DEF Agent!WriteTemp, Agent!CfgCrash

(* The rename puts the new file in place of the old one.                   *)
LEMMA RenameKeepsAgent ==
  ASSUME AgentInv, Agent!Rename
  PROVE  AgentInv'
<1>1. /\ edit \in Edits /\ edit.at = "rename" /\ AgentTypes /\ EditTrue
      /\ cfgBefore' = cfgBefore
  BY DEF AgentInv, AgentTypes, Agent!Rename
<1>2. CASE Agent!Finish("error") /\ agentCfg' = agentCfg
  BY <1>1, <1>2, EndsUnwritten
<1>3. CASE Agent!Finish("ok") /\ agentCfg' \in edit.read
  <2>1. /\ edit' \in Edits /\ edit'.at = "idle" /\ edit'.answer = "ok" /\ edit'.kind = edit.kind
        /\ edit'.raced = edit.raced /\ edit'.secret = edit.secret /\ edit'.remote = edit.remote
    BY Zenon, <1>1, <1>3 DEF Agent!Finish, Edits
  <2>2. /\ agentCfg' \in CfgFiles /\ agentCfg'.parses = "yes" /\ agentCfg'.key = "servers"
        /\ ~edit.raced => agentCfg'.others = cfgBefore.others
        /\ edit.kind = "write" => \A e \in agentCfg'.ours : (e.auth # "none") <=> edit.secret
        /\ edit.kind = "remove" => agentCfg'.ours = {} /\ cfgBefore.ours # {}
        /\ edit.kind \in {"write", "remove"}
    BY Zenon, <1>1, <1>3 DEF EditTrue, Edits
  <2>3. AgentTypes'
    BY <1>1, <2>1, <2>2 DEF AgentTypes, Placed
  <2>4. EditTrue' /\ AnsweredTrue'
    BY <2>1, <2>2 DEF EditTrue, AnsweredTrue
  <2>5. Agent!OthersSurvive'
    BY <1>1, <2>1, <2>2 DEF Agent!OthersSurvive
  <2> QED
    BY <2>3, <2>4, <2>5 DEF AgentInv
<1> QED
  BY <1>2, <1>3 DEF Agent!Rename

(* The agent adds an entry of its own.                                     *)
LEMMA SaveKeepsAgent ==
  ASSUME AgentInv, Agent!AgentSaves
  PROVE  AgentInv'
<1>1. edit \in Edits /\ AgentTypes /\ EditTrue /\ AnsweredTrue
  BY DEF AgentInv, AgentTypes
<1>2. PICK s \in OtherServers :
        agentCfg' = [agentCfg EXCEPT !.others = agentCfg.others \cup {s}]
  BY DEF Agent!AgentSaves
<1>3. /\ agentCfg' \in CfgFiles /\ agentCfg'.ours = agentCfg.ours
      /\ agentCfg'.parses = agentCfg.parses /\ agentCfg'.key = agentCfg.key
  BY <1>1, <1>2 DEF CfgFiles, AgentTypes
<1>4. edit' = [edit EXCEPT !.raced = (edit.at # "idle")]
  BY DEF Agent!AgentSaves
<1>5. /\ edit' \in Edits /\ edit'.at = edit.at /\ edit'.read = edit.read
      /\ edit'.kind = edit.kind /\ edit'.raced = (edit.at # "idle")
      /\ edit'.secret = edit.secret /\ edit'.remote = edit.remote /\ edit'.answer = edit.answer
  BY Zenon, <1>1, <1>4 DEF Edits
<1>6. cfgBefore' = IF edit.at = "idle" THEN agentCfg' ELSE cfgBefore
  BY DEF Agent!AgentSaves
<1>7. AgentTypes'
  BY <1>1, <1>3, <1>5, <1>6 DEF AgentTypes, Placed
<1>8. EditTrue'
  BY <1>1, <1>3, <1>5, <1>6 DEF EditTrue
<1>9. AnsweredTrue'
  BY <1>1, <1>3, <1>5 DEF AnsweredTrue
<1>10. Agent!OthersSurvive'
  BY <1>5, <1>6, <1>9 DEF Agent!OthersSurvive, AnsweredTrue
<1> QED
  BY <1>7, <1>8, <1>9, <1>10 DEF AgentInv

LEMMA AgentStep == AgentInv /\ [Agent!CfgNext]_agentState => AgentInv'
<1> SUFFICES ASSUME AgentInv, [Agent!CfgNext]_agentState
             PROVE  AgentInv'
  OBVIOUS
<1>1. CASE UNCHANGED agentState
  BY <1>1 DEF agentState, AgentInv, AgentTypes, Placed, EditTrue, AnsweredTrue,
              Agent!OthersSurvive
<1>2. CASE Agent!CfgNext
  BY <1>2, BeginKeepsAgent, ReadKeepsAgent, SetKeepsAgent, DropKeepsAgent, WriteKeepsAgent,
     RenameKeepsAgent, SaveKeepsAgent
  DEF Agent!CfgNext, Agent!WriteServerConfig, Agent!RemoveServer
<1> QED
  BY <1>1, <1>2

-----------------------------------------------------------------------------
(* `pinner mcp' from its flags to its exit.  The steps of the command before *)
(* its coordinators have an address, and from then on.                     *)
Early == {"flags", "sync", "bind", "tunnel", "base"}
Late  == {"serve", "account", "start", "url", "rebase", "issuer", "ready", "stop", "drain"}

(* Nothing is served early, and over HTTP only.                            *)
BootTrue ==
  /\ boot \in Early \cup Late \cup {"oauth", "stdio", "openai", "returned"}
  /\ boot \in Early => ~serving /\ own = {} /\ \A v \in Visits : visit[v] = "none"
  /\ boot \in {"flags", "returned"} => listener = "closed"
  /\ boot \in {"bind", "tunnel", "base", "oauth"} \cup Late \/ serving => opts.mode = "http"
  /\ boot \in {"stdio", "openai"} => opts.mode # "http"

(* A tunnel is there for a token, and the token asks for a guard before     *)
(* anything is served.                                                     *)
TunnelTrue ==
  /\ tun # "none" => opts.token
  /\ boot \in {"flags", "sync", "bind", "tunnel", "stdio", "openai"} => tun = "none"
  /\ boot \in {"base", "oauth", "serve"} => tun \in {"none", "built"}
  /\ boot \in {"account", "start"} => tun = "built"
  /\ boot \in {"url", "rebase", "issuer"} => tun = "up"
  /\ boot = "ready" => tun \in {"none", "up"}
  /\ boot \in {"drain", "returned"} => tun # "up"
  /\ boot \in Late /\ opts.token => guard # "none"

(* Coordinators have an address before the first request, the tunnel's     *)
(* replaces it one by one, and the issuer follows.                         *)
AddressTrue ==
  /\ opts.mode = "http" =>
       /\ own = {}
       /\ boot \in Late \cup {"oauth"} \/ serving \/ (\E v \in Visits : visit[v] # "none")
            => \A c \in Coordinators : base[c] # "none"
  /\ boot \in {"oauth", "serve"} =>
       \A c \in Coordinators : base[c] = IF opts.url THEN "public" ELSE "local"
  /\ boot = "serve" /\ opts.oauth /\ ~opts.url => issuer = "local"
  /\ boot = "issuer" => \A c \in Coordinators : base[c] = "tunnel"
  /\ boot = "ready" => /\ \A c \in Coordinators : base[c] = Serve!Address
                       /\ opts.oauth /\ ~opts.url => issuer = Serve!Address

(* The factory runs for a host that has no server, under the lock; what a   *)
(* request was given is what the cache holds.                              *)
CacheTrue ==
  /\ calls = [h \in Hosts |-> IF cache[h] = "none" THEN 0 ELSE 1]
  /\ \A v \in Visits :
       /\ visit[v] = "build" => mutex = v /\ cache[from[v]] = "none"
       /\ visit[v] \in {"missed", "build"} => opts.mode = "http"
       /\ server[v] # "none" =>
            visit[v] = "served" /\ server[v] = IF opts.mode = "http" THEN cache[from[v]] ELSE "startup"

ServeInv ==
  /\ Serve!ServeTypeOK /\ from \in [Visits -> Hosts]
  /\ BootTrue /\ TunnelTrue /\ AddressTrue /\ CacheTrue

LEMMA ServeStarts == Serve!ServeInit => ServeInv
<1> SUFFICES ASSUME Serve!ServeInit PROVE ServeInv
  OBVIOUS
<1>1. Serve!ServeTypeOK /\ from \in [Visits -> Hosts]
  BY VisitAssumption DEF Serve!ServeInit, Serve!ServeTypeOK, Serve!Flags, Serve!Modes
<1>2. BootTrue /\ TunnelTrue
  BY DEF Serve!ServeInit, BootTrue, TunnelTrue, Early, Late
<1>3. AddressTrue /\ CacheTrue
  BY DEF Serve!ServeInit, AddressTrue, CacheTrue, Late
<1> QED
  BY <1>1, <1>2, <1>3 DEF ServeInv

LEMMA ServedRight == ServeInv => Serve!ServesAsAdvertised
BY DEF ServeInv, Serve!ServeTypeOK, BootTrue, TunnelTrue, AddressTrue, CacheTrue,
       Serve!ServesAsAdvertised, Early, Late

LEMMA ServeStep == ServeInv /\ [Serve!ServeNext]_serveState => ServeInv'
<1> SUFFICES ASSUME ServeInv, [Serve!ServeNext]_serveState
             PROVE  ServeInv'
  OBVIOUS
<1> USE DEF ServeInv, Serve!ServeTypeOK, BootTrue, TunnelTrue, AddressTrue, CacheTrue, Early, Late,
            Serve!Address, Serve!Boot, Serve!Return, Serve!setup, Serve!front, Serve!sharing,
            Serve!visits, Serve!StepTunnel, Serve!Go, Serve!Give
<1>1. CASE Serve!Assemble
  BY <1>1 DEF Serve!Assemble
<1>2. CASE Serve!StartVaultSync
  BY <1>2 DEF Serve!StartVaultSync, Serve!Flags, Serve!Modes
<1>3. CASE Serve!Tick
  BY <1>3 DEF Serve!Tick
<1>4. CASE Serve!CloseSync
  BY <1>4 DEF Serve!CloseSync
<1>5. CASE Serve!Cancel
  BY <1>5 DEF Serve!Cancel
<1>6. CASE Serve!EndStream
  BY <1>6 DEF Serve!EndStream
<1>7. CASE Serve!GiveUp
  BY <1>7 DEF Serve!GiveUp
<1>8. CASE Serve!Bind
  BY <1>8 DEF Serve!Bind
<1>9. CASE Serve!BuildTunnel
  BY <1>9 DEF Serve!BuildTunnel
<1>10. CASE Serve!SetBaseURL
  BY <1>10 DEF Serve!SetBaseURL
<1>11. CASE Serve!OpenOAuth
  BY <1>11 DEF Serve!OpenOAuth
<1>12. CASE Serve!Serve
  BY <1>12 DEF Serve!Serve
<1>13. CASE Serve!CheckAccount
  BY <1>13 DEF Serve!CheckAccount
<1>14. CASE Serve!StartTunnel
  BY <1>14 DEF Serve!StartTunnel
<1>15. CASE Serve!TunnelURL
  BY <1>15 DEF Serve!TunnelURL
<1>16. CASE Serve!Repoint
  BY <1>16 DEF Serve!Repoint
<1>17. CASE Serve!FailTunnel
  BY <1>17 DEF Serve!FailTunnel
<1>18. CASE Serve!ServeFails
  <2>1. (Serve!ServeTypeOK /\ from \in [Visits -> Hosts])'
    BY ZenonT(30), <1>18 DEF Serve!ServeFails
  <2>2. BootTrue'
    BY <1>18 DEF Serve!ServeFails
  <2>3. TunnelTrue'
    BY <1>18 DEF Serve!ServeFails
  <2>4. AddressTrue'
    BY <1>18 DEF Serve!ServeFails
  <2>5. CacheTrue'
    BY <1>18 DEF Serve!ServeFails
  <2> QED
    BY <2>1, <2>2, <2>3, <2>4, <2>5
<1>19. CASE Serve!BeginShutdown
  BY <1>19 DEF Serve!BeginShutdown
<1>20. CASE Serve!Shutdown
  <2>1. CASE boot = "stop"
    <3>1. /\ boot' = "drain" /\ tun' \in {"none", "stopped"} /\ (tun' # "none" => tun # "none")
          /\ UNCHANGED <<listener, serving, opts, base, own, guard, issuer, sync, cancelled,
                         cache, calls, mutex, visit, from, server>>
      BY <1>20, <2>1 DEF Serve!Shutdown
    <3> QED
      BY <2>1, <3>1
  <2>2. CASE boot = "drain"
    <3>1. /\ boot' = "returned" /\ listener' = "closed" /\ serving' = FALSE
          /\ UNCHANGED <<tun, opts, base, own, guard, issuer, sync, cancelled,
                         cache, calls, mutex, visit, from, server>>
      BY <1>20, <2>2 DEF Serve!Shutdown
    <3>2. Serve!ServeTypeOK' /\ (from \in [Visits -> Hosts])' /\ BootTrue' /\ TunnelTrue'
      BY ZenonT(30), <2>2, <3>1
    <3>3. AddressTrue' /\ CacheTrue'
      BY <2>2, <3>1
    <3> QED
      BY <3>2, <3>3
  <2> QED
    BY <1>20, <2>1, <2>2 DEF Serve!Shutdown
<1>21. ASSUME NEW c \in Coordinators, Serve!Rebase(c) PROVE ServeInv'
  BY <1>21 DEF Serve!Rebase
<1>22. ASSUME NEW v \in Visits, Serve!Stream(v) PROVE ServeInv'
  BY <1>22 DEF Serve!Stream
<1>23. ASSUME NEW v \in Visits, Serve!Arrive(v) PROVE ServeInv'
  BY <1>23 DEF Serve!Arrive
<1>24. ASSUME NEW v \in Visits, Serve!Lock(v) PROVE ServeInv'
  <2>1. CASE cache[from[v]] # "none"
    BY <1>24, <2>1 DEF Serve!Lock
  <2>2. CASE cache[from[v]] = "none"
    BY <1>24, <2>2, VisitAssumption DEF Serve!Lock
  <2> QED
    BY <2>1, <2>2
<1>25. ASSUME NEW v \in Visits, Serve!Build(v) PROVE ServeInv'
  BY <1>25 DEF Serve!Build
<1>26. ASSUME NEW v \in Visits, NEW c \in Coordinators, Serve!MintLink(v, c) PROVE ServeInv'
  BY <1>26 DEF Serve!MintLink
<1>27. CASE UNCHANGED serveState
  BY <1>27 DEF serveState
<1> QED
  BY Zenon, <1>1, <1>2, <1>3, <1>4, <1>5, <1>6, <1>7, <1>8, <1>9, <1>10, <1>11, <1>12, <1>13, <1>14, <1>15, <1>16, <1>17, <1>18, <1>19, <1>20, <1>21, <1>22, <1>23, <1>24, <1>25, <1>26, <1>27 DEF Serve!ServeNext, Serve!Startup

-----------------------------------------------------------------------------
(* The tool surface: what the names of the wire run.                       *)
ToolEntries == [class : {"read", "write", "destructive"},
            category : {"account", "admin", "core", "storage", "wizard"}, human : BOOLEAN,
            by : {"compiled", "handoff", "extension", "provision", "rebuilt"}, direct : BOOLEAN]
Extensions == {e \in ToolEntries : e.by = "extension" /\ e.category = "core" /\ e.human = FALSE}
Labels == {"auth_sso", "auth_resume", "open_sso_signin", "vault_create_resume",
           "open_vault_create", "open_vault_manager", "vault_put_file", "open_upload_manager",
           "upload_file", "upload_url", "open_download_manager", "download_file",
           "open_pin_list", "capabilities", "agent_guide"}
Specs == {s \in [name : Labels \cup {"open_app"}, roles : SUBSET {"search", "direct", "app"}, entry : Extensions] :
            s.name = "open_app" => s.roles = {"search"} /\ s.entry.direct = FALSE}

Table(f) == \A n \in DOMAIN f : f[n] \in ToolEntries
Plan(s)  == s \in Seq(Specs) /\ Len(s) >= 1 /\ s[1].name = "open_app"

(* Extensions are taken into the catalogue as they were declared; the       *)
(* launcher of the apps is not direct before its hook has run.             *)
Taken ==
  /\ \A i \in DOMAIN specs :
       "direct" \in specs[i].roles /\ specs[i].name \in DOMAIN tools =>
         tools[specs[i].name] \in Extensions
  /\ "open_app" \in DOMAIN tools /\ tools["open_app"] \in Extensions
  /\ tools["open_app"].direct = FALSE

(* A name on the wire is safe to call directly and runs its catalogue entry. *)
WireRuns ==
  \A n \in DOMAIN wire \ Surface!MetaTools :
    n \in DOMAIN tools => Surface!AgentDirectSafe(tools[n]) /\ wire[n] = tools[n].by

SurfaceInv ==
  /\ setup \in Setups
  /\ build \in {"compile", "collect", "complete", "serve", "apps", "direct", "hooks",
                "finalize", "ready", "refused"}
  /\ build \in {"compile", "collect", "complete", "serve"} => DOMAIN wire = {}
  /\ build \in {"collect", "complete", "serve", "apps", "direct", "hooks"} => Table(tools)
  /\ build \in {"complete", "serve", "apps", "direct"} => Plan(specs)
  /\ build \in {"serve", "apps", "direct"} => Taken
  /\ build \in {"apps", "direct"} => DOMAIN wire \subseteq Surface!MetaTools
  /\ build = "hooks" => WireRuns /\ ("open_app" \in DOMAIN wire => Surface!Flat)
  /\ build \in {"finalize", "ready"} => WireRuns
  /\ build # "ready" => lastCall = Surface!Nothing
  /\ Surface!NothingBypassesTheGate

LEMMA MadeDirect ==
  ASSUME NEW e \in ToolEntries, NEW d, d = [e EXCEPT !.direct = TRUE]
  PROVE  /\ d \in ToolEntries /\ d.by = e.by /\ d.category = e.category /\ d.human = e.human
         /\ Surface!AgentDirectSafe(d) <=> Surface!AgentDirectSafe(e)
BY DEF ToolEntries, Surface!AgentDirectSafe

LEMMA Stamped ==
  ASSUME NEW f, Table(f), NEW g, g = Surface!StampDirectTools(f)
  PROVE  /\ DOMAIN g = DOMAIN f /\ Table(g)
         /\ \A n \in DOMAIN f :
              /\ g[n].by = f[n].by
              /\ Surface!AgentDirectSafe(g[n]) <=> Surface!AgentDirectSafe(f[n])
              /\ f[n] \in Extensions => g[n] \in Extensions
              /\ ~Surface!Flat /\ n \notin Surface!DirectToolNames => g[n] = f[n]
<1>1. /\ DOMAIN g = DOMAIN f
      /\ \A n \in DOMAIN f : \/ g[n] = f[n]
                             \/ /\ g[n] = [f[n] EXCEPT !.direct = TRUE]
                                /\ Surface!Flat \/ n \in Surface!DirectToolNames
  BY DEF Surface!StampDirectTools
<1>2. ASSUME NEW n \in DOMAIN f
      PROVE  /\ g[n] \in ToolEntries /\ g[n].by = f[n].by
             /\ g[n].category = f[n].category /\ g[n].human = f[n].human
             /\ Surface!AgentDirectSafe(g[n]) <=> Surface!AgentDirectSafe(f[n])
  <2>1. f[n] \in ToolEntries
    BY DEF Table
  <2> QED
    BY <1>1, <2>1, MadeDirect
<1> QED
  BY <1>1, <1>2 DEF Table, Extensions

LEMMA Added ==
  ASSUME NEW f, Table(f), NEW n, NEW e \in ToolEntries
  PROVE  Table(Surface!With(f, n, e))
BY DEF Surface!With, Table

LEMMA Merged ==
  ASSUME NEW f, Table(f), NEW g, Table(g)
  PROVE  Table(Surface!Merge(f, g))
BY DEF Surface!Merge, Table

LEMMA Compiled == Table(Surface!CompiledOps)
<1> DEFINE ofAll == [auth_status |-> Surface!Entry("read", "account", FALSE, "compiled"),
                     admin_users |-> Surface!Entry("read", "admin", FALSE, "compiled"),
                     config_edit |-> Surface!Entry("write", "core", TRUE, "compiled")]
           vault == [vault_create |-> Surface!Entry("write", "storage", TRUE, "compiled"),
                     vault_status |-> Surface!Entry("read", "storage", FALSE, "compiled"),
                     vault_sync   |-> Surface!Entry("write", "storage", FALSE, "compiled")]
           ipfs  == [pins_add |-> Surface!Entry("write", "core", FALSE, "compiled"),
                     pins_rm  |-> Surface!Entry("destructive", "core", FALSE, "compiled"),
                     websites_create |-> Surface!Entry("write", "core", FALSE, "compiled")]
           f == [n \in DOMAIN ofAll \cup (IF Surface!Scope("vault") THEN DOMAIN vault ELSE {})
                                    \cup (IF Surface!Scope("upload") THEN DOMAIN ipfs ELSE {}) |->
                   IF n \in DOMAIN ofAll THEN ofAll[n]
                   ELSE IF n \in DOMAIN vault THEN vault[n] ELSE ipfs[n]]
<1>1. /\ Surface!Entry("read", "account", FALSE, "compiled") \in ToolEntries
      /\ Surface!Entry("read", "admin", FALSE, "compiled") \in ToolEntries
      /\ Surface!Entry("write", "core", TRUE, "compiled") \in ToolEntries
      /\ Surface!Entry("write", "storage", TRUE, "compiled") \in ToolEntries
      /\ Surface!Entry("read", "storage", FALSE, "compiled") \in ToolEntries
      /\ Surface!Entry("write", "storage", FALSE, "compiled") \in ToolEntries
      /\ Surface!Entry("write", "core", FALSE, "compiled") \in ToolEntries
      /\ Surface!Entry("destructive", "core", FALSE, "compiled") \in ToolEntries
      /\ Surface!Entry("read", "core", FALSE, "compiled") \in ToolEntries
  BY DEF Surface!Entry, ToolEntries
<1>2. Table(ofAll) /\ Table(vault) /\ Table(ipfs)
  <2>1. ASSUME NEW x \in ToolEntries, NEW y \in ToolEntries, NEW z \in ToolEntries
        PROVE  /\ Table([auth_status |-> x, admin_users |-> y, config_edit |-> z])
               /\ Table([vault_create |-> x, vault_status |-> y, vault_sync |-> z])
               /\ Table([pins_add |-> x, pins_rm |-> y, websites_create |-> z])
    BY DEF Table
  <2> QED
    BY <1>1, <2>1
<1>3. Surface!CompiledOps =
        IF setup.clash = "none" THEN f
        ELSE Surface!With(f, setup.clash, Surface!Entry("read", "core", FALSE, "compiled"))
  BY DEF Surface!CompiledOps
<1> HIDE DEF ofAll, vault, ipfs
<1>4. Table(f)
  BY <1>2 DEF Table
<1> HIDE DEF f
<1> QED
  BY <1>1, <1>3, <1>4, Added

LEMMA Routed ==
  ASSUME NEW f, Table(f)
  PROVE  Table(Surface!RouteVaultSetupHandlers(f))
<1>1. CASE "vault_create" \in DOMAIN f
  <2> DEFINE e == [f["vault_create"] EXCEPT !.by = "handoff", !.human = FALSE]
  <2>1. e \in ToolEntries
    BY <1>1 DEF Table, ToolEntries
  <2> QED
    BY <1>1, <2>1, Added DEF Surface!RouteVaultSetupHandlers
<1> QED
  BY <1>1 DEF Surface!RouteVaultSetupHandlers

-----------------------------------------------------------------------------
(* The plan of the extensions: its parts are sequences of such declarations. *)
LEMMA OneSpec ==
  ASSUME NEW name \in Labels, NEW roles \in SUBSET {"search", "direct", "app"},
         NEW e \in Extensions
  PROVE  <<Surface!Spec(name, roles, e)>> \in Seq(Specs)
<1>1. Surface!Spec(name, roles, e) \in Specs
  BY DEF Surface!Spec, Specs, Labels
<1> QED
  BY <1>1

LEMMA Declared ==
  /\ Surface!Extension("read") \in Extensions /\ Surface!Extension("write") \in Extensions
  /\ Surface!Extension("read").direct = FALSE /\ Surface!Extension("write").direct = FALSE
BY DEF Surface!Entry, Surface!Extension, Extensions, ToolEntries

LEMMA Pieces ==
  ASSUME NEW name \in Labels
  PROVE  /\ Surface!SearchableOnly(name) \in Seq(Specs)
         /\ \A class \in {"read", "write"} : Surface!DirectSearchable(name, class) \in Seq(Specs)
         /\ Surface!Launcher(name) \in Seq(Specs)
         /\ \A drop : Surface!FileSpec(name, drop) \in Seq(Specs)
BY OneSpec, Declared
   DEF Surface!SearchableOnly, Surface!DirectSearchable, Surface!Launcher, Surface!FileSpec

LEMMA Optional ==
  ASSUME NEW c, NEW s \in Seq(Specs)
  PROVE  Surface!If(c, s) \in Seq(Specs)
BY DEF Surface!If

LEMMA Joined ==
  ASSUME NEW s, Plan(s), NEW t \in Seq(Specs)
  PROVE  Plan(s \o t)
BY DEF Plan

LEMMA Parts ==
  /\ Surface!AuthSpecs \in Seq(Specs) /\ Surface!VaultSpecs \in Seq(Specs)
  /\ Surface!VaultPutSpecs \in Seq(Specs) /\ Surface!UploadSpecs \in Seq(Specs)
  /\ Surface!RelaySpecs \in Seq(Specs) /\ Surface!DownloadSpecs \in Seq(Specs)
  /\ Surface!GuideSpecs \in Seq(Specs)
<1>1. ASSUME NEW s \in Seq(Specs), NEW t \in Seq(Specs)
      PROVE  s \o t \in Seq(Specs)
  OBVIOUS
<1>2. [Surface!Extension("write") EXCEPT !.direct = TRUE] \in Extensions
  BY Declared, MadeDirect DEF Extensions
<1>3. <<Surface!Spec("auth_sso", {"search"}, [Surface!Extension("write") EXCEPT !.direct = TRUE])>>
        \in Seq(Specs)
  BY <1>2, OneSpec DEF Labels
<1>4. Surface!AuthSpecs \in Seq(Specs)
  <2>1. /\ Surface!SearchableOnly("auth_resume") \in Seq(Specs)
        /\ Surface!Launcher("open_sso_signin") \in Seq(Specs)
    BY Pieces DEF Labels
  <2> QED
    BY <1>1, <1>3, <2>1, Optional DEF Surface!AuthSpecs
<1>5. Surface!VaultSpecs \in Seq(Specs)
  <2>1. /\ Surface!SearchableOnly("vault_create_resume") \in Seq(Specs)
        /\ Surface!Launcher("open_vault_create") \in Seq(Specs)
    BY Pieces DEF Labels
  <2> QED
    BY <1>1, <2>1, Optional DEF Surface!VaultSpecs
<1>6. Surface!VaultPutSpecs \in Seq(Specs)
  <2>1. /\ Surface!Launcher("open_vault_manager") \in Seq(Specs)
        /\ Surface!FileSpec("vault_put_file", setup.drop) \in Seq(Specs)
    BY Pieces DEF Labels
  <2> QED
    BY <1>1, <2>1, Optional DEF Surface!VaultPutSpecs
<1>7. Surface!UploadSpecs \in Seq(Specs)
  <2>1. /\ Surface!Launcher("open_upload_manager") \in Seq(Specs)
        /\ Surface!FileSpec("upload_file", setup.drop) \in Seq(Specs)
    BY Pieces DEF Labels
  <2> QED
    BY <1>1, <2>1, Optional DEF Surface!UploadSpecs
<1>8. Surface!RelaySpecs \in Seq(Specs)
  <2>1. Surface!DirectSearchable("upload_url", "write") \in Seq(Specs)
    BY Pieces DEF Labels
  <2> QED
    BY <2>1, Optional DEF Surface!RelaySpecs
<1>9. Surface!DownloadSpecs \in Seq(Specs)
  <2>1. /\ Surface!Launcher("open_download_manager") \in Seq(Specs)
        /\ Surface!DirectSearchable("download_file", "read") \in Seq(Specs)
    BY Pieces DEF Labels
  <2> QED
    BY <1>1, <2>1, Optional DEF Surface!DownloadSpecs
<1>10. Surface!GuideSpecs \in Seq(Specs)
  <2>1. /\ Surface!DirectSearchable("capabilities", "read") \in Seq(Specs)
        /\ Surface!DirectSearchable("agent_guide", "read") \in Seq(Specs)
    BY Pieces DEF Labels
  <2> QED
    BY <1>1, <2>1 DEF Surface!GuideSpecs
<1> QED
  BY <1>4, <1>5, <1>6, <1>7, <1>8, <1>9, <1>10

LEMMA Collected == Surface!CollectServerExtensions => Plan(specs')
<1> SUFFICES ASSUME Surface!CollectServerExtensions PROVE Plan(specs')
  OBVIOUS
<1> DEFINE s0 == Surface!SearchableOnly("open_app")
           s1 == s0 \o Surface!AuthSpecs
           s2 == s1 \o Surface!VaultSpecs
           s3 == s2 \o Surface!Launcher("open_pin_list")
           s4 == s3 \o Surface!VaultPutSpecs
           s5 == s4 \o Surface!RelaySpecs
           s6 == s5 \o Surface!DownloadSpecs
           s7 == s6 \o Surface!UploadSpecs
           s8 == s7 \o Surface!GuideSpecs
<1>0. Surface!Launcher("open_pin_list") \in Seq(Specs)
  BY Pieces DEF Labels
<1>1. Plan(s0)
  <2>1. /\ Surface!Spec("open_app", {"search"}, Surface!Extension("write")) \in Specs
        /\ Surface!Spec("open_app", {"search"}, Surface!Extension("write")).name = "open_app"
    BY Declared DEF Surface!Spec, Specs
  <2> QED
    BY <2>1 DEF Plan, Surface!SearchableOnly
<1> HIDE DEF s0
<1>2. Plan(s1)
  BY <1>1, Parts, Joined
<1> HIDE DEF s1
<1>3. Plan(s2)
  BY <1>2, Parts, Joined
<1> HIDE DEF s2
<1>4. Plan(s3)
  BY <1>0, <1>3, Joined
<1> HIDE DEF s3
<1>5. Plan(s4)
  BY <1>4, Parts, Joined
<1> HIDE DEF s4
<1>6. Plan(s5)
  BY <1>5, Parts, Joined
<1> HIDE DEF s5
<1>7. Plan(s6)
  BY <1>6, Parts, Joined
<1> HIDE DEF s6
<1>8. Plan(s7)
  BY <1>7, Parts, Joined
<1> HIDE DEF s7
<1>9. Plan(s8)
  BY <1>8, Parts, Joined
<1> QED
  BY <1>9 DEF s0, s1, s2, s3, s4, s5, s6, s7, Surface!CollectServerExtensions

-----------------------------------------------------------------------------
LEMMA SurfaceStarts == Surface!SurfaceInit => SurfaceInv
BY DEF Surface!SurfaceInit, SurfaceInv, Surface!NothingBypassesTheGate

(* The catalogue takes the extensions that can be searched, when no name is *)
(* declared twice.                                                         *)
LEMMA CompletedTakes ==
  ASSUME SurfaceInv, Surface!CompleteExtensions
  PROVE  SurfaceInv'
<1> USE DEF Surface!CompleteExtensions
<1>1. /\ Plan(specs) /\ Table(tools) /\ DOMAIN wire = {} /\ lastCall = Surface!Nothing
      /\ setup \in Setups
  BY DEF SurfaceInv
<1>2. CASE build' = "refused"
  BY <1>1, <1>2 DEF SurfaceInv, Surface!NothingBypassesTheGate
<1>3. CASE build' # "refused"
  <2> DEFINE provided == Surface!Merge(tools, Surface!Provided)
             searched == {specs[i].name : i \in Surface!Named(specs, "search")}
             taken == [n \in searched |-> Surface!SpecOf(n).entry]
  <2>1. /\ tools' = Surface!Merge(provided, taken) /\ build' = "serve"
        /\ ~Surface!RejectDuplicates(provided)
        /\ UNCHANGED <<setup, specs, wire, lastCall>>
    BY <1>3
  <2>2. /\ \A i \in DOMAIN specs : specs[i] \in Specs
        /\ 1 \in DOMAIN specs /\ specs[1].name = "open_app"
    BY <1>1 DEF Plan
  <2>3. \A i, j \in DOMAIN specs : i # j => specs[i].name # specs[j].name
    BY <2>1 DEF Surface!RejectDuplicates
  <2>4. \A i \in DOMAIN specs : specs[i].name \notin DOMAIN provided
    BY <2>1 DEF Surface!RejectDuplicates
  <2>5. \A i \in DOMAIN specs : Surface!SpecOf(specs[i].name) = specs[i]
    BY <2>3 DEF Surface!SpecOf
  <2>6. /\ DOMAIN tools' = DOMAIN provided \cup searched
        /\ \A n \in searched : tools'[n] = Surface!SpecOf(n).entry
    BY <2>1 DEF Surface!Merge
  <2>7. \A i \in DOMAIN specs : specs[i].entry \in Extensions
    BY <2>2 DEF Specs
  <2>8. \A n \in searched : tools'[n] \in Extensions
    BY <2>5, <2>6, <2>7 DEF Surface!Named
  <2>9. Table(provided)
    <3>1. Surface!Entry("write", "wizard", FALSE, "provision") \in ToolEntries
      BY DEF Surface!Entry, ToolEntries
    <3>2. Table(Surface!Provided)
      BY <3>1 DEF Table, Surface!Provided, Surface!NoEntryYet
    <3> QED
      BY <1>1, <3>2, Merged
  <2>10. Table(taken)
    BY <2>5, <2>7 DEF Table, Surface!Named, Extensions
  <2>11. Table(tools')
    BY <2>1, <2>9, <2>10, Merged
  <2>12. \A i \in DOMAIN specs : specs[i].name \in DOMAIN tools' => specs[i].name \in searched
    BY <2>4, <2>6
  <2>13. /\ "open_app" \in searched /\ tools'["open_app"].direct = FALSE
    <3>1. specs[1].roles = {"search"} /\ specs[1].entry.direct = FALSE
      BY <2>2 DEF Specs
    <3> QED
      BY <2>2, <2>5, <2>6, <3>1 DEF Surface!Named
  <2>14. Taken'
    BY <2>1, <2>6, <2>8, <2>12, <2>13 DEF Taken
  <2> QED
    BY <1>1, <2>1, <2>11, <2>14 DEF SurfaceInv, Surface!NothingBypassesTheGate
<1> QED
  BY <1>2, <1>3

LEMMA RegisteredRuns ==
  ASSUME SurfaceInv, Surface!RegisterDirect
  PROVE  SurfaceInv'
<1> USE DEF Surface!RegisterDirect
<1> DEFINE f == Surface!StampDirectTools(tools)
<1>1. /\ Plan(specs) /\ Table(tools) /\ DOMAIN wire \subseteq Surface!MetaTools
      /\ lastCall = Surface!Nothing /\ setup \in Setups /\ Taken
  BY DEF SurfaceInv
<1>2. /\ DOMAIN f = DOMAIN tools /\ Table(f)
      /\ \A n \in DOMAIN tools :
           /\ f[n].by = tools[n].by
           /\ tools[n] \in Extensions => f[n] \in Extensions
           /\ ~Surface!Flat /\ n \notin Surface!DirectToolNames => f[n] = tools[n]
  BY <1>1, Stamped
<1>3. /\ tools' = f
      /\ DOMAIN wire' = DOMAIN wire \cup Surface!DirectNames(f) \cup Surface!SpecDirect(f)
      /\ \A n \in Surface!DirectNames(f) \cup Surface!SpecDirect(f) :
           n \in DOMAIN f => wire'[n] = f[n].by
      /\ build' \in {"refused", "hooks"}
      /\ UNCHANGED <<setup, lastCall>>
  BY DEF Surface!Merge
<1> HIDE DEF f
<1>4. \A n \in Surface!SpecDirect(f) : n \in DOMAIN tools => tools[n] \in Extensions
  BY <1>1 DEF Surface!SpecDirect, Surface!Named, Taken
<1>5. \A e \in Extensions : Surface!AgentDirectSafe(e)
  BY DEF Extensions, Surface!AgentDirectSafe
<1>6. \A n \in Surface!DirectNames(f) : Surface!AgentDirectSafe(f[n])
  BY DEF Surface!DirectNames, Surface!IsDirectEntry
<1>7. WireRuns'
  BY <1>1, <1>2, <1>3, <1>4, <1>5, <1>6 DEF WireRuns, Surface!MetaTools
<1>8. "open_app" \in DOMAIN wire' => Surface!Flat'
  <2> SUFFICES ASSUME "open_app" \in DOMAIN wire', ~Surface!Flat PROVE FALSE
    BY <1>3 DEF Surface!Flat
  <2>1. f["open_app"].direct = FALSE
    BY <1>1, <1>2 DEF Taken, Surface!DirectToolNames
  <2>2. "open_app" \notin Surface!DirectNames(f)
    BY <2>1 DEF Surface!DirectNames, Surface!IsDirectEntry
  <2>3. "open_app" \notin Surface!SpecDirect(f)
    BY <1>1 DEF Surface!SpecDirect, Surface!Named, Plan, Specs
  <2> QED
    BY <1>1, <1>3, <2>2, <2>3 DEF Surface!MetaTools
<1> QED
  BY <1>1, <1>2, <1>3, <1>7, <1>8 DEF SurfaceInv, Surface!NothingBypassesTheGate

LEMMA HookedRuns ==
  ASSUME SurfaceInv, Surface!RunHooks
  PROVE  SurfaceInv'
<1> USE DEF Surface!RunHooks
<1>1. /\ WireRuns /\ ("open_app" \in DOMAIN wire => Surface!Flat)
      /\ lastCall = Surface!Nothing /\ setup \in Setups
  BY DEF SurfaceInv
<1> DEFINE b == "apps" \in setup.features \/ Surface!Flat
           e == [Surface!Entry("write", "core", FALSE, "rebuilt") EXCEPT !.direct = b]
<1>2. /\ tools' = Surface!With(tools, "open_app", e)
      /\ wire' = IF e.direct THEN Surface!With(wire, "open_app", "rebuilt") ELSE wire
      /\ build' = "finalize" /\ UNCHANGED <<setup, lastCall>>
  BY DEF Surface!OpenAppHook
<1>3. e.by = "rebuilt" /\ e.category = "core" /\ e.human = FALSE /\ (e.direct <=> b)
  BY DEF Surface!Entry
<1> HIDE DEF e
<1>4. Surface!AgentDirectSafe(e)
  BY <1>3 DEF Surface!AgentDirectSafe
<1>5. WireRuns'
  <2> SUFFICES ASSUME NEW n \in DOMAIN wire' \ Surface!MetaTools, n \in DOMAIN tools'
               PROVE  Surface!AgentDirectSafe(tools'[n]) /\ wire'[n] = tools'[n].by
    BY DEF WireRuns, Surface!MetaTools
  <2>1. CASE n = "open_app"
    <3>1. e.direct
      BY <1>1, <1>2, <1>3, <2>1
    <3> QED
      BY <1>2, <1>3, <1>4, <2>1, <3>1 DEF Surface!With
  <2>2. CASE n # "open_app"
    <3>1. n \in DOMAIN wire /\ n \in DOMAIN tools /\ tools'[n] = tools[n] /\ wire'[n] = wire[n]
      BY <1>2, <2>2 DEF Surface!With
    <3> QED
      BY <1>1, <3>1 DEF WireRuns
  <2> QED
    BY <2>1, <2>2
<1> QED
  BY <1>1, <1>2, <1>5 DEF SurfaceInv, Surface!NothingBypassesTheGate

-----------------------------------------------------------------------------
(* A call runs the tool it names, with the credential of its request or     *)
(* that of the identity.                                                   *)
LEMMA HandleTells ==
  ASSUME NEW n, NEW via, NEW by, NEW cred \in {"none", "request"}, setup \in Setups,
         NEW ran \in Surface!Handle(n, via, by, cred), ran # Surface!Nothing
  PROVE  /\ ran.tool = n /\ ran.via = via /\ ran.by = by
         /\ setup.resolver # "unset" => ran.cred # "default"
BY SetupAssumption
   DEF Surface!Handle, Surface!DispatchCatalogOp, Surface!CompiledHandler, Surface!Ran

LEMMA CallsKeepGate ==
  ASSUME SurfaceInv, Surface!CallMeta \/ Surface!CallDirect
  PROVE  SurfaceInv'
<1>1. /\ build = "ready" /\ WireRuns /\ setup \in Setups
      /\ UNCHANGED <<setup, build, tools, specs, wire>>
  BY DEF SurfaceInv, Surface!CallMeta, Surface!CallDirect
<1>2. Surface!NothingBypassesTheGate'
  <2>0. CASE lastCall' = Surface!Nothing
    BY <2>0 DEF Surface!NothingBypassesTheGate, Surface!Nothing
  <2>1. CASE Surface!CallMeta /\ lastCall' # Surface!Nothing
    <3>1. PICK via \in Surface!MetaTools, n \in DOMAIN tools \cup {"nosuch"},
               cred \in {"none", "request"} : lastCall' \in Surface!Invoke(n, via, cred)
      BY <2>1 DEF Surface!CallMeta, Surface!Names
    <3>2. /\ n \in DOMAIN tools /\ Surface!Dispatcher(tools[n]) = via
          /\ tools[n].category # "admin" /\ ~tools[n].human
          /\ lastCall' \in Surface!Handle(n, via, tools[n].by, cred)
      BY <2>1, <3>1 DEF Surface!Invoke, Surface!Names
    <3>3. /\ lastCall'.tool = n /\ lastCall'.via = via /\ lastCall'.by = tools[n].by
          /\ setup.resolver # "unset" => lastCall'.cred # "default"
      BY <1>1, <2>1, <3>2, HandleTells
    <3>4. via # "direct"
      BY DEF Surface!MetaTools
    <3> QED
      BY <1>1, <3>2, <3>3, <3>4 DEF Surface!NothingBypassesTheGate, Surface!Names,
                                    Surface!Dispatcher
  <2>2. CASE Surface!CallDirect /\ lastCall' # Surface!Nothing
    <3>1. PICK n \in DOMAIN wire \ Surface!MetaTools, cred \in {"none", "request"} :
            lastCall' \in Surface!Handle(n, "direct", wire[n], cred)
      BY <2>2 DEF Surface!CallDirect
    <3>2. /\ lastCall'.tool = n /\ lastCall'.via = "direct" /\ lastCall'.by = wire[n]
          /\ setup.resolver # "unset" => lastCall'.cred # "default"
      BY <1>1, <2>2, <3>1, HandleTells
    <3>3. n \in DOMAIN tools => Surface!AgentDirectSafe(tools[n]) /\ wire[n] = tools[n].by
      BY <1>1 DEF WireRuns
    <3> QED
      BY <1>1, <3>2, <3>3 DEF Surface!NothingBypassesTheGate, Surface!Names,
                              Surface!AgentDirectSafe
  <2> QED
    BY <2>0, <2>1, <2>2
<1> QED
  BY <1>1, <1>2 DEF SurfaceInv, WireRuns

LEMMA SurfaceStep == SurfaceInv /\ [Surface!SurfaceNext]_surfaceState => SurfaceInv'
<1> SUFFICES ASSUME SurfaceInv, [Surface!SurfaceNext]_surfaceState
             PROVE  SurfaceInv'
  OBVIOUS
<1>1. CASE Surface!BuildCatalog
  <2>1. Table(Surface!RouteVaultSetupHandlers(Surface!CompiledOps))
    BY Compiled, Routed
  <2>2. Table(tools')
    BY <1>1, <2>1, Stamped DEF Surface!BuildCatalog
  <2> QED
    BY <1>1, <2>2 DEF Surface!BuildCatalog, SurfaceInv, Surface!NothingBypassesTheGate
<1>2. CASE Surface!CollectServerExtensions
  <2>1. Plan(specs')
    BY <1>2, Collected
  <2> QED
    BY <1>2, <2>1 DEF Surface!CollectServerExtensions, SurfaceInv, Surface!NothingBypassesTheGate
<1>3. CASE Surface!CompleteExtensions
  BY <1>3, CompletedTakes
<1>4. CASE Surface!OfficialServer
  <2>1. DOMAIN wire' \subseteq Surface!MetaTools
    BY <1>4 DEF Surface!OfficialServer
  <2> QED
    BY <1>4, <2>1 DEF Surface!OfficialServer, SurfaceInv, Taken, Surface!NothingBypassesTheGate,
                      Surface!MetaTools
<1>5. CASE Surface!InstallApps
  BY <1>5 DEF Surface!InstallApps, SurfaceInv, Taken, Surface!NothingBypassesTheGate,
              Surface!MetaTools
<1>6. CASE Surface!RegisterDirect
  BY <1>6, RegisteredRuns
<1>7. CASE Surface!RunHooks
  BY <1>7, HookedRuns
<1>8. CASE Surface!Finalize
  BY <1>8 DEF Surface!Finalize, SurfaceInv, WireRuns, Surface!NothingBypassesTheGate
<1>9. CASE Surface!CallMeta \/ Surface!CallDirect
  BY <1>9, CallsKeepGate
<1>10. CASE UNCHANGED surfaceState
  BY <1>10 DEF surfaceState, SurfaceInv, Taken, WireRuns, Surface!Flat, Surface!MetaTools,
               Surface!NothingBypassesTheGate, Surface!Names, Surface!Dispatcher
<1> QED
  BY <1>1, <1>2, <1>3, <1>4, <1>5, <1>6, <1>7, <1>8, <1>9, <1>10 DEF Surface!SurfaceNext

-----------------------------------------------------------------------------
(* What a server lists: the plan has the tools the capabilities name, the   *)
(* guide's names may be called, and the wire is what is direct.             *)
Transfers  == {"upload_file", "upload_url", "vault_put_file", "download_file"}
GuideNames ==
  {"auth_status", "auth_sso", "auth_resume", "vault_create", "vault_create_resume",
   "vault_status", "vault_sync", "pins_add", "pins_rm", "websites_create", "capabilities",
   "agent_guide"} \cup Transfers

Of(s) == {s[i] : i \in DOMAIN s}
SpecTells(s) ==
  /\ s.name \in Transfers => s.name \in Surface!Capabilities /\ "direct" \in s.roles
  /\ s.name = "auth_sso" => s.entry.direct

DirectSpecs == {s.name : s \in {x \in Of(specs) : "direct" \in x.roles}}
PlanTells ==
  /\ \A s \in Of(specs) : SpecTells(s)
  /\ Surface!Capabilities \cup {"agent_guide"} \subseteq DirectSpecs

Guided(f) == \A n \in DOMAIN f \cap GuideNames : Surface!AgentDirectSafe(f[n])
Fresh ==
  /\ Guided(tools)
  /\ DOMAIN tools \cap (Surface!MetaTools \cup Transfers \cup {"auth_sso"}) = {}
NamesTell ==
  /\ Table(tools) /\ Guided(tools) /\ "open_app" \in DOMAIN tools
  /\ DOMAIN tools \cap Surface!MetaTools = {}
  /\ DOMAIN tools \cap Transfers \subseteq Surface!Capabilities
  /\ "auth_sso" \in DOMAIN tools => tools["auth_sso"].direct
  /\ custom \subseteq DirectSpecs
  /\ \A s \in Of(specs) : "app" \in s.roles => s.name \in DOMAIN tools

(* The instructions were written before the wire.                          *)
InstructionsTell ==
  /\ instructions.count = Surface!Cardinality(DOMAIN tools)
  /\ instructions.named \subseteq GuideNames \cap (DOMAIN tools \cup custom \cup {"agent_guide"})
  /\ instructions.listed \subseteq GuideNames \cap (DOMAIN tools \cup custom)
  /\ ~Surface!Flat => instructions.listed \subseteq DirectSpecs \cup {"auth_sso"}

MetaListed == DOMAIN wire \cap Surface!MetaTools = IF Surface!MetaOnWire THEN Surface!MetaTools ELSE {}
Listed ==
  /\ DOMAIN wire \ Surface!MetaTools = Surface!DirectNames(tools) \cup DirectSpecs
  /\ Surface!Flat => \A n \in DOMAIN tools :
                       Surface!AgentDirectSafe(tools[n]) => n \in Surface!DirectNames(tools)

ListInv ==
  /\ build \in {"collect", "complete"} => Fresh
  /\ build \in {"complete", "serve", "apps", "direct", "hooks", "finalize", "ready"} => PlanTells
  /\ build \in {"serve", "apps", "direct", "hooks", "finalize", "ready"} => NamesTell
  /\ build \in {"apps", "direct", "hooks", "finalize", "ready"} => InstructionsTell /\ MetaListed
  /\ build \in {"direct", "hooks", "finalize", "ready"} => views \subseteq DOMAIN tools
  /\ build \in {"hooks", "finalize", "ready"} => Listed
  /\ build = "ready" => direct = DOMAIN wire \ Surface!MetaTools

LEMMA ListStarts == Surface!SurfaceInit => ListInv
BY DEF Surface!SurfaceInit, ListInv

(* Of what was compiled, only two names are a human's and one is for        *)
(* administrators; the vault's is handed off.                              *)
Fits(n, e) ==
  /\ e.category # "wizard" /\ (e.category = "admin" => n = "admin_users")
  /\ e.human => n \in {"config_edit", "vault_create"}
Reserved == Surface!MetaTools \cup Transfers \cup {"auth_sso"}
Fitting(f) == \A n \in DOMAIN f : Fits(n, f[n]) /\ n \notin Reserved

LEMMA CompiledFits ==
  ASSUME setup \in Setups
  PROVE  Fitting(Surface!CompiledOps)
<1> DEFINE ofAll == [auth_status |-> Surface!Entry("read", "account", FALSE, "compiled"),
                     admin_users |-> Surface!Entry("read", "admin", FALSE, "compiled"),
                     config_edit |-> Surface!Entry("write", "core", TRUE, "compiled")]
           vault == [vault_create |-> Surface!Entry("write", "storage", TRUE, "compiled"),
                     vault_status |-> Surface!Entry("read", "storage", FALSE, "compiled"),
                     vault_sync   |-> Surface!Entry("write", "storage", FALSE, "compiled")]
           ipfs  == [pins_add |-> Surface!Entry("write", "core", FALSE, "compiled"),
                     pins_rm  |-> Surface!Entry("destructive", "core", FALSE, "compiled"),
                     websites_create |-> Surface!Entry("write", "core", FALSE, "compiled")]
           f == [n \in DOMAIN ofAll \cup (IF Surface!Scope("vault") THEN DOMAIN vault ELSE {})
                                    \cup (IF Surface!Scope("upload") THEN DOMAIN ipfs ELSE {}) |->
                   IF n \in DOMAIN ofAll THEN ofAll[n]
                   ELSE IF n \in DOMAIN vault THEN vault[n] ELSE ipfs[n]]
           extra == Surface!Entry("read", "core", FALSE, "compiled")
<1>1. /\ Fits("auth_status", Surface!Entry("read", "account", FALSE, "compiled"))
      /\ Fits("admin_users", Surface!Entry("read", "admin", FALSE, "compiled"))
      /\ Fits("config_edit", Surface!Entry("write", "core", TRUE, "compiled"))
      /\ Fits("vault_create", Surface!Entry("write", "storage", TRUE, "compiled"))
      /\ Fits("vault_status", Surface!Entry("read", "storage", FALSE, "compiled"))
      /\ Fits("vault_sync", Surface!Entry("write", "storage", FALSE, "compiled"))
      /\ Fits("pins_add", Surface!Entry("write", "core", FALSE, "compiled"))
      /\ Fits("pins_rm", Surface!Entry("destructive", "core", FALSE, "compiled"))
      /\ Fits("websites_create", Surface!Entry("write", "core", FALSE, "compiled"))
      /\ \A n : Fits(n, extra)
  BY DEF Surface!Entry, Fits
<1>2. Fitting(ofAll) /\ Fitting(vault) /\ Fitting(ipfs)
  <2>1. ASSUME NEW x, NEW y, NEW z
        PROVE  /\ Fits("auth_status", x) /\ Fits("admin_users", y) /\ Fits("config_edit", z)
                    => Fitting([auth_status |-> x, admin_users |-> y, config_edit |-> z])
               /\ Fits("vault_create", x) /\ Fits("vault_status", y) /\ Fits("vault_sync", z)
                    => Fitting([vault_create |-> x, vault_status |-> y, vault_sync |-> z])
               /\ Fits("pins_add", x) /\ Fits("pins_rm", y) /\ Fits("websites_create", z)
                    => Fitting([pins_add |-> x, pins_rm |-> y, websites_create |-> z])
    BY DEF Fitting, Reserved, Surface!MetaTools, Transfers
  <2> QED
    BY <1>1, <2>1
<1>3. Surface!CompiledOps = IF setup.clash = "none" THEN f ELSE Surface!With(f, setup.clash, extra)
  BY DEF Surface!CompiledOps
<1>4. setup.clash \notin Reserved
  BY SurfaceAssumption DEF Reserved, Transfers
<1> HIDE DEF ofAll, vault, ipfs, extra
<1>5. Fitting(f)
  BY <1>2 DEF Fitting
<1> HIDE DEF f
<1> QED
  BY <1>1, <1>3, <1>4, <1>5 DEF Fitting, Surface!With

LEMMA BuiltFresh ==
  ASSUME SurfaceInv, Surface!BuildCatalog
  PROVE  ListInv'
<1> DEFINE f == Surface!CompiledOps
           g == Surface!RouteVaultSetupHandlers(f)
           e == [f["vault_create"] EXCEPT !.by = "handoff", !.human = FALSE]
<1>1. tools' = Surface!StampDirectTools(g) /\ build' = "collect"
  BY DEF Surface!BuildCatalog
<1>2. Table(f) /\ Fitting(f) /\ Table(g)
  BY Compiled, CompiledFits, Routed DEF SurfaceInv
<1>3. g = IF "vault_create" \in DOMAIN f THEN Surface!With(f, "vault_create", e) ELSE f
  BY DEF Surface!RouteVaultSetupHandlers
<1>4. "vault_create" \in DOMAIN f => e.human = FALSE /\ e.category = f["vault_create"].category
  BY <1>2 DEF Table, ToolEntries
<1> HIDE DEF e, f, g
<1>5. /\ DOMAIN g = DOMAIN f
      /\ \A n \in DOMAIN g : IF n = "vault_create" THEN g[n] = e ELSE g[n] = f[n]
  BY <1>3 DEF Surface!With
<1>6. ASSUME NEW n \in DOMAIN g, n \in GuideNames
      PROVE  Surface!AgentDirectSafe(g[n])
  <2>1. Fits(n, f[n])
    BY <1>2, <1>5, <1>6 DEF Fitting
  <2>2. n # "admin_users" /\ n # "config_edit"
    BY <1>6 DEF GuideNames, Transfers
  <2> QED
    BY <1>4, <1>5, <1>6, <2>1, <2>2 DEF Fits, Surface!AgentDirectSafe
<1>7. /\ DOMAIN tools' = DOMAIN g
      /\ \A n \in DOMAIN g : Surface!AgentDirectSafe(tools'[n]) <=> Surface!AgentDirectSafe(g[n])
  BY <1>1, <1>2, Stamped
<1>8. Fresh'
  BY <1>2, <1>5, <1>6, <1>7 DEF Fresh, Guided, Fitting, Reserved, Surface!AgentDirectSafe,
                                Surface!MetaTools
<1> QED
  BY <1>1, <1>8 DEF ListInv

(* The plan: a transfer tool is declared when the capabilities name it, and *)
(* then direct.                                                            *)
Tells(s) == s \in Seq(Specs) /\ \A x \in Of(s) : SpecTells(x)
Provides(s, n) == \E x \in Of(s) : x.name = n /\ "direct" \in x.roles

LEMMA JoinedTells ==
  ASSUME NEW s, Tells(s), NEW t, Tells(t)
  PROVE  /\ Tells(s \o t)
         /\ \A n : Provides(s, n) \/ Provides(t, n) => Provides(s \o t, n)
<1>1. s \in Seq(Specs) /\ t \in Seq(Specs)
  BY DEF Tells
<1>2. /\ s \o t \in Seq(Specs) /\ Len(s \o t) = Len(s) + Len(t)
      /\ \A i \in 1..(Len(s) + Len(t)) : (s \o t)[i] = IF i <= Len(s) THEN s[i] ELSE t[i - Len(s)]
  BY <1>1
<1>3. \A i \in DOMAIN (s \o t) :
        \/ i \in DOMAIN s /\ (s \o t)[i] = s[i]
        \/ i - Len(s) \in DOMAIN t /\ (s \o t)[i] = t[i - Len(s)]
  BY <1>1, <1>2
<1>4. \A i \in DOMAIN s : i \in DOMAIN (s \o t) /\ (s \o t)[i] = s[i]
  BY <1>1, <1>2
<1>5. \A i \in DOMAIN t : i + Len(s) \in DOMAIN (s \o t) /\ (s \o t)[i + Len(s)] = t[i]
  BY <1>1, <1>2
<1>6. Of(s \o t) \subseteq Of(s) \cup Of(t)
  BY <1>3 DEF Of
<1>7. Of(s) \cup Of(t) \subseteq Of(s \o t)
  BY <1>4, <1>5 DEF Of
<1> QED
  BY <1>2, <1>6, <1>7 DEF Tells, Provides

LEMMA OneTells ==
  ASSUME NEW name \in Labels, NEW roles \in SUBSET {"search", "direct", "app"},
         NEW e \in Extensions,
         name \in Transfers => name \in Surface!Capabilities /\ "direct" \in roles,
         name = "auth_sso" => e.direct
  PROVE  /\ Tells(<<Surface!Spec(name, roles, e)>>)
         /\ "direct" \in roles => Provides(<<Surface!Spec(name, roles, e)>>, name)
<1> DEFINE x == Surface!Spec(name, roles, e)
<1>1. <<x>> \in Seq(Specs)
  BY OneSpec
<1>2. x.name = name /\ x.roles = roles /\ x.entry = e
  BY DEF Surface!Spec
<1> HIDE DEF x
<1>3. Of(<<x>>) = {x}
  BY DEF Of
<1> QED
  BY <1>1, <1>2, <1>3 DEF Tells, Provides, SpecTells, x

LEMMA PiecesTell ==
  ASSUME NEW name \in Labels, name # "auth_sso"
  PROVE  /\ name \notin Transfers =>
              Tells(Surface!SearchableOnly(name)) /\ Tells(Surface!Launcher(name))
         /\ name \in Transfers \cap Surface!Capabilities =>
              /\ \A class \in {"read", "write"} :
                   /\ Tells(Surface!DirectSearchable(name, class))
                   /\ Provides(Surface!DirectSearchable(name, class), name)
              /\ \A drop : /\ Tells(Surface!FileSpec(name, drop))
                           /\ Provides(Surface!FileSpec(name, drop), name)
         /\ name \notin Transfers =>
              /\ Tells(Surface!DirectSearchable(name, "read"))
              /\ Provides(Surface!DirectSearchable(name, "read"), name)
BY OneTells, Declared
   DEF Surface!SearchableOnly, Surface!DirectSearchable, Surface!Launcher, Surface!FileSpec

LEMMA CapabilitiesMean ==
  /\ "upload_file" \in Surface!Capabilities <=> Surface!Avail.uploadFile
  /\ "upload_url" \in Surface!Capabilities <=> Surface!Avail.uploadURL
  /\ "vault_put_file" \in Surface!Capabilities <=> Surface!Avail.vaultPut
  /\ "download_file" \in Surface!Capabilities <=> Surface!Avail.download
  /\ Surface!Capabilities \subseteq Transfers
BY DEF Surface!Capabilities, Transfers

LEMMA PartsTell ==
  /\ Tells(Surface!AuthSpecs) /\ Tells(Surface!VaultSpecs) /\ Tells(Surface!VaultPutSpecs)
  /\ Tells(Surface!UploadSpecs) /\ Tells(Surface!RelaySpecs) /\ Tells(Surface!DownloadSpecs)
  /\ Tells(Surface!GuideSpecs)
  /\ Provides(Surface!GuideSpecs, "agent_guide")
  /\ "upload_file" \in Surface!Capabilities => Provides(Surface!UploadSpecs, "upload_file")
  /\ "upload_url" \in Surface!Capabilities => Provides(Surface!RelaySpecs, "upload_url")
  /\ "vault_put_file" \in Surface!Capabilities => Provides(Surface!VaultPutSpecs, "vault_put_file")
  /\ "download_file" \in Surface!Capabilities => Provides(Surface!DownloadSpecs, "download_file")
<1>1. Tells(<<>>)
  BY DEF Tells, Of
<1>2. Tells(Surface!AuthSpecs)
  <2> DEFINE e == [Surface!Extension("write") EXCEPT !.direct = TRUE]
  <2>1. e \in Extensions /\ e.direct
    BY Declared, MadeDirect DEF Extensions, ToolEntries
  <2> HIDE DEF e
  <2>2. Tells(<<Surface!Spec("auth_sso", {"search"}, e)>>)
    BY <2>1, OneTells DEF Labels, Transfers
  <2>3. Tells(Surface!SearchableOnly("auth_resume")) /\ Tells(Surface!Launcher("open_sso_signin"))
    BY PiecesTell DEF Labels, Transfers
  <2> QED
    BY <1>1, <2>2, <2>3, JoinedTells DEF Surface!AuthSpecs, Surface!If, e
<1>3. Tells(Surface!VaultSpecs)
  <2>1. Tells(Surface!SearchableOnly("vault_create_resume")) /\ Tells(Surface!Launcher("open_vault_create"))
    BY PiecesTell DEF Labels, Transfers
  <2> QED
    BY <1>1, <2>1, JoinedTells DEF Surface!VaultSpecs, Surface!If
<1>4. /\ Tells(Surface!VaultPutSpecs)
      /\ "vault_put_file" \in Surface!Capabilities => Provides(Surface!VaultPutSpecs, "vault_put_file")
  <2> DEFINE s == Surface!If(Surface!DropReachable, Surface!Launcher("open_vault_manager"))
             t == Surface!FileSpec("vault_put_file", setup.drop)
  <2>1. Tells(s)
    BY <1>1, PiecesTell DEF Labels, Transfers, Surface!If
  <2>2. Surface!Avail.vaultPut => Tells(t) /\ Provides(t, "vault_put_file")
    BY PiecesTell, CapabilitiesMean DEF Labels, Transfers
  <2> HIDE DEF s, t
  <2>3. Surface!Avail.vaultPut => Tells(s \o t) /\ Provides(s \o t, "vault_put_file")
    BY <2>1, <2>2, JoinedTells
  <2> QED
    BY <1>1, <2>3, CapabilitiesMean DEF Surface!VaultPutSpecs, Surface!If, s, t
<1>5. /\ Tells(Surface!UploadSpecs)
      /\ "upload_file" \in Surface!Capabilities => Provides(Surface!UploadSpecs, "upload_file")
  <2> DEFINE s == Surface!If(Surface!DropReachable, Surface!Launcher("open_upload_manager"))
             t == Surface!FileSpec("upload_file", setup.drop)
  <2>1. Tells(s)
    BY <1>1, PiecesTell DEF Labels, Transfers, Surface!If
  <2>2. Surface!Avail.uploadFile => Tells(t) /\ Provides(t, "upload_file")
    BY PiecesTell, CapabilitiesMean DEF Labels, Transfers
  <2> HIDE DEF s, t
  <2>3. Surface!Avail.uploadFile => Tells(s \o t) /\ Provides(s \o t, "upload_file")
    BY <2>1, <2>2, JoinedTells
  <2> QED
    BY <1>1, <2>3, CapabilitiesMean DEF Surface!UploadSpecs, Surface!If, s, t
<1>6. /\ Tells(Surface!RelaySpecs)
      /\ "upload_url" \in Surface!Capabilities => Provides(Surface!RelaySpecs, "upload_url")
  <2>1. Surface!Avail.uploadURL =>
          /\ Tells(Surface!DirectSearchable("upload_url", "write"))
          /\ Provides(Surface!DirectSearchable("upload_url", "write"), "upload_url")
    BY PiecesTell, CapabilitiesMean DEF Labels, Transfers
  <2> QED
    BY <1>1, <2>1, CapabilitiesMean DEF Surface!RelaySpecs, Surface!If
<1>7. /\ Tells(Surface!DownloadSpecs)
      /\ "download_file" \in Surface!Capabilities => Provides(Surface!DownloadSpecs, "download_file")
  <2> DEFINE s == Surface!Launcher("open_download_manager")
             t == Surface!DirectSearchable("download_file", "read")
  <2>1. Tells(s)
    BY PiecesTell DEF Labels, Transfers
  <2>2. Surface!Avail.download => Tells(t) /\ Provides(t, "download_file")
    BY PiecesTell, CapabilitiesMean DEF Labels, Transfers
  <2> HIDE DEF s, t
  <2>3. Surface!Avail.download => Tells(s \o t) /\ Provides(s \o t, "download_file")
    BY <2>1, <2>2, JoinedTells
  <2> QED
    BY <1>1, <2>3, CapabilitiesMean DEF Surface!DownloadSpecs, Surface!If, s, t
<1>8. Tells(Surface!GuideSpecs) /\ Provides(Surface!GuideSpecs, "agent_guide")
  <2>1. /\ Tells(Surface!DirectSearchable("capabilities", "read"))
        /\ Tells(Surface!DirectSearchable("agent_guide", "read"))
        /\ Provides(Surface!DirectSearchable("agent_guide", "read"), "agent_guide")
    BY PiecesTell DEF Labels, Transfers
  <2> QED
    BY <2>1, JoinedTells DEF Surface!GuideSpecs
<1> QED
  BY <1>2, <1>3, <1>4, <1>5, <1>6, <1>7, <1>8

LEMMA CollectedTells ==
  ASSUME ListInv, Surface!CollectServerExtensions
  PROVE  ListInv'
<1> DEFINE s0 == Surface!SearchableOnly("open_app")
           s1 == s0 \o Surface!AuthSpecs
           s2 == s1 \o Surface!VaultSpecs
           s3 == s2 \o Surface!Launcher("open_pin_list")
           s4 == s3 \o Surface!VaultPutSpecs
           s5 == s4 \o Surface!RelaySpecs
           s6 == s5 \o Surface!DownloadSpecs
           s7 == s6 \o Surface!UploadSpecs
           s8 == s7 \o Surface!GuideSpecs
<1>1. specs' = s8 /\ build = "collect" /\ build' = "complete" /\ UNCHANGED <<setup, tools>>
  BY DEF Surface!CollectServerExtensions
<1>2. Tells(s0)
  <2> DEFINE x == Surface!Spec("open_app", {"search"}, Surface!Extension("write"))
  <2>1. x \in Specs /\ x.name = "open_app"
    BY Declared DEF Surface!Spec, Specs
  <2> HIDE DEF x
  <2>2. <<x>> \in Seq(Specs) /\ Of(<<x>>) = {x}
    BY <2>1 DEF Of
  <2> QED
    BY <2>1, <2>2 DEF Tells, SpecTells, Surface!SearchableOnly, Transfers, x
<1>3. Tells(Surface!Launcher("open_pin_list"))
  BY PiecesTell DEF Labels, Transfers
<1> HIDE DEF s0
<1>4. Tells(s1)
  BY <1>2, PartsTell, JoinedTells
<1> HIDE DEF s1
<1>5. Tells(s2)
  BY <1>4, PartsTell, JoinedTells
<1> HIDE DEF s2
<1>6. Tells(s3)
  BY <1>3, <1>5, JoinedTells
<1> HIDE DEF s3
<1>7. Tells(s4) /\ ("vault_put_file" \in Surface!Capabilities => Provides(s4, "vault_put_file"))
  BY <1>6, PartsTell, JoinedTells
<1> HIDE DEF s4
<1>8. Tells(s5) /\ \A n \in Surface!Capabilities \cap {"vault_put_file", "upload_url"} : Provides(s5, n)
  BY <1>7, PartsTell, JoinedTells
<1> HIDE DEF s5
<1>9. /\ Tells(s6)
      /\ \A n \in Surface!Capabilities \cap {"vault_put_file", "upload_url", "download_file"} : Provides(s6, n)
  BY <1>8, PartsTell, JoinedTells
<1> HIDE DEF s6
<1>10. Tells(s7) /\ \A n \in Surface!Capabilities \cap Transfers : Provides(s7, n)
  <2>1. \A n \in Surface!Capabilities \cap Transfers :
          n = "upload_file" \/ n \in Surface!Capabilities \cap {"vault_put_file", "upload_url", "download_file"}
    BY DEF Transfers
  <2> QED
    BY <1>9, <2>1, PartsTell, JoinedTells
<1> HIDE DEF s7
<1>11. Tells(s8) /\ \A n \in Surface!Capabilities \cup {"agent_guide"} : Provides(s8, n)
  BY <1>10, PartsTell, JoinedTells, CapabilitiesMean
<1> HIDE DEF s8
<1>12. PlanTells'
  <2>1. Surface!Capabilities' = Surface!Capabilities
    BY <1>1 DEF Surface!Capabilities, Surface!Avail, Surface!Scope, Surface!TransferBranch,
                Surface!CoLocated, Surface!Tunnelled, Surface!DropReachable
  <2>2. \A n : Provides(s8, n) => n \in DirectSpecs'
    BY <1>1 DEF Provides, DirectSpecs
  <2> QED
    BY <1>1, <1>11, <2>1, <2>2 DEF PlanTells, Tells, SpecTells
<1>13. Fresh'
  BY <1>1 DEF ListInv, Fresh, Guided, Surface!AgentDirectSafe, Surface!MetaTools
<1> QED
  BY <1>1, <1>12, <1>13 DEF ListInv

LEMMA SetupKept ==
  ASSUME setup' = setup, specs' = specs
  PROVE  /\ Surface!Flat' = Surface!Flat /\ Surface!MetaOnWire' = Surface!MetaOnWire
         /\ Surface!MetaTools' = Surface!MetaTools
         /\ Surface!Capabilities' = Surface!Capabilities /\ DirectSpecs' = DirectSpecs
         /\ PlanTells => PlanTells'
<1>1. Surface!Capabilities' = Surface!Capabilities
  BY DEF Surface!Capabilities, Surface!Avail, Surface!Scope, Surface!TransferBranch,
         Surface!CoLocated, Surface!Tunnelled, Surface!DropReachable
<1>2. DirectSpecs' = DirectSpecs
  BY DEF DirectSpecs
<1>3. Surface!Flat' = Surface!Flat /\ Surface!MetaOnWire' = Surface!MetaOnWire
  BY DEF Surface!Flat, Surface!MetaOnWire
<1>4. Surface!MetaTools' = Surface!MetaTools
  BY DEF Surface!MetaTools
<1>5. PlanTells => PlanTells'
  BY <1>1, <1>2 DEF PlanTells, SpecTells
<1> QED
  BY <1>1, <1>2, <1>3, <1>4, <1>5

LEMMA CompletedTells ==
  ASSUME SurfaceInv, ListInv, Surface!CompleteExtensions
  PROVE  ListInv'
<1> USE DEF Surface!CompleteExtensions
<1>1. Plan(specs) /\ Fresh /\ PlanTells /\ UNCHANGED <<setup, specs>>
  BY DEF SurfaceInv, ListInv
<1>2. CASE build' = "refused"
  BY <1>2 DEF ListInv
<1>3. CASE build' # "refused"
  <2> DEFINE provided == Surface!Merge(tools, Surface!Provided)
             searched == {specs[i].name : i \in Surface!Named(specs, "search")}
             taken == [n \in searched |-> Surface!SpecOf(n).entry]
  <2>1. /\ tools' = Surface!Merge(provided, taken) /\ build' = "serve"
        /\ \A i \in DOMAIN specs : Surface!ValidSpec(specs[i])
        /\ custom' = {specs[i].name : i \in Surface!Named(specs, "direct") \ Surface!Named(specs, "search")}
    BY <1>3
  <2>2. Table(tools') /\ "open_app" \in DOMAIN tools'
    BY <2>1, CompletedTakes DEF SurfaceInv, Taken
  <2>3. /\ DOMAIN tools' = DOMAIN tools \cup DOMAIN Surface!Provided \cup searched
        /\ \A n \in searched : tools'[n] = Surface!SpecOf(n).entry
        /\ \A n \in DOMAIN tools \ (searched \cup DOMAIN Surface!Provided) : tools'[n] = tools[n]
    BY <2>1 DEF Surface!Merge
  <2>4. DOMAIN Surface!Provided \subseteq {"websites_wizard_start", "websites_wizard_step"}
    BY DEF Surface!Provided, Surface!NoEntryYet
  <2>5. ASSUME NEW n \in searched
        PROVE  /\ Surface!SpecOf(n) \in Of(specs) /\ Surface!SpecOf(n).name = n
               /\ Surface!SpecOf(n) \in Specs
    <3>1. PICK i \in DOMAIN specs : specs[i].name = n
      BY DEF Surface!Named
    <3> DEFINE j == CHOOSE k \in DOMAIN specs : specs[k].name = n
    <3>2. j \in DOMAIN specs /\ specs[j].name = n
      BY <3>1
    <3>3. Surface!SpecOf(n) = specs[j]
      BY DEF Surface!SpecOf
    <3> HIDE DEF j
    <3> QED
      BY <1>1, <3>2, <3>3 DEF Of, Plan
  <2> HIDE DEF searched, provided, taken
  <2>6. ASSUME NEW n \in searched
        PROVE  /\ n \in Labels \cup {"open_app"} /\ Surface!AgentDirectSafe(tools'[n])
               /\ n = "auth_sso" => tools'[n].direct
               /\ n \in Transfers => n \in Surface!Capabilities
    <3> DEFINE x == Surface!SpecOf(n)
    <3>1. x \in Of(specs) /\ x.name = n /\ x \in Specs /\ tools'[n] = x.entry
      BY <2>3, <2>5
    <3> HIDE DEF x
    <3>2. SpecTells(x)
      BY <1>1, <3>1 DEF PlanTells
    <3>3. x.entry \in Extensions /\ x.name \in Labels \cup {"open_app"}
      BY <3>1 DEF Specs
    <3> QED
      BY <3>1, <3>2, <3>3 DEF SpecTells, Extensions, Surface!AgentDirectSafe
  <2>7. Guided(tools')
    BY <1>1, <2>3, <2>4, <2>6 DEF Guided, Fresh, GuideNames, Transfers
  <2>8. /\ DOMAIN tools' \cap Surface!MetaTools = {}
        /\ DOMAIN tools' \cap Transfers \subseteq Surface!Capabilities
        /\ "auth_sso" \in DOMAIN tools' => tools'["auth_sso"].direct
    BY <1>1, <2>3, <2>4, <2>6 DEF Fresh, Surface!MetaTools, Transfers, Labels
  <2>9. custom' \subseteq DirectSpecs
    BY <2>1 DEF DirectSpecs, Of, Surface!Named
  <2>10. \A s \in Of(specs) : "app" \in s.roles => s.name \in DOMAIN tools'
    BY <2>1, <2>3 DEF Of, Surface!ValidSpec, Surface!Named, searched
  <2>11. NamesTell' /\ PlanTells'
    BY <1>1, <2>2, <2>7, <2>8, <2>9, <2>10, SetupKept DEF NamesTell
  <2> QED
    BY <2>1, <2>11 DEF ListInv
<1> QED
  BY <1>2, <1>3

LEMMA OfficialTells ==
  ASSUME SurfaceInv, ListInv, Surface!OfficialServer
  PROVE  ListInv'
<1>1. /\ build = "serve" /\ build' = "apps" /\ PlanTells /\ NamesTell /\ setup \in Setups
      /\ UNCHANGED <<setup, specs, tools, custom>>
  BY DEF SurfaceInv, ListInv, Surface!OfficialServer
<1>2. /\ instructions' = Surface!Instructions
      /\ DOMAIN wire' = IF Surface!MetaOnWire THEN Surface!MetaTools ELSE {}
  BY DEF Surface!OfficialServer
<1>3. /\ instructions'.count = Surface!Cardinality(DOMAIN tools)
      /\ instructions'.named = Surface!FlowLines \cup Surface!PublishLine \cup {"agent_guide"}
      /\ instructions'.listed = Surface!OOBClause \cup Surface!TailText
  BY <1>2 DEF Surface!Instructions, Surface!Names
<1>4. /\ \A n \in Surface!FlowLines \cup Surface!PublishLine : n \in DOMAIN tools \cup custom
      /\ \A n \in Surface!OOBClause \cup Surface!TailText : n \in DOMAIN tools \cup custom
  BY DEF Surface!FlowLines, Surface!PublishLine, Surface!OOBClause, Surface!TailText,
         Surface!Has, Surface!Names
<1>5. \A d \in setup.scope : Surface!OnboardingFlows[d] \subseteq GuideNames
  <2>1. setup.scope \subseteq {"account", "vault", "upload"}
    BY <1>1, SurfaceAssumption
  <2> QED
    BY <2>1 DEF Surface!OnboardingFlows, GuideNames, Transfers
<1>6. Surface!FlowLines \cup Surface!PublishLine \subseteq GuideNames
  BY <1>5 DEF Surface!FlowLines, Surface!PublishLine, GuideNames, Transfers
<1>7. /\ Surface!OOBClause \subseteq {"auth_sso", "auth_resume"}
      /\ ~Surface!Flat => Surface!OOBClause \subseteq {"auth_sso"}
      /\ Surface!TailText \subseteq Transfers
  BY DEF Surface!OOBClause, Surface!TailText, Transfers
<1>8. Surface!TailText \subseteq DirectSpecs
  BY <1>1, <1>4, <1>7 DEF NamesTell, PlanTells
<1>9. InstructionsTell'
  <2>1. instructions'.named \subseteq GuideNames \cap (DOMAIN tools \cup custom \cup {"agent_guide"})
    BY <1>3, <1>4, <1>6 DEF GuideNames
  <2>2. instructions'.listed \subseteq GuideNames \cap (DOMAIN tools \cup custom)
    BY <1>3, <1>4, <1>7 DEF GuideNames
  <2>3. ~Surface!Flat => instructions'.listed \subseteq DirectSpecs \cup {"auth_sso"}
    BY <1>3, <1>7, <1>8
  <2> QED
    BY <1>1, <1>3, <2>1, <2>2, <2>3, SetupKept DEF InstructionsTell
<1>10. MetaListed'
  BY <1>1, <1>2, SetupKept DEF MetaListed
<1>11. NamesTell' /\ PlanTells'
  BY <1>1, SetupKept DEF NamesTell
<1> QED
  BY <1>1, <1>9, <1>10, <1>11 DEF ListInv

LEMMA AppsTell ==
  ASSUME ListInv, Surface!InstallApps
  PROVE  ListInv'
<1>1. /\ build = "apps" /\ build' = "direct" /\ PlanTells /\ NamesTell /\ InstructionsTell
      /\ MetaListed /\ views' = {specs[i].name : i \in Surface!Named(specs, "app")}
      /\ UNCHANGED <<setup, specs, tools, custom, instructions, wire>>
  BY DEF ListInv, Surface!InstallApps
<1>2. views' \subseteq DOMAIN tools
  BY <1>1 DEF NamesTell, Surface!Named, Of
<1>3. NamesTell' /\ PlanTells' /\ InstructionsTell' /\ MetaListed'
  BY <1>1, SetupKept DEF NamesTell, InstructionsTell, MetaListed
<1> QED
  BY <1>1, <1>2, <1>3 DEF ListInv

LEMMA StampedDirect ==
  ASSUME NEW f, Table(f), NEW g, g = Surface!StampDirectTools(f), NEW n \in DOMAIN f
  PROVE  /\ f[n].direct => g[n].direct
         /\ Surface!Flat /\ Surface!AgentDirectSafe(f[n]) => g[n].direct
<1>1. g[n] = IF \/ Surface!Flat /\ Surface!AgentDirectSafe(f[n])
                \/ ~Surface!Flat /\ n \in Surface!DirectToolNames
             THEN [f[n] EXCEPT !.direct = TRUE] ELSE f[n]
  BY DEF Surface!StampDirectTools
<1>2. [f[n] EXCEPT !.direct = TRUE].direct
  BY DEF Table, ToolEntries
<1> QED
  BY <1>1, <1>2

LEMMA RegisteredTells ==
  ASSUME SurfaceInv, ListInv, Surface!RegisterDirect
  PROVE  ListInv'
<1> DEFINE f == Surface!StampDirectTools(tools)
<1>1. /\ build = "direct" /\ PlanTells /\ NamesTell /\ InstructionsTell /\ MetaListed
      /\ views \subseteq DOMAIN tools /\ DOMAIN wire \subseteq Surface!MetaTools /\ Plan(specs)
      /\ UNCHANGED <<setup, specs, custom, instructions, views>>
  BY DEF SurfaceInv, ListInv, Surface!RegisterDirect
<1>2. /\ tools' = f /\ build' \in {"refused", "hooks"}
      /\ DOMAIN wire' = DOMAIN wire \cup Surface!DirectNames(f) \cup Surface!SpecDirect(f)
  BY DEF Surface!RegisterDirect, Surface!Merge
<1>3. /\ DOMAIN f = DOMAIN tools /\ Table(f)
      /\ \A n \in DOMAIN tools :
           /\ Surface!AgentDirectSafe(f[n]) <=> Surface!AgentDirectSafe(tools[n])
           /\ tools[n].direct => f[n].direct
           /\ Surface!Flat /\ Surface!AgentDirectSafe(tools[n]) => f[n].direct
  BY <1>1, Stamped, StampedDirect DEF NamesTell
<1> HIDE DEF f
<1>4. Surface!SpecDirect(f) = DirectSpecs \ Surface!DirectNames(f)
  BY DEF Surface!SpecDirect, DirectSpecs, Of, Surface!Named
<1>5. DirectSpecs \cap Surface!MetaTools = {}
  <2>1. \A s \in Of(specs) : s.name \in Labels \cup {"open_app"}
    BY <1>1 DEF Of, Plan, Specs
  <2> QED
    BY <2>1 DEF DirectSpecs, Surface!MetaTools, Labels
<1>6. Surface!DirectNames(f) \subseteq DOMAIN tools
  BY <1>3 DEF Surface!DirectNames
<1>7. Listed' /\ MetaListed'
  <2>1. DOMAIN wire' \ Surface!MetaTools = Surface!DirectNames(f) \cup DirectSpecs
    BY <1>1, <1>2, <1>4, <1>5, <1>6 DEF NamesTell
  <2>2. DOMAIN wire' \cap Surface!MetaTools = DOMAIN wire \cap Surface!MetaTools
    BY <1>1, <1>2, <1>4, <1>5, <1>6 DEF NamesTell
  <2>3. Surface!Flat => \A n \in DOMAIN f : Surface!AgentDirectSafe(f[n]) => n \in Surface!DirectNames(f)
    BY <1>3 DEF Surface!DirectNames, Surface!IsDirectEntry
  <2>4. /\ Surface!Flat' = Surface!Flat /\ Surface!MetaOnWire' = Surface!MetaOnWire
        /\ Surface!MetaTools' = Surface!MetaTools /\ DirectSpecs' = DirectSpecs
    BY <1>1, SetupKept
  <2>5. Surface!DirectNames(tools)' = Surface!DirectNames(f)
    BY <1>2 DEF Surface!DirectNames
  <2> QED
    BY <1>1, <1>2, <2>1, <2>2, <2>3, <2>4, <2>5 DEF Listed, MetaListed, Surface!AgentDirectSafe
<1>8. NamesTell'
  <2>1. Guided(f)
    BY <1>1, <1>3 DEF NamesTell, Guided
  <2> QED
    BY <1>1, <1>2, <1>3, <2>1, SetupKept DEF NamesTell, Transfers
<1>9. PlanTells' /\ InstructionsTell' /\ (views \subseteq DOMAIN tools)'
  BY <1>1, <1>2, <1>3, SetupKept DEF InstructionsTell
<1> QED
  BY <1>2, <1>7, <1>8, <1>9 DEF ListInv

LEMMA HookedTells ==
  ASSUME SurfaceInv, ListInv, Surface!RunHooks
  PROVE  ListInv'
<1> DEFINE b == "apps" \in setup.features \/ Surface!Flat
           e == [Surface!Entry("write", "core", FALSE, "rebuilt") EXCEPT !.direct = b]
<1>1. /\ PlanTells /\ NamesTell /\ InstructionsTell /\ MetaListed /\ Listed
      /\ views \subseteq DOMAIN tools /\ ("open_app" \in DOMAIN wire => Surface!Flat)
      /\ build' = "finalize" /\ UNCHANGED <<setup, specs, custom, instructions, views>>
  BY DEF SurfaceInv, ListInv, Surface!RunHooks
<1>2. /\ tools' = Surface!With(tools, "open_app", e)
      /\ wire' = IF e.direct THEN Surface!With(wire, "open_app", "rebuilt") ELSE wire
  BY DEF Surface!RunHooks, Surface!OpenAppHook
<1>3. /\ e.category = "core" /\ e.human = FALSE /\ (e.direct <=> b)
      /\ e \in ToolEntries
  BY DEF Surface!Entry, ToolEntries
<1>4. Surface!Flat => e.direct
  BY <1>3
<1> HIDE DEF e, b
<1>5. Surface!AgentDirectSafe(e)
  BY <1>3 DEF Surface!AgentDirectSafe
<1>6. /\ DOMAIN tools' = DOMAIN tools /\ tools'["open_app"] = e
      /\ \A n \in DOMAIN tools : n # "open_app" => tools'[n] = tools[n]
      /\ DOMAIN wire' = IF e.direct THEN DOMAIN wire \cup {"open_app"} ELSE DOMAIN wire
  BY <1>1, <1>2 DEF Surface!With, NamesTell
<1>7. Surface!DirectNames(tools') =
        (Surface!DirectNames(tools) \ {"open_app"}) \cup (IF e.direct THEN {"open_app"} ELSE {})
  BY <1>1, <1>5, <1>6 DEF Surface!DirectNames, Surface!IsDirectEntry, NamesTell
<1>8. Listed' /\ MetaListed'
  <2>0. "open_app" \notin Surface!MetaTools
    BY DEF Surface!MetaTools
  <2>1. DOMAIN wire' \ Surface!MetaTools = Surface!DirectNames(tools') \cup DirectSpecs
    BY <1>1, <1>4, <1>6, <1>7, <2>0 DEF Listed
  <2>2. DOMAIN wire' \cap Surface!MetaTools = DOMAIN wire \cap Surface!MetaTools
    BY <1>6, <2>0
  <2>3. Surface!Flat => \A n \in DOMAIN tools' :
                          Surface!AgentDirectSafe(tools'[n]) => n \in Surface!DirectNames(tools')
    BY <1>1, <1>4, <1>6, <1>7 DEF Listed
  <2>4. /\ Surface!Flat' = Surface!Flat /\ Surface!MetaOnWire' = Surface!MetaOnWire
        /\ Surface!MetaTools' = Surface!MetaTools /\ DirectSpecs' = DirectSpecs
    BY <1>1, SetupKept
  <2>5. Surface!DirectNames(tools)' = Surface!DirectNames(tools')
    BY DEF Surface!DirectNames
  <2> QED
    BY <1>1, <2>1, <2>2, <2>3, <2>4, <2>5 DEF Listed, MetaListed, Surface!AgentDirectSafe
<1>9. NamesTell'
  <2>1. Guided(tools')
    BY <1>1, <1>6 DEF NamesTell, Guided, GuideNames, Transfers
  <2>2. Table(tools')
    BY <1>1, <1>2, <1>3, Added DEF NamesTell
  <2> QED
    BY <1>1, <1>6, <2>1, <2>2, SetupKept DEF NamesTell, Transfers
<1>10. PlanTells' /\ InstructionsTell' /\ (views \subseteq DOMAIN tools)'
  BY <1>1, <1>6, SetupKept DEF InstructionsTell
<1> QED
  BY <1>1, <1>8, <1>9, <1>10 DEF ListInv

LEMMA ListKept ==
  ASSUME ListInv, UNCHANGED <<setup, tools, specs, custom, instructions, wire, views>>,
         \/ build' = build /\ direct' = direct
         \/ build = "finalize" /\ build' = "ready" /\ direct' = DOMAIN wire \ Surface!MetaTools
  PROVE  ListInv'
<1>1. /\ Surface!Flat' = Surface!Flat /\ Surface!MetaOnWire' = Surface!MetaOnWire
      /\ Surface!MetaTools' = Surface!MetaTools
      /\ Surface!Capabilities' = Surface!Capabilities /\ DirectSpecs' = DirectSpecs
      /\ PlanTells => PlanTells'
  BY SetupKept
<1>2. Fresh => Fresh'
  BY <1>1 DEF Fresh
<1>3. NamesTell => NamesTell'
  BY <1>1 DEF NamesTell
<1>4. (InstructionsTell => InstructionsTell') /\ (MetaListed => MetaListed')
  BY <1>1 DEF InstructionsTell, MetaListed
<1>5. Listed => Listed'
  BY <1>1 DEF Listed, Surface!DirectNames, Surface!AgentDirectSafe
<1> QED
  BY <1>1, <1>2, <1>3, <1>4, <1>5 DEF ListInv

LEMMA ListStep ==
  ASSUME SurfaceInv, ListInv, [Surface!SurfaceNext]_surfaceState
  PROVE  ListInv'
<1>1. CASE Surface!BuildCatalog
  BY <1>1, BuiltFresh
<1>2. CASE Surface!CollectServerExtensions
  BY <1>2, CollectedTells
<1>3. CASE Surface!CompleteExtensions
  BY <1>3, CompletedTells
<1>4. CASE Surface!OfficialServer
  BY <1>4, OfficialTells
<1>5. CASE Surface!InstallApps
  BY <1>5, AppsTell
<1>6. CASE Surface!RegisterDirect
  BY <1>6, RegisteredTells
<1>7. CASE Surface!RunHooks
  BY <1>7, HookedTells
<1>8. CASE Surface!Finalize
  <2>1. /\ build = "finalize" /\ build' = "ready"
        /\ direct' = Surface!DirectNames(tools) \cup Surface!SpecDirect(tools)
        /\ UNCHANGED <<setup, tools, specs, custom, instructions, wire, views>>
    BY <1>8 DEF Surface!Finalize
  <2>2. Surface!SpecDirect(tools) = DirectSpecs \ Surface!DirectNames(tools)
    BY DEF Surface!SpecDirect, DirectSpecs, Of, Surface!Named
  <2>3. direct' = DOMAIN wire \ Surface!MetaTools
    BY <2>1, <2>2 DEF ListInv, Listed
  <2> QED
    BY <2>1, <2>3, ListKept
<1>9. CASE Surface!CallMeta \/ Surface!CallDirect \/ UNCHANGED surfaceState
  <2>1. UNCHANGED <<setup, tools, specs, custom, instructions, wire, views, build, direct>>
    BY <1>9 DEF Surface!CallMeta, Surface!CallDirect, surfaceState
  <2> QED
    BY <2>1, ListKept
<1> QED
  BY <1>1, <1>2, <1>3, <1>4, <1>5, <1>6, <1>7, <1>8, <1>9 DEF Surface!SurfaceNext

(* What the guide's flows keep after a server's tools were filtered.       *)
LEMMA FlowsNamed ==
  ASSUME NEW g \in Surface!FlowSpecs
  PROVE  g.steps \subseteq GuideNames /\ \A b \in g.branches : b \subseteq GuideNames
<1>1. ASSUME NEW gate, NEW steps, steps \subseteq GuideNames, NEW required,
             NEW branches, \A b \in branches : b \subseteq GuideNames,
             g = Surface!Flow(gate, steps, required, branches)
      PROVE  g.steps \subseteq GuideNames /\ \A b \in g.branches : b \subseteq GuideNames
  BY <1>1 DEF Surface!Flow
<1>2. /\ {"auth_status", "auth_sso", "auth_resume"} \subseteq GuideNames
      /\ {"vault_create", "vault_create_resume", "vault_status"} \subseteq GuideNames
      /\ {"capabilities"} \subseteq GuideNames /\ {"upload_file"} \subseteq GuideNames
      /\ {"upload_url"} \subseteq GuideNames /\ {"vault_put_file"} \subseteq GuideNames
      /\ {"capabilities", "download_file"} \subseteq GuideNames
      /\ {"vault_status", "vault_sync"} \subseteq GuideNames
      /\ {"pins_add", "pins_rm"} \subseteq GuideNames /\ {"websites_create"} \subseteq GuideNames
      /\ {} \subseteq GuideNames
  BY DEF GuideNames, Transfers
<1>3. /\ \A b \in {} : b \subseteq GuideNames
      /\ \A b \in {{"upload_file"}, {"upload_url"}} : b \subseteq GuideNames
      /\ \A b \in {{"vault_put_file"}} : b \subseteq GuideNames
      /\ \A b \in {{"websites_create"}} : b \subseteq GuideNames
  BY <1>2
<1>4. \/ g = Surface!Flow("account", {"auth_status", "auth_sso", "auth_resume"}, {}, {})
      \/ g = Surface!Flow("vault", {"vault_create", "vault_create_resume", "vault_status"}, {}, {})
      \/ g = Surface!Flow("upload", {"capabilities"}, {"upload_file"}, {{"upload_file"}, {"upload_url"}})
      \/ g = Surface!Flow("vault", {}, {"vault_put_file"}, {{"vault_put_file"}})
      \/ g = Surface!Flow("upload", {"capabilities", "download_file"}, {"download_file"}, {})
      \/ g = Surface!Flow("vault", {"vault_status", "vault_sync"}, {"vault_sync"}, {})
      \/ g = Surface!Flow("upload", {"pins_add", "pins_rm"}, {}, {})
      \/ g = Surface!Flow("upload", {}, {"websites_create"}, {{"websites_create"}})
  BY DEF Surface!FlowSpecs
<1> QED
  BY <1>1, <1>2, <1>3, <1>4

LEMMA GuideStepsNamed ==
  Surface!GuideSteps \subseteq GuideNames \cap (DOMAIN tools \cup direct)
<1>1. ASSUME NEW S, S \subseteq GuideNames
      PROVE  Surface!FilterSteps(S) \subseteq GuideNames \cap (DOMAIN tools \cup direct)
  BY <1>1 DEF Surface!FilterSteps, Surface!ToolAvailable, Surface!Names
<1>2. ASSUME NEW g \in Surface!FlowSpecs
      PROVE  /\ Surface!FilterFlow(g).steps \subseteq GuideNames \cap (DOMAIN tools \cup direct)
             /\ \A b \in Surface!FilterFlow(g).branches :
                  b \subseteq GuideNames \cap (DOMAIN tools \cup direct)
  <2> DEFINE s == Surface!FilterSteps(g.steps)
             bs == {Surface!FilterSteps(b) : b \in g.branches} \ {{}}
  <2>1. DOMAIN g = {"gate", "steps", "required", "branches"}
    BY DEF Surface!FlowSpecs, Surface!Flow
  <2>2. Surface!FilterFlow(g) = [g EXCEPT !.steps = s, !.branches = bs]
    BY DEF Surface!FilterFlow
  <2>3. s \subseteq GuideNames \cap (DOMAIN tools \cup direct)
    BY <1>1, FlowsNamed
  <2>4. \A b \in bs : b \subseteq GuideNames \cap (DOMAIN tools \cup direct)
    BY <1>1, FlowsNamed
  <2> HIDE DEF s, bs
  <2>5. [g EXCEPT !.steps = s, !.branches = bs].steps = s
        /\ [g EXCEPT !.steps = s, !.branches = bs].branches = bs
    BY <2>1
  <2> QED
    BY <2>2, <2>3, <2>4, <2>5
<1>3. ASSUME NEW f \in Surface!GuideFlows
      PROVE  f.steps \cup UNION f.branches \subseteq GuideNames \cap (DOMAIN tools \cup direct)
  <2>1. PICK g \in Surface!FlowSpecs : f = Surface!FilterFlow(g)
    BY DEF Surface!GuideFlows
  <2> QED
    BY <1>2, <2>1
<1> QED
  BY <1>3 DEF Surface!GuideSteps

(* A call that describe_tool leads to runs the tool.                       *)
LEMMA DescribedRuns ==
  ASSUME NamesTell, NEW n \in DOMAIN tools, tools[n].category # "admin", ~tools[n].human
  PROVE  /\ Surface!Describe(n) # "error"
         /\ Surface!Invoke(n, Surface!Describe(n), "request") # {Surface!Nothing}
<1> DEFINE via == Surface!Dispatcher(tools[n])
<1>1. via \in {"invoke_read", "invoke_write", "invoke_destructive"}
  BY DEF NamesTell, Table, ToolEntries, Surface!Dispatcher
<1>2. Surface!Describe(n) = via
  BY DEF Surface!Describe, Surface!Names
<1>3. Surface!Invoke(n, via, "request") = Surface!Handle(n, via, tools[n].by, "request")
  BY DEF Surface!Invoke, Surface!Names
<1> HIDE DEF via
<1>4. \A by : \E ran \in Surface!Handle(n, via, by, "request") : ran # Surface!Nothing
  BY DEF Surface!Handle, Surface!DispatchCatalogOp, Surface!CompiledHandler, Surface!Ran,
         Surface!Nothing
<1> QED
  BY <1>1, <1>2, <1>3, <1>4

LEMMA ListsAgree == ListInv => Surface!SurfacesAgree
<1> SUFFICES ASSUME ListInv, build = "ready" PROVE Surface!SurfacesAgree
  BY DEF Surface!SurfacesAgree
<1>1. /\ PlanTells /\ NamesTell /\ InstructionsTell /\ MetaListed /\ Listed
      /\ views \subseteq DOMAIN tools /\ direct = DOMAIN wire \ Surface!MetaTools
  BY DEF ListInv
<1>2. ASSUME NEW n \in GuideNames \cap DOMAIN tools, Surface!Flat
      PROVE  n \in DOMAIN wire
  BY <1>1, <1>2 DEF NamesTell, Guided, Listed
<1>3. ASSUME NEW n \in GuideNames \cap DOMAIN tools
      PROVE  Surface!Callable(n)
  <2>1. CASE Surface!Flat
    BY <1>2, <2>1 DEF Surface!Callable
  <2>2. CASE ~Surface!Flat
    BY <1>1, <2>2, DescribedRuns
       DEF NamesTell, Guided, Surface!AgentDirectSafe, Surface!Callable, Surface!MetaOnWire
  <2> QED
    BY <2>1, <2>2
<1>4. DirectSpecs \subseteq DOMAIN wire
  BY <1>1 DEF Listed
<1>5. \A n \in Surface!GuideSteps \cup instructions.named : Surface!Callable(n)
  <2>1. \A n \in DOMAIN wire : Surface!Callable(n)
    BY DEF Surface!Callable
  <2>2. \A n \in Surface!GuideSteps : Surface!Callable(n)
    BY <1>1, <1>3, <2>1, GuideStepsNamed
  <2>3. \A n \in instructions.named : Surface!Callable(n)
    BY <1>1, <1>3, <1>4, <2>1 DEF InstructionsTell, NamesTell, PlanTells
  <2> QED
    BY <2>2, <2>3
<1>6. instructions.listed \subseteq DOMAIN wire
  <2>1. "auth_sso" \in DOMAIN tools => "auth_sso" \in DOMAIN wire
    <3>1. "auth_sso" \in GuideNames
      BY DEF GuideNames
    <3> QED
      BY <1>1, <3>1 DEF NamesTell, Guided, Listed, Surface!DirectNames, Surface!IsDirectEntry
  <2> QED
    BY <1>1, <1>2, <1>4, <2>1 DEF InstructionsTell, NamesTell
<1>7. Surface!Capabilities = Transfers \cap DOMAIN wire
  <2>1. Surface!Capabilities \subseteq Transfers \cap DOMAIN wire
    BY <1>1, <1>4, CapabilitiesMean DEF PlanTells
  <2>2. ASSUME NEW n \in Transfers \cap DOMAIN wire PROVE n \in Surface!Capabilities
    <3>1. n \in Surface!DirectNames(tools) \cup DirectSpecs
      BY <1>1 DEF Listed, Transfers, Surface!MetaTools
    <3>2. CASE n \in Surface!DirectNames(tools)
      BY <1>1, <3>2 DEF Surface!DirectNames, NamesTell
    <3>3. CASE n \in DirectSpecs
      BY <1>1, <3>3 DEF DirectSpecs, PlanTells, SpecTells
    <3> QED
      BY <3>1, <3>2, <3>3
  <2> QED
    BY <2>1, <2>2
<1>8. Surface!CardTools \subseteq DOMAIN wire /\ (Surface!Flat => Surface!CardTools = DOMAIN wire)
  BY <1>1 DEF Surface!CardTools, MetaListed
<1>9. \A n \in Surface!Onboarding \cup Surface!Suggest
           \cup UNION {Surface!SearchFor(c) : c \in {"none", "core", "account", "storage", "wizard"}} :
        Surface!Invoke(n, Surface!Describe(n), "request") # {Surface!Nothing}
  <2>1. \A n \in Surface!Suggest :
          n \in DOMAIN tools /\ tools[n].category # "admin" /\ ~tools[n].human
    BY DEF Surface!Suggest, Surface!Names
  <2>2. \A c \in {"none", "core", "account", "storage", "wizard"} : \A n \in Surface!SearchFor(c) :
          n \in DOMAIN tools /\ tools[n].category # "admin" /\ ~tools[n].human
    BY DEF Surface!SearchFor, Surface!Names
  <2>3. \A n \in Surface!Onboarding :
          n \in DOMAIN tools /\ tools[n].category # "admin" /\ ~tools[n].human
    <3>1. {"agent_guide"} \cup UNION {Surface!OnboardingFlows[d] : d \in DOMAIN Surface!OnboardingFlows}
            \subseteq GuideNames
      BY DEF Surface!OnboardingFlows, GuideNames
    <3>2. \A n \in Surface!Onboarding : n \in DOMAIN tools \cap GuideNames /\ ~tools[n].human
      BY <3>1 DEF Surface!Onboarding, Surface!Names
    <3> QED
      BY <1>1, <3>2 DEF NamesTell, Guided, Surface!AgentDirectSafe
  <2> QED
    BY <1>1, <2>1, <2>2, <2>3, DescribedRuns
<1>10. /\ instructions.count = Surface!Cardinality(Surface!Names)
       /\ views \subseteq Surface!Names
  BY <1>1 DEF InstructionsTell, Surface!Names
<1> QED
  BY <1>1, <1>5, <1>6, <1>7, <1>8, <1>9, <1>10 DEF Surface!SurfacesAgree, Transfers

-----------------------------------------------------------------------------
(* The file tools: what is known of the source at each stage of a call.    *)
FileCalls == Files!Uploads \cup Files!Relays \cup Files!Fetches
FileTypes ==
  /\ fileServer \in FileServers /\ fileCall \in FileCalls \cup {Files!NoCall}
  /\ fileStage \in {"idle", "called", "opened", "statted", "checked", "minted", "answered"}
  /\ ctx \in {"live", "cancelled", "closed"} /\ excuse \subseteq {"grew", "interrupted"}
  /\ reply.kind \in {"none", "refused", "stored"}
  /\ fileStage # "answered" => reply.kind = "none"

(* The source is one the caller may point at; it grew behind a path only.   *)
SourceTold ==
  fileStage # "idle" =>
    /\ fileCall \in FileCalls /\ Files!PointsAt(fileCall, source)
    /\ IF "grew" \in excuse THEN \E src \in FileSources : source = Files!Grown(src)
       ELSE source \in FileSources

(* A call is on the way of its mode, and a path was checked as it was.      *)
WayTold ==
  /\ fileStage \in {"idle", "called", "opened", "minted"} => "grew" \notin excuse
  /\ fileStage = "opened" =>
       Files!ByRelay /\ (ctx # "live" => "interrupted" \in excuse)
  /\ fileStage \in {"statted", "checked"} => Files!ByPath
  /\ fileStage = "minted" => Files!ByMint
  /\ fileStage = "checked" /\ "grew" \notin excuse =>
       IF source.kind = "dir" \/ Files!AsTree(Files!ModeOfCall)
       THEN Files!Total(source) <= SizeCap ELSE source.size <= SizeCap

FileInv ==
  FileTypes /\ SourceTold /\ WayTold /\ Files!WholeOrRefused /\ Files!AdvertisedModesWork

(* What a schema lists is what the report names: the features are those of  *)
(* the transport.                                                          *)
LEMMA SameModes ==
  ASSUME fileServer \in FileServers
  PROVE  /\ Files!Registered("upload_file") => Files!SchemaModes = Files!ReportedModes
         /\ Files!SchemaModes \subseteq Files!SourceModes(Files!Transport) \cup {"file"}
BY FileAssumption
   DEF Files!SchemaModes, Files!ReportedModes, Files!Transport, Files!Has, Files!SourceModes,
       Files!TransportOf

LEMMA FilesStart == Files!FileInit => FileInv
<1> SUFFICES ASSUME Files!FileInit PROVE FileInv
  OBVIOUS
<1>1. /\ fileServer \in FileServers /\ fileCall = Files!NoCall /\ fileStage = "idle"
      /\ ctx = "live" /\ reply.kind = "none" /\ excuse = {}
  BY DEF Files!FileInit, Files!Pending
<1>2. Files!AdvertisedModesWork
  BY <1>1, SameModes DEF Files!AdvertisedModesWork, Files!Refused
<1> QED
  BY <1>1, <1>2 DEF FileInv, FileTypes, SourceTold, WayTold, Files!WholeOrRefused

(* A source keeps its kind when it grows; its sizes are numbers.           *)
LEMMA SourceSizes ==
  ASSUME SourceTold, fileStage # "idle"
  PROVE  /\ source.size \in Nat /\ Files!Total(source) \in Nat
         /\ source.kind \in {"file", "archive", "dir", "missing"}
<1>1. ASSUME NEW src \in FileSources
      PROVE  /\ src.size \in Nat /\ src.kind \in {"file", "archive", "dir", "missing"}
             /\ Files!Grown(src).size \in Nat /\ Files!Grown(src).kind = src.kind
             /\ Files!Total(src) \in Nat /\ Files!Total(Files!Grown(src)) \in Nat
  <2> DEFINE grown == <<src.entries[1] + 1>> \o Tail(src.entries)
  <2>1. src \in [kind : {"file", "archive", "dir", "missing"}, size : Nat,
                 entries : Seq(Nat), declared : {"none", "right", "wrong"}, opens : BOOLEAN]
    BY FileAssumption
  <2>2. Files!Grown(src) = [src EXCEPT !.size = src.size + 1, !.entries = grown]
    BY <2>1 DEF Files!Grown
  <2> HIDE DEF grown
  <2>3. Files!Grown(src).size = src.size + 1 /\ Files!Grown(src).kind = src.kind
    BY <2>1, <2>2
  <2> QED
    BY <2>1, <2>3, FileAssumption
<1>2. \/ source \in FileSources
      \/ \E src \in FileSources : source = Files!Grown(src)
  BY DEF SourceTold
<1> QED
  BY <1>1, <1>2

LEMMA ToldModes ==
  ASSUME fileCall \in FileCalls
  PROVE  /\ fileCall.tool \in {"upload_file", "upload_url", "upload_data", "download_file"}
         /\ Files!ModeOfCall = "convert" <=> Files!ToldToConvert
BY DEF FileCalls, Files!Uploads, Files!Relays, Files!Fetches, Files!Modes, Files!ModeOfCall,
       Files!ToldToConvert, Files!ByMint, Files!ParseArchiveMode, Files!MintMode

(* What an executor makes of a stream that is not a directory.              *)
LEMMA ExecutedWhole ==
  ASSUME FileTypes, SourceTold, fileStage # "idle", source.kind # "dir",
         reply' = Files!Execute(Files!ModeOfCall)
  PROVE  /\ reply'.kind \in {"refused", "stored"}
         /\ reply'.kind = "stored" =>
              /\ [shape |-> reply'.shape, size |-> reply'.size] = Files!WholeContent
              /\ reply'.size <= SizeCap
         /\ reply'.kind = "refused" =>
              reply'.why = "too_large" /\ (source.size > SizeCap \/ Files!Total(source) > SizeCap)
<1>1. source.size \in Nat /\ Files!Total(source) \in Nat /\ SizeCap \in Nat
  BY SourceSizes, FileAssumption
<1>2. Files!AsTree(Files!ModeOfCall) <=>
        source.kind = "archive" /\ source.opens /\ Files!ToldToConvert
  BY ToldModes DEF SourceTold, Files!AsTree
<1>3. CASE Files!AsTree(Files!ModeOfCall)
  <2>1. Files!WholeContent = [shape |-> "tree", size |-> Files!Total(source)]
    BY <1>2, <1>3 DEF Files!WholeContent
  <2>2. reply' = IF Files!Total(source) > SizeCap THEN Files!Refused("too_large")
                 ELSE Files!Stored("tree", Files!Total(source))
    BY <1>3 DEF Files!Execute
  <2> QED
    BY <1>1, <2>1, <2>2 DEF Files!Refused, Files!Stored
<1>4. CASE ~Files!AsTree(Files!ModeOfCall)
  <2>1. Files!WholeContent = [shape |-> Files!Single, size |-> source.size]
    BY <1>2, <1>4 DEF Files!WholeContent
  <2>2. reply' = IF source.size > SizeCap THEN Files!Refused("too_large")
                 ELSE Files!Stored(Files!Single, source.size)
    BY <1>4 DEF Files!Execute
  <2> QED
    BY <1>1, <2>1, <2>2 DEF Files!Refused, Files!Stored
<1> QED
  BY <1>3, <1>4

(* An answer, whatever it is.                                              *)
LEMMA Replied ==
  ASSUME FileInv, fileStage # "idle", fileStage' = "answered",
         UNCHANGED <<fileServer, fileCall, source, excuse>>,
         ctx' \in {"live", "cancelled", "closed"}, reply'.kind \in {"refused", "stored"},
         reply'.kind = "stored" =>
           /\ fileCall.tool # "download_file" =>
                [shape |-> reply'.shape, size |-> reply'.size] = Files!WholeContent
           /\ reply'.size <= SizeCap \/ "grew" \in excuse,
         reply'.kind = "refused" =>
           /\ reply'.why = "too_large" => source.size > SizeCap \/ Files!Total(source) > SizeCap
           /\ reply'.why = "interrupted" => "interrupted" \in excuse
           /\ reply'.why = "unavailable" =>
                IF fileCall.tool = "download_file" THEN fileCall.sink \notin Files!Sinks
                ELSE fileCall.mode \notin Files!SchemaModes
  PROVE  FileInv'
<1>1. FileTypes' /\ WayTold'
  BY DEF FileInv, FileTypes, WayTold
<1>2. SourceTold'
  BY DEF FileInv, SourceTold, Files!PointsAt
<1>3. Files!WholeContent' = Files!WholeContent
  BY DEF Files!WholeContent, Files!ToldToConvert, Files!Single
<1>4. Files!WholeOrRefused'
  BY <1>3 DEF Files!WholeOrRefused
<1>5. Files!AdvertisedModesWork'
  <2>1. /\ Files!SchemaModes' = Files!SchemaModes /\ Files!Sinks' = Files!Sinks
        /\ Files!ReportedModes' = Files!ReportedModes
        /\ Files!Registered("upload_file")' = Files!Registered("upload_file")
    BY DEF Files!SchemaModes, Files!Sinks, Files!ReportedModes, Files!Registered, Files!Has,
           Files!Transport, Files!SinkDropReachable
  <2> QED
    BY <2>1 DEF FileInv, Files!AdvertisedModesWork, Files!Refused
<1> QED
  BY <1>1, <1>2, <1>4, <1>5 DEF FileInv

(* The steps that go on with a call.                                       *)
LEMMA WentOn ==
  ASSUME FileInv, fileStage' # "answered", reply'.kind = "none",
         fileServer' = fileServer, FileTypes', SourceTold', WayTold'
  PROVE  FileInv'
<1>1. Files!AdvertisedModesWork'
  <2>1. /\ Files!SchemaModes' = Files!SchemaModes
        /\ Files!ReportedModes' = Files!ReportedModes
        /\ Files!Registered("upload_file")' = Files!Registered("upload_file")
    BY DEF Files!SchemaModes, Files!ReportedModes, Files!Registered, Files!Has,
           Files!Transport
  <2> QED
    BY <2>1 DEF FileInv, Files!AdvertisedModesWork, Files!Refused
<1> QED
  BY <1>1 DEF FileInv, Files!WholeOrRefused

LEMMA CallTells ==
  ASSUME FileInv, NEW c \in FileCalls, Files!CallTool(c)
  PROVE  FileInv'
<1>1. /\ fileStage = "idle" /\ fileStage' = "called" /\ fileCall' = c
      /\ source' \in FileSources /\ Files!PointsAt(c, source')
      /\ UNCHANGED <<fileServer, ctx, reply, excuse>>
  BY DEF Files!CallTool
<1>2. FileTypes' /\ WayTold'
  BY <1>1 DEF FileInv, FileTypes, WayTold
<1>3. SourceTold'
  BY <1>1 DEF FileInv, WayTold, SourceTold, Files!PointsAt
<1> QED
  BY <1>1, <1>2, <1>3, WentOn DEF FileInv, FileTypes

LEMMA RefusedModeTells ==
  ASSUME FileInv, Files!RefuseMode
  PROVE  FileInv'
<1>1. /\ fileStage = "called" /\ fileStage' = "answered" /\ reply' = Files!Refused("unavailable")
      /\ \/ /\ fileCall.tool = "upload_file"
            /\ fileCall.mode \notin Files!SourceModes(Files!Transport) \cup {"file"}
         \/ fileCall.tool = "download_file" /\ fileCall.sink \notin Files!Sinks
      /\ ctx' = "closed" /\ UNCHANGED <<fileServer, fileCall, source, excuse>>
  BY DEF Files!RefuseMode, Files!Reply
<1>2. Files!SchemaModes \subseteq Files!SourceModes(Files!Transport) \cup {"file"}
  BY SameModes DEF FileInv, FileTypes
<1>3. reply'.kind = "refused" /\ reply'.why = "unavailable"
  BY <1>1 DEF Files!Refused
<1> QED
  BY <1>1, <1>2, <1>3, Replied

LEMMA RelayTells ==
  ASSUME FileInv, Files!OpenFails \/ Files!OpenRelay \/ Files!ReadBody
  PROVE  FileInv'
<1>1. CASE Files!OpenFails
  <2>1. /\ fileStage = "called" /\ fileStage' = "answered" /\ ctx' = "closed"
        /\ UNCHANGED <<fileServer, fileCall, source, excuse>>
        /\ reply' \in {Files!Refused("unknown_size"), Files!Refused("too_large"),
                       Files!Refused("mismatch"), Files!Refused("missing")}
        /\ reply'.why = "too_large" => source.size > SizeCap
    <3>1. reply'.why = "too_large" => source.size > SizeCap
      BY <1>1 DEF Files!OpenFails
    <3> QED
      BY <1>1, <3>1 DEF Files!OpenFails, Files!CanRelay
  <2>2. /\ reply'.kind = "refused"
        /\ reply'.why \in {"unknown_size", "too_large", "mismatch", "missing"}
    BY <2>1 DEF Files!Refused
  <2> QED
    BY <2>1, <2>2, Replied
<1>2. CASE Files!OpenRelay
  <2>1. /\ fileStage = "called" /\ fileStage' = "opened" /\ ctx' = "live" /\ Files!ByRelay
        /\ UNCHANGED <<fileServer, fileCall, source, reply, excuse>>
    BY <1>2 DEF Files!OpenRelay, Files!CanRelay
  <2>2. FileTypes' /\ SourceTold' /\ WayTold'
    BY <2>1 DEF FileInv, FileTypes, SourceTold, WayTold, Files!PointsAt, Files!ByRelay
  <2> QED
    BY <2>1, <2>2, WentOn DEF FileInv, FileTypes
<1>3. CASE Files!ReadBody
  <2>1. /\ fileStage = "opened" /\ fileStage' = "answered" /\ ctx' = "closed"
        /\ reply' = IF ctx = "live" THEN Files!Execute(Files!ModeOfCall)
                    ELSE Files!Refused("interrupted")
        /\ UNCHANGED <<fileServer, fileCall, source, excuse>>
    BY <1>3 DEF Files!ReadBody, Files!Reply
  <2>2. Files!ByRelay /\ source.kind # "dir" /\ (ctx # "live" => "interrupted" \in excuse)
    <3>1. fileCall \in FileCalls /\ Files!PointsAt(fileCall, source) /\ Files!ByRelay
          /\ (ctx # "live" => "interrupted" \in excuse)
      BY <2>1 DEF FileInv, SourceTold, WayTold
    <3>2. CASE fileCall.tool = "upload_file"
      BY <3>1, <3>2 DEF Files!PointsAt, Files!ByRelay
    <3>3. CASE fileCall.tool \in {"upload_url", "upload_data"}
      <4>1. fileCall \in Files!Relays
        BY <3>1, <3>3 DEF FileCalls, Files!Uploads, Files!Relays, Files!Fetches
      <4> QED
        BY <3>1, <4>1 DEF Files!PointsAt
    <3> QED
      BY <3>1, <3>2, <3>3 DEF Files!ByRelay
  <2>3. CASE ctx = "live"
    BY <2>1, <2>2, <2>3, ExecutedWhole, Replied DEF FileInv
  <2>4. CASE ctx # "live"
    <3>1. reply'.kind = "refused" /\ reply'.why = "interrupted"
      BY <2>1, <2>4 DEF Files!Refused
    <3> QED
      BY <2>1, <2>2, <2>4, <3>1, Replied
  <2> QED
    BY <2>3, <2>4
<1> QED
  BY <1>1, <1>2, <1>3

LEMMA PathTells ==
  ASSUME FileInv, Files!StatPath \/ Files!CheckPath \/ Files!UploadPath
  PROVE  FileInv'
<1> DEFINE tree == source.kind = "dir" \/ Files!AsTree(Files!ModeOfCall)
<1>1. fileStage # "idle" => source.size \in Nat /\ Files!Total(source) \in Nat /\ SizeCap \in Nat
  BY SourceSizes, FileAssumption DEF FileInv
<1>2. CASE Files!StatPath
  <2>1. /\ fileStage = "called" /\ Files!ByPath
        /\ UNCHANGED <<fileServer, fileCall, source, excuse>>
        /\ \/ fileStage' = "answered" /\ ctx' = "closed" /\ reply' = Files!Refused("missing")
           \/ fileStage' = "statted" /\ ctx' = ctx /\ reply' = reply
    BY <1>2 DEF Files!StatPath, Files!Reply, Files!Proceed
  <2>2. CASE fileStage' = "answered"
    <3>1. reply'.kind = "refused" /\ reply'.why = "missing" /\ ctx' = "closed"
      BY <2>1, <2>2 DEF Files!Refused
    <3> QED
      BY <2>1, <2>2, <3>1, Replied
  <2>3. CASE fileStage' = "statted" /\ ctx' = ctx /\ reply' = reply
    <3>1. FileTypes' /\ SourceTold' /\ WayTold'
      BY <2>1, <2>3 DEF FileInv, FileTypes, SourceTold, WayTold, Files!PointsAt, Files!ByPath
    <3> QED
      BY <2>1, <2>3, <3>1, WentOn DEF FileInv, FileTypes
  <2> QED
    BY <2>1, <2>2, <2>3
<1>3. CASE Files!CheckPath
  <2>1. /\ fileStage = "statted" /\ UNCHANGED <<fileServer, fileCall, source, excuse>>
        /\ \/ /\ fileStage' = "answered" /\ ctx' = "closed" /\ reply' = Files!Refused("too_large")
              /\ IF tree THEN ~(Files!Total(source) <= SizeCap) ELSE ~(Files!StattedSize <= SizeCap)
           \/ /\ fileStage' = "checked" /\ ctx' = ctx /\ reply' = reply
              /\ IF tree THEN Files!Total(source) <= SizeCap ELSE Files!StattedSize <= SizeCap
    BY <1>3 DEF Files!CheckPath, Files!Reply, Files!Proceed, Files!TreeFits
  <2>2. Files!StattedSize \in {source.size, source.size - 1}
        /\ ("grew" \notin excuse => Files!StattedSize = source.size)
    BY DEF Files!StattedSize
  <2>3. CASE fileStage' = "answered"
    <3>1. reply'.kind = "refused" /\ reply'.why = "too_large" /\ ctx' = "closed"
      BY <2>1, <2>3 DEF Files!Refused
    <3>2. source.size > SizeCap \/ Files!Total(source) > SizeCap
      BY <1>1, <2>1, <2>2, <2>3
    <3> QED
      BY <2>1, <2>3, <3>1, <3>2, Replied
  <2>4. CASE fileStage' = "checked"
    <3>1. "grew" \notin excuse => IF tree THEN Files!Total(source) <= SizeCap
                                  ELSE source.size <= SizeCap
      BY <2>1, <2>2, <2>4
    <3>2. (Files!AsTree(Files!ModeOfCall))' <=> Files!AsTree(Files!ModeOfCall)
      BY <2>1 DEF Files!AsTree, Files!ModeOfCall, Files!ByMint
    <3>3. FileTypes' /\ SourceTold'
      BY <2>1, <2>4 DEF FileInv, FileTypes, SourceTold, Files!PointsAt
    <3>4. (Files!Total(source))' = Files!Total(source)
      BY <2>1
    <3>5. WayTold'
      BY <2>1, <2>4, <3>1, <3>2, <3>4 DEF FileInv, WayTold, Files!ByPath
    <3> QED
      BY <2>1, <2>4, <3>3, <3>5, WentOn DEF FileInv, FileTypes
  <2> QED
    BY <2>1, <2>3, <2>4
<1>4. CASE Files!UploadPath
  <2>1. /\ fileStage = "checked" /\ fileStage' = "answered" /\ ctx' = "closed"
        /\ UNCHANGED <<fileServer, fileCall, source, excuse>>
        /\ reply' = IF tree THEN Files!Stored("tree", Files!Total(source))
                    ELSE Files!Stored(Files!Single, source.size)
    BY <1>4 DEF Files!UploadPath, Files!Reply
  <2>2. /\ fileCall \in FileCalls /\ Files!ByPath
        /\ "grew" \notin excuse => IF tree THEN Files!Total(source) <= SizeCap
                                  ELSE source.size <= SizeCap
    BY <2>1 DEF FileInv, SourceTold, WayTold
  <2>3. tree <=> \/ source.kind = "dir"
                 \/ source.kind = "archive" /\ source.opens /\ Files!ToldToConvert
    BY <2>2, ToldModes DEF Files!AsTree
  <2>4. Files!WholeContent = IF tree THEN [shape |-> "tree", size |-> Files!Total(source)]
                             ELSE [shape |-> Files!Single, size |-> source.size]
    BY <2>3 DEF Files!WholeContent
  <2> HIDE DEF tree
  <2>5. /\ reply'.kind = "stored"
        /\ [shape |-> reply'.shape, size |-> reply'.size] = Files!WholeContent
        /\ reply'.size = IF tree THEN Files!Total(source) ELSE source.size
    BY <2>1, <2>4 DEF Files!Stored
  <2> QED
    BY <2>1, <2>2, <2>5, Replied
<1> QED
  BY <1>2, <1>3, <1>4

LEMMA MintTells ==
  ASSUME FileInv, Files!Prepare \/ Files!Fulfill \/ Files!Deliver
  PROVE  FileInv'
<1>1. CASE Files!Prepare
  <2>1. /\ fileStage = "called" /\ Files!ByMint
        /\ UNCHANGED <<fileServer, fileCall, source, excuse>>
        /\ \/ fileStage' = "answered" /\ ctx' = "closed" /\ reply' = Files!Refused("prepare")
           \/ fileStage' = "minted" /\ ctx' = ctx /\ reply' = reply
    BY <1>1 DEF Files!Prepare, Files!Reply, Files!Proceed
  <2>2. CASE fileStage' = "answered"
    <3>1. reply'.kind = "refused" /\ reply'.why = "prepare" /\ ctx' = "closed"
      BY <2>1, <2>2 DEF Files!Refused
    <3> QED
      BY <2>1, <2>2, <3>1, Replied
  <2>3. CASE fileStage' = "minted" /\ ctx' = ctx /\ reply' = reply
    <3>1. FileTypes' /\ SourceTold' /\ WayTold'
      BY <2>1, <2>3 DEF FileInv, FileTypes, SourceTold, WayTold, Files!PointsAt, Files!ByMint
    <3> QED
      BY <2>1, <2>3, <3>1, WentOn DEF FileInv, FileTypes
  <2> QED
    BY <2>1, <2>2, <2>3
<1>2. CASE Files!Fulfill
  <2>1. /\ fileStage = "minted" /\ fileStage' = "answered" /\ ctx' = "closed"
        /\ reply' = Files!Execute(Files!ModeOfCall)
        /\ UNCHANGED <<fileServer, fileCall, source, excuse>>
    BY <1>2 DEF Files!Fulfill, Files!Reply
  <2>2. source.kind # "dir"
    BY <2>1 DEF FileInv, SourceTold, WayTold, Files!PointsAt, Files!ByMint
  <2> QED
    BY <2>1, <2>2, ExecutedWhole, Replied DEF FileInv
<1>3. CASE Files!Deliver
  <2>1. /\ fileStage = "called" /\ fileStage' = "answered" /\ ctx' = "closed"
        /\ fileCall.tool = "download_file"
        /\ reply' = IF source.kind = "missing" THEN Files!Refused("missing")
                    ELSE IF source.size > SizeCap THEN Files!Refused("too_large")
                    ELSE Files!Stored(fileCall.sink, source.size)
        /\ UNCHANGED <<fileServer, fileCall, source, excuse>>
    BY <1>3 DEF Files!Deliver, Files!Reply
  <2>2. source.size \in Nat /\ SizeCap \in Nat
    BY <2>1, SourceSizes, FileAssumption DEF FileInv
  <2>3. \/ reply'.kind = "refused" /\ reply'.why = "missing"
        \/ reply'.kind = "refused" /\ reply'.why = "too_large" /\ source.size > SizeCap
        \/ reply'.kind = "stored" /\ reply'.size <= SizeCap
    BY <2>1, <2>2 DEF Files!Refused, Files!Stored
  <2> QED
    BY <2>1, <2>3, Replied
<1> QED
  BY <1>1, <1>2, <1>3

LEMMA OutsideTells ==
  ASSUME FileInv, Files!Grow \/ Files!Interrupt \/ Files!NextCall
  PROVE  FileInv'
<1>1. CASE Files!Grow
  <2>1. /\ fileStage \in {"statted", "checked"} /\ "grew" \notin excuse
        /\ source' = Files!Grown(source) /\ excuse' = excuse \cup {"grew"}
        /\ UNCHANGED <<fileServer, fileCall, fileStage, ctx, reply>>
    BY <1>1 DEF Files!Grow
  <2>2. source \in FileSources /\ fileCall \in FileCalls /\ Files!PointsAt(fileCall, source)
    BY <2>1 DEF FileInv, SourceTold
  <2>3. source'.kind = source.kind
    <3> DEFINE s == source.size + 1
               es == <<source.entries[1] + 1>> \o Tail(source.entries)
    <3>1. source' = [source EXCEPT !.size = s, !.entries = es]
      BY <2>1 DEF Files!Grown
    <3>2. DOMAIN source = {"kind", "size", "entries", "declared", "opens"}
      BY <2>2, FileAssumption
    <3> HIDE DEF s, es
    <3> QED
      BY <3>1, <3>2
  <2>4. SourceTold'
    BY <2>1, <2>2, <2>3 DEF SourceTold, Files!PointsAt
  <2>5. FileTypes' /\ WayTold'
    BY <2>1 DEF FileInv, FileTypes, WayTold, Files!ByPath
  <2> QED
    BY <2>1, <2>4, <2>5, WentOn DEF FileInv, FileTypes
<1>2. CASE Files!Interrupt
  <2>1. /\ fileStage = "opened" /\ ctx' = "cancelled"
        /\ excuse' = excuse \cup {"interrupted"}
        /\ UNCHANGED <<fileServer, fileCall, source, fileStage, reply>>
    BY <1>2 DEF Files!Interrupt
  <2>2. FileTypes' /\ SourceTold' /\ WayTold'
    BY <2>1 DEF FileInv, FileTypes, SourceTold, WayTold, Files!PointsAt, Files!ByRelay
  <2> QED
    BY <2>1, <2>2, WentOn DEF FileInv, FileTypes
<1>3. CASE Files!NextCall
  <2>1. /\ fileStage' = "idle" /\ fileCall' = Files!NoCall /\ reply' = Files!Pending
        /\ ctx' = "live" /\ excuse' = {} /\ fileServer' = fileServer
    BY <1>3 DEF Files!NextCall
  <2>2. reply'.kind = "none"
    BY <2>1 DEF Files!Pending
  <2>3. FileTypes' /\ SourceTold' /\ WayTold'
    BY <2>1, <2>2 DEF FileInv, FileTypes, SourceTold, WayTold, Files!NoCall
  <2> QED
    BY <2>1, <2>2, <2>3, WentOn
<1> QED
  BY <1>1, <1>2, <1>3

LEMMA FilesStep ==
  ASSUME FileInv, [Files!FileNext]_fileState
  PROVE  FileInv'
<1>1. ASSUME NEW c \in Files!Uploads \cup Files!Relays \cup Files!Fetches, Files!CallTool(c)
      PROVE  FileInv'
  BY <1>1, CallTells DEF FileCalls
<1>2. CASE UNCHANGED fileState
  BY <1>2 DEF fileState, FileInv, FileTypes, SourceTold, WayTold, Files!WholeOrRefused,
              Files!AdvertisedModesWork, Files!PointsAt, Files!ByRelay, Files!ByPath, Files!ByMint,
              Files!AsTree, Files!ModeOfCall, Files!WholeContent, Files!Single, Files!ToldToConvert,
              Files!SchemaModes, Files!ReportedModes, Files!Registered, Files!Has, Files!Sinks,
              Files!Transport, Files!SinkDropReachable
<1> QED
  BY <1>1, <1>2, RefusedModeTells, RelayTells, PathTells, MintTells, OutsideTells
     DEF Files!FileNext

-----------------------------------------------------------------------------
(* The installer: the environment file, the service and the agents' files. *)
AnyFile   == EnvironmentFiles \cup {NoFile}
InstUnits == [installed : BOOLEAN, running : BOOLEAN, loaded : AnyFile]
InstSteps == {"agents", "scope", "transport", "provider", "config", "write", "reconcile",
              "validate", "service", "url", "password", "binary", "completed", "failed"}
InstStates ==
  [at : InstSteps, agents : SUBSET InstAgents, transport : {"empty", "stdio", "http"},
   scope : {"empty", "global", "project"}, provider : Install!Tunnels, decided : BOOLEAN,
   token : Install!Passwords, asked : BOOLEAN, oauth : {"unset", "on", "off"},
   creds : SUBSET (Install!Tunnels \ {"empty"}), url : Install!Urls, created : BOOLEAN, probe : BOOLEAN,
   snapshot : AnyFile, memory : Install!Urls, publicURL : Install!Urls,
   authToken : Install!Passwords, refused : BOOLEAN, entered : BOOLEAN]

InstTypes ==
  /\ cmdline \in CommandLines /\ envFile \in AnyFile /\ unit \in InstUnits
  /\ inst \in InstStates /\ found \in [file : AnyFile, unit : InstUnits]

Ended == inst.at \in {"completed", "failed"}

(* What has become of the file that was found.                             *)
FileTold ==
  /\ inst.at \in {"agents", "scope", "transport", "provider", "config", "write"} =>
       envFile = found.file /\ inst.created = FALSE /\ inst.snapshot = NoFile
  /\ inst.at \in {"reconcile", "validate", "service", "url", "password"} => envFile # NoFile
  /\ inst.at = "reconcile" =>
       /\ inst.snapshot = NoFile
       /\ IF inst.created THEN found.file = NoFile ELSE envFile = found.file
  /\ inst.at = "validate" =>
       IF inst.created THEN found.file = NoFile /\ inst.snapshot = NoFile
                       ELSE inst.snapshot = found.file /\ found.file # NoFile
  /\ inst.at = "password" => inst.entered
  /\ inst.at = "binary" /\ ~inst.entered => envFile = found.file
  /\ Install!FailureRollsBack

(* The service runs, or is stopped for the probe of a tunnel.              *)
ServiceTold ==
  /\ found.unit.running /\ ~Ended => unit.installed /\ (unit.running \/ inst.probe)
  /\ Install!ServiceComesBack

(* A provider that the file names is the one the wizard knows of.          *)
ProviderTold ==
  /\ inst.at \in {"agents", "scope", "transport", "provider"} => inst.decided = FALSE
  /\ inst.at = "config" => inst.provider # "empty" /\ (Install!FromFlag => inst.decided)
  /\ inst.at \in {"config", "write", "reconcile"} =>
       /\ inst.provider # "empty" \/ inst.decided
       /\ Install!FromFlag /\ cmdline.tunnel # "empty" => inst.provider # "empty"
  /\ inst.at = "reconcile" /\ inst.created => envFile.provider = inst.provider
  /\ inst.at \in {"validate", "service", "url", "password"} /\ cmdline.command = "install" =>
       (envFile.provider # "empty" => inst.provider # "empty")

(* The address and the token that are handed to the agents.                *)
EndpointTold ==
  /\ cmdline.command # "install" =>
       inst.transport = "empty" /\ inst.at \in {"agents", "service", "completed", "failed"}
  /\ ~Ended => \A p \in DOMAIN entries : entries[p].kind # "http"
  /\ inst.at \in {"service", "url"} /\ cmdline.command = "install" =>
       inst.memory = Install!DerivedUrl(envFile)
  /\ inst.at \in {"password", "binary"} /\ ~Install!Skipped =>
       inst.publicURL = Install!DerivedUrl(envFile) /\ inst.authToken = envFile.token
  /\ /\ inst.at \in {"url", "password", "binary"} /\ ~Install!Skipped /\ Install!Managed
     /\ envFile.provider # "empty"
     => unit.running /\ unit.loaded = envFile
  /\ Install!EndpointAgrees

InstInv == InstTypes /\ FileTold /\ ServiceTold /\ ProviderTold /\ EndpointTold

LEMMA LinesTyped ==
  ASSUME NEW l \in CommandLines
  PROVE  /\ l.transport \in {"empty", "stdio", "http"} /\ l.token \in BOOLEAN
         /\ l.url \in BOOLEAN /\ l.quiet \in BOOLEAN /\ l.oauth \in {"unset", "on", "off"}
         /\ l.tunnel \in {"none"} \cup Install!Tunnels
BY InstallAssumption DEF Install!Tunnels, Providers

LEMMA InstStarts == Install!InstInit => InstInv
<1> SUFFICES ASSUME Install!InstInit PROVE InstInv
  OBVIOUS
<1>1. envFile \in AnyFile
  BY InstallAssumption DEF Install!InstInit, AnyFile
<1>2. unit \in InstUnits /\ (unit.running => unit.installed)
  <2>1. NoFile \in AnyFile
    BY DEF AnyFile
  <2>2. ASSUME NEW i \in BOOLEAN, NEW r \in BOOLEAN, NEW f \in AnyFile, r => i,
               unit = [installed |-> i, running |-> r, loaded |-> f]
        PROVE  unit \in InstUnits /\ (unit.running => unit.installed)
    BY <2>2 DEF InstUnits
  <2>3. \/ unit = [installed |-> FALSE, running |-> FALSE, loaded |-> NoFile]
        \/ unit = [installed |-> TRUE, running |-> FALSE, loaded |-> NoFile]
        \/ unit = [installed |-> TRUE, running |-> TRUE, loaded |-> envFile]
    BY DEF Install!InstInit
  <2> QED
    BY <1>1, <2>1, <2>2, <2>3
<1>3. inst \in InstStates /\ inst.at = "agents" /\ inst.transport = "empty"
      /\ inst.created = FALSE /\ inst.snapshot = NoFile /\ inst.decided = FALSE
  BY DEF Install!InstInit, Install!FreshState, InstStates, InstSteps, AnyFile, Install!Tunnels,
         Install!Passwords, Install!Urls
<1>4. \A p \in DOMAIN entries : entries[p].kind # "http"
  BY DEF Install!InstInit, Install!NoEntry
<1>5. cmdline \in CommandLines /\ found = [file |-> envFile, unit |-> unit]
  BY DEF Install!InstInit
<1>6. InstTypes
  BY <1>1, <1>2, <1>3, <1>5 DEF InstTypes
<1>7. FileTold /\ ServiceTold
  BY <1>2, <1>3, <1>5 DEF FileTold, ServiceTold, Install!FailureRollsBack,
                          Install!ServiceComesBack
<1> QED
  BY <1>3, <1>4, <1>6, <1>7 DEF InstInv, ProviderTold, EndpointTold, Install!EndpointAgrees

(* A wizard that fails with the file it found, or none that would be        *)
(* refused, and with a service that ran still running or stopped for the    *)
(* probe.                                                                  *)
LEMMA FailKeeps ==
  ASSUME InstTypes, NEW s \in InstStates, NEW file \in AnyFile, NEW u \in InstUnits,
         Install!FailWith(s, file, u), UNCHANGED <<cmdline, found>>,
         s.entered \/ file = found.file \/ (found.file = NoFile /\ Install!EnvValid(file)),
         found.unit.running /\ ~s.refused => u.installed /\ (u.running \/ s.probe),
         cmdline.command # "install" => s.transport = "empty"
  PROVE  InstInv'
<1>0. Install!Starting(file) \in InstUnits /\ Install!Starting(file).running = TRUE
  BY DEF Install!Starting, InstUnits
<1>1. /\ envFile' = file /\ unit' \in InstUnits
      /\ inst' \in InstStates /\ inst'.at = "failed" /\ inst'.entered = s.entered
      /\ inst'.transport = s.transport
      /\ found.unit.running /\ ~inst'.refused => unit'.running
  <2>0. envFile' = file /\ unit' \in {u, Install!Starting(file)}
    BY DEF Install!FailWith
  <2>1. CASE inst' = [s EXCEPT !.at = "failed"]
    <3>1. /\ inst' \in InstStates /\ inst'.at = "failed" /\ inst'.entered = s.entered
          /\ inst'.transport = s.transport /\ inst'.refused = s.refused
      BY <2>1 DEF InstStates, InstSteps
    <3>2. CASE s.probe /\ u.installed /\ unit' = (IF u.running THEN u ELSE Install!Starting(file))
      BY <1>0, <2>0, <3>1, <3>2
    <3>3. CASE ~(s.probe /\ u.installed) /\ unit' = u
      BY <2>0, <3>1, <3>3
    <3>4. CASE inst' = [s EXCEPT !.at = "failed", !.refused = TRUE] /\ unit' = u
      <4>1. inst'.refused = TRUE
        BY <3>4 DEF InstStates
      <4> QED
        BY <2>0, <3>1, <3>4, <4>1
    <3> QED
      BY <3>2, <3>3, <3>4 DEF Install!FailWith
  <2>2. CASE inst' = [s EXCEPT !.at = "failed", !.refused = TRUE]
    <3>1. /\ inst' \in InstStates /\ inst'.at = "failed" /\ inst'.entered = s.entered
          /\ inst'.transport = s.transport /\ inst'.refused = TRUE
      BY <2>2 DEF InstStates, InstSteps
    <3> QED
      BY <1>0, <2>0, <3>1
  <2> QED
    BY <2>1, <2>2 DEF Install!FailWith
<1>2. InstTypes'
  BY <1>1 DEF InstTypes
<1>3. FileTold' /\ ServiceTold'
  BY <1>1 DEF FileTold, ServiceTold, Ended, Install!FailureRollsBack, Install!ServiceComesBack,
              Install!EnvValid
<1> QED
  BY <1>1, <1>2, <1>3 DEF InstInv, ProviderTold, EndpointTold, Ended, Install!EndpointAgrees

(* What the flags and the stored file are taken into.                      *)
LEMMA FlagsTaken ==
  ASSUME cmdline \in CommandLines, NEW s \in InstStates, NEW t, t = Install!SeedFromFlags(s)
  PROVE  /\ t \in InstStates /\ t.at = s.at /\ t.agents = s.agents /\ t.transport = s.transport
         /\ t.created = s.created /\ t.snapshot = s.snapshot /\ t.probe = s.probe
         /\ t.entered = s.entered /\ t.refused = s.refused
         /\ t.provider = IF ~s.decided /\ Install!FromFlag THEN cmdline.tunnel ELSE s.provider
         /\ t.decided <=> s.decided \/ Install!FromFlag
<1> DEFINE decided == s.decided \/ cmdline.tunnel # "none"
           provider == IF ~s.decided /\ cmdline.tunnel # "none" THEN cmdline.tunnel ELSE s.provider
           password == IF s.token = "empty" /\ cmdline.token THEN "flag" ELSE s.token
           url == IF s.url = "empty" /\ cmdline.url THEN "flag" ELSE s.url
           creds == IF cmdline.tunnel # "none" /\ cmdline.tunnel # "empty"
                    THEN s.creds \union {cmdline.tunnel} ELSE s.creds
           oauth == IF cmdline.oauth # "unset" THEN cmdline.oauth ELSE s.oauth
<1>1. t = [s EXCEPT !.provider = provider, !.decided = decided, !.token = password, !.url = url,
                    !.creds = creds, !.oauth = oauth]
  BY DEF Install!SeedFromFlags
<1>2. provider \in Install!Tunnels /\ password \in Install!Passwords /\ url \in Install!Urls
  BY LinesTyped DEF InstStates, Install!Passwords, Install!Urls
<1>3. creds \in SUBSET (Install!Tunnels \ {"empty"}) /\ oauth \in {"unset", "on", "off"}
  BY LinesTyped DEF InstStates
<1>4. decided \in BOOLEAN
  OBVIOUS
<1> HIDE DEF provider, decided, password, url, creds, oauth
<1>5. /\ t \in InstStates /\ t.at = s.at /\ t.agents = s.agents /\ t.transport = s.transport
      /\ t.created = s.created /\ t.snapshot = s.snapshot /\ t.probe = s.probe
      /\ t.entered = s.entered /\ t.refused = s.refused
      /\ t.provider = provider /\ t.decided = decided
  BY ZenonT(30), <1>1, <1>2, <1>3, <1>4 DEF InstStates
<1> QED
  BY <1>5 DEF provider, decided, Install!FromFlag

LEMMA FileTaken ==
  ASSUME envFile \in AnyFile, NEW s \in InstStates, NEW t, t = Install!SeedFromFile(s)
  PROVE  /\ t \in InstStates /\ t.at = s.at /\ t.agents = s.agents /\ t.transport = s.transport
         /\ t.created = s.created /\ t.snapshot = s.snapshot /\ t.probe = s.probe
         /\ t.entered = s.entered /\ t.refused = s.refused /\ t.decided = s.decided
         /\ s.provider # "empty" \/ s.decided => t.provider = s.provider
<1>1. CASE envFile = NoFile
  BY <1>1 DEF Install!SeedFromFile, Install!FileThere
<1>2. CASE envFile # NoFile
  <2> DEFINE p == IF s.provider = "empty" /\ ~s.decided THEN envFile.provider ELSE s.provider
             password == IF s.token = "empty" THEN envFile.token ELSE s.token
             url == IF s.url = "empty" /\ envFile.provider # "empty" /\ envFile.provider = p
                    THEN envFile.url ELSE s.url
             creds == s.creds \union envFile.creds
             oauth == IF s.oauth = "unset" THEN envFile.oauth ELSE s.oauth
  <2>1. t = [s EXCEPT !.provider = p, !.token = password, !.url = url, !.creds = creds,
                      !.oauth = oauth]
    BY <1>2 DEF Install!SeedFromFile, Install!FileThere
  <2>2. envFile \in EnvironmentFiles
    BY <1>2 DEF AnyFile
  <2>3. /\ p \in Install!Tunnels /\ password \in Install!Passwords /\ url \in Install!Urls
        /\ creds \in SUBSET (Install!Tunnels \ {"empty"}) /\ oauth \in {"unset", "on", "off"}
    BY <2>2 DEF InstStates, EnvironmentFiles, Providers, Install!Tunnels, Install!Passwords,
                Install!Urls
  <2>4. s.provider # "empty" \/ s.decided => p = s.provider
    OBVIOUS
  <2> HIDE DEF p, password, url, creds, oauth
  <2> QED
    BY ZenonT(30), <2>1, <2>3, <2>4 DEF InstStates
<1> QED
  BY <1>1, <1>2

(* A step before the file is reconciled: the file is still the one found.  *)
LEMMA EarlyMove ==
  ASSUME InstInv, cmdline.command = "install", ~Ended, NEW t \in InstStates, inst' = t,
         inst.at \in {"agents", "scope", "transport", "provider", "config", "write"},
         UNCHANGED <<cmdline, envFile, entries, found>>, unit' \in InstUnits,
         t.created = FALSE, t.snapshot = NoFile,
         t.at \in {"scope", "transport", "provider", "config", "write", "binary"},
         t.at = "binary" => Install!Skipped',
         t.at \in {"scope", "transport", "provider"} => t.decided = FALSE,
         t.at = "config" => t.provider # "empty" /\ (Install!FromFlag => t.decided),
         t.at \in {"config", "write"} =>
           /\ t.provider # "empty" \/ t.decided
           /\ Install!FromFlag /\ cmdline.tunnel # "empty" => t.provider # "empty",
         found.unit.running => unit'.installed /\ (unit'.running \/ t.probe)
  PROVE  InstInv'
<1>1. envFile = found.file /\ \A p \in DOMAIN entries : entries[p].kind # "http"
  BY DEF InstInv, FileTold, EndpointTold
<1>2. InstTypes'
  BY DEF InstInv, InstTypes
<1>3. FileTold' /\ ServiceTold'
  BY <1>1 DEF FileTold, ServiceTold, Install!FailureRollsBack, Install!ServiceComesBack
<1>4. ProviderTold'
  BY DEF ProviderTold, Install!FromFlag
<1>5. EndpointTold'
  BY <1>1 DEF EndpointTold, Install!EndpointAgrees
<1> QED
  BY <1>2, <1>3, <1>4, <1>5 DEF InstInv

LEMMA ChoosesKeep ==
  ASSUME InstInv, Install!ChooseAgents \/ Install!ChooseScope \/ Install!ChooseTransport
  PROVE  InstInv'
<1>1. /\ inst \in InstStates /\ cmdline \in CommandLines /\ unit \in InstUnits
      /\ inst.at \in {"agents", "scope", "transport"} /\ ~Ended
      /\ inst.created = FALSE /\ inst.snapshot = NoFile /\ inst.decided = FALSE
      /\ UNCHANGED <<cmdline, envFile, unit, entries, found>>
      /\ found.unit.running => unit.installed /\ (unit.running \/ inst.probe)
  BY Zenon DEF InstInv, InstTypes, FileTold, ServiceTold, ProviderTold, Ended, Install!InstAt,
         Install!Flow, Install!ChooseAgents, Install!ChooseScope, Install!ChooseTransport
<1>2. cmdline.command = "install"
  BY Zenon DEF InstInv, EndpointTold, Install!InstAt, Install!ChooseAgents, Install!ChooseScope,
         Install!ChooseTransport
<1>3. CASE Install!ChooseAgents
  <2>1. PICK chosen \in SUBSET InstAgents : inst' = [inst EXCEPT !.agents = chosen, !.at = "scope"]
    BY Zenon, <1>3 DEF Install!ChooseAgents, Install!Flow
  <2>2. /\ inst' \in InstStates /\ inst'.at = "scope" /\ inst'.created = inst.created
        /\ inst'.snapshot = inst.snapshot /\ inst'.decided = inst.decided
        /\ inst'.probe = inst.probe
    BY <1>1, <2>1 DEF InstStates, InstSteps
  <2> QED
    BY <1>1, <1>2, <2>2, EarlyMove
<1>4. CASE Install!ChooseScope
  <2>1. PICK scope \in {"global", "project"} :
          inst' = [inst EXCEPT !.scope = scope, !.at = "transport"]
    BY Zenon, <1>4 DEF Install!ChooseScope, Install!Flow
  <2>2. /\ inst' \in InstStates /\ inst'.at = "transport" /\ inst'.created = inst.created
        /\ inst'.snapshot = inst.snapshot /\ inst'.decided = inst.decided
        /\ inst'.probe = inst.probe
    BY <1>1, <2>1 DEF InstStates, InstSteps
  <2> QED
    BY <1>1, <1>2, <2>2, EarlyMove
<1>5. CASE Install!ChooseTransport
  <2>1. PICK t \in {"empty", "stdio", "http"} :
          inst' = [inst EXCEPT !.transport = t,
                     !.at = IF t = "http" /\ inst.agents \cap HttpAgents # {}
                            THEN "provider" ELSE "binary"]
    BY ZenonT(30), <1>1, <1>5, LinesTyped DEF Install!ChooseTransport, Install!Flow
  <2>2. /\ inst' \in InstStates /\ inst'.created = inst.created
        /\ inst'.snapshot = inst.snapshot /\ inst'.decided = inst.decided
        /\ inst'.probe = inst.probe /\ inst'.agents = inst.agents /\ inst'.transport = t
        /\ inst'.at = IF t = "http" /\ inst.agents \cap HttpAgents # {}
                      THEN "provider" ELSE "binary"
    BY ZenonT(30), <1>1, <2>1 DEF InstStates, InstSteps
  <2>3. inst'.at = "binary" => Install!Skipped'
    BY <2>2 DEF Install!Skipped
  <2> QED
    BY <1>1, <1>2, <2>2, <2>3, EarlyMove
<1> QED
  BY <1>3, <1>4, <1>5

(* The provider step: a flag that names a provider settles it.             *)
LEMMA ProviderKeeps == ASSUME InstInv, Install!ProviderStep PROVE InstInv'
<1>1. /\ inst \in InstStates /\ cmdline \in CommandLines /\ unit \in InstUnits
      /\ envFile \in AnyFile /\ inst.at = "provider" /\ ~Ended
      /\ inst.created = FALSE /\ inst.snapshot = NoFile /\ inst.decided = FALSE
      /\ found.unit.running => unit.installed /\ (unit.running \/ inst.probe)
      /\ cmdline.command = "install"
  BY Zenon DEF InstInv, InstTypes, FileTold, ServiceTold, ProviderTold, EndpointTold, Ended,
         Install!InstAt, Install!ProviderStep
<1> DEFINE f == Install!SeedFromFlags(inst)
           s == Install!SeedFromFile(f)
<1>2. /\ f \in InstStates /\ f.created = inst.created /\ f.snapshot = inst.snapshot
      /\ f.probe = inst.probe
      /\ f.provider = IF Install!FromFlag THEN cmdline.tunnel ELSE inst.provider
      /\ f.decided <=> Install!FromFlag
  BY <1>1, FlagsTaken
<1> HIDE DEF f
<1>3. /\ s \in InstStates /\ s.created = FALSE /\ s.snapshot = NoFile /\ s.probe = inst.probe
      /\ s.decided = f.decided
      /\ Install!FromFlag /\ cmdline.tunnel # "empty" => s.provider # "empty"
  BY <1>1, <1>2, FileTaken
<1> HIDE DEF s
<1>4. \/ /\ s.provider # "empty"
         /\ Install!Flow([s EXCEPT !.at = "config"])
      \/ /\ ~(s.provider # "empty" /\ Install!FromFlag)
         /\ \E p \in Install!Tunnels :
              Install!Flow([[s EXCEPT !.provider = p, !.decided = TRUE]
                              EXCEPT !.at = IF p = "empty" THEN "write" ELSE "config"])
  <2>1. s = Install!Seeded
    BY DEF s, f, Install!Seeded
  <2>2. CASE s.provider # "empty" /\ (Install!FromFlag \/ cmdline.quiet)
    BY Zenon, <2>1, <2>2 DEF Install!ProviderStep
  <2>3. CASE ~(s.provider # "empty" /\ (Install!FromFlag \/ cmdline.quiet))
    <3>1. PICK p \in Install!Tunnels :
            LET t == [s EXCEPT !.provider = p, !.decided = TRUE]
            IN  Install!Flow([t EXCEPT !.at = IF t.provider = "empty" THEN "write" ELSE "config"])
      BY Zenon, <2>1, <2>3 DEF Install!ProviderStep
    <3>2. [s EXCEPT !.provider = p, !.decided = TRUE].provider = p
      BY <1>3 DEF InstStates
    <3> QED
      BY Zenon, <2>3, <3>1, <3>2
  <2> QED
    BY Zenon, <2>2, <2>3
<1>5. CASE s.provider # "empty" /\ Install!Flow([s EXCEPT !.at = "config"])
  <2>1. /\ inst' \in InstStates /\ inst'.at = "config" /\ inst'.created = FALSE
        /\ inst'.snapshot = NoFile /\ inst'.probe = inst.probe /\ inst'.provider = s.provider
        /\ inst'.decided = s.decided
    BY <1>3, <1>5 DEF InstStates, InstSteps, Install!Flow
  <2>2. UNCHANGED <<cmdline, envFile, unit, entries, found>>
    BY <1>5 DEF Install!Flow
  <2> QED
    BY <1>1, <1>2, <1>3, <1>5, <2>1, <2>2, EarlyMove
<1>6. ASSUME NEW p \in Install!Tunnels, ~(s.provider # "empty" /\ Install!FromFlag),
             Install!Flow([[s EXCEPT !.provider = p, !.decided = TRUE]
                             EXCEPT !.at = IF p = "empty" THEN "write" ELSE "config"])
      PROVE  InstInv'
  <2> DEFINE t == [s EXCEPT !.provider = p, !.decided = TRUE]
  <2>1. /\ t \in InstStates /\ t.created = FALSE /\ t.snapshot = NoFile
        /\ t.probe = inst.probe /\ t.decided = TRUE /\ t.provider = p
    BY <1>3 DEF InstStates
  <2> HIDE DEF t
  <2>2. inst' = [t EXCEPT !.at = IF p = "empty" THEN "write" ELSE "config"]
        /\ UNCHANGED <<cmdline, envFile, unit, entries, found>>
    BY <1>6 DEF Install!Flow, t
  <2>3. /\ inst' \in InstStates /\ inst'.at \in {"config", "write"} /\ inst'.created = FALSE
        /\ inst'.snapshot = NoFile /\ inst'.probe = inst.probe /\ inst'.decided = TRUE
        /\ inst'.at = "config" => inst'.provider # "empty"
    BY <2>1, <2>2 DEF InstStates, InstSteps
  <2>4. ~(Install!FromFlag /\ cmdline.tunnel # "empty")
    BY <1>3, <1>6
  <2> QED
    BY <1>1, <2>2, <2>3, <2>4, EarlyMove
<1> QED
  BY Zenon, <1>4, <1>5, <1>6

(* Flags and file are read again; the provider stays what was settled.     *)
LEMMA SeededKeeps ==
  ASSUME InstInv, inst.at \in {"config", "write"},
         NEW x \in InstStates, x.provider = inst.provider, x.decided = inst.decided,
         NEW f, f = Install!SeedFromFlags(x), NEW s, s = Install!SeedFromFile(f)
  PROVE  /\ f.provider # "empty" \/ f.decided
         /\ Install!FromFlag /\ cmdline.tunnel # "empty" => f.provider # "empty"
         /\ s.provider # "empty" \/ s.decided
         /\ Install!FromFlag /\ cmdline.tunnel # "empty" => s.provider # "empty"
         /\ inst.at = "config" => s.provider # "empty"
<1>1. /\ cmdline \in CommandLines /\ envFile \in AnyFile
      /\ inst.at = "config" => inst.provider # "empty" /\ (Install!FromFlag => inst.decided)
      /\ inst.provider # "empty" \/ inst.decided
      /\ Install!FromFlag /\ cmdline.tunnel # "empty" => inst.provider # "empty"
  BY DEF InstInv, InstTypes, ProviderTold
<1>2. /\ f \in InstStates
      /\ f.provider = IF ~x.decided /\ Install!FromFlag THEN cmdline.tunnel ELSE x.provider
      /\ f.decided <=> x.decided \/ Install!FromFlag
  BY <1>1, FlagsTaken
<1>3. s.decided = f.decided /\ (f.provider # "empty" \/ f.decided => s.provider = f.provider)
  BY <1>1, <1>2, FileTaken
<1> QED
  BY <1>1, <1>2, <1>3

LEMMA ProbeStops ==
  ASSUME NEW s \in InstStates, NEW t, t = Install!StopForProbe(s)
  PROVE  /\ t \in InstStates /\ t.created = s.created /\ t.snapshot = s.snapshot
         /\ t.provider = s.provider /\ t.decided = s.decided /\ t.entered = s.entered
         /\ t.refused = s.refused
         /\ t.probe <=> ((Install!Managed /\ unit.installed) \/ s.probe)
<1>1. CASE Install!Managed /\ unit.installed
  BY <1>1 DEF Install!StopForProbe, InstStates
<1>2. CASE ~(Install!Managed /\ unit.installed)
  BY <1>2 DEF Install!StopForProbe, InstStates
<1> QED
  BY <1>1, <1>2

LEMMA GatheredTyped ==
  ASSUME cmdline \in CommandLines, NEW s \in InstStates, s.provider # "empty",
         NEW t \in Install!Gathered(s)
  PROVE  /\ t \in InstStates /\ t.at = "write" /\ t.created = s.created
         /\ t.snapshot = s.snapshot /\ t.provider = s.provider /\ t.decided = s.decided
         /\ t.probe = s.probe
<1>0. Install!TokensFor(s) \subseteq Install!Passwords
      /\ Install!OAuthFor(s) \subseteq {"unset", "on", "off"}
  BY DEF InstStates, Install!Passwords, Install!TokensFor, Install!OAuthFor
<1>1. PICK k \in Install!TokensFor(s), o \in Install!OAuthFor(s) : t = Install!Filled(s, k, o)
  BY DEF Install!Gathered
<1> DEFINE url == IF s.provider = "ngrok" /\ s.url = "empty" THEN "ngrok" ELSE s.url
<1>2. url \in Install!Urls /\ s.creds \union {s.provider} \in SUBSET (Install!Tunnels \ {"empty"})
  BY DEF InstStates, Install!Urls
<1> HIDE DEF url
<1>3. t = [s EXCEPT !.token = k, !.asked = TRUE, !.oauth = o,
                    !.creds = s.creds \union {s.provider}, !.url = url, !.at = "write"]
  BY <1>1 DEF url, Install!Filled
<1> QED
  BY <1>0, <1>2, <1>3 DEF InstStates, InstSteps

(* The tunnel's fields: the service is stopped for the probe, and that is   *)
(* remembered.                                                             *)
LEMMA ConfigKeeps == ASSUME InstInv, Install!ConfigStep_ PROVE InstInv'
<1>1. /\ inst \in InstStates /\ cmdline \in CommandLines /\ unit \in InstUnits
      /\ envFile \in AnyFile /\ inst.at = "config" /\ ~Ended /\ InstTypes
      /\ envFile = found.file /\ inst.created = FALSE /\ inst.snapshot = NoFile
      /\ inst.provider # "empty" \/ inst.decided
      /\ Install!FromFlag /\ cmdline.tunnel # "empty" => inst.provider # "empty"
      /\ found.unit.running => unit.installed /\ (unit.running \/ inst.probe)
      /\ cmdline.command = "install"
  BY DEF InstInv, InstTypes, FileTold, ServiceTold, ProviderTold, EndpointTold, Ended,
         Install!InstAt, Install!ConfigStep_
<1> DEFINE f == Install!SeedFromFlags(inst)
           s == Install!SeedFromFile(f)
           stopped == IF Install!Managed /\ unit.installed THEN [unit EXCEPT !.running = FALSE]
                      ELSE unit
           probed == Install!StopForProbe(s)
<1>2. /\ f \in InstStates /\ f.created = inst.created /\ f.snapshot = inst.snapshot
      /\ f.probe = inst.probe
  BY <1>1, FlagsTaken
<1>3. /\ s \in InstStates /\ s.created = FALSE /\ s.snapshot = NoFile /\ s.probe = inst.probe
  <2> HIDE DEF f
  <2> QED
    BY <1>1, <1>2, FileTaken
<1>4. /\ s.provider # "empty" \/ s.decided
      /\ Install!FromFlag /\ cmdline.tunnel # "empty" => s.provider # "empty"
      /\ s.provider # "empty"
  BY <1>1, SeededKeeps
<1>5. s = Install!Seeded
  BY DEF Install!Seeded
<1> HIDE DEF s, f
<1>6. /\ probed \in InstStates /\ probed.created = FALSE /\ probed.snapshot = NoFile
      /\ probed.provider = s.provider /\ probed.decided = s.decided
      /\ probed.probe <=> ((Install!Managed /\ unit.installed) \/ inst.probe)
  BY <1>3, ProbeStops
<1>7. /\ stopped \in InstUnits /\ stopped.installed = unit.installed
      /\ ~(Install!Managed /\ unit.installed) => stopped = unit
  BY <1>1 DEF InstUnits
<1>8. \/ Install!Flow([inst EXCEPT !.at = "write"])
      \/ Install!Flow([s EXCEPT !.at = "write"])
      \/ /\ UNCHANGED <<cmdline, entries, found>>
         /\ \/ Install!FailWith([s EXCEPT !.refused = TRUE], envFile, unit)
            \/ Install!FailWith(probed, envFile, stopped)
            \/ inst' \in Install!Gathered(probed) /\ unit' = stopped /\ envFile' = envFile
  BY <1>5 DEF Install!ConfigStep_
<1> HIDE DEF probed, stopped
<1>9. CASE Install!Flow([inst EXCEPT !.at = "write"])
  <2>1. /\ inst' \in InstStates /\ inst'.at = "write" /\ inst'.created = FALSE
        /\ inst'.snapshot = NoFile /\ inst'.probe = inst.probe
        /\ inst'.provider = inst.provider /\ inst'.decided = inst.decided
        /\ UNCHANGED <<cmdline, envFile, unit, entries, found>>
    BY <1>1, <1>9 DEF InstStates, InstSteps, Install!Flow
  <2> QED
    BY <1>1, <2>1, EarlyMove
<1>10. CASE Install!Flow([s EXCEPT !.at = "write"])
  <2>1. /\ inst' \in InstStates /\ inst'.at = "write" /\ inst'.created = FALSE
        /\ inst'.snapshot = NoFile /\ inst'.probe = inst.probe
        /\ inst'.provider = s.provider /\ inst'.decided = s.decided
        /\ UNCHANGED <<cmdline, envFile, unit, entries, found>>
    BY <1>3, <1>10 DEF InstStates, InstSteps, Install!Flow
  <2> QED
    BY <1>1, <1>4, <2>1, EarlyMove
<1>11. CASE UNCHANGED <<cmdline, entries, found>>
            /\ Install!FailWith([s EXCEPT !.refused = TRUE], envFile, unit)
  <2>1. [s EXCEPT !.refused = TRUE] \in InstStates /\ [s EXCEPT !.refused = TRUE].refused = TRUE
    BY <1>3 DEF InstStates
  <2> QED
    BY <1>1, <1>11, <2>1, FailKeeps
<1>12. CASE UNCHANGED <<cmdline, entries, found>> /\ Install!FailWith(probed, envFile, stopped)
  BY <1>1, <1>6, <1>7, <1>12, FailKeeps
<1>13. CASE /\ UNCHANGED <<cmdline, entries, found>> /\ inst' \in Install!Gathered(probed)
            /\ unit' = stopped /\ envFile' = envFile
  <2>1. /\ inst' \in InstStates /\ inst'.at = "write" /\ inst'.created = FALSE
        /\ inst'.snapshot = NoFile /\ inst'.probe = probed.probe
        /\ inst'.provider = s.provider /\ inst'.decided = s.decided
    BY <1>1, <1>4, <1>6, <1>13, GatheredTyped
  <2>2. found.unit.running => unit'.installed /\ (unit'.running \/ inst'.probe)
    BY <1>1, <1>6, <1>7, <1>13, <2>1
  <2> QED
    BY <1>1, <1>4, <1>7, <1>13, <2>1, <2>2, EarlyMove
<1> QED
  BY <1>8, <1>9, <1>10, <1>11, <1>12, <1>13

LEMMA EnvTyped ==
  ASSUME NEW s \in InstStates
  PROVE  /\ Install!StateToEnv(s) \in EnvironmentFiles /\ Install!StateToEnv(s) # NoFile
         /\ Install!StateToEnv(s).provider = s.provider
<1>1. Install!StateToEnv(s) \in EnvironmentFiles
  BY DEF InstStates, Install!StateToEnv, EnvironmentFiles, Providers, Install!Tunnels,
         Install!Passwords, Install!Urls
<1> QED
  BY <1>1, InstallAssumption DEF Install!StateToEnv

(* The file is written where there is none, and left where there is one.   *)
LEMMA WriteKeeps == ASSUME InstInv, Install!WriteEnvStep PROVE InstInv'
<1>1. /\ inst \in InstStates /\ cmdline \in CommandLines /\ unit \in InstUnits
      /\ envFile \in AnyFile /\ inst.at = "write" /\ ~Ended /\ InstTypes
      /\ envFile = found.file /\ inst.created = FALSE /\ inst.snapshot = NoFile
      /\ inst.provider # "empty" \/ inst.decided
      /\ Install!FromFlag /\ cmdline.tunnel # "empty" => inst.provider # "empty"
      /\ found.unit.running => unit.installed /\ (unit.running \/ inst.probe)
      /\ cmdline.command = "install"
      /\ \A p \in DOMAIN entries : entries[p].kind # "http"
      /\ UNCHANGED <<cmdline, entries, found>>
  BY DEF InstInv, InstTypes, FileTold, ServiceTold, ProviderTold, EndpointTold, Ended,
         Install!InstAt, Install!WriteEnvStep
<1> DEFINE oauth == IF inst.oauth = "unset" THEN "on" ELSE inst.oauth
           x == [inst EXCEPT !.created = TRUE, !.oauth = oauth]
           f == Install!SeedFromFlags(x)
           s == IF envFile # NoFile THEN inst ELSE f
<1>2. /\ x \in InstStates /\ x.created = TRUE /\ x.snapshot = NoFile /\ x.probe = inst.probe
      /\ x.provider = inst.provider /\ x.decided = inst.decided
  <2>1. oauth \in {"unset", "on", "off"}
    BY <1>1 DEF InstStates
  <2> HIDE DEF oauth
  <2> QED
    BY <1>1, <2>1 DEF InstStates
<1>3. /\ \/ /\ inst' = [s EXCEPT !.at = "reconcile"] /\ unit' = unit
            /\ envFile' = IF envFile # NoFile THEN envFile ELSE Install!StateToEnv(s)
         \/ envFile = NoFile /\ Install!FailWith(s, NoFile, unit)
  BY DEF Install!WriteEnvStep, Install!FileThere
<1> HIDE DEF x
<1>4. /\ f \in InstStates /\ f.created = TRUE /\ f.snapshot = NoFile /\ f.probe = inst.probe
  BY <1>1, <1>2, FlagsTaken
<1>5. /\ f.provider # "empty" \/ f.decided
      /\ Install!FromFlag /\ cmdline.tunnel # "empty" => f.provider # "empty"
  BY <1>1, <1>2, SeededKeeps
<1> HIDE DEF f
<1>6. /\ s \in InstStates /\ s.snapshot = NoFile /\ s.probe = inst.probe
      /\ s.created <=> envFile = NoFile
      /\ s.provider # "empty" \/ s.decided
      /\ Install!FromFlag /\ cmdline.tunnel # "empty" => s.provider # "empty"
  BY <1>1, <1>4, <1>5
<1> HIDE DEF s
<1>7. CASE /\ inst' = [s EXCEPT !.at = "reconcile"] /\ unit' = unit
           /\ envFile' = IF envFile # NoFile THEN envFile ELSE Install!StateToEnv(s)
  <2>1. /\ inst' \in InstStates /\ inst'.at = "reconcile" /\ inst'.snapshot = NoFile
        /\ inst'.probe = inst.probe /\ inst'.created = s.created
        /\ inst'.provider = s.provider /\ inst'.decided = s.decided
    BY <1>6, <1>7 DEF InstStates, InstSteps
  <2>2. /\ envFile' \in AnyFile /\ envFile' # NoFile
        /\ IF inst'.created THEN found.file = NoFile /\ envFile'.provider = inst'.provider
                            ELSE envFile' = found.file
    BY <1>1, <1>6, <1>7, <2>1, EnvTyped DEF AnyFile
  <2>3. InstTypes'
    BY <1>1, <1>7, <2>1, <2>2 DEF InstTypes
  <2>4. FileTold' /\ ServiceTold'
    BY <1>1, <1>7, <2>1, <2>2 DEF FileTold, ServiceTold, Install!FailureRollsBack,
                                  Install!ServiceComesBack
  <2>5. ProviderTold' /\ EndpointTold'
    BY <1>1, <1>6, <2>1, <2>2 DEF ProviderTold, EndpointTold, Install!EndpointAgrees,
                                  Install!FromFlag
  <2> QED
    BY <2>3, <2>4, <2>5 DEF InstInv
<1>8. CASE envFile = NoFile /\ Install!FailWith(s, NoFile, unit)
  BY <1>1, <1>6, <1>8, FailKeeps
<1> QED
  BY <1>3, <1>7, <1>8

(* The collector: flags over the file, the old provider dropped, the steps  *)
(* over what is left.                                                      *)
LEMMA FlagsOverTyped ==
  ASSUME cmdline \in CommandLines, NEW file \in EnvironmentFiles
  PROVE  /\ Install!FlagsOver(file) \in EnvironmentFiles
         /\ Install!FlagsOver(file).provider =
              IF Install!FromFlag /\ cmdline.tunnel # "empty" THEN cmdline.tunnel ELSE file.provider
<1> DEFINE named == Install!FromFlag /\ cmdline.tunnel # "empty"
           provider == IF named THEN cmdline.tunnel ELSE file.provider
           password == IF cmdline.token THEN "flag" ELSE file.token
           url == IF cmdline.url THEN "flag" ELSE file.url
           oauth == IF cmdline.oauth # "unset" THEN cmdline.oauth ELSE file.oauth
           creds == IF named THEN file.creds \union {cmdline.tunnel} ELSE file.creds
<1>1. Install!FlagsOver(file) =
        [file EXCEPT !.provider = provider, !.token = password, !.url = url, !.oauth = oauth,
                     !.creds = creds]
  BY DEF Install!FlagsOver
<1>2. /\ provider \in Providers /\ password \in Install!Passwords /\ url \in Install!Urls
      /\ oauth \in {"unset", "on", "off"} /\ creds \in SUBSET (Providers \ {"empty"})
  BY LinesTyped DEF EnvironmentFiles, Providers, Install!Tunnels, Install!Passwords,
                    Install!Urls, Install!FromFlag
<1> HIDE DEF provider, password, url, oauth, creds
<1>3. /\ Install!FlagsOver(file) \in EnvironmentFiles
      /\ Install!FlagsOver(file).provider = provider
  BY ZenonT(30), <1>1, <1>2 DEF EnvironmentFiles, Install!Passwords, Install!Urls
<1> QED
  BY <1>3 DEF provider

LEMMA PurgedTyped ==
  ASSUME NEW file \in EnvironmentFiles, NEW prev
  PROVE  /\ Install!Purged(file, prev) \in EnvironmentFiles
         /\ Install!Purged(file, prev).provider =
              IF Install!Switching(prev) \/ Install!Downgrading(prev) THEN "empty"
              ELSE file.provider
<1> DEFINE url == IF cmdline.url THEN file.url ELSE "empty"
<1>1. CASE Install!Switching(prev) \/ Install!Downgrading(prev)
  <2>1. Install!Purged(file, prev) =
          [file EXCEPT !.creds = file.creds \ {prev}, !.provider = "empty", !.url = url]
    BY <1>1 DEF Install!Purged
  <2>2. url \in Install!Urls /\ "empty" \in Providers /\ file.creds \ {prev} \in SUBSET (Providers \ {"empty"})
    BY DEF EnvironmentFiles, Install!Urls, Providers
  <2> HIDE DEF url
  <2> QED
    BY <1>1, <2>1, <2>2 DEF EnvironmentFiles, Install!Urls
<1>2. CASE ~(Install!Switching(prev) \/ Install!Downgrading(prev))
  BY <1>2 DEF Install!Purged
<1> QED
  BY <1>1, <1>2

LEMMA StateOverTyped ==
  ASSUME NEW file \in EnvironmentFiles, NEW s \in InstStates
  PROVE  /\ Install!StateOver(file, s) \in EnvironmentFiles
         /\ Install!StateOver(file, s).provider =
              IF s.provider # "empty" THEN s.provider ELSE file.provider
<1> DEFINE provider == IF s.provider # "empty" THEN s.provider ELSE file.provider
           password == IF s.token # "empty" THEN s.token ELSE file.token
           url == IF s.url # "empty" THEN s.url ELSE file.url
           oauth == IF s.oauth # "unset" THEN s.oauth ELSE file.oauth
           creds == file.creds \union s.creds
<1>1. Install!StateOver(file, s) =
        [file EXCEPT !.provider = provider, !.token = password, !.url = url, !.oauth = oauth,
                     !.creds = creds]
  BY DEF Install!StateOver
<1>2. /\ provider \in Providers /\ password \in Install!Passwords /\ url \in Install!Urls
      /\ oauth \in {"unset", "on", "off"} /\ creds \in SUBSET (Providers \ {"empty"})
  BY DEF InstStates, EnvironmentFiles, Providers, Install!Tunnels, Install!Passwords,
         Install!Urls
<1> HIDE DEF provider, password, url, oauth, creds
<1>3. /\ Install!StateOver(file, s) \in EnvironmentFiles
      /\ Install!StateOver(file, s).provider = provider
  BY ZenonT(30), <1>1, <1>2 DEF EnvironmentFiles, Install!Passwords, Install!Urls
<1> QED
  BY <1>3 DEF provider

LEMMA ScrubbedTyped ==
  ASSUME inst \in InstStates, NEW prev, NEW s, s = Install!Scrubbed(prev)
  PROVE  /\ s \in InstStates /\ s.provider = inst.provider /\ s.probe = inst.probe
         /\ s.created = inst.created
<1> DEFINE url == IF cmdline.url THEN inst.url ELSE "empty"
<1>1. CASE Install!Switching(prev) \/ Install!Downgrading(prev)
  <2>1. s = [inst EXCEPT !.creds = inst.creds \intersect {inst.provider}, !.url = url]
    BY <1>1 DEF Install!Scrubbed
  <2>2. url \in Install!Urls /\ inst.creds \intersect {inst.provider} \in SUBSET (Install!Tunnels \ {"empty"})
    BY DEF InstStates, Install!Urls
  <2> HIDE DEF url
  <2> QED
    BY <2>1, <2>2 DEF InstStates
<1>2. CASE ~(Install!Switching(prev) \/ Install!Downgrading(prev))
  BY <1>2 DEF Install!Scrubbed
<1> QED
  BY <1>1, <1>2

(* After it a provider in the file is one the wizard settled on.           *)
LEMMA ReconcileKeeps == ASSUME InstInv, Install!Reconcile PROVE InstInv'
<1>1. /\ inst \in InstStates /\ cmdline \in CommandLines /\ unit \in InstUnits
      /\ envFile \in AnyFile /\ inst.at = "reconcile" /\ ~Ended /\ InstTypes
      /\ envFile # NoFile /\ inst.snapshot = NoFile
      /\ IF inst.created THEN found.file = NoFile /\ envFile.provider = inst.provider
                         ELSE envFile = found.file
      /\ inst.provider # "empty" \/ inst.decided
      /\ Install!FromFlag /\ cmdline.tunnel # "empty" => inst.provider # "empty"
      /\ found.unit.running => unit.installed /\ (unit.running \/ inst.probe)
      /\ cmdline.command = "install"
      /\ \A p \in DOMAIN entries : entries[p].kind # "http"
      /\ UNCHANGED <<cmdline, entries, found>>
  BY DEF InstInv, InstTypes, FileTold, ServiceTold, ProviderTold, EndpointTold, Ended,
         Install!InstAt, Install!Reconcile
<1>2. ASSUME inst' \in InstStates, inst'.at = "validate", inst'.created = inst.created,
             inst'.probe = inst.probe, unit' = unit, envFile' \in AnyFile, envFile' # NoFile,
             envFile'.provider # "empty" => inst'.provider # "empty",
             IF inst.created THEN inst'.snapshot = NoFile ELSE inst'.snapshot = envFile
      PROVE  InstInv'
  <2>1. InstTypes'
    BY <1>1, <1>2 DEF InstTypes
  <2>2. FileTold' /\ ServiceTold'
    BY <1>1, <1>2 DEF FileTold, ServiceTold, Install!FailureRollsBack, Install!ServiceComesBack
  <2>3. ProviderTold' /\ EndpointTold'
    BY <1>1, <1>2 DEF ProviderTold, EndpointTold, Install!EndpointAgrees
  <2> QED
    BY <2>1, <2>2, <2>3 DEF InstInv
<1>3. CASE inst.created
  <2>1. inst' = [inst EXCEPT !.at = "validate"] /\ UNCHANGED <<envFile, unit>>
    BY <1>3 DEF Install!Reconcile
  <2>2. /\ inst' \in InstStates /\ inst'.at = "validate" /\ inst'.created = inst.created
        /\ inst'.probe = inst.probe /\ inst'.snapshot = inst.snapshot
        /\ inst'.provider = inst.provider
    BY <1>1, <2>1 DEF InstStates, InstSteps
  <2> QED
    BY <1>1, <1>2, <1>3, <2>1, <2>2
<1>4. CASE ~inst.created
  <2> DEFINE prev == envFile.provider
             s == Install!Scrubbed(prev)
             over == Install!FlagsOver(envFile)
             left == Install!Purged(over, prev)
             file == Install!StateOver(left, s)
  <2>1. \/ envFile' = file /\ unit' = unit
           /\ inst' = [s EXCEPT !.snapshot = envFile, !.at = "validate"]
        \/ Install!FailWith(inst, envFile, unit)
    BY <1>4 DEF Install!Reconcile
  <2>2. /\ s \in InstStates /\ s.provider = inst.provider /\ s.probe = inst.probe
        /\ s.created = inst.created
    BY <1>1, ScrubbedTyped
  <2> HIDE DEF s
  <2>3. over \in EnvironmentFiles
        /\ (inst.provider = "empty" => over.provider = prev)
    BY <1>1, FlagsOverTyped DEF AnyFile
  <2> HIDE DEF over
  <2>4. left \in EnvironmentFiles
        /\ (inst.provider = "empty" => left.provider = "empty")
    BY <1>1, <2>3, PurgedTyped DEF Install!Downgrading
  <2> HIDE DEF left
  <2>5. file \in EnvironmentFiles /\ (file.provider # "empty" => inst.provider # "empty")
    BY <2>2, <2>4, StateOverTyped
  <2> HIDE DEF file
  <2>6. CASE envFile' = file /\ unit' = unit
             /\ inst' = [s EXCEPT !.snapshot = envFile, !.at = "validate"]
    <3>1. /\ inst' \in InstStates /\ inst'.at = "validate" /\ inst'.created = inst.created
          /\ inst'.probe = inst.probe /\ inst'.snapshot = envFile
          /\ inst'.provider = inst.provider
      BY <1>1, <2>2, <2>6 DEF InstStates, InstSteps
    <3>2. envFile' \in AnyFile /\ envFile' # NoFile
      BY <2>5, <2>6, InstallAssumption DEF AnyFile
    <3> QED
      BY <1>2, <1>4, <2>5, <2>6, <3>1, <3>2
  <2>7. CASE Install!FailWith(inst, envFile, unit)
    BY <1>1, <1>4, <2>7, FailKeeps
  <2> QED
    BY <2>1, <2>6, <2>7
<1> QED
  BY <1>3, <1>4

LEMMA UrlDerived ==
  ASSUME NEW file \in EnvironmentFiles, NEW g \in EnvironmentFiles,
         g \in {file, [file EXCEPT !.url = Install!DerivedUrl(file)]}
  PROVE  Install!DerivedUrl(g) = Install!DerivedUrl(file) /\ g.provider = file.provider
<1> DEFINE url == Install!DerivedUrl(file)
<1>1. CASE g = file
  BY <1>1
<1>2. CASE g = [file EXCEPT !.url = url]
  <2> HIDE DEF url
  <2>1. g.url = url /\ g.provider = file.provider
    BY <1>2 DEF EnvironmentFiles
  <2> USE DEF url
  <2> QED
    BY <2>1 DEF Install!DerivedUrl
<1> QED
  BY <1>1, <1>2

LEMMA UrlTyped ==
  ASSUME NEW file \in EnvironmentFiles
  PROVE  /\ Install!DerivedUrl(file) \in Install!Urls
         /\ [file EXCEPT !.url = Install!DerivedUrl(file)] \in EnvironmentFiles
<1> DEFINE url == Install!DerivedUrl(file)
<1>1. url \in Install!Urls
  BY DEF Install!DerivedUrl, Install!Urls, EnvironmentFiles
<1> HIDE DEF url
<1>2. [file EXCEPT !.url = url] \in EnvironmentFiles
  BY <1>1 DEF Install!Urls, EnvironmentFiles
<1> QED
  BY <1>1, <1>2 DEF url

(* A file that does not do is taken back: to the one found, or to none.    *)
LEMMA ValidateKeeps == ASSUME InstInv, Install!Validate PROVE InstInv'
<1>1. /\ inst \in InstStates /\ cmdline \in CommandLines /\ unit \in InstUnits
      /\ inst.at = "validate" /\ ~Ended /\ InstTypes
      /\ envFile \in EnvironmentFiles /\ found.file \in AnyFile
      /\ IF inst.created THEN found.file = NoFile /\ inst.snapshot = NoFile
                         ELSE inst.snapshot = found.file /\ found.file # NoFile
      /\ found.unit.running => unit.installed /\ (unit.running \/ inst.probe)
      /\ cmdline.command = "install"
      /\ envFile.provider # "empty" => inst.provider # "empty"
      /\ \A p \in DOMAIN entries : entries[p].kind # "http"
      /\ UNCHANGED <<cmdline, entries, found>>
  BY DEF InstInv, InstTypes, FileTold, ServiceTold, ProviderTold, EndpointTold, Ended,
         Install!InstAt, Install!Validate, AnyFile
<1>2. \/ Install!FailWith(inst, IF inst.created THEN NoFile ELSE Install!RolledBackFile, unit)
      \/ Install!EnvValid(envFile) /\ Install!FailWith(inst, Install!RolledBackFile, unit)
      \/ /\ inst' = [inst EXCEPT !.memory = Install!DerivedUrl(envFile),
                                 !.at = IF Install!Managed THEN "service" ELSE "url"]
         /\ unit' = unit
         /\ envFile' \in {envFile, [envFile EXCEPT !.url = Install!DerivedUrl(envFile)]}
  BY DEF Install!Validate
<1>3. /\ Install!RolledBackFile = IF inst.created THEN envFile ELSE found.file
      /\ envFile \in AnyFile /\ NoFile \in AnyFile
  BY <1>1 DEF Install!RolledBackFile, AnyFile
<1>4. CASE Install!FailWith(inst, IF inst.created THEN NoFile ELSE Install!RolledBackFile, unit)
  <2>1. Install!FailWith(inst, found.file, unit)
    BY <1>1, <1>3, <1>4
  <2> QED
    BY <1>1, <2>1, FailKeeps
<1>5. CASE Install!EnvValid(envFile) /\ Install!FailWith(inst, Install!RolledBackFile, unit)
  <2>1. CASE inst.created
    <3>1. Install!FailWith(inst, envFile, unit)
      BY <1>3, <1>5, <2>1
    <3> QED
      BY <1>1, <1>3, <1>5, <2>1, <3>1, FailKeeps
  <2>2. CASE ~inst.created
    <3>1. Install!FailWith(inst, found.file, unit)
      BY <1>3, <1>5, <2>2
    <3> QED
      BY <1>1, <3>1, FailKeeps
  <2> QED
    BY <2>1, <2>2
<1>6. CASE /\ inst' = [inst EXCEPT !.memory = Install!DerivedUrl(envFile),
                                   !.at = IF Install!Managed THEN "service" ELSE "url"]
           /\ unit' = unit
           /\ envFile' \in {envFile, [envFile EXCEPT !.url = Install!DerivedUrl(envFile)]}
  <2> DEFINE url == Install!DerivedUrl(envFile)
  <2>1. url \in Install!Urls /\ envFile' \in EnvironmentFiles
    BY <1>1, <1>6, UrlTyped
  <2>2. Install!DerivedUrl(envFile)' = url /\ envFile'.provider = envFile.provider
    <3> DEFINE g == envFile'
    <3>1. g \in EnvironmentFiles /\ g \in {envFile, [envFile EXCEPT !.url = url]}
      BY <1>6, <2>1
    <3>2. Install!DerivedUrl(envFile)' = Install!DerivedUrl(g)
      BY DEF Install!DerivedUrl
    <3> HIDE DEF g
    <3>3. Install!DerivedUrl(g) = url /\ g.provider = envFile.provider
      BY <1>1, <3>1, UrlDerived
    <3> QED
      BY <3>2, <3>3 DEF g
  <2> HIDE DEF url
  <2>3. inst' = [inst EXCEPT !.memory = url,
                             !.at = IF Install!Managed THEN "service" ELSE "url"]
    BY <1>6 DEF url
  <2>4. /\ inst' \in InstStates /\ inst'.memory = url /\ inst'.probe = inst.probe
        /\ inst'.provider = inst.provider
        /\ inst'.at = IF Install!Managed THEN "service" ELSE "url"
    BY <1>1, <2>1, <2>3 DEF InstStates, InstSteps
  <2>5. envFile' \in AnyFile /\ envFile' # NoFile
    BY <2>1, InstallAssumption DEF AnyFile
  <2>6. InstTypes'
    BY <1>1, <1>6, <2>4, <2>5 DEF InstTypes
  <2>7. FileTold' /\ ServiceTold'
    BY <1>1, <1>6, <2>4, <2>5 DEF FileTold, ServiceTold, Install!FailureRollsBack,
                                  Install!ServiceComesBack
  <2>8. ProviderTold' /\ EndpointTold'
    BY <1>1, <2>2, <2>4 DEF ProviderTold, EndpointTold, Install!EndpointAgrees, Install!Managed
  <2> QED
    BY <2>6, <2>7, <2>8 DEF InstInv
<1> QED
  BY <1>2, <1>4, <1>5, <1>6

(* The service is stopped, installed and started with the file as it is.   *)
LEMMA InstallKeeps == ASSUME InstInv, Install!InstallService PROVE InstInv'
<1>1. /\ inst \in InstStates /\ cmdline \in CommandLines /\ unit \in InstUnits
      /\ inst.at = "service" /\ ~Ended /\ InstTypes
      /\ envFile \in AnyFile /\ envFile # NoFile
      /\ found.unit.running => unit.installed /\ (unit.running \/ inst.probe)
      /\ cmdline.command = "install" => /\ envFile.provider # "empty" => inst.provider # "empty"
                                        /\ inst.memory = Install!DerivedUrl(envFile)
      /\ cmdline.command # "install" => inst.transport = "empty"
      /\ \A p \in DOMAIN entries : entries[p].kind # "http"
      /\ UNCHANGED <<cmdline, entries, found>>
  BY DEF InstInv, InstTypes, FileTold, ServiceTold, ProviderTold, EndpointTold, Ended,
         Install!InstAt, Install!InstallService
<1> DEFINE down == [installed |-> TRUE, running |-> FALSE, loaded |-> unit.loaded]
           off == [unit EXCEPT !.running = FALSE]
           up == Install!Starting(envFile)
           s == [inst EXCEPT !.entered = TRUE]
           no == [s EXCEPT !.refused = TRUE]
<1>2. /\ down \in InstUnits /\ off \in InstUnits /\ up \in InstUnits
      /\ up.installed = TRUE /\ up.running = TRUE /\ up.loaded = envFile
  BY <1>1 DEF InstUnits, Install!Starting
<1>3. /\ s \in InstStates /\ s.entered = TRUE /\ s.probe = inst.probe /\ s.memory = inst.memory
      /\ s.provider = inst.provider /\ s.transport = inst.transport
  BY <1>1 DEF InstStates
<1>4. \/ \E u \in {unit, off, down} : Install!FailWith(no, envFile, u)
      \/ /\ unit' = up /\ envFile' = envFile
         /\ inst' = [s EXCEPT !.at = IF cmdline.command = "install" THEN "url" ELSE "completed"]
  BY DEF Install!InstallService
<1> HIDE DEF down, off, up, s
<1>5. /\ no \in InstStates /\ no.entered = TRUE /\ no.refused = TRUE
      /\ no.transport = inst.transport
  BY <1>3 DEF InstStates
<1> HIDE DEF no
<1>6. ASSUME NEW u \in {unit, off, down}, Install!FailWith(no, envFile, u)
      PROVE  InstInv'
  <2>1. u \in InstUnits
    BY <1>1, <1>2
  <2> QED
    BY <1>1, <1>5, <1>6, <2>1, FailKeeps
<1>7. CASE /\ unit' = up /\ envFile' = envFile
           /\ inst' = [s EXCEPT !.at = IF cmdline.command = "install" THEN "url" ELSE "completed"]
  <2>1. /\ inst' \in InstStates /\ inst'.memory = inst.memory /\ inst'.provider = inst.provider
        /\ inst'.transport = inst.transport
        /\ inst'.at = IF cmdline.command = "install" THEN "url" ELSE "completed"
    BY <1>3, <1>7 DEF InstStates, InstSteps
  <2>2. InstTypes'
    BY <1>1, <1>2, <1>7, <2>1 DEF InstTypes
  <2>3. FileTold' /\ ServiceTold'
    BY <1>1, <1>2, <1>7, <2>1 DEF FileTold, ServiceTold, Install!FailureRollsBack,
                                  Install!ServiceComesBack
  <2>4. Install!DerivedUrl(envFile)' = Install!DerivedUrl(envFile)
    BY <1>7 DEF Install!DerivedUrl
  <2>5. ProviderTold' /\ EndpointTold'
    BY <1>1, <1>2, <1>7, <2>1, <2>4 DEF ProviderTold, EndpointTold, Install!EndpointAgrees,
                                        Install!Skipped
  <2> QED
    BY <2>2, <2>3, <2>5 DEF InstInv
<1> QED
  BY <1>4, <1>6, <1>7

(* The address for the agents: out of the file, or as it was derived.      *)
LEMMA UrlKeeps == ASSUME InstInv, Install!TakeUrl PROVE InstInv'
<1>1. /\ inst \in InstStates /\ cmdline \in CommandLines /\ unit \in InstUnits
      /\ inst.at = "url" /\ ~Ended /\ InstTypes
      /\ envFile \in EnvironmentFiles /\ envFile \in AnyFile /\ envFile # NoFile
      /\ found.unit.running => unit.installed /\ (unit.running \/ inst.probe)
      /\ envFile.provider # "empty" => inst.provider # "empty"
      /\ inst.memory = Install!DerivedUrl(envFile)
      /\ cmdline.command = "install"
      /\ ~Install!Skipped /\ Install!Managed /\ envFile.provider # "empty"
           => unit.running /\ unit.loaded = envFile
      /\ \A p \in DOMAIN entries : entries[p].kind # "http"
      /\ UNCHANGED <<cmdline, entries, found>>
  BY DEF InstInv, InstTypes, FileTold, ServiceTold, ProviderTold, EndpointTold, Ended,
         Install!InstAt, Install!TakeUrl, AnyFile
<1> DEFINE url == IF inst.snapshot # NoFile THEN envFile.url ELSE inst.memory
           s == [inst EXCEPT !.entered = TRUE]
<1>2. \/ url = "empty" /\ Install!FailWith(s, envFile, unit)
      \/ /\ url # "empty" /\ UNCHANGED <<envFile, unit>>
         /\ inst' = [inst EXCEPT !.publicURL = url, !.authToken = envFile.token,
                                 !.entered = TRUE, !.at = "password"]
  BY DEF Install!TakeUrl
<1>3. s \in InstStates /\ s.entered = TRUE /\ s.probe = inst.probe /\ s.refused = inst.refused
  BY <1>1 DEF InstStates
<1>4. url \in Install!Urls /\ envFile.token \in Install!Passwords
      /\ (url # "empty" => url = Install!DerivedUrl(envFile))
  BY <1>1 DEF InstStates, EnvironmentFiles, Install!Urls, Install!Passwords, Install!DerivedUrl
<1> HIDE DEF url, s
<1>5. CASE url = "empty" /\ Install!FailWith(s, envFile, unit)
  <2>1. found.unit.running /\ ~s.refused => unit.installed /\ (unit.running \/ s.probe)
    BY <1>1, <1>3
  <2> QED
    BY <1>1, <1>3, <1>5, <2>1, FailKeeps
<1>6. CASE /\ url # "empty" /\ UNCHANGED <<envFile, unit>>
           /\ inst' = [inst EXCEPT !.publicURL = url, !.authToken = envFile.token,
                                   !.entered = TRUE, !.at = "password"]
  <2>1. /\ inst' \in InstStates /\ inst'.at = "password" /\ inst'.publicURL = url
        /\ inst'.authToken = envFile.token /\ inst'.entered = TRUE
        /\ inst'.provider = inst.provider /\ inst'.probe = inst.probe
        /\ inst'.transport = inst.transport /\ inst'.agents = inst.agents
    BY <1>1, <1>4, <1>6 DEF InstStates, InstSteps
  <2>2. Install!DerivedUrl(envFile)' = Install!DerivedUrl(envFile)
        /\ (Install!Skipped' <=> Install!Skipped) /\ (Install!Managed' <=> Install!Managed)
    BY <1>1, <1>6, <2>1 DEF Install!DerivedUrl, Install!Skipped, Install!Managed
  <2>3. InstTypes'
    BY <1>1, <1>6, <2>1 DEF InstTypes
  <2>4. FileTold' /\ ServiceTold'
    BY <1>1, <1>6, <2>1 DEF FileTold, ServiceTold, Install!FailureRollsBack,
                            Install!ServiceComesBack
  <2>5. ProviderTold' /\ EndpointTold'
    BY <1>1, <1>4, <1>6, <2>1, <2>2 DEF ProviderTold, EndpointTold, Install!EndpointAgrees
  <2> QED
    BY <2>3, <2>4, <2>5 DEF InstInv
<1> QED
  BY <1>2, <1>5, <1>6

(* A new password: the file and the service that runs have the same one.   *)
LEMMA PasswordKeeps == ASSUME InstInv, Install!PasswordStep PROVE InstInv'
<1>1. /\ inst \in InstStates /\ cmdline \in CommandLines /\ unit \in InstUnits
      /\ inst.at = "password" /\ ~Ended /\ InstTypes /\ inst.entered
      /\ envFile \in EnvironmentFiles /\ envFile \in AnyFile /\ envFile # NoFile
      /\ found.unit.running => unit.installed /\ (unit.running \/ inst.probe)
      /\ envFile.provider # "empty" => inst.provider # "empty"
      /\ cmdline.command = "install"
      /\ ~Install!Skipped => /\ inst.publicURL = Install!DerivedUrl(envFile)
                             /\ inst.authToken = envFile.token
      /\ ~Install!Skipped /\ Install!Managed /\ envFile.provider # "empty"
           => unit.running /\ unit.loaded = envFile
      /\ \A p \in DOMAIN entries : entries[p].kind # "http"
      /\ UNCHANGED <<cmdline, entries, found>>
  BY DEF InstInv, InstTypes, FileTold, ServiceTold, ProviderTold, EndpointTold, Ended,
         Install!InstAt, Install!PasswordStep, AnyFile
<1> DEFINE new == [envFile EXCEPT !.token = "password"]
           s == [inst EXCEPT !.entered = TRUE]
           no == [s EXCEPT !.refused = TRUE]
           off == [unit EXCEPT !.running = FALSE]
           up == IF Install!Restarts THEN Install!Starting(new) ELSE unit
<1>2. \/ inst' = [inst EXCEPT !.at = "binary"] /\ UNCHANGED <<envFile, unit>>
      \/ Install!FailWith(s, envFile, unit)
      \/ \E file \in {envFile, new}, u \in {unit, off} : Install!FailWith(no, file, u)
      \/ /\ envFile' = new /\ unit' = up
         /\ inst' = [inst EXCEPT !.authToken = "password", !.token = "password",
                                 !.at = "binary"]
  BY DEF Install!PasswordStep, Install!PersistAuthToken
<1>3. /\ new \in EnvironmentFiles /\ new \in AnyFile /\ new.token = "password"
      /\ new.provider = envFile.provider /\ new.url = envFile.url
  BY <1>1 DEF EnvironmentFiles, AnyFile
<1>4. s \in InstStates /\ s.entered = TRUE /\ s.probe = inst.probe /\ s.refused = inst.refused
  BY <1>1 DEF InstStates
<1>5. off \in InstUnits
  BY <1>1 DEF InstUnits
<1> HIDE DEF new, s, off
<1>6. no \in InstStates /\ no.entered = TRUE /\ no.refused = TRUE
  BY <1>4 DEF InstStates
<1>7. up \in InstUnits
      /\ (Install!Restarts => up.installed = TRUE /\ up.running = TRUE /\ up.loaded = new)
      /\ (~Install!Restarts => up = unit)
  BY <1>1, <1>3 DEF InstUnits, Install!Starting
<1> HIDE DEF no, up
<1>8. CASE inst' = [inst EXCEPT !.at = "binary"] /\ UNCHANGED <<envFile, unit>>
  <2>1. /\ inst' \in InstStates /\ inst'.at = "binary" /\ inst'.publicURL = inst.publicURL
        /\ inst'.authToken = inst.authToken /\ inst'.entered = inst.entered
        /\ inst'.probe = inst.probe /\ inst'.transport = inst.transport
        /\ inst'.agents = inst.agents
    BY <1>1, <1>8 DEF InstStates, InstSteps
  <2>2. Install!DerivedUrl(envFile)' = Install!DerivedUrl(envFile)
        /\ (Install!Skipped' <=> Install!Skipped) /\ (Install!Managed' <=> Install!Managed)
    BY <1>1, <1>8, <2>1 DEF Install!DerivedUrl, Install!Skipped, Install!Managed
  <2>3. InstTypes'
    BY <1>1, <1>8, <2>1 DEF InstTypes
  <2>4. FileTold' /\ ServiceTold'
    BY <1>1, <1>8, <2>1 DEF FileTold, ServiceTold, Install!FailureRollsBack,
                            Install!ServiceComesBack
  <2>5. ProviderTold' /\ EndpointTold'
    BY <1>1, <1>8, <2>1, <2>2 DEF ProviderTold, EndpointTold, Install!EndpointAgrees
  <2> QED
    BY <2>3, <2>4, <2>5 DEF InstInv
<1>9. CASE Install!FailWith(s, envFile, unit)
  <2>1. found.unit.running /\ ~s.refused => unit.installed /\ (unit.running \/ s.probe)
    BY <1>1, <1>4
  <2> QED
    BY <1>1, <1>4, <1>9, <2>1, FailKeeps
<1>10. ASSUME NEW file \in {envFile, new}, NEW u \in {unit, off}, Install!FailWith(no, file, u)
       PROVE  InstInv'
  <2>1. file \in AnyFile /\ u \in InstUnits
    BY <1>1, <1>3, <1>5
  <2> QED
    BY <1>1, <1>6, <1>10, <2>1, FailKeeps
<1>11. CASE /\ envFile' = new /\ unit' = up
            /\ inst' = [inst EXCEPT !.authToken = "password", !.token = "password",
                                    !.at = "binary"]
  <2>1. /\ inst' \in InstStates /\ inst'.at = "binary" /\ inst'.publicURL = inst.publicURL
        /\ inst'.authToken = "password" /\ inst'.entered = inst.entered
        /\ inst'.probe = inst.probe /\ inst'.transport = inst.transport
        /\ inst'.agents = inst.agents
    BY ZenonT(30), <1>1, <1>11 DEF InstStates, InstSteps, Install!Passwords
  <2>2. Install!DerivedUrl(envFile)' = Install!DerivedUrl(envFile)
        /\ (Install!Skipped' <=> Install!Skipped) /\ (Install!Managed' <=> Install!Managed)
    BY <1>1, <1>3, <1>11, <2>1 DEF Install!DerivedUrl, Install!Skipped, Install!Managed
  <2>3. InstTypes'
    BY <1>1, <1>3, <1>7, <1>11, <2>1 DEF InstTypes
  <2>4. FileTold' /\ ServiceTold'
    BY <1>1, <1>7, <1>11, <2>1 DEF FileTold, ServiceTold, Install!FailureRollsBack,
                                   Install!ServiceComesBack
  <2>5. Install!Managed /\ envFile.provider # "empty" => Install!Restarts
    BY <1>1 DEF Install!Restarts
  <2>6. ProviderTold' /\ EndpointTold'
    BY <1>1, <1>3, <1>7, <1>11, <2>1, <2>2, <2>5
       DEF ProviderTold, EndpointTold, Install!EndpointAgrees
  <2> QED
    BY <2>3, <2>4, <2>6 DEF InstInv
<1> QED
  BY <1>2, <1>8, <1>9, <1>10, <1>11

(* The agents' files: address and token are the ones the service runs with. *)
LEMMA ConfigureKeeps == ASSUME InstInv, Install!WriteConfig PROVE InstInv'
<1>1. /\ inst \in InstStates /\ cmdline \in CommandLines /\ unit \in InstUnits
      /\ inst.at = "binary" /\ ~Ended /\ InstTypes /\ envFile \in AnyFile
      /\ ~inst.entered => envFile = found.file
      /\ found.unit.running => unit.installed /\ (unit.running \/ inst.probe)
      /\ cmdline.command = "install"
      /\ ~Install!Skipped => /\ inst.publicURL = Install!DerivedUrl(envFile)
                             /\ inst.authToken = envFile.token
      /\ ~Install!Skipped /\ Install!Managed /\ envFile.provider # "empty"
           => unit.running /\ unit.loaded = envFile
      /\ \A p \in DOMAIN entries : entries[p].kind # "http"
      /\ UNCHANGED <<cmdline, found>>
  BY DEF InstInv, InstTypes, FileTold, ServiceTold, ProviderTold, EndpointTold, Ended,
         Install!InstAt, Install!WriteConfig
<1> DEFINE s == [inst EXCEPT !.entered = TRUE]
<1>2. PICK done :
        /\ entries' = [p \in DOMAIN entries |->
                         IF p \in done THEN Install!EntryFor ELSE entries[p]]
        /\ \/ inst' = [inst EXCEPT !.at = "completed"] /\ UNCHANGED <<envFile, unit>>
           \/ Install!FailWith(s, envFile, unit)
  BY DEF Install!WriteConfig
<1>3. s \in InstStates /\ s.entered = TRUE /\ s.probe = inst.probe /\ s.refused = inst.refused
  BY <1>1 DEF InstStates
<1> HIDE DEF s
<1>4. CASE Install!FailWith(s, envFile, unit)
  <2>1. found.unit.running /\ ~s.refused => unit.installed /\ (unit.running \/ s.probe)
    BY <1>1, <1>3
  <2> QED
    BY <1>1, <1>3, <1>4, <2>1, FailKeeps
<1>5. CASE inst' = [inst EXCEPT !.at = "completed"] /\ UNCHANGED <<envFile, unit>>
  <2>1. /\ inst' \in InstStates /\ inst'.at = "completed" /\ inst'.transport = inst.transport
        /\ inst'.agents = inst.agents
    BY <1>1, <1>5 DEF InstStates, InstSteps
  <2>2. Install!DerivedUrl(envFile)' = Install!DerivedUrl(envFile)
        /\ (Install!Skipped' <=> Install!Skipped) /\ (Install!Managed' <=> Install!Managed)
    BY <1>1, <1>5, <2>1 DEF Install!DerivedUrl, Install!Skipped, Install!Managed
  <2>3. ASSUME ~Install!Skipped, NEW p \in DOMAIN entries', entries'[p].kind = "http"
        PROVE  /\ entries'[p].url = Install!DerivedUrl(envFile)
               /\ entries'[p].token \in {"empty", envFile.token}
    <3>1. entries'[p] = Install!EntryFor
      BY <1>1, <1>2, <2>3
    <3>2. inst.transport = "http"
      BY <2>3 DEF Install!Skipped
    <3>3. /\ Install!EntryFor.url = inst.publicURL
          /\ Install!EntryFor.token \in {"empty", inst.authToken}
      BY <3>2 DEF Install!EntryFor
    <3> QED
      BY <1>1, <2>3, <3>1, <3>3
  <2>4. Install!EndpointAgrees'
    BY <1>1, <1>5, <2>2, <2>3 DEF Install!EndpointAgrees, Install!Through
  <2>5. InstTypes'
    BY <1>1, <1>5, <2>1 DEF InstTypes
  <2> QED
    BY <1>1, <2>1, <2>4, <2>5 DEF InstInv, FileTold, ServiceTold, ProviderTold, EndpointTold,
       Ended, Install!FailureRollsBack, Install!ServiceComesBack
<1> QED
  BY <1>2, <1>4, <1>5

(* `service install' and `service start' and its siblings, which have no    *)
(* agents.                                                                 *)
LEMMA MadeTyped ==
  ASSUME cmdline \in CommandLines, inst \in InstStates, NEW f, f = Install!SeedFromFlags(inst),
         NEW file,
         \/ file = Install!StateToEnv([f EXCEPT !.oauth = IF @ = "unset" THEN "on" ELSE @])
         \/ \E p \in Install!Tunnels \ {"empty"} :
              \E s \in Install!Gathered([f EXCEPT !.provider = p]) :
              file = Install!StateToEnv(s)
  PROVE  file \in EnvironmentFiles
<1>1. f \in InstStates
  BY FlagsTaken
<1>2. CASE file = Install!StateToEnv([f EXCEPT !.oauth = IF @ = "unset" THEN "on" ELSE @])
  <2> DEFINE oauth == IF f.oauth = "unset" THEN "on" ELSE f.oauth
  <2>1. oauth \in {"unset", "on", "off"}
    BY <1>1 DEF InstStates
  <2>2. file = Install!StateToEnv([f EXCEPT !.oauth = oauth])
    BY <1>2
  <2> HIDE DEF oauth
  <2>3. [f EXCEPT !.oauth = oauth] \in InstStates
    BY <1>1, <2>1 DEF InstStates
  <2> QED
    BY <2>2, <2>3, EnvTyped
<1>3. ASSUME NEW p \in Install!Tunnels \ {"empty"},
             NEW s \in Install!Gathered([f EXCEPT !.provider = p]),
             file = Install!StateToEnv(s)
      PROVE  file \in EnvironmentFiles
  <2>1. [f EXCEPT !.provider = p] \in InstStates /\ [f EXCEPT !.provider = p].provider # "empty"
    BY <1>1 DEF InstStates
  <2>2. s \in InstStates
    BY <2>1, GatheredTyped
  <2> QED
    BY <1>3, <2>2, EnvTyped
<1> QED
  BY <1>2, <1>3

LEMMA AloneKeeps ==
  ASSUME InstInv, Install!ServiceInstall \/ Install!ServiceControl
  PROVE  InstInv'
<1>1. /\ inst \in InstStates /\ cmdline \in CommandLines /\ unit \in InstUnits
      /\ inst.at = "agents" /\ ~Ended /\ InstTypes /\ envFile \in AnyFile
      /\ envFile = found.file /\ inst.created = FALSE /\ inst.snapshot = NoFile
      /\ found.unit.running => unit.installed /\ (unit.running \/ inst.probe)
      /\ \A p \in DOMAIN entries : entries[p].kind # "http"
      /\ cmdline.command # "install" => inst.transport = "empty"
      /\ UNCHANGED <<cmdline, entries, found>>
  BY DEF InstInv, InstTypes, FileTold, ServiceTold, ProviderTold, EndpointTold, Ended,
         Install!InstAt, Install!ServiceInstall, Install!ServiceControl
<1>2. CASE Install!ServiceInstall
  <2> DEFINE f == Install!SeedFromFlags(inst)
             made == IF Install!FileThere THEN {envFile}
                ELSE IF Install!FromFlag /\ cmdline.tunnel # "empty"
                THEN {Install!StateToEnv([f EXCEPT !.oauth = IF @ = "unset" THEN "on" ELSE @])}
                ELSE {Install!StateToEnv(s) :
                        s \in UNION {Install!Gathered([f EXCEPT !.provider = p]) :
                                       p \in Install!Tunnels \ {"empty"}}}
  <2>1. \/ Install!FailWith(inst, envFile, unit)
        \/ \E file \in made : /\ envFile' = file /\ unit' = unit
                              /\ inst' = [inst EXCEPT !.at = "service",
                                                      !.created = ~Install!FileThere]
    BY <1>2 DEF Install!ServiceInstall
  <2>2. cmdline.command = "service_install"
    BY <1>2 DEF Install!ServiceInstall
  <2>3. \A file \in made : file \in EnvironmentFiles
    <3> SUFFICES ASSUME NEW file \in made PROVE file \in EnvironmentFiles
      OBVIOUS
    <3>1. CASE Install!FileThere
      BY <1>1, <3>1 DEF Install!FileThere, AnyFile
    <3>2. CASE ~Install!FileThere /\ Install!FromFlag /\ cmdline.tunnel # "empty"
      <4>1. file = Install!StateToEnv([f EXCEPT !.oauth = IF @ = "unset" THEN "on" ELSE @])
        BY <3>2
      <4> QED
        BY <1>1, <4>1, MadeTyped
    <3>3. CASE ~Install!FileThere /\ ~(Install!FromFlag /\ cmdline.tunnel # "empty")
      <4>1. \E p \in Install!Tunnels \ {"empty"} :
              \E s \in Install!Gathered([f EXCEPT !.provider = p]) :
              file = Install!StateToEnv(s)
        BY <3>3
      <4> QED
        BY <1>1, <4>1, MadeTyped
    <3> QED
      BY <3>1, <3>2, <3>3
  <2> HIDE DEF made
  <2>4. CASE Install!FailWith(inst, envFile, unit)
    BY <1>1, <2>4, FailKeeps
  <2>5. ASSUME NEW file \in made, envFile' = file, unit' = unit,
               inst' = [inst EXCEPT !.at = "service", !.created = ~Install!FileThere]
        PROVE  InstInv'
    <3>1. file \in AnyFile /\ file # NoFile
      BY <2>3, InstallAssumption DEF AnyFile
    <3> DEFINE new == ~Install!FileThere
    <3>2. new \in BOOLEAN
      OBVIOUS
    <3>3. inst' = [inst EXCEPT !.at = "service", !.created = new]
      BY <2>5
    <3> HIDE DEF new
    <3>4. /\ inst' \in InstStates /\ inst'.at = "service" /\ inst'.probe = inst.probe
          /\ inst'.transport = inst.transport
      BY <1>1, <3>2, <3>3 DEF InstStates, InstSteps
    <3>5. InstTypes'
      BY <1>1, <2>5, <3>1, <3>4 DEF InstTypes
    <3> QED
      BY <1>1, <2>2, <2>5, <3>1, <3>4, <3>5 DEF InstInv, FileTold, ServiceTold, ProviderTold,
         EndpointTold, Ended, Install!EndpointAgrees, Install!FailureRollsBack,
         Install!ServiceComesBack
  <2> QED
    BY <2>1, <2>4, <2>5
<1>3. CASE Install!ServiceControl
  <2>1. /\ cmdline.command = "service_control" /\ envFile' = envFile
        /\ inst' = [inst EXCEPT !.at = "completed"]
    BY <1>3 DEF Install!ServiceControl
  <2>2. unit' \in InstUnits
    <3>1. /\ [unit EXCEPT !.running = FALSE] \in InstUnits
          /\ [installed |-> FALSE, running |-> FALSE, loaded |-> NoFile] \in InstUnits
          /\ Install!Starting(envFile) \in InstUnits
      BY <1>1 DEF InstUnits, AnyFile, Install!Starting
    <3> QED
      BY <1>1, <1>3, <3>1 DEF Install!ServiceControl
  <2>3. /\ inst' \in InstStates /\ inst'.at = "completed" /\ inst'.transport = inst.transport
    BY <1>1, <2>1 DEF InstStates, InstSteps
  <2>4. InstTypes'
    BY <1>1, <2>1, <2>2, <2>3 DEF InstTypes
  <2> QED
    BY <1>1, <2>1, <2>3, <2>4 DEF InstInv, FileTold, ServiceTold, ProviderTold, EndpointTold,
       Ended, Install!EndpointAgrees, Install!FailureRollsBack, Install!ServiceComesBack,
       Install!Skipped
<1> QED
  BY <1>2, <1>3

LEMMA PromptKeeps == ASSUME InstInv, Install!PromptFails PROVE InstInv'
<1>1. /\ inst \in InstStates /\ unit \in InstUnits /\ envFile \in AnyFile /\ InstTypes
      /\ inst.at \in {"agents", "scope", "transport", "provider", "password", "binary"}
      /\ cmdline.command = "install" /\ UNCHANGED <<cmdline, found>>
      /\ Install!FailWith(inst, envFile, unit)
  BY DEF InstInv, InstTypes, Install!PromptFails
<1>2. inst.entered \/ envFile = found.file
  BY <1>1 DEF InstInv, FileTold
<1>3. found.unit.running => unit.installed /\ (unit.running \/ inst.probe)
  BY <1>1 DEF InstInv, ServiceTold, Ended
<1> QED
  BY <1>1, <1>2, <1>3, FailKeeps

LEMMA InstStep == InstInv /\ [Install!InstNext]_installState => InstInv'
<1> SUFFICES ASSUME InstInv, [Install!InstNext]_installState PROVE InstInv'
  OBVIOUS
<1>1. CASE UNCHANGED installState
  BY <1>1 DEF installState, InstInv, InstTypes, FileTold, ServiceTold, ProviderTold,
     EndpointTold, Ended, Install!EndpointAgrees, Install!FailureRollsBack,
     Install!ServiceComesBack, Install!EnvValid, Install!DerivedUrl, Install!Skipped,
     Install!Managed, Install!Through, Install!FromFlag
<1>2. CASE Install!InstNext
  BY <1>2, ChoosesKeep, ProviderKeeps, ConfigKeeps, WriteKeeps, ReconcileKeeps, ValidateKeeps,
     InstallKeeps, UrlKeeps, PasswordKeeps, ConfigureKeeps, AloneKeeps, PromptKeeps
     DEF Install!InstNext
<1> QED
  BY <1>1, <1>2

-----------------------------------------------------------------------------
(* The session wizards: what was recorded is what the steps accepted.      *)
SiteSteps   == {"auth_check", "content_source", "target_type", "domain", "dns_mode", "create",
                "dns_setup", "validate"}
DomainSteps == {"domain_auth_check", "domain_website", "domain_name", "domain_namespace",
                "domain_bind", "domain_delegation_setup", "domain_verify"}
SetupSteps  == {"auth", "config", "completion", "tutorial"}
Labelled    == {"empty"} \cup WizardLabels
Roots       == {"empty"} \cup WizardRoots \cup WizardNames
Words       == {"empty", "generated"} \cup WizardNames \cup WizardLabels \cup WizardRoots
Spaces      == {"empty", "icann", "hns"}
SiteForms ==
  [cid : {"empty", "cid"}, target : {"empty", "ipfs", "ipns"},
   source : {"empty", "custom", "platform"}, domain : Seq(Words), namespace : Spaces,
   label : Labelled, generate : BOOLEAN, root : Roots, dns : BOOLEAN,
   life : {"draft", "claimed", "binding", "live", "failed"},
   content : {"new", "ready", "deployed"}, op : {"pending", "running", "succeeded", "failed"},
   site : Nat, result : {"none", "valid", "invalid", "bound", "verified"}]
Websites ==
  {[by |-> "other"]} \cup
  [by : {"session"}, cid : {"empty", "cid"}, target : {"ipfs", "ipns"},
   source : {"empty", "custom", "platform"}, managed : BOOLEAN, domain : Seq(Words),
   namespace : Spaces, root : Roots, generate : BOOLEAN, label : Labelled]
Bindings ==
  [site : Nat, domain : Seq(Words), namespace : Spaces, label : Labelled, generate : BOOLEAN,
   root : Roots]

SessTypes ==
  /\ wizard \in [kind : {"none", "websites", "domains", "setup"},
                 step : {"init", "complete", "domain_complete"} \cup Session!WizardSteps]
  /\ form \in SiteForms /\ DOMAIN accepted = Session!WizardSteps
  /\ sites \in Seq(Websites) /\ bindings \in Seq(Bindings)
  /\ token \in BOOLEAN /\ logins \in [Emails -> {"none", "pending", "failed", "done"}]
  /\ config \in [endpoint : {"old", "new", "empty"}, secure : BOOLEAN]

(* Each kind has its own steps.                                            *)
KindTold ==
  /\ wizard.kind = "none" => wizard.step = "init" /\ form = Session!EmptyForm
  /\ wizard.kind = "websites" => wizard.step \in SiteSteps \cup {"complete"}
  /\ wizard.kind = "domains" => wizard.step \in DomainSteps \cup {"domain_complete"}
  /\ wizard.kind = "setup" => wizard.step \in SetupSteps \cup {"complete"}

(* The domain recorded is the one of the input that was accepted.          *)
DomainChosen(f, d) ==
  /\ d \in Session!DomainInputs /\ f.source = Session!SourceOf(d)
  /\ f.source = "custom" => f.domain = <<d.domain>> /\ f.namespace = Session!NamespaceOf(d)
  /\ f.source = "platform" => /\ d.root # "empty" => f.root = d.root
                              /\ f.label = d.label /\ (d.label = "empty" => f.generate)

SiteTold ==
  wizard.kind = "websites" =>
    /\ wizard.step \in SiteSteps \ {"dns_setup", "validate"} => form.site = 0
    /\ wizard.step \in {"auth_check", "content_source", "target_type", "domain"} =>
         (form.life # "draft" => form.source # "empty")
    /\ wizard.step \in {"target_type", "domain", "dns_mode", "create"} =>
         form.cid = accepted["content_source"]
    /\ wizard.step \in {"domain", "dns_mode", "create"} =>
         form.target = accepted["target_type"] /\ form.target # "empty"
    /\ wizard.step \in {"dns_mode", "create"} => DomainChosen(form, accepted["domain"])
    /\ wizard.step = "create" => (form.source = "custom" => form.dns = accepted["dns_mode"])
    /\ wizard.step \in {"dns_setup", "validate", "complete"} =>
         form.site \in DOMAIN sites /\ Session!SiteAsAgreed(sites[form.site], accepted["domain"])
    /\ wizard.step = "complete" => form.result # "none"

BindTold ==
  wizard.kind = "domains" =>
    /\ wizard.step \in {"domain_name", "domain_namespace", "domain_bind"} =>
         form.site = accepted["domain_website"]
    /\ wizard.step \in {"domain_namespace", "domain_bind"} =>
         /\ form.domain = <<accepted["domain_name"].domain>>
         /\ form.label = accepted["domain_name"].label
         /\ form.generate = accepted["domain_name"].generate
    /\ wizard.step = "domain_bind" => form.namespace = accepted["domain_namespace"]
    /\ wizard.step \in {"domain_delegation_setup", "domain_verify", "domain_complete"} =>
         /\ bindings # <<>> /\ form.result # "none"
         /\ Session!BindingAsAgreed(bindings[Len(bindings)], accepted["domain_name"])

SignedTold ==
  /\ \A e \in Emails : logins[e] = "done" => token
  /\ wizard.kind = "setup" /\ wizard.step \in {"config", "completion", "tutorial", "complete"} =>
       (accepted["auth"].choice = "sign_in" =>
          accepted["auth"].email \in Emails /\ logins[accepted["auth"].email] = "done")
  /\ wizard.kind = "setup" /\ wizard.step \in {"completion", "tutorial", "complete"} =>
       (accepted["config"].choice # "skip" =>
          config = [endpoint |-> accepted["config"].endpoint, secure |-> accepted["config"].secure])

SessInv == SessTypes /\ KindTold /\ SiteTold /\ BindTold /\ SignedTold

LEMMA SessStarts == Session!WizardInit => SessInv
<1> SUFFICES ASSUME Session!WizardInit PROVE SessInv
  OBVIOUS
<1>1. form \in SiteForms /\ form.site = 0 /\ form = Session!EmptyForm
  BY DEF Session!WizardInit, Session!EmptyForm, SiteForms, Spaces, Labelled, Roots
<1>2. sites \in Seq(Websites) /\ bindings \in Seq(Bindings)
  <2> DEFINE other == [by |-> "other"]
  <2>1. other \in Websites
    BY DEF Websites
  <2>2. sites \in {<<>>, <<other>>} /\ bindings = <<>>
    BY DEF Session!WizardInit
  <2> HIDE DEF other
  <2>3. <<>> \in Seq(Websites) /\ <<>> \in Seq(Bindings)
    OBVIOUS
  <2>4. <<other>> \in Seq(Websites)
    BY <2>1
  <2>5. CASE sites = <<>>
    BY <2>2, <2>3, <2>5
  <2>6. CASE sites = <<other>>
    BY <2>2, <2>3, <2>4, <2>6
  <2> QED
    BY <2>2, <2>5, <2>6
<1>3. /\ wizard.kind = "none" /\ wizard.step = "init" /\ \A e \in Emails : logins[e] # "done"
      /\ wizard \in [kind : {"none", "websites", "domains", "setup"},
                     step : {"init", "complete", "domain_complete"} \cup Session!WizardSteps]
      /\ token \in BOOLEAN /\ logins \in [Emails -> {"none", "pending", "failed", "done"}]
      /\ config \in [endpoint : {"old", "new", "empty"}, secure : BOOLEAN]
      /\ DOMAIN accepted = Session!WizardSteps
  BY DEF Session!WizardInit
<1> QED
  BY <1>1, <1>2, <1>3 DEF SessInv, SessTypes, KindTold, SiteTold, BindTold, SignedTold

(* An accepted input is recorded under its step, and the next step begins. *)
LEMMA Advances ==
  ASSUME SessTypes, NEW input, wizard.step \in Session!WizardSteps, Session!Advance(input)
  PROVE  /\ wizard' \in [kind : {"none", "websites", "domains", "setup"},
                         step : {"init", "complete", "domain_complete"} \cup Session!WizardSteps]
         /\ wizard'.kind = wizard.kind /\ wizard'.step = Session!After[wizard.step]
         /\ DOMAIN accepted' = Session!WizardSteps /\ accepted'[wizard.step] = input
         /\ \A s \in Session!WizardSteps : s # wizard.step => accepted'[s] = accepted[s]
<1>1. Session!After[wizard.step] \in {"complete", "domain_complete"} \cup Session!WizardSteps
  BY DEF Session!WizardSteps, Session!After
<1> DEFINE next == Session!After[wizard.step]
<1>2. wizard' = [wizard EXCEPT !.step = next]
  BY DEF Session!Advance
<1>3. accepted' = [accepted EXCEPT ![wizard.step] = input]
  BY DEF Session!Advance
<1> HIDE DEF next
<1>4. next \in {"complete", "domain_complete"} \cup Session!WizardSteps
  BY <1>1 DEF next
<1>5. wizard' \in [kind : {"none", "websites", "domains", "setup"},
                   step : {"init", "complete", "domain_complete"} \cup Session!WizardSteps]
      /\ wizard'.kind = wizard.kind /\ wizard'.step = next
  BY <1>2, <1>4 DEF SessTypes
<1>6. /\ DOMAIN accepted' = Session!WizardSteps /\ accepted'[wizard.step] = input
      /\ \A s \in Session!WizardSteps : s # wizard.step => accepted'[s] = accepted[s]
  BY <1>3 DEF SessTypes
<1> QED
  BY <1>5, <1>6 DEF next

LEMMA StepsNamed ==
  /\ SiteSteps \cup DomainSteps \cup SetupSteps = Session!WizardSteps
  /\ Session!After["auth_check"] = "content_source"
  /\ Session!After["content_source"] = "target_type"
  /\ Session!After["target_type"] = "domain" /\ Session!After["domain"] = "dns_mode"
  /\ Session!After["dns_mode"] = "create" /\ Session!After["create"] = "dns_setup"
  /\ Session!After["dns_setup"] = "validate" /\ Session!After["validate"] = "complete"
  /\ Session!After["domain_auth_check"] = "domain_website"
  /\ Session!After["domain_website"] = "domain_name"
  /\ Session!After["domain_name"] = "domain_namespace"
  /\ Session!After["domain_namespace"] = "domain_bind"
  /\ Session!After["domain_bind"] = "domain_delegation_setup"
  /\ Session!After["domain_delegation_setup"] = "domain_verify"
  /\ Session!After["domain_verify"] = "domain_complete"
  /\ Session!After["auth"] = "config" /\ Session!After["config"] = "completion"
  /\ Session!After["completion"] = "tutorial" /\ Session!After["tutorial"] = "complete"
BY DEF SiteSteps, DomainSteps, SetupSteps, Session!WizardSteps, Session!After

(* Steps that record nothing.                                              *)
LEMMA ReadsKeep ==
  ASSUME SessInv,
         \/ Session!CheckSiteAuth \/ Session!CheckDomainAuth \/ Session!SetupDns
         \/ Session!ShellCompletion \/ Session!Tutorial \/ Session!SkipSignIn
  PROVE  SessInv'
<1>1. PICK input :
        /\ Session!Advance(input) /\ UNCHANGED <<form, sites, bindings, token, logins, config>>
        /\ wizard.step \in {"auth_check", "domain_auth_check", "dns_setup", "completion",
                            "tutorial", "auth"}
        /\ wizard.step = "auth" => input.choice = "skip"
  <2>1. \E input :
          /\ Session!Advance(input) /\ UNCHANGED <<form, sites, bindings, token, logins, config>>
          /\ wizard.step \in {"auth_check", "domain_auth_check", "dns_setup", "completion",
                              "tutorial", "auth"}
          /\ wizard.step = "auth" => input.choice = "skip"
    <3>1. CASE Session!SkipSignIn
      <4>1. [choice |-> "skip"].choice = "skip"
        OBVIOUS
      <4> QED
        BY <3>1, <4>1 DEF Session!SkipSignIn, Session!At, Session!portal, Session!host
    <3>2. CASE \/ Session!CheckSiteAuth \/ Session!CheckDomainAuth \/ Session!SetupDns
               \/ Session!ShellCompletion \/ Session!Tutorial
      BY <3>2 DEF Session!CheckSiteAuth, Session!CheckDomainAuth, Session!SetupDns,
         Session!ShellCompletion, Session!Tutorial, Session!Read, Session!At, Session!portal,
         Session!host
    <3> QED
      BY <3>1, <3>2
  <2> QED
    BY <2>1
<1>2. SessTypes /\ wizard.step \in Session!WizardSteps
  BY <1>1, StepsNamed DEF SessInv, SiteSteps, DomainSteps, SetupSteps
<1>3. /\ wizard' \in [kind : {"none", "websites", "domains", "setup"},
                      step : {"init", "complete", "domain_complete"} \cup Session!WizardSteps]
      /\ wizard'.kind = wizard.kind /\ wizard'.step = Session!After[wizard.step]
      /\ DOMAIN accepted' = Session!WizardSteps /\ accepted'[wizard.step] = input
      /\ \A s \in Session!WizardSteps : s # wizard.step => accepted'[s] = accepted[s]
  BY <1>1, <1>2, Advances
<1>4. SessTypes' /\ KindTold'
  BY <1>1, <1>2, <1>3, StepsNamed DEF SessInv, SessTypes, KindTold, SiteSteps, DomainSteps,
     SetupSteps
<1>5. SiteTold'
  BY <1>1, <1>2, <1>3, StepsNamed DEF SessInv, KindTold, SiteTold, SiteSteps, DomainSteps,
     SetupSteps, Session!SiteAsAgreed
<1>6. BindTold' /\ SignedTold'
  BY <1>1, <1>2, <1>3, StepsNamed DEF SessInv, KindTold, BindTold, SignedTold, SiteSteps,
     DomainSteps, SetupSteps
<1> QED
  BY <1>4, <1>5, <1>6 DEF SessInv

LEMMA Fires ==
  ASSUME NEW event
  PROVE  /\ \A s \in {"draft", "claimed", "binding", "live", "failed"} :
              Session!Fire(Session!LifecycleEvents, event, s)
                \in {"draft", "claimed", "binding", "live", "failed"}
         /\ \A s \in {"new", "ready", "deployed"} :
              Session!Fire(Session!ContentEvents, event, s) \in {"new", "ready", "deployed"}
         /\ \A s \in {"pending", "running", "succeeded", "failed"} :
              Session!Fire(Session!OpEvents, event, s)
                \in {"pending", "running", "succeeded", "failed"}
         /\ Session!Fire(Session!LifecycleEvents, "choose_source", "draft") = "claimed"
<1>1. ASSUME NEW events, NEW states, \A e \in events : e[3] \in states, NEW s \in states
      PROVE  Session!Fire(events, event, s) \in states
  <2>1. CASE Session!Can(events, event, s)
    <3> DEFINE found_ == CHOOSE e \in events : e[1] = event /\ e[2] = s
    <3>1. found_ \in events
      BY <2>1 DEF Session!Can
    <3>2. Session!Fire(events, event, s) = found_[3]
      BY <2>1 DEF Session!Fire
    <3> QED
      BY <1>1, <3>1, <3>2
  <2>2. CASE ~Session!Can(events, event, s)
    BY <1>1, <2>2 DEF Session!Fire
  <2> QED
    BY <2>1, <2>2
<1>2. /\ \A e \in Session!LifecycleEvents : e[3] \in {"draft", "claimed", "binding", "live", "failed"}
      /\ \A e \in Session!ContentEvents : e[3] \in {"new", "ready", "deployed"}
      /\ \A e \in Session!OpEvents : e[3] \in {"pending", "running", "succeeded", "failed"}
  BY DEF Session!LifecycleEvents, Session!ContentEvents, Session!OpEvents
<1>3. Session!Fire(Session!LifecycleEvents, "choose_source", "draft") = "claimed"
  <2> DEFINE found_ == CHOOSE e \in Session!LifecycleEvents : e[1] = "choose_source" /\ e[2] = "draft"
  <2>1. <<"choose_source", "draft", "claimed">> \in Session!LifecycleEvents
    BY DEF Session!LifecycleEvents
  <2>2. found_ \in Session!LifecycleEvents /\ found_[1] = "choose_source"
    BY <2>1
  <2>3. found_[3] = "claimed"
    BY <2>2 DEF Session!LifecycleEvents
  <2>4. Session!Can(Session!LifecycleEvents, "choose_source", "draft")
    BY <2>1 DEF Session!Can
  <2> QED
    BY <2>3, <2>4 DEF Session!Fire
<1> QED
  BY <1>1, <1>2, <1>3

LEMMA BeginsKeep ==
  ASSUME SessInv, NEW k \in DOMAIN Session!FirstStep, Session!NewSession(k)
  PROVE  SessInv'
<1>1. /\ wizard.kind = "none" /\ form = Session!EmptyForm
      /\ k \in {"websites", "domains", "setup"}
      /\ UNCHANGED <<form, accepted, sites, bindings, token, logins, config>>
  BY DEF SessInv, KindTold, Session!NewSession, Session!FirstStep, Session!portal, Session!host
<1>2. /\ wizard'.kind = k
      /\ wizard'.step = IF k = "websites" THEN "auth_check"
                        ELSE IF k = "domains" THEN "domain_auth_check" ELSE "auth"
      /\ wizard' \in [kind : {"none", "websites", "domains", "setup"},
                      step : {"init", "complete", "domain_complete"} \cup Session!WizardSteps]
  <2>1. /\ Session!FirstStep["websites"] = "auth_check"
        /\ Session!FirstStep["domains"] = "domain_auth_check"
        /\ Session!FirstStep["setup"] = "auth"
    BY DEF Session!FirstStep
  <2>2. {"auth_check", "domain_auth_check", "auth"} \subseteq Session!WizardSteps
    BY DEF Session!WizardSteps, Session!After
  <2>3. wizard' = [kind |-> k, step |-> Session!FirstStep[k]]
    BY DEF Session!NewSession
  <2> QED
    BY <1>1, <2>1, <2>2, <2>3
<1>3. form.site = 0 /\ form.life = "draft"
  BY <1>1 DEF Session!EmptyForm
<1>4. SessTypes' /\ KindTold'
  BY <1>1, <1>2 DEF SessInv, SessTypes, KindTold, SiteSteps, DomainSteps, SetupSteps
<1>5. SiteTold' /\ BindTold' /\ SignedTold'
  BY <1>1, <1>2, <1>3 DEF SessInv, SiteTold, BindTold, SignedTold, SiteSteps
<1> QED
  BY <1>4, <1>5 DEF SessInv

(* The website wizard: content, target, domain, DNS.                       *)
LEMMA SourcesKeep == ASSUME SessInv, Session!SourceContent("cid") PROVE SessInv'
<1>1. /\ wizard.step = "content_source" /\ wizard.kind = "websites" /\ form \in SiteForms
      /\ SessTypes /\ wizard.step \in Session!WizardSteps
      /\ Session!Advance("cid") /\ UNCHANGED <<sites, bindings, token, logins, config>>
  BY StepsNamed DEF SessInv, SessTypes, KindTold, SiteSteps, DomainSteps, SetupSteps,
     Session!SourceContent, Session!At, Session!portal, Session!host
<1>2. /\ wizard' \in [kind : {"none", "websites", "domains", "setup"},
                      step : {"init", "complete", "domain_complete"} \cup Session!WizardSteps]
      /\ wizard'.kind = "websites" /\ wizard'.step = "target_type"
      /\ DOMAIN accepted' = Session!WizardSteps /\ accepted'["content_source"] = "cid"
  BY <1>1, Advances, StepsNamed
<1> DEFINE content == Session!Fire(Session!ContentEvents, "prepared", form.content)
<1>3. content \in {"new", "ready", "deployed"}
  BY <1>1, Fires DEF SiteForms
<1>4. form' = [form EXCEPT !.cid = "cid", !.content = content]
  BY DEF Session!SourceContent
<1> HIDE DEF content
<1>5. form' \in SiteForms /\ form'.cid = "cid" /\ form'.site = form.site
      /\ form'.life = form.life /\ form'.source = form.source
  BY <1>1, <1>3, <1>4 DEF SiteForms
<1>6. SessTypes' /\ KindTold'
  BY <1>1, <1>2, <1>5 DEF SessInv, SessTypes, KindTold, SiteSteps
<1>7. SiteTold' /\ BindTold' /\ SignedTold'
  BY <1>1, <1>2, <1>5 DEF SessInv, SiteTold, BindTold, SignedTold, SiteSteps
<1> QED
  BY <1>6, <1>7 DEF SessInv

LEMMA TargetsKeep ==
  ASSUME SessInv, NEW t \in {"ipfs", "ipns"}, Session!ChooseTarget(t)
  PROVE  SessInv'
<1>1. /\ wizard.step = "target_type" /\ wizard.kind = "websites" /\ form \in SiteForms
      /\ SessTypes /\ wizard.step \in Session!WizardSteps
      /\ Session!Advance(t) /\ UNCHANGED <<sites, bindings, token, logins, config>>
      /\ form' = [form EXCEPT !.target = t]
  BY StepsNamed DEF SessInv, SessTypes, KindTold, SiteSteps, DomainSteps, SetupSteps,
     Session!ChooseTarget, Session!At, Session!portal, Session!host
<1>2. /\ wizard' \in [kind : {"none", "websites", "domains", "setup"},
                      step : {"init", "complete", "domain_complete"} \cup Session!WizardSteps]
      /\ wizard'.kind = "websites" /\ wizard'.step = "domain"
      /\ DOMAIN accepted' = Session!WizardSteps /\ accepted'["target_type"] = t
      /\ accepted'["content_source"] = accepted["content_source"]
  BY <1>1, Advances, StepsNamed DEF SiteSteps
<1>3. form' \in SiteForms /\ form'.target = t /\ form'.site = form.site
      /\ form'.cid = form.cid /\ form'.life = form.life /\ form'.source = form.source
  BY <1>1 DEF SiteForms
<1>4. SessTypes' /\ KindTold'
  BY <1>1, <1>2, <1>3 DEF SessInv, SessTypes, KindTold, SiteSteps
<1>5. SiteTold' /\ BindTold' /\ SignedTold'
  BY <1>1, <1>2, <1>3 DEF SessInv, SiteTold, BindTold, SignedTold, SiteSteps
<1> QED
  BY <1>4, <1>5 DEF SessInv

(* The source chosen is the one recorded, whatever was chosen before.      *)
LEMMA SourcedTells ==
  ASSUME form \in SiteForms, form.life # "draft" => form.source # "empty",
         NEW s \in {"custom", "platform"}
  PROVE  /\ Session!Sourced(s) \in SiteForms /\ Session!Sourced(s).source = s
         /\ Session!Sourced(s).site = form.site /\ Session!Sourced(s).cid = form.cid
         /\ Session!Sourced(s).target = form.target
<1>1. CASE form.life = "draft"
  <2> DEFINE life == Session!Fire(Session!LifecycleEvents, "choose_source", form.life)
  <2>1. life = "claimed"
    BY <1>1, Fires
  <2>2. Session!Sourced(s) = [form EXCEPT !.life = life, !.source = s]
    BY <1>1 DEF Session!Sourced
  <2> HIDE DEF life
  <2> QED
    BY <2>1, <2>2 DEF SiteForms
<1>2. CASE form.life # "draft" /\ form.source \notin {"empty", s}
  <2> DEFINE none == <<>>
  <2>1. none \in Seq(Words)
    OBVIOUS
  <2>2. Session!Sourced(s) = [form EXCEPT !.source = s, !.domain = none]
    BY <1>2 DEF Session!Sourced
  <2> HIDE DEF none
  <2> QED
    BY <2>1, <2>2 DEF SiteForms
<1>3. CASE form.life # "draft" /\ form.source \in {"empty", s}
  <2>1. Session!Sourced(s) = form /\ form.source = s
    BY <1>3 DEF Session!Sourced
  <2> QED
    BY <2>1 DEF SiteForms
<1> QED
  BY <1>1, <1>2, <1>3

(* The form a domain step may leave: the session stays, or the domain that *)
(* the input names is recorded.                                            *)
LEMMA DomainsTell ==
  ASSUME form \in SiteForms, form.life # "draft" => form.source # "empty",
         NEW i \in Session!DomainInputs, Session!ChooseDomain(i)
  PROVE  /\ form' \in SiteForms /\ form'.site = form.site /\ form'.cid = form.cid
         /\ form'.target = form.target /\ form'.source # "empty"
         /\ \/ Session!Remain
            \/ Session!Advance(i) /\ DomainChosen(form', i)
<1>0. /\ i.source \in {"empty", "custom", "platform"} /\ i.domain \in {"empty"} \cup WizardNames
      /\ i.namespace \in {"empty", "hns", "other"} /\ i.label \in Labelled
      /\ i.generate \in BOOLEAN /\ i.root \in {"empty"} \cup WizardRoots
  BY DEF Session!DomainInputs, Labelled
<1>1. CASE Session!SourceOf(i) = "custom"
  <2> DEFINE f == Session!Sourced("custom")
             space == Session!NamespaceOf(i)
             name == i.domain
             whole == <<name>>
  <2>1. f \in SiteForms /\ f.source = "custom" /\ f.site = form.site /\ f.cid = form.cid
        /\ f.target = form.target
    BY SourcedTells
  <2>2. \/ form' = f /\ Session!Remain
        \/ /\ name # "empty" /\ space \in {"icann", "hns"} /\ Session!Advance(i)
           /\ form' = [[f EXCEPT !.namespace = space] EXCEPT !.domain = whole]
    BY <1>1 DEF Session!ChooseDomain, Session!OwnDomain, Session!Claimed
  <2>3. name \in {"empty"} \cup WizardNames
    BY <1>0
  <2> HIDE DEF f, space, name
  <2>4. name \in Words
    BY <2>3 DEF Words
  <2>5. whole \in Seq(Words)
    BY <2>4
  <2> HIDE DEF whole
  <2>6. CASE form' = f /\ Session!Remain
    BY <2>1, <2>6
  <2>7. CASE /\ space \in {"icann", "hns"} /\ Session!Advance(i)
             /\ form' = [[f EXCEPT !.namespace = space] EXCEPT !.domain = whole]
    <3>1. form' \in SiteForms /\ form'.source = "custom" /\ form'.domain = whole
          /\ form'.namespace = space /\ form'.site = form.site /\ form'.cid = form.cid
          /\ form'.target = form.target
      BY ZenonT(30), <2>1, <2>5, <2>7 DEF SiteForms, Spaces
    <3>2. DomainChosen(form', i)
      BY <1>1, <3>1 DEF DomainChosen, whole, space, name
    <3> QED
      BY <2>7, <3>1, <3>2
  <2> QED
    BY <2>2, <2>6, <2>7
<1>2. CASE Session!SourceOf(i) # "custom"
  <2> DEFINE sourced == Session!Sourced("platform")
             label == i.label
             made == i.generate \/ i.label = "empty"
             f == [sourced EXCEPT !.label = label, !.generate = made]
             wanted == IF i.root # "empty" THEN i.root ELSE i.domain
             roots == IF wanted # "empty" THEN {wanted} ELSE WizardRoots \cup {"empty"}
  <2>1. sourced \in SiteForms /\ sourced.source = "platform" /\ sourced.site = form.site
        /\ sourced.cid = form.cid /\ sourced.target = form.target
    BY SourcedTells
  <2>2. PICK root \in roots :
          \/ root = "empty" /\ form' = f /\ Session!Remain
          \/ /\ root # "empty" /\ Session!Advance(i)
             /\ form' = [[f EXCEPT !.root = root] EXCEPT !.domain =
                           IF label # "empty" THEN <<label, root>> ELSE <<root>>]
    <3>1. Session!PlatformDomain(i)
      BY <1>2 DEF Session!ChooseDomain
    <3> QED
      BY Zenon, <3>1 DEF Session!PlatformDomain, Session!Claimed
  <2>3. /\ root \in {"empty"} \cup WizardRoots \cup WizardNames
        /\ i.root # "empty" => root = i.root
    <3>1. CASE i.root # "empty"
      BY <1>0, <3>1
    <3>2. CASE i.root = "empty" /\ i.domain # "empty"
      BY <1>0, <3>2
    <3>3. CASE i.root = "empty" /\ i.domain = "empty"
      BY <1>0, <3>3
    <3> QED
      BY <3>1, <3>2, <3>3
  <2>4. label \in Labelled /\ label = i.label /\ made \in BOOLEAN /\ (i.label = "empty" => made)
    BY <1>0
  <2> HIDE DEF sourced, label, made, wanted, roots
  <2>5. f \in SiteForms /\ f.source = "platform" /\ f.site = form.site /\ f.cid = form.cid
        /\ f.target = form.target /\ f.label = label /\ f.generate = made
    BY <2>1, <2>4 DEF SiteForms
  <2> HIDE DEF f
  <2> DEFINE domain == IF label # "empty" THEN <<label, root>> ELSE <<root>>
  <2>6. label \in Words /\ root \in Words
    BY <2>3, <2>4 DEF Words, Labelled
  <2>7. domain \in Seq(Words)
    <3>1. <<label, root>> \in Seq(Words) /\ <<root>> \in Seq(Words)
      BY <2>6
    <3> QED
      BY <3>1
  <2>8. CASE root = "empty" /\ form' = f /\ Session!Remain
    BY <2>5, <2>8
  <2>9. CASE /\ root # "empty" /\ Session!Advance(i)
             /\ form' = [[f EXCEPT !.root = root] EXCEPT !.domain = domain]
    <3> HIDE DEF domain
    <3>1. form' \in SiteForms /\ form'.source = "platform" /\ form'.root = root
          /\ form'.label = label /\ form'.generate = made /\ form'.site = form.site
          /\ form'.cid = form.cid /\ form'.target = form.target
      BY <2>3, <2>5, <2>7, <2>9 DEF SiteForms, Roots
    <3>2. Session!SourceOf(i) = "platform"
      BY <1>0, <1>2 DEF Session!SourceOf
    <3>3. DomainChosen(form', i)
      BY <2>3, <2>4, <3>1, <3>2 DEF DomainChosen
    <3> QED
      BY <2>9, <3>1, <3>3
  <2> QED
    BY <2>2, <2>8, <2>9
<1> QED
  BY <1>1, <1>2

LEMMA DomainsKeep ==
  ASSUME SessInv, NEW i \in Session!DomainInputs, Session!ChooseDomain(i)
  PROVE  SessInv'
<1>1. /\ wizard.step = "domain" /\ wizard.kind = "websites" /\ form \in SiteForms
      /\ SessTypes /\ wizard.step \in Session!WizardSteps
      /\ UNCHANGED <<sites, bindings, token, logins, config>>
      /\ form.life # "draft" => form.source # "empty"
  BY StepsNamed DEF SessInv, SessTypes, KindTold, SiteTold, SiteSteps, DomainSteps, SetupSteps,
     Session!ChooseDomain, Session!At, Session!portal, Session!host
<1>2. /\ form' \in SiteForms /\ form'.site = form.site /\ form'.cid = form.cid
      /\ form'.target = form.target /\ form'.source # "empty"
      /\ \/ Session!Remain
         \/ Session!Advance(i) /\ DomainChosen(form', i)
  BY <1>1, DomainsTell
<1>3. CASE Session!Remain
  <2>1. wizard' = wizard /\ accepted' = accepted
    BY <1>3 DEF Session!Remain
  <2>2. SessTypes' /\ KindTold'
    BY <1>1, <1>2, <2>1 DEF SessInv, SessTypes, KindTold
  <2>3. SiteTold' /\ BindTold' /\ SignedTold'
    BY <1>1, <1>2, <2>1 DEF SessInv, SiteTold, BindTold, SignedTold, SiteSteps
  <2> QED
    BY <2>2, <2>3 DEF SessInv
<1>4. CASE Session!Advance(i) /\ DomainChosen(form', i)
  <2>1. /\ wizard' \in [kind : {"none", "websites", "domains", "setup"},
                        step : {"init", "complete", "domain_complete"} \cup Session!WizardSteps]
        /\ wizard'.kind = "websites" /\ wizard'.step = "dns_mode"
        /\ DOMAIN accepted' = Session!WizardSteps /\ accepted'["domain"] = i
        /\ accepted'["content_source"] = accepted["content_source"]
        /\ accepted'["target_type"] = accepted["target_type"]
    BY <1>1, <1>4, Advances, StepsNamed DEF SiteSteps
  <2>2. SessTypes' /\ KindTold'
    BY <1>1, <1>2, <2>1 DEF SessInv, SessTypes, KindTold, SiteSteps
  <2>3. SiteTold' /\ BindTold' /\ SignedTold'
    BY <1>1, <1>2, <1>4, <2>1 DEF SessInv, SiteTold, BindTold, SignedTold, SiteSteps
  <2> QED
    BY <2>2, <2>3 DEF SessInv
<1> QED
  BY <1>2, <1>3, <1>4

LEMMA DnsKeeps ==
  ASSUME SessInv, NEW managed \in BOOLEAN, Session!ChooseDns(managed)
  PROVE  SessInv'
<1>1. /\ wizard.step = "dns_mode" /\ wizard.kind = "websites" /\ form \in SiteForms
      /\ SessTypes /\ wizard.step \in Session!WizardSteps
      /\ Session!Advance(managed) /\ UNCHANGED <<sites, bindings, token, logins, config>>
      /\ form' = [form EXCEPT !.dns = managed]
  BY StepsNamed DEF SessInv, SessTypes, KindTold, SiteSteps, DomainSteps, SetupSteps,
     Session!ChooseDns, Session!At, Session!portal, Session!host
<1>2. /\ wizard' \in [kind : {"none", "websites", "domains", "setup"},
                      step : {"init", "complete", "domain_complete"} \cup Session!WizardSteps]
      /\ wizard'.kind = "websites" /\ wizard'.step = "create"
      /\ DOMAIN accepted' = Session!WizardSteps /\ accepted'["dns_mode"] = managed
      /\ accepted'["content_source"] = accepted["content_source"]
      /\ accepted'["target_type"] = accepted["target_type"]
      /\ accepted'["domain"] = accepted["domain"]
  BY <1>1, Advances, StepsNamed DEF SiteSteps
<1>3. /\ form' \in SiteForms /\ form'.dns = managed /\ form'.target = form.target
      /\ form'.site = form.site /\ form'.cid = form.cid /\ form'.source = form.source
      /\ form'.domain = form.domain /\ form'.namespace = form.namespace
      /\ form'.root = form.root /\ form'.label = form.label /\ form'.generate = form.generate
  BY <1>1 DEF SiteForms
<1>4. SessTypes' /\ KindTold'
  BY <1>1, <1>2, <1>3 DEF SessInv, SessTypes, KindTold, SiteSteps
<1>5. SiteTold' /\ BindTold' /\ SignedTold'
  BY <1>1, <1>2, <1>3 DEF SessInv, SiteTold, DomainChosen, BindTold, SignedTold, SiteSteps
<1> QED
  BY <1>4, <1>5 DEF SessInv

(* The request asks for what the steps accepted.                           *)
LEMMA RequestTells ==
  ASSUME form \in SiteForms, DomainChosen(form, accepted["domain"]),
         form.cid = accepted["content_source"], form.target = accepted["target_type"],
         form.target # "empty", form.source = "custom" => form.dns = accepted["dns_mode"]
  PROVE  /\ Session!Request(form) \in Websites
         /\ Session!Minted(Session!Request(form)) \in Seq(Words)
         /\ Session!SiteAsAgreed(Session!Request(form), accepted["domain"])
<1> DEFINE none == <<>>
           owned == form.source # "platform"
           managed == form.source = "platform" \/ form.dns
           domain == IF owned THEN form.domain ELSE none
           namespace == IF owned THEN form.namespace ELSE "empty"
           root == IF owned THEN "empty" ELSE form.root
           generate == form.source = "platform" /\ form.generate
           label == IF form.source = "platform" /\ ~form.generate THEN form.label ELSE "empty"
           r == [by |-> "session", cid |-> form.cid, target |-> form.target,
                 source |-> form.source, managed |-> managed, domain |-> domain,
                 namespace |-> namespace, root |-> root, generate |-> generate,
                 label |-> label]
<1>1. /\ form.cid \in {"empty", "cid"} /\ form.target \in {"ipfs", "ipns"}
      /\ form.source \in {"empty", "custom", "platform"} /\ form.domain \in Seq(Words)
      /\ form.namespace \in Spaces /\ form.root \in Roots /\ form.label \in Labelled
      /\ form.generate \in BOOLEAN /\ form.dns \in BOOLEAN
  BY DEF SiteForms
<1>2. /\ managed \in BOOLEAN /\ namespace \in Spaces /\ root \in Roots /\ generate \in BOOLEAN
      /\ label \in Labelled
  BY <1>1 DEF Spaces, Roots, Labelled
<1>3. domain \in Seq(Words)
  <2>1. none \in Seq(Words)
    OBVIOUS
  <2> HIDE DEF none
  <2> QED
    BY <1>1, <2>1
<1>4. Session!Request(form) = r
  BY DEF Session!Request
<1>5. /\ form.source = "custom" => domain = form.domain /\ namespace = form.namespace
                                   /\ managed = form.dns
      /\ form.source = "platform" => managed /\ root = form.root
                                     /\ (generate \/ label = form.label)
                                     /\ (generate <=> form.generate)
  BY <1>1
<1> HIDE DEF none, owned, managed, domain, namespace, root, generate, label
<1>6. r \in Websites
  BY <1>1, <1>2, <1>3 DEF Websites
<1>7. Session!Minted(r) \in Seq(Words)
  <2>1. root \in Words /\ label \in Words /\ "generated" \in Words
    BY <1>2 DEF Roots, Labelled, Words
  <2>2. <<"generated", root>> \in Seq(Words) /\ <<label, root>> \in Seq(Words)
    <3> DEFINE word == "generated"
    <3>1. word \in Words
      BY <2>1
    <3> HIDE DEF word
    <3>2. <<word, root>> \in Seq(Words) /\ <<label, root>> \in Seq(Words)
      BY <2>1, <3>1
    <3> QED
      BY <3>2 DEF word
  <2>3. \/ Session!Minted(r) = domain \/ Session!Minted(r) = <<"generated", root>>
        \/ Session!Minted(r) = <<label, root>>
    BY DEF Session!Minted
  <2> QED
    BY <1>3, <2>2, <2>3
<1>8. Session!SiteAsAgreed(r, accepted["domain"])
  <2>1. r.by = "session" /\ r.cid = accepted["content_source"]
        /\ r.target = accepted["target_type"]
        /\ r.source = Session!SourceOf(accepted["domain"])
    BY DEF DomainChosen
  <2>2. r.source = "custom" =>
          /\ r.domain = <<accepted["domain"].domain>>
          /\ r.namespace = Session!NamespaceOf(accepted["domain"])
          /\ r.managed = accepted["dns_mode"]
    BY <1>5 DEF DomainChosen
  <2>3. r.source = "platform" =>
          /\ r.managed /\ (accepted["domain"].root # "empty" => r.root = accepted["domain"].root)
          /\ (r.generate \/ r.label = accepted["domain"].label)
          /\ (accepted["domain"].label = "empty" => r.generate)
    BY <1>5 DEF DomainChosen
  <2> HIDE DEF r
  <2> QED
    BY <2>1, <2>2, <2>3 DEF Session!SiteAsAgreed
<1> QED
  BY <1>4, <1>6, <1>7, <1>8

(* A website made and bound keeps the rest of the form in its types.       *)
LEMMA BoundTyped ==
  ASSUME NEW f \in SiteForms, NEW id \in Nat, NEW domain \in Seq(Words)
  PROVE  Session!Bound(f, id, domain) \in SiteForms /\ Session!Bound(f, id, domain).site = id
<1> DEFINE life == Session!Fire(Session!LifecycleEvents, "bind_success",
                                Session!Fire(Session!LifecycleEvents, "bind_start", f.life))
           op == Session!Fire(Session!OpEvents, "success", f.op)
<1>1. life \in {"draft", "claimed", "binding", "live", "failed"}
      /\ op \in {"pending", "running", "succeeded", "failed"}
  BY Fires DEF SiteForms
<1>2. Session!Bound(f, id, domain) =
        [f EXCEPT !.life = life, !.site = id, !.domain = domain, !.op = op]
  BY DEF Session!Bound
<1> HIDE DEF life, op
<1> QED
  BY ZenonT(30), <1>1, <1>2 DEF SiteForms

LEMMA SitesKeep == ASSUME SessInv, Session!CreateSite PROVE SessInv'
<1> DEFINE r == Session!Request(form)
           minted == Session!Minted(r)
           dns == form.dns \/ form.source = "platform"
           asked == [form EXCEPT !.dns = dns]
           content == Session!Fire(Session!ContentEvents, "deployed", form.content)
           ready == [asked EXCEPT !.content = content]
           site == Len(sites) + 1
<1>1. /\ wizard.step = "create" /\ wizard.kind = "websites" /\ form \in SiteForms
      /\ SessTypes /\ wizard.step \in Session!WizardSteps
      /\ UNCHANGED <<bindings, token, logins, config>>
      /\ form.site = 0 /\ sites \in Seq(Websites)
      /\ form.cid = accepted["content_source"] /\ form.target = accepted["target_type"]
      /\ form.target # "empty" /\ DomainChosen(form, accepted["domain"])
      /\ form.source = "custom" => form.dns = accepted["dns_mode"]
  BY StepsNamed DEF SessInv, SessTypes, KindTold, SiteTold, SiteSteps, DomainSteps, SetupSteps,
     Session!CreateSite, Session!At, Session!host
<1>2. r \in Websites /\ minted \in Seq(Words)
      /\ Session!SiteAsAgreed(r, accepted["domain"])
  BY <1>1, RequestTells
<1>3. content \in {"new", "ready", "deployed"} /\ dns \in BOOLEAN
      /\ (form.source = "custom" => dns = form.dns)
  BY <1>1, Fires DEF SiteForms
<1>4. \/ Session!Remain /\ form' = asked /\ UNCHANGED sites
      \/ Session!Remain /\ form' = asked /\ sites' = Append(sites, r)
      \/ /\ Session!Advance("confirm") /\ sites' = Append(sites, r)
         /\ form' = Session!Bound(ready, site, minted)
  BY <1>1 DEF Session!CreateSite, Session!Resumable
<1> HIDE DEF r, minted, dns, content
<1>5. /\ asked \in SiteForms /\ asked.site = 0 /\ asked.cid = form.cid
      /\ asked.target = form.target /\ asked.source = form.source
      /\ asked.domain = form.domain /\ asked.namespace = form.namespace
      /\ asked.root = form.root /\ asked.label = form.label /\ asked.generate = form.generate
      /\ (form.source = "custom" => asked.dns = accepted["dns_mode"])
      /\ ready \in SiteForms
  <2>1. asked \in SiteForms /\ asked.dns = dns
    BY <1>1, <1>3 DEF SiteForms
  <2>2. /\ asked.site = 0 /\ asked.cid = form.cid
        /\ asked.target = form.target /\ asked.source = form.source
        /\ asked.domain = form.domain /\ asked.namespace = form.namespace
        /\ asked.root = form.root /\ asked.label = form.label
        /\ asked.generate = form.generate
    BY <1>1 DEF SiteForms
  <2>3. ready \in SiteForms
    <3> HIDE DEF asked
    <3> QED
      BY <1>3, <2>1 DEF SiteForms
  <2> QED
    BY <1>1, <1>3, <2>1, <2>2, <2>3
<1> HIDE DEF asked, ready
<1>6. /\ Append(sites, r) \in Seq(Websites) /\ site \in Nat
      /\ site \in DOMAIN Append(sites, r) /\ Append(sites, r)[site] = r
  BY <1>1, <1>2
<1>7. CASE Session!Remain /\ form' = asked /\ sites' \in {sites, Append(sites, r)}
  <2>1. wizard' = wizard /\ accepted' = accepted /\ sites' \in Seq(Websites)
    BY <1>1, <1>6, <1>7 DEF Session!Remain
  <2>2. SessTypes' /\ KindTold'
    BY <1>1, <1>5, <1>7, <2>1 DEF SessInv, SessTypes, KindTold
  <2>3. SiteTold' /\ BindTold' /\ SignedTold'
    BY <1>1, <1>5, <1>7, <2>1
       DEF SessInv, SiteTold, DomainChosen, BindTold, SignedTold, SiteSteps
  <2> QED
    BY <2>2, <2>3 DEF SessInv
<1>8. CASE /\ Session!Advance("confirm") /\ sites' = Append(sites, r)
           /\ form' = Session!Bound(ready, site, minted)
  <2>1. /\ wizard' \in [kind : {"none", "websites", "domains", "setup"},
                        step : {"init", "complete", "domain_complete"} \cup Session!WizardSteps]
        /\ wizard'.kind = "websites" /\ wizard'.step = "dns_setup"
        /\ DOMAIN accepted' = Session!WizardSteps
        /\ accepted'["content_source"] = accepted["content_source"]
        /\ accepted'["target_type"] = accepted["target_type"]
        /\ accepted'["domain"] = accepted["domain"]
        /\ accepted'["dns_mode"] = accepted["dns_mode"]
    BY <1>1, <1>8, Advances, StepsNamed DEF SiteSteps
  <2>2. form' \in SiteForms /\ form'.site = site
    BY <1>2, <1>5, <1>6, <1>8, BoundTyped
  <2>3. form'.site \in DOMAIN sites' /\ sites'[form'.site] = r /\ sites' \in Seq(Websites)
    BY <1>6, <1>8, <2>2
  <2>4. SessTypes' /\ KindTold'
    BY <1>1, <2>1, <2>2, <2>3 DEF SessInv, SessTypes, KindTold, SiteSteps
  <2>5. Session!SiteAsAgreed(sites[form.site], accepted["domain"])'
    BY <1>2, <2>1, <2>3 DEF Session!SiteAsAgreed
  <2>6. SiteTold'
    BY <2>1, <2>3, <2>5 DEF SiteTold, SiteSteps
  <2>7. BindTold' /\ SignedTold'
    BY <1>1, <2>1 DEF SessInv, BindTold, SignedTold
  <2> QED
    BY <2>4, <2>6, <2>7 DEF SessInv
<1> QED
  BY <1>4, <1>7, <1>8

LEMMA ValidatesKeep == ASSUME SessInv, Session!ValidateSite PROVE SessInv'
<1> DEFINE begun == Session!Fire(Session!OpEvents, "start", form.op)
           ended == Session!Fire(Session!OpEvents, "success", begun)
           started == [form EXCEPT !.op = begun]
<1>1. /\ wizard.step = "validate" /\ wizard.kind = "websites" /\ form \in SiteForms
      /\ SessTypes /\ wizard.step \in Session!WizardSteps
      /\ UNCHANGED <<sites, bindings, token, logins, config>>
      /\ form.site \in DOMAIN sites
      /\ Session!SiteAsAgreed(sites[form.site], accepted["domain"])
  BY StepsNamed DEF SessInv, SessTypes, KindTold, SiteTold, SiteSteps, DomainSteps, SetupSteps,
     Session!ValidateSite, Session!At, Session!portal, Session!host
<1>2. begun \in {"pending", "running", "succeeded", "failed"}
      /\ ended \in {"pending", "running", "succeeded", "failed"}
  BY <1>1, Fires DEF SiteForms
<1>3. started.op = begun
  BY <1>1 DEF SiteForms
<1>4. \/ Session!Remain /\ form' = started
      \/ \E v \in {"valid", "invalid"} :
           /\ form' = [started EXCEPT !.result = v, !.op = ended]
           /\ Session!Advance(v)
  BY <1>3 DEF Session!ValidateSite
<1> HIDE DEF begun, ended
<1>5. started \in SiteForms /\ started.site = form.site
  BY <1>1, <1>2 DEF SiteForms
<1> HIDE DEF started
<1>6. CASE Session!Remain /\ form' = started
  <2>1. wizard' = wizard /\ accepted' = accepted
    BY <1>6 DEF Session!Remain
  <2>2. SessTypes' /\ KindTold'
    BY <1>1, <1>5, <1>6, <2>1 DEF SessInv, SessTypes, KindTold
  <2>3. Session!SiteAsAgreed(sites[form.site], accepted["domain"])'
    BY <1>1, <1>5, <1>6, <2>1 DEF Session!SiteAsAgreed
  <2>4. SiteTold' /\ BindTold' /\ SignedTold'
    BY <1>1, <1>5, <1>6, <2>1, <2>3 DEF SessInv, SiteTold, BindTold, SignedTold, SiteSteps
  <2> QED
    BY <2>2, <2>4 DEF SessInv
<1>7. ASSUME NEW v \in {"valid", "invalid"}, Session!Advance(v),
             form' = [started EXCEPT !.result = v, !.op = ended]
      PROVE  SessInv'
  <2>1. /\ wizard' \in [kind : {"none", "websites", "domains", "setup"},
                        step : {"init", "complete", "domain_complete"} \cup Session!WizardSteps]
        /\ wizard'.kind = "websites" /\ wizard'.step = "complete"
        /\ DOMAIN accepted' = Session!WizardSteps
        /\ accepted'["content_source"] = accepted["content_source"]
        /\ accepted'["target_type"] = accepted["target_type"]
        /\ accepted'["domain"] = accepted["domain"]
        /\ accepted'["dns_mode"] = accepted["dns_mode"]
    BY <1>1, <1>7, Advances, StepsNamed DEF SiteSteps
  <2>2. form' \in SiteForms /\ form'.site = form.site /\ form'.result # "none"
    <3>1. form' = [started EXCEPT !.result = v, !.op = ended]
      BY <1>7
    <3>2. started \in SiteForms /\ v \in {"valid", "invalid"}
      BY <1>5, <1>7
    <3>3. form'.site = started.site /\ form'.result = v
      BY <3>1, <3>2 DEF SiteForms
    <3>4. form' \in SiteForms
      <4> DEFINE g == [started EXCEPT !.op = ended]
      <4>1. g \in SiteForms
        BY <1>2, <3>2 DEF SiteForms
      <4>2. form' = [g EXCEPT !.result = v]
        BY <3>1, <3>2 DEF SiteForms
      <4> HIDE DEF g
      <4> QED
        BY <3>2, <4>1, <4>2 DEF SiteForms
    <3> QED
      BY <1>5, <3>2, <3>3, <3>4
  <2>3. SessTypes' /\ KindTold'
    BY <1>1, <2>1, <2>2 DEF SessInv, SessTypes, KindTold, SiteSteps
  <2>4. Session!SiteAsAgreed(sites[form.site], accepted["domain"])'
    BY <1>1, <2>1, <2>2 DEF Session!SiteAsAgreed
  <2>5. SiteTold'
    BY <1>1, <2>1, <2>2, <2>4 DEF SiteTold, SiteSteps
  <2>6. BindTold' /\ SignedTold'
    BY <1>1, <2>1 DEF SessInv, BindTold, SignedTold
  <2> QED
    BY <2>3, <2>5, <2>6 DEF SessInv
<1> QED
  BY <1>4, <1>6, <1>7

(* The domain wizard: website, name, namespace.                            *)
LEMMA SelectsKeep ==
  ASSUME SessInv, NEW id, Session!SelectSite(id)
  PROVE  SessInv'
<1>1. /\ wizard.step = "domain_website" /\ wizard.kind = "domains" /\ form \in SiteForms
      /\ SessTypes /\ wizard.step \in Session!WizardSteps
      /\ Session!Advance(id) /\ UNCHANGED <<sites, bindings, token, logins, config>>
      /\ form' = [form EXCEPT !.site = id] /\ id \in DOMAIN sites /\ sites \in Seq(Websites)
  BY StepsNamed DEF SessInv, SessTypes, KindTold, SiteSteps, DomainSteps, SetupSteps,
     Session!SelectSite, Session!At, Session!portal, Session!host
<1>2. /\ wizard' \in [kind : {"none", "websites", "domains", "setup"},
                      step : {"init", "complete", "domain_complete"} \cup Session!WizardSteps]
      /\ wizard'.kind = "domains" /\ wizard'.step = "domain_name"
      /\ DOMAIN accepted' = Session!WizardSteps /\ accepted'["domain_website"] = id
  BY <1>1, Advances, StepsNamed
<1>3. id \in Nat
  BY <1>1
<1>4. form' \in SiteForms /\ form'.site = id
  BY <1>1, <1>3 DEF SiteForms
<1>5. SessTypes' /\ KindTold'
  BY <1>1, <1>2, <1>4 DEF SessInv, SessTypes, KindTold, DomainSteps
<1>6. SiteTold' /\ BindTold' /\ SignedTold'
  BY <1>1, <1>2, <1>4 DEF SessInv, SiteTold, BindTold, SignedTold, DomainSteps
<1> QED
  BY <1>5, <1>6 DEF SessInv

LEMMA NamesKeep ==
  ASSUME SessInv, NEW i \in Session!NameInputs, Session!NameDomain(i)
  PROVE  SessInv'
<1> DEFINE name == i.domain
           label == i.label
           generate == i.generate
           whole == <<name>>
           root == IF i.root # "empty" THEN i.root
                   ELSE IF i.generate \/ i.label # "empty" THEN i.domain ELSE "empty"
<1>1. /\ wizard.step = "domain_name" /\ wizard.kind = "domains" /\ form \in SiteForms
      /\ SessTypes /\ wizard.step \in Session!WizardSteps
      /\ Session!Advance(i) /\ UNCHANGED <<sites, bindings, token, logins, config>>
      /\ form.site = accepted["domain_website"]
  BY StepsNamed DEF SessInv, SessTypes, KindTold, BindTold, SiteSteps, DomainSteps, SetupSteps,
     Session!NameDomain, Session!At, Session!portal, Session!host
<1>2. /\ wizard' \in [kind : {"none", "websites", "domains", "setup"},
                      step : {"init", "complete", "domain_complete"} \cup Session!WizardSteps]
      /\ wizard'.kind = "domains" /\ wizard'.step = "domain_namespace"
      /\ DOMAIN accepted' = Session!WizardSteps /\ accepted'["domain_name"] = i
      /\ accepted'["domain_website"] = accepted["domain_website"]
  BY <1>1, Advances, StepsNamed DEF DomainSteps
<1>3. /\ name \in WizardNames /\ label \in Labelled /\ generate \in BOOLEAN
      /\ i.root \in {"empty"} \cup WizardRoots
  BY DEF Session!NameInputs, Labelled
<1>4. root \in Roots
  BY <1>3 DEF Roots
<1>5. form' = [form EXCEPT !.domain = whole, !.label = label, !.generate = generate,
                           !.root = root]
  BY DEF Session!NameDomain
<1> HIDE DEF name, label, generate, root
<1>6. name \in Words
  BY <1>3 DEF Words
<1>7. whole \in Seq(Words)
  BY <1>6
<1> HIDE DEF whole
<1>8. form' \in SiteForms /\ form'.domain = whole /\ form'.label = label
      /\ form'.generate = generate /\ form'.site = form.site
  BY <1>1, <1>3, <1>4, <1>5, <1>7 DEF SiteForms
<1>9. SessTypes' /\ KindTold'
  BY <1>1, <1>2, <1>8 DEF SessInv, SessTypes, KindTold, DomainSteps
<1>10. BindTold'
  BY <1>1, <1>2, <1>8 DEF BindTold, whole, name, label, generate
<1>11. SiteTold' /\ SignedTold'
  BY <1>1, <1>2 DEF SessInv, SiteTold, SignedTold
<1> QED
  BY <1>9, <1>10, <1>11 DEF SessInv

LEMMA SpacesKeep ==
  ASSUME SessInv, NEW n \in {"icann", "hns"}, Session!ChooseNamespace(n)
  PROVE  SessInv'
<1>1. /\ wizard.step = "domain_namespace" /\ wizard.kind = "domains" /\ form \in SiteForms
      /\ SessTypes /\ wizard.step \in Session!WizardSteps
      /\ Session!Advance(n) /\ UNCHANGED <<sites, bindings, token, logins, config>>
      /\ form' = [form EXCEPT !.namespace = n]
      /\ form.site = accepted["domain_website"]
      /\ form.domain = <<accepted["domain_name"].domain>>
      /\ form.label = accepted["domain_name"].label
      /\ form.generate = accepted["domain_name"].generate
  BY StepsNamed DEF SessInv, SessTypes, KindTold, BindTold, SiteSteps, DomainSteps, SetupSteps,
     Session!ChooseNamespace, Session!At, Session!portal, Session!host
<1>2. /\ wizard' \in [kind : {"none", "websites", "domains", "setup"},
                      step : {"init", "complete", "domain_complete"} \cup Session!WizardSteps]
      /\ wizard'.kind = "domains" /\ wizard'.step = "domain_bind"
      /\ DOMAIN accepted' = Session!WizardSteps /\ accepted'["domain_namespace"] = n
      /\ accepted'["domain_website"] = accepted["domain_website"]
      /\ accepted'["domain_name"] = accepted["domain_name"]
  BY <1>1, Advances, StepsNamed DEF DomainSteps
<1>3. form' \in SiteForms /\ form'.domain = form.domain /\ form'.label = form.label
      /\ form'.generate = form.generate /\ form'.site = form.site /\ form'.namespace = n
  BY <1>1 DEF SiteForms, Spaces
<1>4. SessTypes' /\ KindTold'
  BY <1>1, <1>2, <1>3 DEF SessInv, SessTypes, KindTold, DomainSteps
<1>5. BindTold'
  BY <1>1, <1>2, <1>3 DEF BindTold
<1>6. SiteTold' /\ SignedTold'
  BY <1>1, <1>2 DEF SessInv, SiteTold, SignedTold
<1> QED
  BY <1>4, <1>5, <1>6 DEF SessInv

(* A binding that was made and not answered is followed by the one the     *)
(* wizard reports.                                                         *)
LEMMA BindsKeep == ASSUME SessInv, Session!BindDomain PROVE SessInv'
<1> DEFINE r == Session!DomainRequest
<1>1. /\ wizard.step = "domain_bind" /\ wizard.kind = "domains" /\ form \in SiteForms
      /\ SessTypes /\ wizard.step \in Session!WizardSteps
      /\ UNCHANGED <<sites, token, logins, config>> /\ bindings \in Seq(Bindings)
      /\ form.site = accepted["domain_website"]
      /\ form.domain = <<accepted["domain_name"].domain>>
      /\ form.label = accepted["domain_name"].label
      /\ form.generate = accepted["domain_name"].generate
      /\ form.namespace = accepted["domain_namespace"]
  BY StepsNamed DEF SessInv, SessTypes, KindTold, BindTold, SiteSteps, DomainSteps, SetupSteps,
     Session!BindDomain, Session!At, Session!host
<1>2. r \in Bindings
  BY <1>1 DEF SiteForms, Bindings, Session!DomainRequest
<1>3. Session!BindingAsAgreed(r, accepted["domain_name"])
  BY <1>1 DEF Session!BindingAsAgreed, Session!DomainRequest
<1>4. \/ Session!Remain /\ form' = form /\ bindings' \in {bindings, Append(bindings, r)}
      \/ /\ Session!Advance("confirm") /\ bindings' = Append(bindings, r)
         /\ form' = [form EXCEPT !.result = "bound"]
  BY DEF Session!BindDomain
<1> HIDE DEF r
<1>5. /\ Append(bindings, r) \in Seq(Bindings) /\ Append(bindings, r) # <<>>
      /\ Append(bindings, r)[Len(Append(bindings, r))] = r
  BY <1>1, <1>2
<1>6. CASE Session!Remain /\ form' = form /\ bindings' \in {bindings, Append(bindings, r)}
  <2>1. wizard' = wizard /\ accepted' = accepted /\ bindings' \in Seq(Bindings)
    BY <1>1, <1>5, <1>6 DEF Session!Remain
  <2>2. SessTypes' /\ KindTold'
    BY <1>1, <1>6, <2>1 DEF SessInv, SessTypes, KindTold
  <2>3. SiteTold' /\ BindTold' /\ SignedTold'
    BY <1>1, <1>6, <2>1 DEF SessInv, SiteTold, BindTold, SignedTold
  <2> QED
    BY <2>2, <2>3 DEF SessInv
<1>7. CASE /\ Session!Advance("confirm") /\ bindings' = Append(bindings, r)
           /\ form' = [form EXCEPT !.result = "bound"]
  <2>1. /\ wizard' \in [kind : {"none", "websites", "domains", "setup"},
                        step : {"init", "complete", "domain_complete"} \cup Session!WizardSteps]
        /\ wizard'.kind = "domains" /\ wizard'.step = "domain_delegation_setup"
        /\ DOMAIN accepted' = Session!WizardSteps
        /\ accepted'["domain_website"] = accepted["domain_website"]
        /\ accepted'["domain_name"] = accepted["domain_name"]
        /\ accepted'["domain_namespace"] = accepted["domain_namespace"]
    BY <1>1, <1>7, Advances, StepsNamed DEF DomainSteps
  <2>2. form' \in SiteForms /\ form'.result # "none"
    BY <1>1, <1>7 DEF SiteForms
  <2>3. SessTypes' /\ KindTold'
    BY <1>1, <1>5, <1>7, <2>1, <2>2 DEF SessInv, SessTypes, KindTold, DomainSteps
  <2>4. Session!BindingAsAgreed(bindings[Len(bindings)], accepted["domain_name"])'
    BY <1>3, <1>5, <1>7, <2>1 DEF Session!BindingAsAgreed
  <2>5. BindTold'
    BY <1>5, <1>7, <2>1, <2>2, <2>4 DEF BindTold
  <2>6. SiteTold' /\ SignedTold'
    BY <1>1, <2>1 DEF SessInv, SiteTold, SignedTold
  <2> QED
    BY <2>3, <2>5, <2>6 DEF SessInv
<1> QED
  BY <1>4, <1>6, <1>7

LEMMA DelegatesKeep ==
  ASSUME SessInv, Session!Delegate \/ Session!VerifyDomain
  PROVE  SessInv'
<1>1. /\ wizard.step \in {"domain_delegation_setup", "domain_verify"}
      /\ wizard.kind = "domains" /\ form \in SiteForms
      /\ SessTypes /\ wizard.step \in Session!WizardSteps
      /\ Session!Advance("answered") /\ UNCHANGED <<sites, bindings, token, logins, config>>
      /\ \E r \in {form.result, "bound", "verified"} : form' = [form EXCEPT !.result = r]
      /\ form.result # "none" /\ bindings # <<>>
      /\ Session!BindingAsAgreed(bindings[Len(bindings)], accepted["domain_name"])
  <2>1. wizard.step \in {"domain_delegation_setup", "domain_verify"}
    BY DEF Session!Delegate, Session!VerifyDomain, Session!At
  <2>2. /\ wizard.kind = "domains" /\ form \in SiteForms /\ SessTypes
        /\ wizard.step \in Session!WizardSteps /\ form.result # "none" /\ bindings # <<>>
        /\ Session!BindingAsAgreed(bindings[Len(bindings)], accepted["domain_name"])
    BY <2>1, StepsNamed DEF SessInv, SessTypes, KindTold, BindTold, SiteSteps, DomainSteps,
       SetupSteps
  <2>3. /\ Session!Advance("answered") /\ UNCHANGED <<sites, bindings, token, logins, config>>
    BY DEF Session!Delegate, Session!VerifyDomain, Session!portal, Session!host
  <2>4. \E r \in {form.result, "bound", "verified"} : form' = [form EXCEPT !.result = r]
    <3>1. CASE Session!Delegate
      <4>1. form' = form
        BY <3>1 DEF Session!Delegate
      <4>2. form = [form EXCEPT !.result = form.result]
        BY <2>2 DEF SiteForms
      <4> QED
        BY <4>1, <4>2
    <3>2. CASE Session!VerifyDomain
      BY <3>2 DEF Session!VerifyDomain
    <3> QED
      BY <3>1, <3>2
  <2> QED
    BY <2>1, <2>2, <2>3, <2>4
<1>2. /\ wizard' \in [kind : {"none", "websites", "domains", "setup"},
                      step : {"init", "complete", "domain_complete"} \cup Session!WizardSteps]
      /\ wizard'.kind = "domains" /\ wizard'.step \in {"domain_verify", "domain_complete"}
      /\ DOMAIN accepted' = Session!WizardSteps
      /\ accepted'["domain_website"] = accepted["domain_website"]
      /\ accepted'["domain_name"] = accepted["domain_name"]
      /\ accepted'["domain_namespace"] = accepted["domain_namespace"]
  BY <1>1, Advances, StepsNamed DEF DomainSteps
<1>3. form' \in SiteForms /\ form'.result # "none"
  BY <1>1 DEF SiteForms
<1>4. SessTypes' /\ KindTold'
  BY <1>1, <1>2, <1>3 DEF SessInv, SessTypes, KindTold, DomainSteps
<1>5. Session!BindingAsAgreed(bindings[Len(bindings)], accepted["domain_name"])'
  BY <1>1, <1>2 DEF Session!BindingAsAgreed
<1>6. BindTold'
  BY <1>1, <1>2, <1>3, <1>5 DEF BindTold
<1>7. SiteTold' /\ SignedTold'
  BY <1>1, <1>2 DEF SessInv, SiteTold, SignedTold
<1> QED
  BY <1>4, <1>6, <1>7 DEF SessInv

(* Setup: a browser login, then the settings.                              *)
LEMMA LoginsMoveOn ==
  ASSUME SessInv, NEW e \in Emails, Session!SignIn(e) \/ Session!Browser(e)
  PROVE  SessInv'
<1> DEFINE input == [choice |-> "sign_in", email |-> e]
<1>1. SessTypes /\ logins \in [Emails -> {"none", "pending", "failed", "done"}]
      /\ UNCHANGED <<form, sites, bindings, config>>
  BY DEF SessInv, SessTypes, Session!SignIn, Session!Browser, Session!portal, Session!host
<1>2. \/ /\ wizard.step = "auth" /\ logins[e] = "done" /\ Session!Advance(input)
         /\ UNCHANGED <<token, logins>>
      \/ /\ Session!Remain /\ logins[e] # "done" /\ UNCHANGED token
         /\ \E a \in {"pending", "failed"} : logins' = [logins EXCEPT ![e] = a]
      \/ /\ Session!Remain /\ token' = TRUE /\ logins' = [logins EXCEPT ![e] = "done"]
  BY DEF Session!SignIn, Session!Browser, Session!Remain, Session!At, Session!host
<1>3. CASE /\ wizard.step = "auth" /\ logins[e] = "done" /\ Session!Advance(input)
           /\ UNCHANGED <<token, logins>>
  <2>1. wizard.kind = "setup" /\ wizard.step \in Session!WizardSteps
    BY <1>1, <1>3, StepsNamed DEF SessInv, SessTypes, KindTold, SiteSteps, DomainSteps,
       SetupSteps
  <2>2. /\ wizard' \in [kind : {"none", "websites", "domains", "setup"},
                        step : {"init", "complete", "domain_complete"} \cup Session!WizardSteps]
        /\ wizard'.kind = "setup" /\ wizard'.step = "config"
        /\ DOMAIN accepted' = Session!WizardSteps /\ accepted'["auth"] = input
    BY <1>1, <1>3, <2>1, Advances, StepsNamed
  <2>3. input.email = e
    OBVIOUS
  <2> HIDE DEF input
  <2>4. SessTypes' /\ KindTold'
    BY <1>1, <1>3, <2>2 DEF SessInv, SessTypes, KindTold, SetupSteps
  <2>5. SiteTold' /\ BindTold'
    BY <2>2 DEF SiteTold, BindTold
  <2>6. SignedTold'
    BY <1>1, <1>3, <2>2, <2>3 DEF SessInv, SignedTold
  <2> QED
    BY <2>4, <2>5, <2>6 DEF SessInv
<1>4. CASE /\ Session!Remain /\ logins[e] # "done" /\ UNCHANGED token
           /\ \E a \in {"pending", "failed"} : logins' = [logins EXCEPT ![e] = a]
  <2>1. wizard' = wizard /\ accepted' = accepted
    BY <1>4 DEF Session!Remain
  <2>2. /\ logins' \in [Emails -> {"none", "pending", "failed", "done"}]
        /\ \A x \in Emails : logins'[x] = "done" <=> logins[x] = "done"
    BY <1>1, <1>4
  <2>3. SessTypes' /\ KindTold'
    BY <1>1, <1>4, <2>1, <2>2 DEF SessInv, SessTypes, KindTold
  <2>4. SiteTold' /\ BindTold'
    BY <1>1, <2>1 DEF SessInv, SiteTold, BindTold, DomainChosen, Session!SiteAsAgreed,
       Session!BindingAsAgreed
  <2>5. SignedTold'
    BY <1>1, <1>4, <2>1, <2>2 DEF SessInv, SignedTold
  <2> QED
    BY <2>3, <2>4, <2>5 DEF SessInv
<1>5. CASE Session!Remain /\ token' = TRUE /\ logins' = [logins EXCEPT ![e] = "done"]
  <2>1. wizard' = wizard /\ accepted' = accepted
    BY <1>5 DEF Session!Remain
  <2>2. /\ logins' \in [Emails -> {"none", "pending", "failed", "done"}]
        /\ \A x \in Emails : logins[x] = "done" => logins'[x] = "done"
    BY <1>1, <1>5
  <2>3. SessTypes' /\ KindTold'
    BY <1>1, <1>5, <2>1, <2>2 DEF SessInv, SessTypes, KindTold
  <2>4. SiteTold' /\ BindTold'
    BY <1>1, <2>1 DEF SessInv, SiteTold, BindTold, DomainChosen, Session!SiteAsAgreed,
       Session!BindingAsAgreed
  <2>5. SignedTold'
    BY <1>1, <1>5, <2>1, <2>2 DEF SessInv, SignedTold
  <2> QED
    BY <2>3, <2>4, <2>5 DEF SessInv
<1> QED
  BY <1>2, <1>3, <1>4, <1>5

LEMMA ConfiguresKeep ==
  ASSUME SessInv, NEW i \in Session!ConfigInputs, Session!Configure(i)
  PROVE  SessInv'
<1> DEFINE settings == [endpoint |-> i.endpoint, secure |-> i.secure]
           part == [config EXCEPT !.endpoint = i.endpoint]
<1>1. i.endpoint \in {"old", "new", "empty"} /\ i.secure \in BOOLEAN
  <2> DEFINE defaults == [choice |-> "defaults", endpoint |-> "empty", secure |-> TRUE]
             kept == [choice |-> "skip", endpoint |-> "old", secure |-> FALSE]
  <2>1. i \in {defaults, kept} \/ i \in [choice : {"custom"}, endpoint : {"new"}, secure : BOOLEAN]
    BY DEF Session!ConfigInputs
  <2>2. CASE i = defaults
    BY <2>2
  <2>3. CASE i = kept
    BY <2>3
  <2>4. CASE i \in [choice : {"custom"}, endpoint : {"new"}, secure : BOOLEAN]
    BY <2>4
  <2> QED
    BY <2>1, <2>2, <2>3, <2>4
<1>2. /\ wizard.step = "config" /\ wizard.kind = "setup"
      /\ SessTypes /\ wizard.step \in Session!WizardSteps
      /\ UNCHANGED <<form, sites, bindings, token, logins>>
      /\ config \in [endpoint : {"old", "new", "empty"}, secure : BOOLEAN]
  BY StepsNamed DEF SessInv, SessTypes, KindTold, SiteSteps, DomainSteps, SetupSteps,
     Session!Configure, Session!At, Session!portal
<1>3. \/ i.choice = "skip" /\ Session!Advance(i) /\ config' = config
      \/ Session!Remain /\ config' \in {config, part}
      \/ Session!Advance(i) /\ config' = settings
  BY DEF Session!Configure
<1>4. {part, settings} \subseteq [endpoint : {"old", "new", "empty"}, secure : BOOLEAN]
  BY <1>1, <1>2
<1> HIDE DEF part
<1>5. CASE Session!Remain /\ config' \in {config, part}
  <2>1. wizard' = wizard /\ accepted' = accepted
    BY <1>5 DEF Session!Remain
  <2>2. SessTypes' /\ KindTold'
    BY <1>2, <1>4, <1>5, <2>1 DEF SessInv, SessTypes, KindTold
  <2>3. SiteTold' /\ BindTold' /\ SignedTold'
    BY <1>2, <2>1 DEF SessInv, SiteTold, BindTold, SignedTold
  <2> QED
    BY <2>2, <2>3 DEF SessInv
<1>6. CASE /\ Session!Advance(i)
           /\ (i.choice = "skip" /\ config' = config) \/ config' = settings
  <2>1. /\ wizard' \in [kind : {"none", "websites", "domains", "setup"},
                        step : {"init", "complete", "domain_complete"} \cup Session!WizardSteps]
        /\ wizard'.kind = "setup" /\ wizard'.step = "completion"
        /\ DOMAIN accepted' = Session!WizardSteps /\ accepted'["config"] = i
        /\ accepted'["auth"] = accepted["auth"]
    BY <1>2, <1>6, Advances, StepsNamed DEF SetupSteps
  <2>2. SessTypes' /\ KindTold'
    BY <1>2, <1>4, <1>6, <2>1 DEF SessInv, SessTypes, KindTold, SetupSteps
  <2>3. SiteTold' /\ BindTold'
    BY <2>1 DEF SiteTold, BindTold
  <2>4. SignedTold'
    BY <1>2, <1>6, <2>1 DEF SessInv, SignedTold
  <2> QED
    BY <2>2, <2>3, <2>4 DEF SessInv
<1> QED
  BY <1>3, <1>5, <1>6

LEMMA SessStep == SessInv /\ [Session!WizardNext]_sessionState => SessInv'
<1> SUFFICES ASSUME SessInv, [Session!WizardNext]_sessionState PROVE SessInv'
  OBVIOUS
<1>1. CASE UNCHANGED sessionState
  <2>1. UNCHANGED <<wizard, form, accepted, sites, bindings, token, logins, config>>
    BY <1>1 DEF sessionState
  <2>2. SessTypes' /\ KindTold' /\ SignedTold'
    BY <2>1 DEF SessInv, SessTypes, KindTold, SignedTold
  <2>3. SiteTold' /\ BindTold'
    BY <2>1 DEF SessInv, SiteTold, BindTold, DomainChosen, Session!SiteAsAgreed,
       Session!BindingAsAgreed
  <2> QED
    BY <2>2, <2>3 DEF SessInv
<1>2. CASE \E k \in DOMAIN Session!FirstStep : Session!NewSession(k)
  BY <1>2, BeginsKeep
<1>3. CASE \/ Session!CheckSiteAuth \/ Session!CheckDomainAuth \/ Session!SetupDns
           \/ Session!ShellCompletion \/ Session!Tutorial \/ Session!SkipSignIn
  BY <1>3, ReadsKeep
<1>4. CASE Session!CreateSite \/ Session!ValidateSite
  BY <1>4, SitesKeep, ValidatesKeep
<1>5. CASE Session!BindDomain \/ Session!Delegate \/ Session!VerifyDomain
  BY <1>5, BindsKeep, DelegatesKeep
<1>6. CASE Session!SourceContent("cid")
  BY <1>6, SourcesKeep
<1>7. CASE \E t \in {"ipfs", "ipns"} : Session!ChooseTarget(t)
  BY <1>7, TargetsKeep
<1>8. CASE \E i \in Session!DomainInputs : Session!ChooseDomain(i)
  BY <1>8, DomainsKeep
<1>9. CASE \E m \in BOOLEAN : Session!ChooseDns(m)
  BY <1>9, DnsKeeps
<1>10. CASE \E id \in 1 .. MaxSites : Session!SelectSite(id)
  BY <1>10, SelectsKeep
<1>11. CASE \E i \in Session!NameInputs : Session!NameDomain(i)
  BY <1>11, NamesKeep
<1>12. CASE \E n \in {"icann", "hns"} : Session!ChooseNamespace(n)
  BY <1>12, SpacesKeep
<1>13. CASE \E e \in Emails : Session!SignIn(e) \/ Session!Browser(e)
  BY <1>13, LoginsMoveOn
<1>14. CASE \E i \in Session!ConfigInputs : Session!Configure(i)
  BY <1>14, ConfiguresKeep
<1> QED
  BY <1>1, <1>2, <1>3, <1>4, <1>5, <1>6, <1>7, <1>8, <1>9, <1>10, <1>11, <1>12, <1>13,
     <1>14 DEF Session!WizardNext

(* What the finished wizard shows is what its last steps left.             *)
LEMMA SessionsTell == SessInv => WizardCompletesRight
<1> SUFFICES ASSUME SessInv, Session!Completed PROVE Session!CompleteMeansAgreed
  BY DEF WizardCompletesRight, Session!CompleteMeansAgreed
<1>1. CASE wizard.kind = "websites"
  BY <1>1 DEF SessInv, KindTold, SiteTold, SiteSteps, Session!Completed,
     Session!CompleteMeansAgreed
<1>2. CASE wizard.kind = "domains"
  BY <1>2 DEF SessInv, KindTold, BindTold, DomainSteps, Session!Completed,
     Session!CompleteMeansAgreed
<1>3. CASE wizard.kind = "setup"
  BY <1>3 DEF SessInv, SessTypes, KindTold, SignedTold, SetupSteps, Session!Completed,
     Session!CompleteMeansAgreed
<1>4. wizard.kind \in {"none", "websites", "domains", "setup"}
  BY DEF SessInv, SessTypes
<1> QED
  BY <1>1, <1>2, <1>3, <1>4 DEF Session!CompleteMeansAgreed

-----------------------------------------------------------------------------
(* The types of what the server keeps.  Most of them are part of the        *)
(* invariants above; the bounds below are not.                              *)
LEMMA FormTyped == FormInv => Form!WizTypeOK
BY FormTypesHold DEF FormInv

LEMMA ServeTyped == ServeInv => Serve!ServeTypeOK
BY DEF ServeInv

LEMMA FilesTyped == FileInv => Files!FileTypeOK
BY DEF FileInv, FileTypes, FileCalls, Files!FileTypeOK

(* The temporary files left beside an agent's configuration: a rename has   *)
(* its own to take away.                                                   *)
TempsKept == temps \in 0 .. MaxTemps /\ (edit.at = "rename" => temps >= 1)

LEMMA TempsStart == Agent!CfgInit => TempsKept
<1> SUFFICES ASSUME Agent!CfgInit PROVE TempsKept
  OBVIOUS
<1>1. PICK family \in Agent!Families :
        edit = [Agent!NoEdit EXCEPT !.family = family] /\ temps = 0
  BY DEF Agent!CfgInit
<1>2. edit.at = "idle"
  BY Zenon, <1>1 DEF Agent!NoEdit
<1> QED
  BY <1>1, <1>2, BoundAssumption DEF TempsKept

LEMMA TempsStep ==
  ASSUME AgentInv, TempsKept, [Agent!CfgNext]_agentState
  PROVE  TempsKept'
<1>1. edit \in Edits
  BY DEF AgentInv, AgentTypes
<1>2. MaxTemps \in Nat
  BY BoundAssumption
<1>3. \A answer : Agent!Finish(answer) => edit'.at = "idle"
  BY Zenon, <1>1 DEF Agent!Finish, Edits
<1>4. ASSUME temps' = temps, edit'.at = "rename" => edit.at = "rename"
      PROVE  TempsKept'
  BY <1>4 DEF TempsKept
<1>5. ASSUME NEW kind, Agent!Begin(kind) PROVE TempsKept'
  <2>1. edit'.at = "read" /\ temps' = temps
    BY Zenon, <1>1, <1>5 DEF Agent!Begin, Edits
  <2> QED
    BY <1>4, <2>1
<1>6. CASE Agent!ReadRoot
  <2>1. temps' = temps /\ edit'.at \in {"idle", "change"}
    BY Zenon, <1>1, <1>3, <1>6 DEF Agent!ReadRoot, Edits
  <2> QED
    BY <1>4, <2>1
<1>7. CASE Agent!SetServer \/ Agent!DropServer
  <2>1. ASSUME NEW r, edit' = [edit EXCEPT !.at = "temp", !.read = r] PROVE edit'.at = "temp"
    BY Zenon, <1>1, <2>1 DEF Edits
  <2>2. temps' = temps /\ edit'.at \in {"idle", "temp"}
    BY Zenon, <1>3, <1>7, <2>1 DEF Agent!SetServer, Agent!DropServer
  <2> QED
    BY <1>4, <2>2
<1>8. CASE Agent!WriteTemp
  <2>1. \/ temps < MaxTemps /\ temps' = temps + 1
        \/ temps' = temps /\ edit'.at = "idle"
    BY <1>3, <1>8 DEF Agent!WriteTemp
  <2> QED
    BY <1>2, <2>1 DEF TempsKept
<1>9. CASE Agent!Rename
  <2>1. edit'.at = "idle" /\ edit.at = "rename" /\ temps' \in {temps, temps - 1}
    BY <1>3, <1>9 DEF Agent!Rename
  <2> QED
    BY <1>2, <2>1 DEF TempsKept
<1>10. CASE Agent!CfgCrash \/ Agent!AgentSaves
  <2>1. temps' = temps /\ edit'.at \in {"dead", edit.at}
    BY Zenon, <1>1, <1>10 DEF Agent!CfgCrash, Agent!AgentSaves, Edits
  <2> QED
    BY <1>4, <2>1
<1>11. CASE UNCHANGED agentState
  BY <1>4, <1>11 DEF agentState
<1> QED
  BY <1>5, <1>6, <1>7, <1>8, <1>9, <1>10, <1>11
     DEF Agent!CfgNext, Agent!WriteServerConfig, Agent!RemoveServer

LEMMA AgentTyped == AgentInv /\ TempsKept => Agent!CfgTypeOK
BY Zenon DEF AgentInv, AgentTypes, CfgFiles, Edits, TempsKept, Agent!CfgTypeOK

(* The website a session works on is one of the portal's.                  *)
SiteKept == form.site <= Len(sites) /\ Len(sites) <= MaxSites

LEMMA SiteStarts == Session!WizardInit => SiteKept
<1> SUFFICES ASSUME Session!WizardInit PROVE SiteKept
  OBVIOUS
<1>1. form.site = 0 /\ MaxSites \in Nat \ {0}
  BY BoundAssumption DEF Session!WizardInit, Session!EmptyForm
<1>2. sites \in Seq(Websites)
  BY SessStarts DEF SessInv, SessTypes
<1>3. Len(sites) = 0 \/ Len(sites) = 1
  BY DEF Session!WizardInit
<1> QED
  BY <1>1, <1>2, <1>3 DEF SiteKept

LEMMA SiteStep ==
  ASSUME SessInv, SiteKept, [Session!WizardNext]_sessionState
  PROVE  SiteKept'
<1>1. form \in SiteForms /\ sites \in Seq(Websites) /\ MaxSites \in Nat \ {0}
  BY BoundAssumption DEF SessInv, SessTypes
<1>2. ASSUME form'.site = form.site, sites' = sites PROVE SiteKept'
  BY <1>2 DEF SiteKept
<1>3. ASSUME form' = form, sites' = sites PROVE SiteKept'
  BY <1>2, <1>3
<1> USE DEF Session!portal, Session!host
<1>4. CASE \/ \E k \in DOMAIN Session!FirstStep : Session!NewSession(k)
           \/ Session!CheckSiteAuth \/ Session!CheckDomainAuth \/ Session!SetupDns
           \/ Session!ShellCompletion \/ Session!Tutorial \/ Session!Delegate
           \/ Session!SkipSignIn
           \/ \E e \in Emails : Session!SignIn(e) \/ Session!Browser(e)
           \/ \E i \in Session!ConfigInputs : Session!Configure(i)
  BY <1>3, <1>4 DEF Session!NewSession, Session!CheckSiteAuth, Session!CheckDomainAuth,
     Session!SetupDns, Session!ShellCompletion, Session!Tutorial, Session!Read, Session!Delegate,
     Session!SkipSignIn, Session!SignIn, Session!Browser, Session!Configure
<1>5. CASE \/ Session!BindDomain \/ Session!VerifyDomain
           \/ \E t \in {"ipfs", "ipns"} : Session!ChooseTarget(t)
           \/ \E m \in BOOLEAN : Session!ChooseDns(m)
           \/ \E n \in {"icann", "hns"} : Session!ChooseNamespace(n)
  <2>1. sites' = sites
    BY <1>5 DEF Session!BindDomain, Session!VerifyDomain, Session!ChooseTarget,
       Session!ChooseDns, Session!ChooseNamespace
  <2>2. form'.site = form.site
    BY <1>1, <1>5 DEF Session!BindDomain, Session!VerifyDomain, Session!ChooseTarget,
       Session!ChooseDns, Session!ChooseNamespace, SiteForms
  <2> QED
    BY <1>2, <2>1, <2>2
<1>6. CASE Session!SourceContent("cid")
  <2> DEFINE content == Session!Fire(Session!ContentEvents, "prepared", form.content)
             cid == "cid"
  <2>1. form' = [form EXCEPT !.cid = cid, !.content = content] /\ sites' = sites
    BY <1>6 DEF Session!SourceContent
  <2> HIDE DEF content, cid
  <2>2. form'.site = form.site
    BY <1>1, <2>1 DEF SiteForms
  <2> QED
    BY <1>2, <2>1, <2>2
<1>7. ASSUME NEW i \in Session!DomainInputs, Session!ChooseDomain(i) PROVE SiteKept'
  <2>1. sites' = sites
    BY <1>7 DEF Session!ChooseDomain
  <2>2. form.life # "draft" => form.source # "empty"
    BY <1>7, StepsNamed DEF SessInv, SessTypes, KindTold, SiteTold, SiteSteps, DomainSteps,
       SetupSteps, Session!ChooseDomain, Session!At
  <2>3. form'.site = form.site
    BY <1>1, <1>7, <2>2, DomainsTell
  <2> QED
    BY <1>2, <2>1, <2>3
<1>8. ASSUME NEW i \in Session!NameInputs, Session!NameDomain(i) PROVE SiteKept'
  <2> DEFINE name == <<i.domain>>
             label == i.label
             generate == i.generate
             root == IF i.root # "empty" THEN i.root
                     ELSE IF i.generate \/ i.label # "empty" THEN i.domain ELSE "empty"
  <2>1. /\ form' = [form EXCEPT !.domain = name, !.label = label, !.generate = generate,
                                !.root = root]
        /\ sites' = sites
    BY <1>8 DEF Session!NameDomain
  <2> HIDE DEF name, label, generate, root
  <2>2. form'.site = form.site
    BY <1>1, <2>1 DEF SiteForms
  <2> QED
    BY <1>2, <2>1, <2>2
<1>9. ASSUME NEW id, Session!SelectSite(id) PROVE SiteKept'
  <2>1. form'.site = id /\ id \in DOMAIN sites /\ sites' = sites
    BY <1>1, <1>9 DEF Session!SelectSite, SiteForms
  <2>2. id <= Len(sites)
    BY <1>1, <2>1
  <2> QED
    BY <2>1, <2>2 DEF SiteKept
<1>10. CASE Session!ValidateSite
  <2> DEFINE begun == Session!Fire(Session!OpEvents, "start", form.op)
             started == [form EXCEPT !.op = begun]
  <2>1. sites' = sites
    BY <1>10 DEF Session!ValidateSite
  <2>2. started \in SiteForms /\ started.site = form.site
    <3>1. begun \in {"pending", "running", "succeeded", "failed"}
      BY <1>1, Fires DEF SiteForms
    <3> HIDE DEF begun
    <3> QED
      BY <1>1, <3>1 DEF SiteForms
  <2>3. \/ form' = started
        \/ \E v, o : form' = [started EXCEPT !.result = v, !.op = o]
    BY Zenon, <1>10 DEF Session!ValidateSite
  <2> HIDE DEF started
  <2>4. form'.site = form.site
    BY Zenon, <2>2, <2>3 DEF SiteForms
  <2> QED
    BY <1>2, <2>1, <2>4
<1>11. CASE Session!CreateSite
  <2> DEFINE r == Session!Request(form)
             minted == Session!Minted(r)
             dns == form.dns \/ form.source = "platform"
             asked == [form EXCEPT !.dns = dns]
             content == Session!Fire(Session!ContentEvents, "deployed", form.content)
             ready == [asked EXCEPT !.content = content]
             site == Len(sites) + 1
  <2>1. form.site = 0
    BY <1>1, <1>11, StepsNamed DEF SessInv, SessTypes, KindTold, SiteTold, SiteSteps, DomainSteps,
       SetupSteps, Session!CreateSite, Session!At
  <2>2. \/ form' = asked /\ sites' = sites
        \/ Len(sites) < MaxSites /\ form' = asked /\ sites' = Append(sites, r)
        \/ /\ Len(sites) < MaxSites /\ sites' = Append(sites, r)
           /\ form' = Session!Bound(ready, site, minted)
    BY <1>11, <2>1 DEF Session!CreateSite, Session!Resumable
  <2>3. dns \in BOOLEAN /\ content \in {"new", "ready", "deployed"}
    BY <1>1, Fires DEF SiteForms
  <2>4. Len(Append(sites, r)) = Len(sites) + 1 /\ Len(sites) \in Nat
    BY <1>1
  <2> HIDE DEF r, minted, dns, content
  <2>5. asked \in SiteForms /\ asked.site = 0
    BY <1>1, <2>1, <2>3 DEF SiteForms
  <2> HIDE DEF asked
  <2>6. ready \in SiteForms
    BY <2>3, <2>5 DEF SiteForms
  <2> HIDE DEF ready
  <2>7. Session!Bound(ready, site, minted).site = site
    <3> DEFINE life == Session!Fire(Session!LifecycleEvents, "bind_success",
                         Session!Fire(Session!LifecycleEvents, "bind_start", ready.life))
               o == Session!Fire(Session!OpEvents, "success", ready.op)
    <3>1. Session!Bound(ready, site, minted) =
            [ready EXCEPT !.life = life, !.site = site, !.domain = minted, !.op = o]
      BY DEF Session!Bound
    <3> HIDE DEF life, o, site
    <3> QED
      BY <2>6, <3>1 DEF SiteForms
  <2> QED
    BY <1>1, <2>2, <2>4, <2>5, <2>7 DEF SiteKept
<1>12. CASE UNCHANGED sessionState
  BY <1>3, <1>12 DEF sessionState
<1> QED
  BY <1>4, <1>5, <1>6, <1>7, <1>8, <1>9, <1>10, <1>11, <1>12 DEF Session!WizardNext

LEMMA SessTyped == SessInv /\ SiteKept => Session!WizardTypeOK
<1> SUFFICES ASSUME SessInv, SiteKept PROVE Session!WizardTypeOK
  OBVIOUS
<1>1. form \in SiteForms /\ sites \in Seq(Websites) /\ MaxSites \in Nat
  BY BoundAssumption DEF SessInv, SessTypes
<1>2. form.site \in Nat /\ Len(sites) \in Nat
  BY <1>1 DEF SiteForms
<1>3. form.site \in 0 .. MaxSites /\ Len(sites) \in 0 .. MaxSites
  BY <1>1, <1>2 DEF SiteKept
<1>4. /\ form.life \in {"draft", "claimed", "binding", "live", "failed"}
      /\ form.content \in {"new", "ready", "deployed"}
      /\ form.op \in {"pending", "running", "succeeded", "failed"}
  BY <1>1 DEF SiteForms
<1>5. DOMAIN Session!FirstStep = {"websites", "domains", "setup"}
  BY DEF Session!FirstStep
<1> QED
  BY <1>3, <1>4, <1>5 DEF SessInv, SessTypes, Session!WizardTypeOK

(* The store holds at most one grant more than the bound, and codes, access *)
(* tokens and refresh tokens go by different numbers.                      *)
Store == database.codes \cup database.access \cup database.refresh
NumbersApart(codes, access, refresh) ==
  /\ \A x \in codes, y \in access \cup refresh : x.id # y.id
  /\ \A x \in access, y \in refresh : x.id # y.id
StoreKept ==
  /\ database = [clients |-> database.clients, codes |-> database.codes,
                 access |-> database.access, refresh |-> database.refresh]
  /\ database.clients \subseteq OAuthClients
  /\ NumbersApart(database.codes, database.access, database.refresh)
  /\ IsFiniteSet(Store) /\ Cardinality(Store) <= MaxGrants + 1
PlacesKept ==
  /\ baseURL \in OAuth!Origins \cup {""} /\ resource \in OAuth!Origins \cup {""}
  /\ registry \subseteq OAuth!Origins /\ agreed \subseteq OAuthClients \X OAuth!Origins

LEMMA SameStoreCardinality == \A S : OAuth!Cardinality(S) = Cardinality(S)
BY DEF OAuth!Cardinality, Cardinality

(* A finite set has no more images than elements.                          *)
LEMMA ImagesCounted ==
  ASSUME NEW S, IsFiniteSet(S), NEW f
  PROVE  IsFiniteSet({f[x] : x \in S}) /\ Cardinality({f[x] : x \in S}) <= Cardinality(S)
<1> DEFINE g == [x \in S |-> f[x]]
           T == {f[x] : x \in S}
<1>1. g \in Surjection(S, T)
  BY DEF Surjection
<1> QED
  BY <1>1, FS_Surjection

LEMMA OneMore ==
  ASSUME NEW S, IsFiniteSet(S), NEW x
  PROVE  /\ IsFiniteSet(S \cup {x}) /\ Cardinality(S) \in Nat /\ Cardinality(S \cup {x}) \in Nat
         /\ Cardinality(S \cup {x}) <= Cardinality(S) + 1
<1> DEFINE T == S \cup {x}
<1>1. IsFiniteSet(T) /\ (Cardinality(T) = Cardinality(S) \/ Cardinality(T) = Cardinality(S) + 1)
  BY FS_AddElement
<1>2. Cardinality(S) \in Nat
  BY FS_CardinalityType
<1> HIDE DEF T
<1>3. Cardinality(T) \in Nat /\ Cardinality(T) <= Cardinality(S) + 1
  BY <1>1, <1>2
<1> QED
  BY <1>1, <1>2, <1>3 DEF T

(* While there is room for one more grant, there are two numbers for it.   *)
LEMMA NumbersLeft ==
  ASSUME IsFiniteSet(Store), OAuth!Room
  PROVE  LET p == OAuth!NewIds IN
           p[1] # p[2] /\ \A g \in Store : g.id # p[1] /\ g.id # p[2]
<1> DEFINE N == 1 .. (MaxGrants + 2)
           f == [g \in Store |-> g.id]
           taken == {f[g] : g \in Store}
           left == N \ taken
<1>1. MaxGrants \in Nat /\ OAuth!Issued = Store
  BY BoundAssumption DEF OAuth!Issued, Store
<1>2. Cardinality(Store) < MaxGrants /\ Cardinality(Store) \in Nat
  BY <1>1, SameStoreCardinality, FS_CardinalityType DEF OAuth!Room
<1>3. IsFiniteSet(taken) /\ Cardinality(taken) <= Cardinality(Store) /\ Cardinality(taken) \in Nat
  BY ImagesCounted, FS_CardinalityType
<1>4. IsFiniteSet(N) /\ Cardinality(N) = MaxGrants + 2
  BY <1>1, FS_Interval
<1> HIDE DEF N, taken
<1>5. /\ IsFiniteSet(left) /\ Cardinality(left) = Cardinality(N) - Cardinality(N \cap taken)
      /\ Cardinality(N \cap taken) <= Cardinality(taken) /\ Cardinality(N \cap taken) \in Nat
      /\ Cardinality(left) \in Nat
  BY <1>3, <1>4, FS_Difference, FS_Intersection, FS_CardinalityType
<1>6. Cardinality(left) >= 2
  BY <1>1, <1>2, <1>3, <1>4, <1>5
<1> HIDE DEF left
<1>7. left # {}
  BY <1>6, FS_EmptySet
<1>8. PICK x \in left : TRUE
  BY <1>7
<1>9. left # {x}
  BY <1>5, <1>6, FS_Singleton
<1>10. PICK y \in left : y # x
  BY <1>8, <1>9
<1>11. x \in N /\ y \in N /\ \A g \in Store : g.id \notin {x, y}
  BY <1>8, <1>10 DEF left, taken
<1>12. \E p \in N \X N : p[1] < p[2] /\ \A g \in OAuth!Issued : g.id \notin {p[1], p[2]}
  <2>1. x \in Int /\ y \in Int
    BY <1>1, <1>11 DEF N
  <2>2. CASE x < y
    <3>1. <<x, y>> \in N \X N
      BY <1>11
    <3> QED
      BY <1>1, <1>11, <2>2, <3>1
  <2>3. CASE y < x
    <3>1. <<y, x>> \in N \X N
      BY <1>11
    <3> QED
      BY <1>1, <1>11, <2>3, <3>1
  <2> QED
    BY <1>10, <2>1, <2>2, <2>3
<1> DEFINE q == CHOOSE p \in N \X N :
                  p[1] < p[2] /\ \A g \in OAuth!Issued : g.id \notin {p[1], p[2]}
<1>13. /\ q \in N \X N /\ q[1] < q[2]
       /\ \A g \in OAuth!Issued : g.id \notin {q[1], q[2]}
  BY <1>12
<1>14. OAuth!NewIds = q
  BY DEF OAuth!NewIds, N
<1> HIDE DEF q
<1>15. q[1] \in Int /\ q[2] \in Int
  BY <1>1, <1>13 DEF N
<1> QED
  BY <1>1, <1>13, <1>14, <1>15

(* Parts of the store with one more, two more or none.                     *)
LEMMA StoreMade ==
  ASSUME NEW k, NEW c, NEW a, NEW r, k \subseteq OAuthClients,
         database' = [clients |-> k, codes |-> c, access |-> a, refresh |-> r],
         NumbersApart(c, a, r), IsFiniteSet(c \cup a \cup r),
         Cardinality(c \cup a \cup r) <= MaxGrants + 1
  PROVE  StoreKept'
<1>1. /\ database'.clients = k /\ database'.codes = c /\ database'.access = a
      /\ database'.refresh = r
  OBVIOUS
<1>2. Store' = c \cup a \cup r
  BY <1>1 DEF Store
<1> QED
  BY <1>1, <1>2 DEF StoreKept, NumbersApart

LEMMA StoreSame == StoreKept /\ UNCHANGED database => StoreKept'
BY DEF StoreKept, Store, NumbersApart

LEMMA AuthorizeKeepsNumbers ==
  ASSUME OAuthInv, StoreKept, NEW c \in OAuthClients, NEW r \in OAuth!Origins, NEW s \in BOOLEAN,
         OAuth!AuthorizePOST(c, r, s)
  PROVE  StoreKept'
<1>1. CASE UNCHANGED database
  BY <1>1, StoreSame
<1>2. CASE OAuth!Room /\ database' = [database EXCEPT
             !.codes = database.codes \cup {OAuth!GrantOf(OAuth!NewIds[1], c, r)}]
  <2> DEFINE g == OAuth!GrantOf(OAuth!NewIds[1], c, r)
  <2>1. \A x \in Store : x.id # g.id
    BY <1>2, NumbersLeft DEF StoreKept, OAuth!GrantOf
  <2>2. /\ Cardinality(Store) \in Nat /\ Cardinality(Store) < MaxGrants /\ MaxGrants \in Nat
    BY <1>2, FS_CardinalityType, SameStoreCardinality, BoundAssumption
       DEF StoreKept, OAuth!Room, OAuth!Issued, Store
  <2> HIDE DEF g
  <2>3. IsFiniteSet(Store \cup {g}) /\ Cardinality(Store \cup {g}) <= MaxGrants + 1
    BY <2>2, FS_AddElement DEF StoreKept
  <2>4. (database.codes \cup {g}) \cup database.access \cup database.refresh = Store \cup {g}
    BY DEF Store
  <2>5. NumbersApart(database.codes \cup {g}, database.access, database.refresh)
    BY <2>1 DEF StoreKept, NumbersApart, Store
  <2>6. database' = [clients |-> database.clients, codes |-> database.codes \cup {g},
                     access |-> database.access, refresh |-> database.refresh]
    BY <1>2 DEF StoreKept, g
  <2> QED
    BY <2>3, <2>4, <2>5, <2>6, StoreMade DEF StoreKept
<1> QED
  BY Zenon, <1>1, <1>2 DEF OAuth!AuthorizePOST

LEMMA CodeKeepsNumbers ==
  ASSUME OAuthInv, StoreKept, NEW c \in OAuthClients, NEW g \in database.codes, NEW v \in BOOLEAN,
         OAuth!exchangeCode(c, g, v)
  PROVE  StoreKept'
<1>1. CASE UNCHANGED database
  BY <1>1, StoreSame
<1>2. CASE ~UNCHANGED database
  <2> DEFINE h == [g EXCEPT !.fresh = FALSE]
             a == OAuth!GrantOf(OAuth!NewIds[1], c, g.resource)
             b == OAuth!GrantOf(OAuth!NewIds[2], c, g.resource)
  <2>1. /\ OAuth!Room
        /\ database' = [database EXCEPT !.codes = (database.codes \ {g}) \cup {h},
                                        !.access = database.access \cup {a},
                                        !.refresh = database.refresh \cup {b}]
    BY Zenon, <1>2 DEF OAuth!exchangeCode
  <2>2. g \in Store /\ h.id = g.id
    <3>1. PICK ids : g \in Grants(ids)
      BY DEF OAuthInv, StoreAgreed, Granted
    <3> QED
      BY <3>1 DEF Store, Grants
  <2>3. /\ \A x \in Store : x.id # a.id /\ x.id # b.id
        /\ a.id # b.id
    BY <2>1, NumbersLeft DEF StoreKept, OAuth!GrantOf
  <2>4. /\ Cardinality(Store) \in Nat /\ Cardinality(Store) < MaxGrants /\ MaxGrants \in Nat
    BY <2>1, FS_CardinalityType, SameStoreCardinality, BoundAssumption
       DEF StoreKept, OAuth!Room, OAuth!Issued, Store
  <2> HIDE DEF h, a, b
  <2>5. /\ \A y \in database.access \cup database.refresh : g.id # y.id
    BY DEF StoreKept, NumbersApart
  <2> DEFINE S0 == Store \ {g}
             S1 == S0 \cup {h}
             S2 == S1 \cup {a}
             S3 == S2 \cup {b}
  <2>6. IsFiniteSet(S0) /\ Cardinality(S0) = Cardinality(Store) - 1
    BY <2>2, FS_RemoveElement DEF StoreKept
  <2>6a. Cardinality(S0) \in Nat
    BY <2>6, FS_CardinalityType
  <2> HIDE DEF S0
  <2>7. IsFiniteSet(S1) /\ Cardinality(S1) \in Nat /\ Cardinality(S1) <= Cardinality(S0) + 1
    BY <2>6, OneMore
  <2> HIDE DEF S1
  <2>8. IsFiniteSet(S2) /\ Cardinality(S2) \in Nat /\ Cardinality(S2) <= Cardinality(S1) + 1
    BY <2>7, OneMore
  <2> HIDE DEF S2
  <2>9. IsFiniteSet(S3) /\ Cardinality(S3) \in Nat /\ Cardinality(S3) <= Cardinality(S2) + 1
    BY <2>8, OneMore
  <2> HIDE DEF S3
  <2>9a. Cardinality(S3) <= MaxGrants + 1
    BY <2>4, <2>6, <2>6a, <2>7, <2>8, <2>9
  <2>10. ((database.codes \ {g}) \cup {h}) \cup (database.access \cup {a})
           \cup (database.refresh \cup {b}) = S3
    BY <2>5 DEF Store, S0, S1, S2, S3
  <2>11. NumbersApart((database.codes \ {g}) \cup {h}, database.access \cup {a},
                      database.refresh \cup {b})
    BY <2>2, <2>3, <2>5 DEF StoreKept, NumbersApart, Store
  <2>12. database' = [clients |-> database.clients, codes |-> (database.codes \ {g}) \cup {h},
                      access |-> database.access \cup {a}, refresh |-> database.refresh \cup {b}]
    BY <2>1 DEF StoreKept
  <2> QED
    BY <2>9, <2>9a, <2>10, <2>11, <2>12, StoreMade DEF StoreKept
<1> QED
  BY <1>1, <1>2

LEMMA RefreshKeepsNumbers ==
  ASSUME StoreKept, NEW g \in database.refresh, OAuth!exchangeRefreshToken(g)
  PROVE  StoreKept'
<1>1. CASE UNCHANGED database
  BY <1>1, StoreSame
<1>2. CASE ~UNCHANGED database
  <2> DEFINE a == OAuth!GrantOf(OAuth!NewIds[1], g.client, g.resource)
  <2>1. /\ OAuth!Room /\ database' = [database EXCEPT !.access = database.access \cup {a}]
    BY Zenon, <1>2 DEF OAuth!exchangeRefreshToken
  <2>2. \A x \in Store : x.id # a.id
    BY <2>1, NumbersLeft DEF StoreKept, OAuth!GrantOf
  <2>3. /\ Cardinality(Store) \in Nat /\ Cardinality(Store) < MaxGrants /\ MaxGrants \in Nat
    BY <2>1, FS_CardinalityType, SameStoreCardinality, BoundAssumption
       DEF StoreKept, OAuth!Room, OAuth!Issued, Store
  <2> HIDE DEF a
  <2>4. IsFiniteSet(Store \cup {a}) /\ Cardinality(Store \cup {a}) <= MaxGrants + 1
    <3>1. /\ IsFiniteSet(Store \cup {a}) /\ Cardinality(Store \cup {a}) \in Nat
          /\ Cardinality(Store \cup {a}) <= Cardinality(Store) + 1
      BY OneMore DEF StoreKept
    <3> QED
      BY <2>3, <3>1
  <2>5. database.codes \cup (database.access \cup {a}) \cup database.refresh = Store \cup {a}
    BY DEF Store
  <2>6. NumbersApart(database.codes, database.access \cup {a}, database.refresh)
    BY <2>2 DEF StoreKept, NumbersApart, Store
  <2>7. database' = [clients |-> database.clients, codes |-> database.codes,
                     access |-> database.access \cup {a}, refresh |-> database.refresh]
    BY <2>1 DEF StoreKept
  <2> QED
    BY <2>4, <2>5, <2>6, <2>7, StoreMade DEF StoreKept
<1> QED
  BY <1>1, <1>2

LEMMA LapsingKeepsNumbers ==
  ASSUME OAuthInv, StoreKept, OAuth!Lapse \/ OAuth!reapLocked
  PROVE  StoreKept'
<1>0. Cardinality(Store) \in Nat /\ MaxGrants \in Nat
  BY FS_CardinalityType, BoundAssumption DEF StoreKept
<1>1. CASE OAuth!Lapse
  <2>1. PICK g \in database.access :
          database' = [database EXCEPT
            !.access = (database.access \ {g}) \cup {[g EXCEPT !.fresh = FALSE]}]
    BY <1>1 DEF OAuth!Lapse
  <2> DEFINE h == [g EXCEPT !.fresh = FALSE]
             S0 == Store \ {g}
             S1 == S0 \cup {h}
  <2>2. g \in Store /\ h.id = g.id
    <3>1. PICK ids : g \in Grants(ids)
      BY DEF OAuthInv, StoreAgreed, Granted
    <3> QED
      BY <3>1 DEF Store, Grants
  <2> HIDE DEF h
  <2>3. /\ \A x \in database.codes \cup database.refresh : g.id # x.id
    BY DEF StoreKept, NumbersApart
  <2>4. IsFiniteSet(S0) /\ Cardinality(S0) = Cardinality(Store) - 1 /\ Cardinality(S0) \in Nat
    BY <2>2, FS_RemoveElement, FS_CardinalityType DEF StoreKept
  <2> HIDE DEF S0
  <2>5. IsFiniteSet(S1) /\ Cardinality(S1) <= Cardinality(Store)
    BY <1>0, <2>4, FS_AddElement
  <2>5a. Cardinality(S1) \in Nat
    BY <2>5, FS_CardinalityType
  <2>5b. Cardinality(S1) <= MaxGrants + 1
    BY <1>0, <2>5, <2>5a DEF StoreKept
  <2>6. database.codes \cup ((database.access \ {g}) \cup {h}) \cup database.refresh = S1
    BY <2>3 DEF Store, S0
  <2>7. NumbersApart(database.codes, (database.access \ {g}) \cup {h}, database.refresh)
    BY <2>2, <2>3 DEF StoreKept, NumbersApart
  <2>8. database' = [clients |-> database.clients, codes |-> database.codes,
                     access |-> (database.access \ {g}) \cup {h}, refresh |-> database.refresh]
    BY <2>1 DEF StoreKept, h
  <2> QED
    BY <2>5, <2>5b, <2>6, <2>7, <2>8, StoreMade DEF StoreKept
<1>2. CASE OAuth!reapLocked
  <2> DEFINE c == {g \in database.codes : g.fresh}
             a == {g \in database.access : g.fresh}
             S == c \cup a \cup database.refresh
  <2>1. database' = [database EXCEPT !.codes = c, !.access = a]
    BY <1>2 DEF OAuth!reapLocked
  <2>2. c \subseteq database.codes /\ a \subseteq database.access
    OBVIOUS
  <2> HIDE DEF c, a
  <2>3. S \in SUBSET Store
    BY <2>2 DEF Store
  <2>4. IsFiniteSet(S) /\ Cardinality(S) <= Cardinality(Store) /\ Cardinality(S) \in Nat
    <3> HIDE DEF S
    <3> QED
      BY <2>3, FS_Subset, FS_CardinalityType DEF StoreKept
  <2>5. Cardinality(S) <= MaxGrants + 1
    BY <1>0, <2>4 DEF StoreKept
  <2>6. NumbersApart(c, a, database.refresh)
    BY <2>2 DEF StoreKept, NumbersApart
  <2>7. database' = [clients |-> database.clients, codes |-> c, access |-> a,
                     refresh |-> database.refresh]
    BY <2>1 DEF StoreKept
  <2> QED
    BY <2>4, <2>5, <2>6, <2>7, StoreMade DEF StoreKept
<1> QED
  BY <1>1, <1>2

LEMMA RegisterKeepsNumbers ==
  ASSUME StoreKept, NEW c \in OAuthClients, OAuth!RegisterHandler(c)
  PROVE  StoreKept'
<1>1. CASE UNCHANGED database
  BY <1>1, StoreSame
<1>2. CASE database' = [database EXCEPT !.clients = database.clients \cup {c}]
  <2>1. database' = [clients |-> database.clients \cup {c}, codes |-> database.codes,
                     access |-> database.access, refresh |-> database.refresh]
    BY <1>2 DEF StoreKept
  <2> QED
    BY <2>1, StoreMade DEF StoreKept, Store
<1> QED
  BY Zenon, <1>1, <1>2 DEF OAuth!RegisterHandler

LEMMA StoreStep ==
  ASSUME OAuthInv, StoreKept, [OAuth!OAuthNext]_oauthState
  PROVE  StoreKept'
<1>1. CASE \/ OAuth!OAuthStart \/ OAuth!TunnelUp \/ OAuth!OAuthStop
           \/ OAuth!AsMetadataHandler \/ OAuth!ProtectedResourceHandler
           \/ \E c \in OAuthClients, r \in OAuth!Origins : OAuth!AuthorizeGET(c, r)
           \/ \E t \in database.access \cup database.refresh \cup {OAuth!NoGrant} :
                OAuth!OfficialMiddleware(t)
           \/ UNCHANGED oauthState
  <2>1. UNCHANGED database
    BY Zenon, <1>1 DEF OAuth!OAuthStart, OAuth!NewOAuthServer, OAuth!OpenOAuthStore, OAuth!TunnelUp,
       OAuth!OAuthStop, OAuth!AsMetadataHandler, OAuth!ProtectedResourceHandler,
       OAuth!AuthorizeGET, OAuth!OfficialMiddleware, oauthState
  <2> QED
    BY <2>1, StoreSame
<1>2. CASE \/ \E c \in OAuthClients : \/ OAuth!RegisterHandler(c)
                                      \/ \E r \in OAuth!Origins, s \in BOOLEAN :
                                           OAuth!AuthorizePOST(c, r, s)
                                      \/ \E g \in database.codes, v \in BOOLEAN :
                                           OAuth!exchangeCode(c, g, v)
           \/ \E g \in database.refresh : OAuth!exchangeRefreshToken(g)
           \/ OAuth!Lapse \/ OAuth!reapLocked
  BY <1>2, RegisterKeepsNumbers, AuthorizeKeepsNumbers, CodeKeepsNumbers, RefreshKeepsNumbers,
     LapsingKeepsNumbers
<1> QED
  BY <1>1, <1>2 DEF OAuth!OAuthNext

LEMMA PlacesStep ==
  ASSUME PlacesKept, [OAuth!OAuthNext]_oauthState
  PROVE  PlacesKept'
<1> USE DEF OAuth!Quiet
<1>1. CASE OAuth!OAuthStart \/ OAuth!TunnelUp \/ OAuth!OAuthStop
  <2>1. CASE OAuth!OAuthStart
    BY Zenon, <2>1 DEF OAuth!OAuthStart, OAuth!NewOAuthServer, PlacesKept, OAuth!Origins
  <2>2. CASE OAuth!TunnelUp
    BY Zenon, <2>2 DEF OAuth!TunnelUp, OAuth!RegisterMCPResource, PlacesKept, OAuth!Origins
  <2>3. CASE OAuth!OAuthStop
    BY Zenon, <2>3 DEF OAuth!OAuthStop, PlacesKept, OAuth!Origins
  <2> QED
    BY <1>1, <2>1, <2>2, <2>3
<1>2. ASSUME NEW c \in OAuthClients, NEW r \in OAuth!Origins, NEW s \in BOOLEAN,
             OAuth!AuthorizePOST(c, r, s)
      PROVE  PlacesKept'
  <2>1. <<c, r>> \in OAuthClients \X OAuth!Origins
    OBVIOUS
  <2>2. agreed' \subseteq OAuthClients \X OAuth!Origins
    BY Zenon, <1>2, <2>1 DEF OAuth!AuthorizePOST, PlacesKept
  <2> QED
    BY Zenon, <1>2, <2>2 DEF OAuth!AuthorizePOST, PlacesKept
<1>3. CASE \/ OAuth!AsMetadataHandler \/ OAuth!ProtectedResourceHandler
           \/ \E c \in OAuthClients :
                \/ OAuth!RegisterHandler(c)
                \/ \E r \in OAuth!Origins : OAuth!AuthorizeGET(c, r)
                \/ \E g \in database.codes, v \in BOOLEAN : OAuth!exchangeCode(c, g, v)
           \/ \E g \in database.refresh : OAuth!exchangeRefreshToken(g)
           \/ \E t \in database.access \cup database.refresh \cup {OAuth!NoGrant} :
                OAuth!OfficialMiddleware(t)
           \/ OAuth!Lapse \/ OAuth!reapLocked \/ UNCHANGED oauthState
  <2>1. UNCHANGED <<baseURL, resource, registry, agreed>>
    BY Zenon, <1>3 DEF OAuth!AsMetadataHandler, OAuth!ProtectedResourceHandler, OAuth!RegisterHandler,
       OAuth!AuthorizeGET, OAuth!exchangeCode, OAuth!exchangeRefreshToken,
       OAuth!OfficialMiddleware, OAuth!Lapse, OAuth!reapLocked, oauthState
  <2> QED
    BY Zenon, <2>1 DEF PlacesKept
<1> QED
  BY <1>1, <1>2, <1>3 DEF OAuth!OAuthNext

LEMMA OAuthTypesStart == OAuth!OAuthInit => StoreKept /\ PlacesKept
<1> SUFFICES ASSUME OAuth!OAuthInit PROVE StoreKept /\ PlacesKept
  OBVIOUS
<1>1. database = [clients |-> {}, codes |-> {}, access |-> {}, refresh |-> {}]
  BY Zenon DEF OAuth!OAuthInit
<1>2. Store = {} /\ MaxGrants \in Nat
  BY <1>1, BoundAssumption DEF Store
<1>3. IsFiniteSet(Store) /\ Cardinality(Store) = 0
  BY <1>2, FS_EmptySet
<1>4. StoreKept
  BY <1>1, <1>2, <1>3 DEF StoreKept, NumbersApart
<1>5. PlacesKept
  BY Zenon DEF OAuth!OAuthInit, PlacesKept
<1> QED
  BY <1>4, <1>5

LEMMA OAuthTyped == StoreKept /\ PlacesKept => OAuth!OAuthTypeOK
BY Zenon, SameStoreCardinality DEF StoreKept, PlacesKept, Store, OAuth!Issued, OAuth!OAuthTypeOK

(* The names a server lists and shows come from its plan; its catalogue is  *)
(* finite, so that it can be counted.                                      *)
SpecNames == {specs[i].name : i \in DOMAIN specs}
SurfaceTold ==
  /\ custom \subseteq SpecNames /\ views \subseteq SpecNames
  /\ build \in {"compile", "collect"} => custom = {} /\ views = {}
  /\ build # "ready" => direct = {}
  /\ build \in {"collect", "complete", "serve"} => IsFiniteSet(DOMAIN tools)
  /\ instructions.count \in Nat

LEMMA ThreeAreFinite == \A a, b, c : IsFiniteSet({a, b, c})
<1> SUFFICES ASSUME NEW a, NEW b, NEW c PROVE IsFiniteSet({a, b, c})
  OBVIOUS
<1>1. IsFiniteSet({a}) /\ IsFiniteSet({b}) /\ IsFiniteSet({c})
  BY FS_Singleton
<1>2. IsFiniteSet({a} \cup {b})
  BY <1>1, FS_Union
<1>3. IsFiniteSet(({a} \cup {b}) \cup {c})
  BY <1>1, <1>2, FS_Union
<1>4. ({a} \cup {b}) \cup {c} = {a, b, c}
  OBVIOUS
<1> QED
  BY <1>3, <1>4

LEMMA CompiledFinite == IsFiniteSet(DOMAIN Surface!CompiledOps)
<1> DEFINE A == {"auth_status", "admin_users", "config_edit"}
           B == {"vault_create", "vault_status", "vault_sync"}
           C == {"pins_add", "pins_rm", "websites_create"}
           D == {setup.clash}
           N == ((A \cup B) \cup C) \cup D
<1>1. IsFiniteSet(A) /\ IsFiniteSet(B) /\ IsFiniteSet(C) /\ IsFiniteSet(D)
  BY ThreeAreFinite, FS_Singleton
<1>2. DOMAIN Surface!CompiledOps \subseteq N
  BY DEF Surface!CompiledOps, Surface!With
<1> HIDE DEF A, B, C, D
<1>3. IsFiniteSet(A \cup B)
  BY <1>1, FS_Union
<1>4. IsFiniteSet((A \cup B) \cup C)
  BY <1>1, <1>3, FS_Union
<1>5. IsFiniteSet(N)
  BY <1>1, <1>4, FS_Union
<1> QED
  BY <1>2, <1>5, FS_Subset

LEMMA SurfaceTypesStart == Surface!SurfaceInit => SurfaceTold
<1> SUFFICES ASSUME Surface!SurfaceInit PROVE SurfaceTold
  OBVIOUS
<1>1. instructions = [count |-> 0, named |-> {}, listed |-> {}]
  BY DEF Surface!SurfaceInit
<1>2. instructions.count = 0
  BY <1>1
<1> QED
  BY <1>2 DEF Surface!SurfaceInit, SurfaceTold

LEMMA SurfaceTypesStep ==
  ASSUME SurfaceInv, SurfaceTold, [Surface!SurfaceNext]_surfaceState
  PROVE  SurfaceTold'
<1>1. CASE Surface!BuildCatalog
  <2>1. DOMAIN tools' \subseteq DOMAIN Surface!CompiledOps
    BY <1>1 DEF Surface!BuildCatalog, Surface!StampDirectTools, Surface!RouteVaultSetupHandlers,
       Surface!With
  <2>2. IsFiniteSet(DOMAIN tools')
    BY <2>1, CompiledFinite, FS_Subset
  <2> QED
    BY <1>1, <2>2 DEF Surface!BuildCatalog, SurfaceTold, SpecNames
<1>2. CASE Surface!CollectServerExtensions
  BY <1>2 DEF Surface!CollectServerExtensions, SurfaceTold
<1>3. CASE Surface!CompleteExtensions
  <2>1. /\ build = "complete" /\ UNCHANGED <<specs, instructions, views, direct>>
        /\ build' \in {"refused", "serve"}
    BY <1>3 DEF Surface!CompleteExtensions
  <2>2. CASE build' = "refused"
    <3>1. UNCHANGED custom
      BY <1>3, <2>2 DEF Surface!CompleteExtensions
    <3> QED
      BY <2>1, <2>2, <3>1 DEF SurfaceTold, SpecNames
  <2>3. CASE build' = "serve"
    <3> DEFINE searched == {specs[i].name : i \in Surface!Named(specs, "search")}
               provided == DOMAIN Surface!Provided
    <3>1. /\ DOMAIN tools' = (DOMAIN tools \cup provided) \cup searched
          /\ custom' \subseteq SpecNames
      BY <1>3, <2>3 DEF Surface!CompleteExtensions, Surface!Merge, Surface!Named, SpecNames
    <3>2. IsFiniteSet(SpecNames)
      <4> DEFINE f == [i \in DOMAIN specs |-> specs[i].name]
      <4>1. Plan(specs)
        BY <2>1 DEF SurfaceInv
      <4>2. IsFiniteSet(DOMAIN specs)
        BY <4>1, FS_Interval DEF Plan
      <4>3. IsFiniteSet({f[i] : i \in DOMAIN specs})
        BY <4>2, ImagesCounted
      <4>4. {f[i] : i \in DOMAIN specs} = SpecNames
        BY DEF SpecNames
      <4> QED
        BY <4>3, <4>4
    <3>3. IsFiniteSet(searched)
      <4>1. searched \subseteq SpecNames
        BY DEF SpecNames, Surface!Named
      <4> QED
        BY <3>2, <4>1, FS_Subset
    <3>4. IsFiniteSet(provided)
      <4> DEFINE w == {"websites_wizard_start", "websites_wizard_step", "websites_wizard_step"}
      <4>1. provided \subseteq w
        BY DEF Surface!Provided, Surface!NoEntryYet
      <4>2. IsFiniteSet(w)
        BY ThreeAreFinite
      <4> QED
        BY <4>1, <4>2, FS_Subset
    <3> HIDE DEF searched, provided
    <3>5. IsFiniteSet(DOMAIN tools)
      BY <2>1 DEF SurfaceTold
    <3>6. IsFiniteSet(DOMAIN tools \cup provided)
      BY <3>4, <3>5, FS_Union
    <3>7. IsFiniteSet(DOMAIN tools')
      BY <3>1, <3>3, <3>6, FS_Union
    <3> QED
      BY <2>1, <2>3, <3>1, <3>7 DEF SurfaceTold, SpecNames
  <2> QED
    BY <2>1, <2>2, <2>3
<1>4. CASE Surface!OfficialServer
  <2>1. instructions'.count = Surface!Cardinality(DOMAIN tools)
    BY <1>4 DEF Surface!OfficialServer, Surface!Instructions, Surface!Names
  <2>2. IsFiniteSet(DOMAIN tools)
    BY <1>4 DEF Surface!OfficialServer, SurfaceTold
  <2>3. Surface!Cardinality(DOMAIN tools) = Cardinality(DOMAIN tools)
    BY DEF Surface!Cardinality, Cardinality
  <2>4. instructions'.count \in Nat
    BY <2>1, <2>2, <2>3, FS_CardinalityType
  <2> QED
    BY <1>4, <2>4 DEF Surface!OfficialServer, SurfaceTold, SpecNames
<1>5. CASE Surface!InstallApps
  BY <1>5 DEF Surface!InstallApps, SurfaceTold, SpecNames, Surface!Named
<1>6. CASE Surface!RegisterDirect
  BY <1>6 DEF Surface!RegisterDirect, SurfaceTold, SpecNames
<1>7. CASE Surface!RunHooks
  BY <1>7 DEF Surface!RunHooks, SurfaceTold, SpecNames
<1>8. CASE Surface!Finalize
  BY <1>8 DEF Surface!Finalize, SurfaceTold, SpecNames
<1>9. CASE Surface!CallMeta \/ Surface!CallDirect
  BY <1>9 DEF Surface!CallMeta, Surface!CallDirect, SurfaceTold, SpecNames
<1>10. CASE UNCHANGED surfaceState
  BY <1>10 DEF surfaceState, SurfaceTold, SpecNames
<1> QED
  BY <1>1, <1>2, <1>3, <1>4, <1>5, <1>6, <1>7, <1>8, <1>9, <1>10 DEF Surface!SurfaceNext

LEMMA SurfaceTyped == SurfaceInv /\ ListInv /\ SurfaceTold => Surface!SurfaceTypeOK
BY DEF SurfaceInv, ListInv, SurfaceTold, SpecNames, Surface!SurfaceTypeOK

(* An agent's file has no entry of ours, or one of the two kinds.          *)
EntryKinds == \A p \in DOMAIN entries : entries[p].kind \in {"none", "stdio", "http"}

LEMMA EntriesStart == Install!InstInit => EntryKinds
BY DEF Install!InstInit, Install!NoEntry, EntryKinds

LEMMA EntriesStep ==
  ASSUME EntryKinds, [Install!InstNext]_installState
  PROVE  EntryKinds'
<1>1. CASE Install!WriteConfig
  <2>1. Install!EntryFor.kind \in {"stdio", "http"}
    BY DEF Install!EntryFor
  <2> DEFINE given == Install!EntryFor
  <2> HIDE DEF given
  <2>2. PICK done : entries' = [p \in DOMAIN entries |-> IF p \in done THEN given ELSE entries[p]]
    BY <1>1 DEF Install!WriteConfig, given
  <2>3. given.kind \in {"stdio", "http"}
    BY <2>1 DEF given
  <2> QED
    BY <2>2, <2>3 DEF EntryKinds
<1>2. CASE ~Install!WriteConfig
  <2>1. UNCHANGED entries
    BY Zenon, <1>2 DEF Install!InstNext, Install!ServiceInstall, Install!ServiceControl,
       Install!PromptFails, Install!ChooseAgents, Install!ChooseScope, Install!ChooseTransport,
       Install!ProviderStep, Install!ConfigStep_, Install!WriteEnvStep, Install!Reconcile,
       Install!Validate, Install!InstallService, Install!TakeUrl, Install!PasswordStep,
       Install!Flow, installState
  <2> QED
    BY <2>1 DEF EntryKinds
<1> QED
  BY <1>1, <1>2

LEMMA InstallTyped == InstInv /\ EntryKinds => Install!InstTypeOK
<1> SUFFICES ASSUME InstInv, EntryKinds PROVE Install!InstTypeOK
  OBVIOUS
<1>1. ASSUME NEW file \in AnyFile PROVE Install!IsFile(file)
  BY <1>1 DEF AnyFile, EnvironmentFiles, Providers, Install!IsFile, Install!Tunnels,
              Install!Passwords, Install!Urls
<1>2. /\ cmdline \in CommandLines /\ envFile \in AnyFile
      /\ unit.installed \in BOOLEAN /\ unit.running \in BOOLEAN /\ unit.loaded \in AnyFile
  BY DEF InstInv, InstTypes, InstUnits
<1>3. /\ inst.provider \in Install!Tunnels /\ inst.token \in Install!Passwords
      /\ inst.url \in Install!Urls /\ inst.agents \subseteq InstAgents /\ inst.snapshot \in AnyFile
  BY DEF InstInv, InstTypes, InstStates
<1> QED
  BY <1>1, <1>2, <1>3 DEF Install!InstTypeOK, EntryKinds

-----------------------------------------------------------------------------
(* The out-of-band sign-in: what SSOLoginProofs proves holds of it here,   *)
(* its instance and that of MCServer being the same.                       *)
SignIn == INSTANCE SSOLoginProofs

LEMMA SameSignInEndpoint ==
  /\ \A e, t : Login!Taken(e, t) = SignIn!Taken(e, t)
  /\ \A e, t : Login!Minted(e, t) = SignIn!Minted(e, t)
  /\ \A e, seq : Login!Swept(e, seq) = SignIn!Swept(e, seq)
  /\ \A e, l : Login!SweepOrders(e, l) = SignIn!SweepOrders(e, l)
<1>1. \A e : Login!Pruned(e) = SignIn!Pruned(e)
  BY DEF Login!Pruned, Login!Overflow, Login!Cardinality, SignIn!Pruned, SignIn!Overflow, SignIn!Cardinality
<1>2. \A s : Login!Range(s) = SignIn!Range(s)
  BY DEF Login!Range, SignIn!Range
<1>3. \A e, t : Login!Taken(e, t) = SignIn!Taken(e, t)
  BY DEF Login!Taken, Login!MarkSpent, SignIn!Taken, SignIn!MarkSpent
<1>4. \A e, t : Login!Minted(e, t) = SignIn!Minted(e, t)
  BY DEF Login!Minted, SignIn!Minted
<1>5. \A e, seq : Login!Swept(e, seq) = SignIn!Swept(e, seq)
  BY <1>1, <1>2 DEF Login!Swept, SignIn!Swept
<1>6. \A e, l : Login!SweepOrders(e, l) = SignIn!SweepOrders(e, l)
  BY <1>2 DEF Login!SweepOrders, Login!Lapsed, Login!Cardinality,
              SignIn!SweepOrders, SignIn!Lapsed, SignIn!Cardinality
<1> QED
  BY <1>3, <1>4, <1>5, <1>6

LEMMA SameSignInInit == Login!Init => SignIn!Init
BY DEF Login!Init, Login!ResumeInit, Login!EmptyEndpoint, SignIn!Init,
       SignIn!ResumeInit, SignIn!EmptyEndpoint

LEMMA SameSignInNext == Login!Next => SignIn!Next
<1> USE DEF Login!requests, Login!starts, Login!revokes, Login!posts, Login!history,
            Login!resumeVars, Login!IsPending, SignIn!requests, SignIn!starts,
            SignIn!revokes, SignIn!posts, SignIn!history, SignIn!resumeVars,
            SignIn!IsPending
<1>1. ASSUME NEW s \in Starters, NEW e, Login!BeginOrResume(s, e)
      PROVE  SignIn!BeginOrResume(s, e)
  BY <1>1, SameSignInEndpoint
  DEF Login!BeginOrResume, Login!Join, Login!Insert, Login!Compatible,
      SignIn!BeginOrResume, SignIn!Join, SignIn!Insert, SignIn!Compatible
<1>2. ASSUME NEW s \in Starters, Login!Start(s)
      PROVE  SignIn!Start(s)
  BY <1>2
  DEF Login!Start, Login!CreateHandle, Login!Register, SignIn!Start,
      SignIn!CreateHandle, SignIn!Register
<1>3. ASSUME NEW v \in Revokers, NEW t \in Tokens, Login!Revoke(v, t)
      PROVE  SignIn!Revoke(v, t)
  BY <1>3, SameSignInEndpoint
  DEF Login!Revoke, Login!Retire, Login!Overlook, SignIn!Revoke, SignIn!Retire,
      SignIn!Overlook
<1>4. ASSUME NEW v \in Revokers, Login!CallOff(v)
      PROVE  SignIn!CallOff(v)
  BY <1>4
  DEF Login!CallOff, Login!RevokeHandle, Login!RevokeContinuation, SignIn!CallOff,
      SignIn!RevokeHandle, SignIn!RevokeContinuation
<1>5. ASSUME NEW b \in Browsers, NEW t \in Tokens, Login!Open(b, t)
      PROVE  SignIn!Open(b, t)
  BY <1>5
  DEF Login!Open, Login!Go, SignIn!Open, SignIn!Go
<1>6. ASSUME NEW b \in Browsers, Login!Serve(b)
      PROVE  SignIn!Serve(b)
  BY <1>6
  DEF Login!Serve, Login!Check, Login!TurnAway, Login!Enter, Login!Deny,
      Login!AskOtp, Login!DenyOtp, Login!Accept, Login!Complete, Login!IsSpent,
      Login!Go, SignIn!Serve, SignIn!Check, SignIn!TurnAway, SignIn!Enter,
      SignIn!Deny, SignIn!AskOtp, SignIn!DenyOtp, SignIn!Accept, SignIn!Complete,
      SignIn!IsSpent, SignIn!Go
<1>7. ASSUME NEW p \in Pollers, NEW t \in Tokens, Login!CallResume(p, t)
      PROVE  SignIn!CallResume(p, t)
  BY <1>7
  DEF Login!CallResume, Login!Poll, Login!FindHandle, Login!HandleDead, Login!Step,
      Login!Tell, SignIn!CallResume, SignIn!Poll, SignIn!FindHandle,
      SignIn!HandleDead, SignIn!Step, SignIn!Tell
<1>8. ASSUME NEW p \in Pollers, Login!Continue(p)
      PROVE  SignIn!Continue(p)
  BY <1>8
  DEF Login!Continue, Login!ReadLogin, Login!Forgotten, Login!Bookkeeping,
      Login!Dispatch, Login!DeleteHandle, Login!EndContinuation, Login!Answer,
      Login!Step, Login!Decide, Login!Tell, SignIn!Continue, SignIn!ReadLogin,
      SignIn!Forgotten, SignIn!Bookkeeping, SignIn!Dispatch, SignIn!DeleteHandle,
      SignIn!EndContinuation, SignIn!Answer, SignIn!Step, SignIn!Decide, SignIn!Tell
<1>9. ASSUME NEW t \in Tokens, Login!Grow(t) \/ Login!Forsake(t)
      PROVE  SignIn!Grow(t) \/ SignIn!Forsake(t)
  BY <1>9
  DEF Login!Grow, Login!Forsake, Login!Drop, SignIn!Grow, SignIn!Forsake,
      SignIn!Drop
<1>10. ASSUME Login!Reap
      PROVE  SignIn!Reap
  BY <1>10, SameSignInEndpoint
  DEF Login!Reap, SignIn!Reap
<1> QED
  BY <1>1, <1>2, <1>3, <1>4, <1>5, <1>6, <1>7, <1>8, <1>9, <1>10 DEF Login!Next, SignIn!Next

LEMMA SignInInvHolds ==
  /\ Login!Init => SignIn!LoginInv
  /\ SignIn!LoginInv /\ [Login!Next]_loginState => SignIn!LoginInv'
  /\ SignIn!LoginInv => Login!SingleFlight
<1>1. MaxSpentTombstones \in Nat /\ NoAccount \notin Accounts
  BY LoginAssumption
<1>2. Login!Init => SignIn!LoginInv
  BY <1>1, SameSignInInit, SignIn!LoginInit
<1>3. ASSUME [Login!Next]_loginState
      PROVE  [SignIn!Next]_(SignIn!vars)
  <2>1. CASE Login!Next
    BY <2>1, SameSignInNext
  <2>2. CASE UNCHANGED loginState
    BY <2>2
    DEF loginState, SignIn!vars, SignIn!requests, SignIn!starts, SignIn!revokes, SignIn!posts,
        SignIn!history, SignIn!resumeVars
  <2> QED
    BY <1>3, <2>1, <2>2
<1>4. SignIn!LoginInv /\ [SignIn!Next]_(SignIn!vars) => SignIn!LoginInv'
  BY <1>1, SignIn!LoginStep
<1>5. SignIn!LoginInv => Login!SingleFlight
  BY DEF SignIn!LoginInv, SignIn!SingleFlight, SignIn!IsPending, Login!SingleFlight, Login!IsPending
<1> QED
  BY <1>2, <1>3, <1>4, <1>5

LEMMA SignInTyped == SignIn!LoginInv => Login!TypeOK
BY DEF SignIn!LoginInv, SignIn!TypeOK, SignIn!ResumeTypeOK, SignIn!EndpointState, SignIn!Statuses,
       SignIn!PollStages, SignIn!Answers, Login!TypeOK, Login!ResumeTypeOK,
       Login!EndpointState, Login!Statuses, Login!PollStages, Login!Answers

-----------------------------------------------------------------------------
(* The server: whose behaviour it is, that one's invariant holds.          *)
ConcernInv ==
  /\ concern = "login" => SignIn!LoginInv
  /\ concern = "form"  => FormInv
  /\ concern = "oauth" => OAuthInv
  /\ concern = "agent" => AgentInv
  /\ concern = "serve" => ServeInv
  /\ concern = "surface" => SurfaceInv /\ ListInv
  /\ concern = "install" => InstInv
  /\ concern = "session" => SessInv
  /\ concern = "files" => FileInv

LEMMA ConcernInit == ServerInit => ConcernInv
BY SignInInvHolds, FormInit, OAuthStarts, AgentStarts, ServeStarts, SurfaceStarts,
   ListStarts, InstStarts, SessStarts, FilesStart
   DEF ServerInit, ConcernInv

LEMMA ConcernStep == ConcernInv /\ [ServerNext]_serverVars => ConcernInv'
<1> SUFFICES ASSUME ConcernInv, [ServerNext]_serverVars
             PROVE  ConcernInv'
  OBVIOUS
<1>1. CASE UNCHANGED serverVars
  <2>1. UNCHANGED <<concern, loginState, formState, oauthState, agentState, serveState,
                   surfaceState, installState, sessionState, fileState>>
    BY <1>1 DEF serverVars
  <2> QED
    BY <2>1, SignInInvHolds, FormStep, OAuthStep, AgentStep, ServeStep, SurfaceStep,
       ListStep, InstStep, SessStep, FilesStep DEF ConcernInv
<1>2. CASE ServerNext
  <2>1. concern' = concern
    BY <1>2 DEF ServerNext, Others
  <2>2. concern = "login" => [Login!Next]_loginState
    BY <1>2 DEF ServerNext, Others
  <2>3. concern = "form" => [Form!WizNext]_formState
    BY <1>2 DEF ServerNext, Others
  <2>4. concern = "oauth" => [OAuth!OAuthNext]_oauthState
    BY <1>2 DEF ServerNext, Others
  <2>5. concern = "agent" => [Agent!CfgNext]_agentState
    BY <1>2 DEF ServerNext, Others
  <2>6. concern = "serve" => [Serve!ServeNext]_serveState
    BY <1>2 DEF ServerNext, Others
  <2>7. concern = "surface" => [Surface!SurfaceNext]_surfaceState
    BY <1>2 DEF ServerNext, Others
  <2>8. concern = "install" => [Install!InstNext]_installState
    BY <1>2 DEF ServerNext, Others
  <2>9. concern = "session" => [Session!WizardNext]_sessionState
    BY <1>2 DEF ServerNext, Others
  <2>10. concern = "files" => [Files!FileNext]_fileState
    BY <1>2 DEF ServerNext, Others
  <2> QED
    BY <2>1, <2>2, <2>3, <2>4, <2>5, <2>6, <2>7, <2>8, <2>9, <2>10, SignInInvHolds, FormStep,
       OAuthStep, AgentStep, ServeStep, SurfaceStep, ListStep, InstStep, SessStep, FilesStep
       DEF ConcernInv
<1> QED
  BY <1>1, <1>2

(* auth_login.go: no two pending logins for one account (BeginOrResume); a  *)
(* login the backend accepted stays with the wizard unless a poll, the      *)
(* reaper, a second POST or a Begin before completeReq takes it             *)
(* (BeginWithID); and the refused passwords of an address whose guesses     *)
(* were all checked and noted under its own name are bounded by the lockout *)
(* and the POSTs past its check, whatever requests they came through and    *)
(* however others retype theirs (noteFailure).                              *)
THEOREM LoginsAreKept == ServerSpec => []LoginsKept
<1>1. ConcernInv => LoginsKept
  BY SignInInvHolds, FormKept DEF ConcernInv, LoginsKept
<1> QED
  BY <1>1, ConcernInit, ConcernStep, PTL DEF ServerSpec

(* oauth: a request is served on a token only if the owner typed the secret *)
(* for that client and that resource, and the resource is the one the       *)
(* request came to; a fresh token of the store is turned away only where it *)
(* was given for another resource.  However often codes and refresh tokens  *)
(* are traded and the server starts again on the same store.               *)
THEOREM OnlyAuthorisedIsServed == ServerSpec => []OnlyAuthorisedServed
<1>1. ConcernInv => OnlyAuthorisedServed
  BY DEF ConcernInv, OAuthInv, OnlyAuthorisedServed
<1> QED
  BY <1>1, ConcernInit, ConcernStep, PTL DEF ServerSpec

(* agent configuration files: the servers of others outlive our edit of the *)
(* file, wherever it ends or dies; a failed edit leaves the file as it was, *)
(* a successful one leaves our entry with the secret it was asked to carry, *)
(* or gone.  Unless the agent saves the file between our read and our       *)
(* rename.                                                                 *)
THEOREM OtherEntriesAreKept == ServerSpec => []OtherEntriesSurvive
<1>1. ConcernInv => OtherEntriesSurvive
  BY DEF ConcernInv, AgentInv, OtherEntriesSurvive
<1> QED
  BY <1>1, ConcernInit, ConcernStep, PTL DEF ServerSpec

(* adapter_tunnel.go, host_server_cache.go: the factory runs once per host   *)
(* type and all requests of a host get one server; over HTTP no coordinator *)
(* opens a port of its own; the tunnel is never up while /mcp asks for      *)
(* nothing; a server that is ready hands out links and an issuer at the     *)
(* address it advertises; and a command that has returned has closed port   *)
(* and tunnel.  In any order of start, requests, failure and stop.          *)
THEOREM TheServerServesRight == ServerSpec => []ServesRight
<1>1. ConcernInv => ServesRight
  BY ServedRight DEF ConcernInv, ServesRight
<1> QED
  BY <1>1, ConcernInit, ConcernStep, PTL DEF ServerSpec

(* adapter, catalogdispatch: whatever a server is set up with, no call runs *)
(* an administrative or a human-only operation, nothing on the wire is a    *)
(* step of a wizard, a dispatcher runs only operations of its class, a name *)
(* runs the handler the catalogue holds for it, and an operation runs with  *)
(* the server's own credential only where requests carry no identity.       *)
THEOREM TheGateHolds == ServerSpec => []GateHolds
<1>1. ConcernInv => GateHolds
  BY DEF ConcernInv, SurfaceInv, GateHolds
<1> QED
  BY <1>1, ConcernInit, ConcernStep, PTL DEF ServerSpec

(* adapter, server_materialization, agent_guide: whatever a server is set up *)
(* with, what it writes about itself before its tools are on the wire is    *)
(* true of the wire; the capabilities name the transfer tools there are,    *)
(* and every tool that the guide, a search or a suggestion names can be     *)
(* called through the dispatcher that is named for it.                     *)
THEOREM TheToolsAgree == ServerSpec => []ToolsAgree
<1>1. ConcernInv => ToolsAgree
  BY ListsAgree DEF ConcernInv, ToolsAgree
<1> QED
  BY <1>1, ConcernInit, ConcernStep, PTL DEF ServerSpec

(* upload_file, file_relay, tree_size, root: what a file tool stores is the  *)
(* whole source in the shape the call asked for, and within the cap unless  *)
(* the file grew behind the check; a refusal is for a reason the source or  *)
(* the world outside gave; and a mode the schema or the report names is not *)
(* refused as unavailable.  For any servers, sources and cap.              *)
THEOREM FilesDoArriveRight == ServerSpec => []FilesArriveRight
<1>1. ConcernInv => FilesArriveRight
  BY DEF ConcernInv, FileInv, FilesArriveRight
<1> QED
  BY <1>1, ConcernInit, ConcernStep, PTL DEF ServerSpec

(* mcp_install: behind a tunnel the service, the environment file and every *)
(* agent end with one address and one token; a failure before the service   *)
(* and the address are touched leaves the file that was found, or one the   *)
(* next run takes; and a service that ran runs again unless the service     *)
(* manager refused.  For any command lines, files and agents.              *)
THEOREM InstallsAreWhole == ServerSpec => []InstallIsWhole
<1>1. ConcernInv => InstallIsWhole
  BY DEF ConcernInv, InstInv, FileTold, ServiceTold, EndpointTold, InstallIsWhole
<1> QED
  BY <1>1, ConcernInit, ConcernStep, PTL DEF ServerSpec

(* internal/mcp/wizard: a session that reports completion has done what its *)
(* steps accepted: the website, the binding, the login and the settings are *)
(* those of the inputs the handlers took, whatever attempts failed on the   *)
(* way, were answered and lost, or left the form half changed.  For any     *)
(* names, labels, roots and addresses, and any number of websites.         *)
THEOREM WizardsCompleteRight == ServerSpec => []WizardCompletesRight
<1>1. ConcernInv => WizardCompletesRight
  BY SessionsTell DEF ConcernInv, WizardCompletesRight
<1> QED
  BY <1>1, ConcernInit, ConcernStep, PTL DEF ServerSpec

-----------------------------------------------------------------------------
(* What the types need beside the invariants.                              *)
TypesTold ==
  /\ concern = "agent"   => TempsKept
  /\ concern = "session" => SiteKept
  /\ concern = "surface" => SurfaceTold
  /\ concern = "oauth"   => StoreKept /\ PlacesKept
  /\ concern = "install" => EntryKinds

LEMMA TypesInit == ServerInit => TypesTold
BY TempsStart, SiteStarts, SurfaceTypesStart, OAuthTypesStart, EntriesStart
   DEF ServerInit, TypesTold

LEMMA TypesStep ==
  ASSUME ConcernInv, TypesTold, [ServerNext]_serverVars
  PROVE  TypesTold'
<1>1. /\ UNCHANGED concern
      /\ concern = "agent"   => [Agent!CfgNext]_agentState
      /\ concern = "session" => [Session!WizardNext]_sessionState
      /\ concern = "surface" => [Surface!SurfaceNext]_surfaceState
      /\ concern = "oauth"   => [OAuth!OAuthNext]_oauthState
      /\ concern = "install" => [Install!InstNext]_installState
  BY DEF ServerNext, Others, serverVars
<1>2. CASE concern = "agent"
  BY <1>1, <1>2, TempsStep DEF ConcernInv, TypesTold
<1>3. CASE concern = "session"
  BY <1>1, <1>3, SiteStep DEF ConcernInv, TypesTold
<1>4. CASE concern = "surface"
  BY <1>1, <1>4, SurfaceTypesStep DEF ConcernInv, TypesTold
<1>5. CASE concern = "oauth"
  BY <1>1, <1>5, StoreStep, PlacesStep DEF ConcernInv, TypesTold
<1>6. CASE concern = "install"
  BY <1>1, <1>6, EntriesStep DEF ConcernInv, TypesTold
<1>7. CASE concern \notin {"agent", "session", "surface", "oauth", "install"}
  BY <1>1, <1>7 DEF TypesTold
<1> QED
  BY <1>2, <1>3, <1>4, <1>5, <1>6, <1>7

THEOREM ServerKeepsItsTypes == ServerSpec => []ServerTypeOK
<1>1. ConcernInv /\ TypesTold => ServerTypeOK
  BY SignInTyped, FormTyped, ServeTyped, FilesTyped, AgentTyped, SessTyped, SurfaceTyped,
     OAuthTyped, InstallTyped DEF ConcernInv, TypesTold, ServerTypeOK
<1> QED
  BY <1>1, ConcernInit, ConcernStep, TypesInit, TypesStep, PTL DEF ServerSpec
=============================================================================
