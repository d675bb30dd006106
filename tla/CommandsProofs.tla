---------------------------- MODULE CommandsProofs ---------------------------
(***************************************************************************)
(* Theorems about the commands of MCCommands, for every value of the       *)
(* constants.                                                              *)
(***************************************************************************)
EXTENDS MCCommands, FiniteSetTheorems, TLAPS

-----------------------------------------------------------------------------
(* Pinning: batches of pins on a pool of workers.                          *)
Points == {"idle", "add", "wait", "watch", "find", "delete", "replace"}
Items  == [cid : Cids, req : Requests \cup {NoRequest}]
Busy(w) == at[w] # "idle"

PinTypes ==
  /\ of \in [Requests -> Cids \cup {NoCid}] /\ live \subseteq Pin!Issued
  /\ stage \in {"idle", "count", "prompt", "list", "run"}
  /\ op \in {"none", "pin", "unpin", "unpin_all", "status", "update"}
  /\ tasks \in Seq(Items) /\ next \in 1 .. Len(tasks) + 1 /\ firstError \in BOOLEAN
  /\ outcome \in [DOMAIN tasks -> {"none", "ok", "failed"}]
  /\ at \in [Workers -> Points] /\ job \in [Workers -> Nat]
  /\ req \in [Workers -> Requests \cup {NoRequest}] /\ tries \in [Workers -> Nat]
  /\ requested \in [DOMAIN tasks -> SUBSET Requests]
  /\ gone \in [DOMAIN tasks -> SUBSET Requests]

(* A task that was given away has an outcome or one worker; the others have *)
(* not begun; and all are given away when no batch runs.                   *)
PoolTrue ==
  /\ \A w \in Workers :
       Busy(w) => stage = "run" /\ job[w] \in 1 .. next - 1 /\ outcome[job[w]] = "none"
  /\ \A v, w \in Workers : Busy(v) /\ Busy(w) /\ job[v] = job[w] => v = w
  /\ \A i \in DOMAIN tasks :
       /\ i < next /\ outcome[i] = "none" => \E w \in Workers : Busy(w) /\ job[w] = i
       /\ i >= next => outcome[i] = "none" /\ requested[i] = {} /\ gone[i] = {}
  /\ stage # "run" => next = Len(tasks) + 1
  /\ stage # "idle" => op # "none"

(* The tasks of `unpin all' name the requests of its listing.              *)
ListingTrue ==
  op = "unpin_all" =>
    \A i \in DOMAIN tasks : tasks[i].req \in Requests /\ of[tasks[i].req] = tasks[i].cid

(* What a worker has done for its task, at each of its steps: the requests  *)
(* made are those of its attempts, and a request it removed is gone.       *)
Fresh(i) == requested[i] = {} /\ gone[i] = {}
Found(w) ==
  /\ req[w] \in Requests /\ of[req[w]] = tasks[job[w]].cid
  /\ gone[job[w]] \subseteq {req[w]} /\ (gone[job[w]] # {} => req[w] \notin live)
WorkTrue(w) ==
  /\ at[w] = "idle" => tries[w] = 0
  /\ at[w] = "add" => /\ op = "pin" /\ gone[job[w]] = {}
                      /\ IsFiniteSet(requested[job[w]])
                      /\ Cardinality(requested[job[w]]) <= tries[w] /\ tries[w] < MaxAttempts
  /\ at[w] = "wait" => op = "pin" /\ requested[job[w]] # {}
  /\ at[w] = "find" => op \in {"unpin", "update", "status"} /\ Fresh(job[w])
  /\ at[w] = "watch" => op = "status"
  /\ at[w] = "delete" => /\ op \in {"unpin", "unpin_all"} /\ Found(w) /\ requested[job[w]] = {}
                         /\ op = "unpin_all" => req[w] = tasks[job[w]].req
  /\ at[w] = "replace" => /\ op = "update" /\ Found(w)
                          /\ gone[job[w]] = {} => requested[job[w]] = {}

Did(i) ==
  /\ op = "pin" => requested[i] # {}
  /\ op \in {"unpin", "unpin_all"} => gone[i] # {}
  /\ op = "update" => requested[i] # {} /\ gone[i] # {}

TaskSane(i) ==
  /\ \A r \in gone[i] : Pin!Asked(i, r)
  /\ Cardinality(gone[i]) <= 1
  /\ IsFiniteSet(requested[i]) /\ Cardinality(requested[i]) <= MaxAttempts
TaskTrue(i) == (outcome[i] = "ok" => Did(i)) /\ TaskSane(i)

ErrorTrue ==
  "continue" \notin flags => (firstError <=> \E i \in DOMAIN tasks : outcome[i] = "failed")

PinInv ==
  /\ PinTypes /\ PoolTrue /\ ListingTrue /\ ErrorTrue /\ IsFiniteSet(live)
  /\ \A w \in Workers : WorkTrue(w)
  /\ \A i \in DOMAIN tasks : TaskTrue(i)

(* The service never forgets a request, nor brings one back.               *)
ServiceGrows ==
  /\ of' \in [Requests -> Cids \cup {NoCid}]
  /\ live' \subseteq Pin!Issued' /\ IsFiniteSet(live')
  /\ \A r \in Requests : of[r] # NoCid => of'[r] = of[r] /\ (r \in live' => r \in live)

LEMMA SamePinCardinality == \A S : Pin!Cardinality(S) = Cardinality(S)
BY DEF Pin!Cardinality, Cardinality

LEMMA TasksAreItems ==
  ASSUME PinTypes
  PROVE  /\ Len(tasks) \in Nat /\ DOMAIN tasks = 1 .. Len(tasks)
         /\ \A i \in DOMAIN tasks :
              tasks[i].cid \in Cids /\ tasks[i].req \in Requests \cup {NoRequest}
<1>1. /\ Len(tasks) \in Nat /\ DOMAIN tasks = 1 .. Len(tasks)
      /\ \A i \in 1 .. Len(tasks) : tasks[i] \in Items
  BY DEF PinTypes
<1> QED
  BY <1>1 DEF Items

(* The CASE of Done, as implications.                                      *)
LEMMA DoneMeans ==
  ASSUME NEW i
  PROVE  Pin!Done(i) <=> Did(i)
<1> USE DEF Did
<1>1. CASE op = "pin"
  BY <1>1 DEF Pin!Done
<1>2. CASE op \in {"unpin", "unpin_all"}
  BY <1>2 DEF Pin!Done
<1>3. CASE op = "update"
  BY <1>3 DEF Pin!Done
<1>4. CASE op \notin {"pin", "unpin", "unpin_all", "update"}
  BY <1>4 DEF Pin!Done
<1> QED
  BY <1>1, <1>2, <1>3, <1>4

LEMMA RequestStays ==
  ASSUME ServiceGrows, NEW r \in Requests, of[r] \in Cids
  PROVE  of'[r] = of[r] /\ (r \in live' => r \in live)
BY PinAssumption DEF ServiceGrows

LEMMA WorkStays ==
  ASSUME PinTypes, ServiceGrows, NEW v \in Workers, WorkTrue(v),
         UNCHANGED <<op, tasks, at[v], job[v], req[v], tries[v]>>,
         Busy(v) => /\ job[v] \in DOMAIN tasks
                    /\ requested'[job[v]] = requested[job[v]] /\ gone'[job[v]] = gone[job[v]]
  PROVE  WorkTrue(v)'
<1>1. ASSUME Found(v), Busy(v) PROVE Found(v)'
  <2>1. tasks[job[v]].cid \in Cids
    BY <1>1, TasksAreItems
  <2> QED
    BY <1>1, <2>1, RequestStays DEF Found
<1> QED
  BY <1>1 DEF WorkTrue, Busy, Fresh

LEMMA TaskStays ==
  ASSUME PinTypes, ServiceGrows, NEW i \in DOMAIN tasks, TaskTrue(i),
         UNCHANGED <<op, tasks, outcome[i], requested[i], gone[i]>>
  PROVE  TaskTrue(i)'
<1>1. tasks[i].cid \in Cids /\ gone[i] \subseteq Requests
  BY TasksAreItems DEF PinTypes
<1> QED
  BY <1>1, RequestStays DEF TaskTrue, TaskSane, Did, Pin!Asked

(* What others do to the service.                                          *)
LEMMA ServiceStays ==
  ASSUME PinInv, ServiceGrows,
         UNCHANGED <<op, flags, stage, tasks, next, outcome, firstError, at, job, req, tries,
                     requested, gone>>
  PROVE  PinInv'
<1>1. PinTypes' /\ PoolTrue' /\ ErrorTrue' /\ IsFiniteSet(live')
  BY DEF PinInv, PinTypes, PoolTrue, ErrorTrue, ServiceGrows, Busy
<1>2. ListingTrue'
  <2>1. \A i \in DOMAIN tasks : tasks[i].cid \in Cids
    BY TasksAreItems DEF PinInv
  <2> QED
    BY <2>1, RequestStays DEF PinInv, ListingTrue
<1>3. \A w \in Workers : WorkTrue(w)'
  <2>1. \A w \in Workers : Busy(w) => job[w] \in DOMAIN tasks
    BY DEF PinInv, PinTypes, PoolTrue
  <2> QED
    BY <2>1, WorkStays DEF PinInv
<1>4. \A i \in DOMAIN tasks : TaskTrue(i)'
  BY TaskStays DEF PinInv
<1> QED
  BY <1>1, <1>2, <1>3, <1>4 DEF PinInv

(* A step of one worker: it goes on with its task, or ends it.             *)
Alone(w) ==
  /\ UNCHANGED <<op, flags, stage, tasks, next>>
  /\ at' \in [Workers -> Points] /\ job' \in [Workers -> Nat]
  /\ req' \in [Workers -> Requests \cup {NoRequest}] /\ tries' \in [Workers -> Nat]
  /\ \A v \in Workers \ {w} : UNCHANGED <<at[v], job[v], req[v], tries[v]>>
  /\ requested' \in [DOMAIN tasks -> SUBSET Requests]
  /\ gone' \in [DOMAIN tasks -> SUBSET Requests]
  /\ \A i \in DOMAIN tasks \ {job[w]} : UNCHANGED <<requested[i], gone[i]>>

LEMMA OthersStay ==
  ASSUME PinInv, NEW w \in Workers, Busy(w), ServiceGrows, Alone(w),
         \A i \in DOMAIN tasks \ {job[w]} : outcome'[i] = outcome[i]
  PROVE  /\ ListingTrue'
         /\ \A v \in Workers \ {w} : WorkTrue(v)'
         /\ \A i \in DOMAIN tasks \ {job[w]} : TaskTrue(i)'
<1>1. ListingTrue'
  BY TasksAreItems, RequestStays DEF PinInv, ListingTrue, Alone
<1>2. ASSUME NEW v \in Workers \ {w} PROVE WorkTrue(v)'
  <2>1. Busy(v) => job[v] \in DOMAIN tasks \ {job[w]}
    BY DEF PinInv, PinTypes, PoolTrue
  <2> QED
    BY <2>1, WorkStays DEF PinInv, Alone
<1>3. ASSUME NEW i \in DOMAIN tasks \ {job[w]} PROVE TaskTrue(i)'
  BY TaskStays DEF PinInv, Alone
<1> QED
  BY <1>1, <1>2, <1>3

LEMMA WorkerGoesOn ==
  ASSUME PinInv, NEW w \in Workers, Busy(w), ServiceGrows, Alone(w),
         UNCHANGED <<outcome, firstError>>, Busy(w)', job'[w] = job[w],
         WorkTrue(w)', TaskTrue(job[w])'
  PROVE  PinInv'
<1>1. PinTypes' /\ IsFiniteSet(live')
  BY DEF PinInv, PinTypes, Alone, ServiceGrows
<1>2. PoolTrue'
  <2>1. /\ Busy(w) /\ job'[w] = job[w] /\ Busy(w)' /\ outcome' = outcome
        /\ \A v \in Workers \ {w} : (Busy(v)' <=> Busy(v)) /\ job'[v] = job[v]
        /\ UNCHANGED <<stage, tasks, next, op>>
    BY DEF Alone, Busy
  <2>2. \A v \in Workers : (Busy(v)' <=> Busy(v)) /\ job'[v] = job[v]
    BY <2>1
  <2>3. job[w] < next /\ job[w] \in DOMAIN tasks
    BY TasksAreItems DEF PinInv, PinTypes, PoolTrue
  <2>4. \A i \in DOMAIN tasks : i >= next => requested'[i] = requested[i] /\ gone'[i] = gone[i]
    BY <2>3, TasksAreItems DEF PinInv, PinTypes, Alone
  <2> QED
    BY <2>1, <2>2, <2>4 DEF PinInv, PoolTrue
<1>3. ErrorTrue'
  BY DEF PinInv, ErrorTrue, Alone
<1>4. \A v \in Workers : WorkTrue(v)'
  BY OthersStay
<1>5. \A i \in DOMAIN tasks : TaskTrue(i)'
  BY OthersStay
<1> QED
  BY <1>1, <1>2, <1>3, <1>4, <1>5, OthersStay DEF PinInv, Alone

LEMMA WorkerEnds ==
  ASSUME PinInv, NEW w \in Workers, Busy(w), ServiceGrows, Alone(w),
         NEW o \in {"ok", "failed"}, outcome' = [outcome EXCEPT ![job[w]] = o],
         firstError' = (firstError \/ (o = "failed" /\ "continue" \notin flags)),
         at'[w] = "idle", tries'[w] = 0, NEW n, n = job[w], TaskTrue(n)'
  PROVE  PinInv'
<1>1. job[w] \in DOMAIN tasks /\ job[w] < next /\ outcome[job[w]] = "none"
  BY TasksAreItems DEF PinInv, PinTypes, PoolTrue
<1>2. outcome' \in [DOMAIN tasks -> {"none", "ok", "failed"}] /\ firstError' \in BOOLEAN
  BY <1>1 DEF PinInv, PinTypes
<1>3. PinTypes' /\ IsFiniteSet(live')
  BY <1>2 DEF PinInv, PinTypes, Alone, ServiceGrows
<1>4. PoolTrue'
  <2>1. /\ ~Busy(w)' /\ outcome'[job[w]] # "none"
        /\ \A i \in DOMAIN tasks \ {job[w]} : outcome'[i] = outcome[i]
        /\ \A v \in Workers \ {w} : (Busy(v)' <=> Busy(v)) /\ job'[v] = job[v]
        /\ UNCHANGED <<stage, tasks, next, op>>
    BY <1>1 DEF PinInv, PinTypes, Alone, Busy
  <2>2. \A v \in Workers \ {w} : Busy(v) => job[v] # job[w]
    BY DEF PinInv, PoolTrue
  <2>3. \A i \in DOMAIN tasks : i >= next =>
          i # job[w] /\ requested'[i] = requested[i] /\ gone'[i] = gone[i]
    BY <1>1, TasksAreItems DEF PinInv, PinTypes, Alone
  <2>4. \A i \in DOMAIN tasks : i < next /\ outcome'[i] = "none" =>
          \E v \in Workers : Busy(v)' /\ job'[v] = i
    BY <2>1, <1>1 DEF PinInv, PoolTrue
  <2>5. \A v \in Workers : Busy(v)' =>
          v # w /\ stage = "run" /\ job'[v] \in 1 .. next - 1 /\ outcome'[job'[v]] = "none"
    <3> SUFFICES ASSUME NEW v \in Workers, Busy(v)'
                 PROVE  v # w /\ stage = "run" /\ job'[v] \in 1 .. next - 1
                          /\ outcome'[job'[v]] = "none"
      OBVIOUS
    <3>1. v # w /\ Busy(v) /\ job'[v] = job[v]
      BY <2>1
    <3>2. stage = "run" /\ job[v] \in 1 .. next - 1 /\ outcome[job[v]] = "none"
      BY <3>1 DEF PinInv, PoolTrue
    <3>3. job[v] \in DOMAIN tasks \ {job[w]}
      BY <3>1, <3>2, <2>2, TasksAreItems DEF PinInv, PinTypes
    <3> QED
      BY <2>1, <3>1, <3>2, <3>3
  <2> QED
    BY <2>1, <2>3, <2>4, <2>5 DEF PinInv, PoolTrue
<1>5. ErrorTrue'
  BY <1>1, <1>2 DEF PinInv, PinTypes, ErrorTrue, Alone
<1>6. WorkTrue(w)'
  BY DEF WorkTrue
<1>7. \A v \in Workers : WorkTrue(v)'
  BY <1>1, <1>6, OthersStay DEF PinInv, PinTypes
<1>8. \A i \in DOMAIN tasks : TaskTrue(i)'
  <2>1. \A i \in DOMAIN tasks \ {job[w]} : outcome'[i] = outcome[i]
    BY <1>1 DEF PinInv, PinTypes
  <2>2. \A i \in DOMAIN tasks \ {job[w]} : TaskTrue(i)'
    BY <2>1, OthersStay
  <2> QED
    BY <2>2
<1>9. ListingTrue'
  BY <1>1, OthersStay DEF PinInv, PinTypes
<1> QED
  BY <1>3, <1>4, <1>5, <1>7, <1>8, <1>9 DEF PinInv, Alone

(* What a step of a worker leaves alone, and the three ways it can end.    *)
Alters(w) ==
  /\ UNCHANGED <<op, flags, stage, tasks, next>>
  /\ requested' \in [DOMAIN tasks -> SUBSET Requests]
  /\ gone' \in [DOMAIN tasks -> SUBSET Requests]
  /\ \A i \in DOMAIN tasks \ {job[w]} : UNCHANGED <<requested[i], gone[i]>>

LEMMA EndKeeps ==
  ASSUME PinInv, NEW w \in Workers, Busy(w), ServiceGrows, Alters(w),
         NEW o \in {"ok", "failed"}, Pin!End(w, o),
         NEW n, n = job[w], TaskSane(n)', o = "ok" => Did(n)'
  PROVE  PinInv'
<1>1. /\ at' = [at EXCEPT ![w] = "idle"] /\ job' = [job EXCEPT ![w] = 0]
      /\ req' = [req EXCEPT ![w] = NoRequest] /\ tries' = [tries EXCEPT ![w] = 0]
      /\ outcome' = [outcome EXCEPT ![job[w]] = o]
      /\ firstError' = (firstError \/ (o = "failed" /\ "continue" \notin flags))
  BY DEF Pin!End, Pin!Free
<1>2. Alone(w) /\ at'[w] = "idle" /\ tries'[w] = 0
  BY <1>1 DEF Alone, Alters, PinInv, PinTypes, Points
<1>3. n \in DOMAIN tasks
  BY TasksAreItems DEF PinInv, PinTypes, PoolTrue
<1>4. outcome'[n] = o
  BY <1>1, <1>3 DEF PinInv, PinTypes
<1>5. TaskTrue(n)'
  BY <1>4 DEF TaskTrue
<1> QED
  BY <1>1, <1>2, <1>5, WorkerEnds

LEMMA MoveKeeps ==
  ASSUME PinInv, NEW w \in Workers, Busy(w), ServiceGrows, Alters(w),
         NEW a \in Points \ {"idle"}, NEW r \in Requests \cup {NoRequest}, NEW t \in Nat,
         at' = [at EXCEPT ![w] = a], req' = [req EXCEPT ![w] = r],
         tries' = [tries EXCEPT ![w] = t], UNCHANGED <<job, outcome, firstError>>,
         WorkTrue(w)', TaskSane(job[w])'
  PROVE  PinInv'
<1>1. Alone(w) /\ Busy(w)'
  BY DEF Alone, Alters, PinInv, PinTypes, Points, Busy
<1>2. outcome'[job'[w]] = "none"
  BY DEF PinInv, PoolTrue
<1>3. TaskTrue(job[w])'
  BY <1>2 DEF TaskTrue
<1> QED
  BY <1>1, <1>3, WorkerGoesOn

LEMMA NoAnswerKeeps ==
  ASSUME PinInv, NEW w \in Workers, Busy(w), ServiceGrows, Alters(w), Pin!NoAnswer(w),
         NEW n, n = job[w], TaskSane(n)',
         tries[w] + 1 < MaxAttempts /\ tries' = [tries EXCEPT ![w] = @ + 1]
           /\ UNCHANGED <<at, job, req>> => WorkTrue(w)'
  PROVE  PinInv'
<1>1. CASE Pin!End(w, "failed")
  BY <1>1, EndKeeps
<1>2. CASE ~Pin!End(w, "failed")
  <2>1. /\ tries[w] + 1 < MaxAttempts /\ tries' = [tries EXCEPT ![w] = tries[w] + 1]
        /\ UNCHANGED <<at, job, req, outcome, firstError>>
    BY <1>2 DEF Pin!NoAnswer
  <2>2. /\ at[w] \in Points \ {"idle"} /\ req[w] \in Requests \cup {NoRequest}
        /\ tries[w] + 1 \in Nat
        /\ at' = [at EXCEPT ![w] = at[w]] /\ req' = [req EXCEPT ![w] = req[w]]
    BY <2>1 DEF PinInv, PinTypes, Busy
  <2> QED
    BY <2>1, <2>2, MoveKeeps
<1> QED
  BY <1>1, <1>2

LEMMA NoServiceChange ==
  ASSUME PinInv, UNCHANGED <<of, live>>
  PROVE  ServiceGrows
BY DEF PinInv, PinTypes, ServiceGrows, Pin!Issued

LEMMA NewRequest ==
  ASSUME PinInv, NEW r \in Requests \ Pin!Issued, NEW c \in Cids, Pin!Put(r, c),
         NEW old, live' = (live \ old) \cup {r}
  PROVE  ServiceGrows /\ of'[r] = c
<1>1. /\ of' \in [Requests -> Cids \cup {NoCid}] /\ of'[r] = c
      /\ \A q \in Requests : of[q] # NoCid => q # r /\ of'[q] = of[q]
  BY PinAssumption DEF PinInv, PinTypes, Pin!Put, Pin!Issued
<1>2. IsFiniteSet(live')
  BY FS_Difference, FS_Union, FS_Singleton, FS_AddElement DEF PinInv
<1>3. live' \subseteq Pin!Issued'
  BY <1>1, PinAssumption DEF PinInv, PinTypes, Pin!Issued
<1> QED
  BY <1>1, <1>2, <1>3 DEF ServiceGrows

LEMMA RequestGone ==
  ASSUME PinInv, NEW old, live' = live \ old, of' = of
  PROVE  ServiceGrows
<1>1. IsFiniteSet(live')
  BY FS_Difference, FS_Subset DEF PinInv
<1> QED
  BY <1>1 DEF PinInv, PinTypes, ServiceGrows, Pin!Issued

LEMMA BusyTask ==
  ASSUME PinInv, NEW w \in Workers, Busy(w)
  PROVE  /\ job[w] \in DOMAIN tasks /\ tasks[job[w]].cid \in Cids
         /\ WorkTrue(w) /\ TaskSane(job[w])
         /\ requested[job[w]] \subseteq Requests /\ gone[job[w]] \subseteq Requests
<1>1. job[w] \in DOMAIN tasks
  BY TasksAreItems DEF PinInv, PinTypes, PoolTrue
<1> QED
  BY <1>1, TasksAreItems DEF PinInv, PinTypes, TaskTrue

LEMMA SaneStays ==
  ASSUME PinInv, ServiceGrows, NEW n \in DOMAIN tasks, TaskSane(n),
         UNCHANGED <<op, tasks, requested[n], gone[n]>>
  PROVE  TaskSane(n)'
<1>1. tasks[n].cid \in Cids /\ gone[n] \subseteq Requests
  BY TasksAreItems DEF PinInv, PinTypes
<1> QED
  BY <1>1, RequestStays DEF TaskSane, Pin!Asked

(* A step that makes and removes nothing.                                  *)
LEMMA QuietStep ==
  ASSUME PinInv, NEW w \in Workers, Busy(w), UNCHANGED <<of, live, requested, gone>>,
         UNCHANGED <<op, flags, stage, tasks, next>>
  PROVE  /\ ServiceGrows /\ Alters(w) /\ \A n \in DOMAIN tasks : TaskSane(n)'
         /\ \A n \in DOMAIN tasks : Did(n) => Did(n)'
<1>1. ServiceGrows
  BY NoServiceChange
<1>2. Alters(w)
  BY DEF Alters, PinInv, PinTypes
<1>3. \A n \in DOMAIN tasks : TaskSane(n)'
  BY <1>1, SaneStays DEF PinInv, TaskTrue
<1> QED
  BY <1>1, <1>2, <1>3 DEF Did

LEMMA CallFailsKeeps ==
  ASSUME PinInv, NEW w \in Workers, Pin!CallFails(w)
  PROVE  PinInv'
<1>1. Busy(w) /\ Pin!NoAnswer(w) /\ UNCHANGED <<of, live, requested, gone>>
      /\ UNCHANGED <<op, flags, stage, tasks, next>>
  BY DEF Pin!CallFails, Pin!service, Pin!command, Busy
<1>2. ASSUME tries[w] + 1 < MaxAttempts, tries' = [tries EXCEPT ![w] = @ + 1],
             UNCHANGED <<at, job, req>>
      PROVE  WorkTrue(w)'
  <2>1. tries'[w] = tries[w] + 1 /\ tries[w] \in Nat
    BY <1>2 DEF PinInv, PinTypes
  <2>2. IsFiniteSet(requested[job[w]]) => Cardinality(requested[job[w]]) \in Nat
    BY FS_CardinalityType
  <2>3. WorkTrue(w)
    BY <1>1, BusyTask
  <2>4. ASSUME at[w] = "add"
        PROVE  Cardinality(requested[job[w]]) <= tries[w] + 1 /\ tries[w] + 1 < MaxAttempts
    BY <2>1, <2>2, <2>3, <2>4, <1>2, PinAssumption DEF WorkTrue
  <2> QED
    BY <1>1, <1>2, <2>1, <2>3, <2>4 DEF WorkTrue, Fresh, Found, Busy
<1> QED
  BY <1>1, <1>2, BusyTask, QuietStep, NoAnswerKeeps

LEMMA WaitKeeps ==
  ASSUME PinInv, NEW w \in Workers, Pin!Wait(w)
  PROVE  PinInv'
<1>1. /\ Busy(w) /\ at[w] = "wait" /\ UNCHANGED <<of, live, requested, gone>>
      /\ UNCHANGED <<op, flags, stage, tasks, next>>
      /\ \E o \in {"ok", "failed"} : Pin!End(w, o)
  BY DEF Pin!Wait, Pin!service, Pin!command, Busy
<1>2. Did(job[w])
  BY <1>1, BusyTask DEF WorkTrue, Did
<1> QED
  BY <1>1, <1>2, BusyTask, QuietStep, EndKeeps

LEMMA WatchKeeps ==
  ASSUME PinInv, NEW w \in Workers, Pin!Watch(w)
  PROVE  PinInv'
<1>1. /\ Busy(w) /\ at[w] = "watch" /\ UNCHANGED <<of, live, requested, gone>>
      /\ UNCHANGED <<op, flags, stage, tasks, next>>
      /\ \E o \in {"ok", "failed"} : Pin!End(w, o)
  BY DEF Pin!Watch, Pin!service, Pin!command, Busy
<1>2. Did(job[w])
  BY <1>1, BusyTask DEF WorkTrue, Did
<1> QED
  BY <1>1, <1>2, BusyTask, QuietStep, EndKeeps

LEMMA GoOnKeeps ==
  ASSUME PinInv, NEW w \in Workers, Busy(w), ServiceGrows, Alters(w),
         NEW a \in Points \ {"idle"}, NEW r \in Requests, Pin!GoOn(w, a, r),
         WorkTrue(w)', TaskSane(job[w])'
  PROVE  PinInv'
<1>1. /\ at' = [at EXCEPT ![w] = a] /\ req' = [req EXCEPT ![w] = r]
      /\ tries' = [tries EXCEPT ![w] = 0] /\ UNCHANGED <<job, outcome, firstError>>
  BY DEF Pin!GoOn
<1> QED
  BY <1>1, MoveKeeps

LEMMA FindKeeps ==
  ASSUME PinInv, NEW w \in Workers, Pin!Find(w)
  PROVE  PinInv'
<1>1. /\ Busy(w) /\ at[w] = "find" /\ UNCHANGED <<of, live, requested, gone>>
      /\ UNCHANGED <<op, flags, stage, tasks, next>>
  BY DEF Pin!Find, Pin!service, Pin!command, Busy
<1>2. WorkTrue(w) /\ job[w] \in DOMAIN tasks /\ Fresh(job[w])
      /\ op \in {"unpin", "update", "status"}
  BY <1>1, BusyTask DEF WorkTrue
<1>3. CASE Pin!End(w, "failed")
  BY <1>1, <1>2, <1>3, QuietStep, EndKeeps
<1>4. CASE op = "status" /\ Pin!End(w, "ok")
  <2>1. Did(job[w])
    BY <1>4 DEF Did
  <2> QED
    BY <1>1, <1>2, <1>4, <2>1, QuietStep, EndKeeps
<1>5. ASSUME NEW r \in Pin!PinsOf(Pin!Cid(w)), NEW a \in {"delete", "replace", "watch"},
             a = "delete" => op = "unpin", a = "replace" => op = "update",
             a = "watch" => op = "status", Pin!GoOn(w, a, r)
      PROVE  PinInv'
  <2>1. /\ at'[w] = a /\ req'[w] = r /\ job' = job /\ r \in Requests
        /\ of[r] = tasks[job[w]].cid
    BY <1>5 DEF Pin!GoOn, PinInv, PinTypes, Pin!PinsOf, Pin!Cid, Pin!Issued
  <2>2. WorkTrue(w)'
    BY <1>1, <1>2, <1>5, <2>1 DEF WorkTrue, Found, Fresh
  <2> QED
    BY <1>1, <1>2, <1>5, <2>1, <2>2, QuietStep, GoOnKeeps DEF Points
<1> QED
  BY <1>1, <1>2, <1>3, <1>4, <1>5 DEF Pin!Find

LEMMA DeleteKeeps ==
  ASSUME PinInv, NEW w \in Workers, Pin!Delete(w)
  PROVE  PinInv'
<1>1. Busy(w) /\ at[w] = "delete" /\ UNCHANGED <<op, flags, stage, tasks, next, of, requested>>
  BY DEF Pin!Delete, Pin!command, Busy
<1>2. /\ WorkTrue(w) /\ TaskSane(job[w]) /\ job[w] \in DOMAIN tasks /\ Found(w)
      /\ op \in {"unpin", "unpin_all"} /\ requested[job[w]] = {}
      /\ op = "unpin_all" => req[w] = tasks[job[w]].req
  BY <1>1, BusyTask DEF WorkTrue
<1>3. CASE req[w] \notin live
  BY <1>1, <1>2, <1>3, QuietStep, EndKeeps DEF Pin!Delete
<1>4. CASE req[w] \in live
  <2>1. /\ live' = live \ {req[w]}
        /\ gone' = [gone EXCEPT ![job[w]] = gone[job[w]] \cup {req[w]}]
        /\ Pin!End(w, "ok") \/ Pin!NoAnswer(w)
    BY <1>4 DEF Pin!Delete
  <2>2. ServiceGrows
    BY <1>1, <2>1, RequestGone
  <2>3. gone'[job[w]] = {req[w]} /\ req[w] \in Requests
    BY <1>2, <1>4, <2>1 DEF Found, PinInv, PinTypes
  <2>4. Alters(w)
    BY <1>1, <1>2, <2>1, <2>3 DEF Alters, PinInv, PinTypes
  <2>5. PICK n : n = job[w]
    OBVIOUS
  <2>6. TaskSane(n)'
    <3>1. /\ gone'[n] = {req[w]} /\ requested'[n] = requested[n]
          /\ of'[req[w]] = tasks'[n].cid
      BY <1>1, <1>2, <2>3, <2>5 DEF Found
    <3>2. Cardinality({req[w]}) = 1
      BY FS_Singleton
    <3>3. Cardinality(gone'[n]) <= 1
      BY <3>1, <3>2
    <3> QED
      BY <1>1, <1>2, <2>5, <3>1, <3>3 DEF TaskSane, Pin!Asked
  <2>7. Did(n)'
    BY <1>1, <1>2, <2>3, <2>5 DEF Did
  <2>8. ASSUME tries' = [tries EXCEPT ![w] = @ + 1], UNCHANGED <<at, job, req>>
        PROVE  WorkTrue(w)'
    BY <1>1, <1>2, <2>1, <2>3, <2>8 DEF WorkTrue, Found
  <2> QED
    BY <1>1, <2>1, <2>2, <2>4, <2>5, <2>6, <2>7, <2>8, EndKeeps, NoAnswerKeeps
<1> QED
  BY <1>3, <1>4

LEMMA AddKeeps ==
  ASSUME PinInv, NEW w \in Workers, Pin!Add(w)
  PROVE  PinInv'
<1>1. Busy(w) /\ at[w] = "add" /\ UNCHANGED <<op, flags, stage, tasks, next, gone>>
  BY DEF Pin!Add, Pin!command, Busy
<1>2. /\ job[w] \in DOMAIN tasks /\ tasks[job[w]].cid \in Cids /\ op = "pin"
      /\ gone[job[w]] = {} /\ requested[job[w]] \subseteq Requests
      /\ IsFiniteSet(requested[job[w]]) /\ tries[w] \in Nat
      /\ Cardinality(requested[job[w]]) <= tries[w] /\ tries[w] < MaxAttempts
  BY <1>1, BusyTask DEF WorkTrue, PinInv, PinTypes
<1>3. PICK r \in Requests \ Pin!Issued :
        /\ Pin!Put(r, Pin!Cid(w)) /\ live' = live \cup {r}
        /\ requested' = [requested EXCEPT ![job[w]] = @ \cup {r}]
        /\ \/ "wait" \in flags /\ Pin!GoOn(w, "wait", r)
           \/ "wait" \notin flags /\ Pin!End(w, "ok")
           \/ Pin!NoAnswer(w)
  BY DEF Pin!Add
<1>4. ServiceGrows
  <2>1. live' = (live \ {}) \cup {r} /\ Pin!Cid(w) \in Cids
    BY <1>2, <1>3 DEF Pin!Cid
  <2> QED
    BY <1>3, <2>1, NewRequest
<1>5. requested'[job[w]] = requested[job[w]] \cup {r} /\ Alters(w)
  BY <1>1, <1>2, <1>3 DEF Alters, PinInv, PinTypes
<1>6. /\ IsFiniteSet(requested[job[w]] \cup {r})
      /\ Cardinality(requested[job[w]] \cup {r}) <= tries[w] + 1
  <2>1. Cardinality(requested[job[w]]) \in Nat
    BY <1>2, FS_CardinalityType
  <2>2. /\ IsFiniteSet(requested[job[w]] \cup {r})
        /\ \/ Cardinality(requested[job[w]] \cup {r}) = Cardinality(requested[job[w]])
           \/ Cardinality(requested[job[w]] \cup {r}) = Cardinality(requested[job[w]]) + 1
    BY <1>2, FS_AddElement
  <2> QED
    BY <1>2, <2>1, <2>2
<1>7. PICK n : n = job[w]
  OBVIOUS
<1>8. TaskSane(n)'
  <2>1. gone'[n] = {} /\ requested'[n] = requested[n] \cup {r}
    BY <1>1, <1>2, <1>5, <1>7
  <2>2. Cardinality({}) = 0
    BY FS_EmptySet
  <2>3. Cardinality(gone'[n]) <= 1
    BY <2>1, <2>2
  <2>4. Cardinality(requested[n] \cup {r}) \in Nat
    BY <1>6, <1>7, FS_CardinalityType
  <2>5. Cardinality(requested'[n]) <= MaxAttempts
    BY <1>2, <1>6, <1>7, <2>1, <2>4, PinAssumption
  <2> QED
    BY <1>6, <1>7, <2>1, <2>3, <2>5 DEF TaskSane
<1>9. Did(n)'
  BY <1>1, <1>2, <1>5, <1>7 DEF Did
<1>10. CASE Pin!GoOn(w, "wait", r)
  <2>1. at'[w] = "wait" /\ job' = job
    BY <1>10 DEF Pin!GoOn, PinInv, PinTypes
  <2>2. WorkTrue(w)'
    BY <1>1, <1>2, <1>5, <2>1 DEF WorkTrue
  <2>3. TaskSane(job[w])'
    BY <1>7, <1>8, <2>1
  <2> QED
    BY <1>1, <1>4, <1>5, <1>10, <2>2, <2>3, GoOnKeeps DEF Points
<1>11. CASE Pin!End(w, "ok")
  BY <1>1, <1>4, <1>5, <1>7, <1>8, <1>9, <1>11, EndKeeps
<1>12. CASE Pin!NoAnswer(w)
  <2>1. ASSUME tries[w] + 1 < MaxAttempts, tries' = [tries EXCEPT ![w] = @ + 1],
               UNCHANGED <<at, job, req>>
        PROVE  WorkTrue(w)'
    <3>1. tries'[w] = tries[w] + 1
      BY <2>1 DEF PinInv, PinTypes
    <3> QED
      BY <1>1, <1>2, <1>5, <1>6, <2>1, <3>1 DEF WorkTrue
  <2> QED
    BY <1>1, <1>4, <1>5, <1>7, <1>8, <1>12, <2>1, NoAnswerKeeps
<1> QED
  BY <1>3, <1>10, <1>11, <1>12

LEMMA ReplaceKeeps ==
  ASSUME PinInv, NEW w \in Workers, Pin!Replace(w)
  PROVE  PinInv'
<1>1. Busy(w) /\ at[w] = "replace" /\ UNCHANGED <<op, flags, stage, tasks, next>>
  BY DEF Pin!Replace, Pin!command, Busy
<1>2. /\ WorkTrue(w) /\ TaskSane(job[w]) /\ job[w] \in DOMAIN tasks /\ Found(w)
      /\ tasks[job[w]].cid \in Cids /\ op = "update"
      /\ gone[job[w]] = {} => requested[job[w]] = {}
  BY <1>1, BusyTask DEF WorkTrue
<1>3. CASE req[w] \notin live
  <2>1. Pin!End(w, "failed") /\ UNCHANGED <<of, live, requested, gone>>
    BY <1>3 DEF Pin!Replace
  <2> QED
    BY <1>1, <1>2, <2>1, QuietStep, EndKeeps
<1>4. CASE req[w] \in live
  <2>1. PICK r \in Requests \ Pin!Issued :
          /\ Pin!Put(r, Pin!Cid(w)) /\ live' = (live \ {req[w]}) \cup {r}
          /\ requested' = [requested EXCEPT ![job[w]] = @ \cup {r}]
          /\ gone' = [gone EXCEPT ![job[w]] = @ \cup {req[w]}]
    BY <1>4 DEF Pin!Replace
  <2>2. Pin!End(w, "ok") \/ Pin!NoAnswer(w)
    BY <1>4 DEF Pin!Replace
  <2>3. ServiceGrows
    BY <1>2, <2>1, NewRequest DEF Pin!Cid
  <2>4. gone[job[w]] = {} /\ requested[job[w]] = {} /\ req[w] \in Requests
    BY <1>2, <1>4 DEF Found
  <2>5. gone'[job[w]] = {req[w]} /\ requested'[job[w]] = {r} /\ Alters(w)
    BY <1>1, <1>2, <2>1, <2>4 DEF Alters, PinInv, PinTypes
  <2>6. of'[req[w]] = tasks[job[w]].cid /\ req[w] \notin live'
    BY <1>2, <1>4, <2>1, <2>3, RequestStays DEF Found, PinInv, PinTypes
  <2>7. PICK n : n = job[w]
    OBVIOUS
  <2>8. TaskSane(n)'
    <3>1. gone'[n] = {req[w]} /\ requested'[n] = {r} /\ of'[req[w]] = tasks'[n].cid
      BY <1>1, <2>5, <2>6, <2>7
    <3>2. Cardinality({req[w]}) = 1 /\ IsFiniteSet({r}) /\ Cardinality({r}) = 1
      BY FS_Singleton
    <3>3. /\ Cardinality(gone'[n]) <= 1 /\ IsFiniteSet(requested'[n])
          /\ Cardinality(requested'[n]) <= MaxAttempts
      BY <3>1, <3>2, PinAssumption
    <3> QED
      BY <1>1, <1>2, <3>1, <3>3 DEF TaskSane, Pin!Asked
  <2>9. Did(n)'
    BY <1>1, <1>2, <2>5, <2>7 DEF Did
  <2>10. ASSUME UNCHANGED <<at, job, req>> PROVE WorkTrue(w)'
    BY <1>1, <1>2, <2>4, <2>5, <2>6, <2>10 DEF WorkTrue, Found
  <2> QED
    BY <1>1, <2>2, <2>3, <2>5, <2>7, <2>8, <2>9, <2>10, EndKeeps, NoAnswerKeeps
<1> QED
  BY <1>3, <1>4

(* A worker takes the next task.                                           *)
LEMMA TakeKeeps ==
  ASSUME PinInv, NEW w \in Workers, Pin!Take(w)
  PROVE  PinInv'
<1>1. /\ stage = "run" /\ next <= Len(tasks) /\ at[w] = "idle"
      /\ job' = [job EXCEPT ![w] = next] /\ next' = next + 1
      /\ at' = [at EXCEPT ![w] = Pin!FirstStage]
      /\ req' = [req EXCEPT ![w] = tasks[next].req]
      /\ UNCHANGED <<of, live, op, flags, stage, tasks, tries, outcome, firstError,
                     requested, gone>>
  BY DEF Pin!Take, Pin!service, Pin!reports
<1>2. /\ next \in Nat /\ next \in DOMAIN tasks
      /\ Len(tasks) \in Nat /\ DOMAIN tasks = 1 .. Len(tasks)
  BY <1>1, TasksAreItems DEF PinInv, PinTypes
<1>3. /\ op \in {"pin", "unpin_all", "unpin", "update", "status"}
      /\ Pin!FirstStage = IF op = "pin" THEN "add" ELSE IF op = "unpin_all" THEN "delete" ELSE "find"
  <2>1. op \in {"pin", "unpin_all", "unpin", "update", "status"}
    BY <1>1 DEF PinInv, PinTypes, PoolTrue
  <2>2. CASE op = "pin"
    BY <2>2 DEF Pin!FirstStage
  <2>3. CASE op = "unpin_all"
    BY <2>3 DEF Pin!FirstStage
  <2>4. CASE op \in {"unpin", "update", "status"}
    BY <2>4 DEF Pin!FirstStage
  <2> QED
    BY <2>1, <2>2, <2>3, <2>4
<1>4. /\ at'[w] = Pin!FirstStage /\ job'[w] = next /\ req'[w] = tasks[next].req
      /\ \A v \in Workers \ {w} : UNCHANGED <<at[v], job[v], req[v], tries[v]>>
  BY <1>1 DEF PinInv, PinTypes
<1>5. PinTypes'
  <2>1. Pin!FirstStage \in Points
    BY <1>3 DEF Points
  <2>2. next' \in 1 .. Len(tasks) + 1
    BY <1>1, <1>2
  <2>3. tasks[next].req \in Requests \cup {NoRequest}
    BY <1>2, TasksAreItems DEF PinInv
  <2>4. (live \subseteq Pin!Issued)'
    BY <1>1 DEF PinInv, PinTypes, Pin!Issued
  <2> QED
    BY <1>1, <1>2, <2>1, <2>2, <2>3, <2>4 DEF PinInv, PinTypes
<1>6. outcome[next] = "none" /\ requested[next] = {} /\ gone[next] = {}
  BY <1>2 DEF PinInv, PoolTrue
<1>7. PoolTrue'
  <2>1. \A v \in Workers \ {w} : (Busy(v)' <=> Busy(v)) /\ job'[v] = job[v]
    BY <1>4 DEF Busy
  <2>2. ~Busy(w) /\ Busy(w)' /\ job'[w] = next
    BY <1>1, <1>3, <1>4 DEF Busy
  <2>3. \A v \in Workers : Busy(v) => job[v] \in 1 .. next - 1 /\ outcome[job[v]] = "none"
    BY DEF PinInv, PoolTrue
  <2>4. \A v \in Workers : Busy(v)' => stage' = "run" /\ job'[v] \in 1 .. next' - 1
                                         /\ outcome'[job'[v]] = "none"
    BY <1>1, <1>2, <1>6, <2>1, <2>2, <2>3
  <2>5. \A u, v \in Workers : Busy(u)' /\ Busy(v)' /\ job'[u] = job'[v] => u = v
    <3>1. \A v \in Workers : Busy(v) => job[v] # next
      BY <1>2, <2>3
    <3> QED
      BY <2>1, <2>2, <3>1 DEF PinInv, PoolTrue
  <2>6. \A i \in DOMAIN tasks : i < next' /\ outcome[i] = "none" =>
          \E v \in Workers : Busy(v)' /\ job'[v] = i
    <3> SUFFICES ASSUME NEW i \in DOMAIN tasks, i < next', outcome[i] = "none"
                 PROVE  \E v \in Workers : Busy(v)' /\ job'[v] = i
      OBVIOUS
    <3>1. CASE i = next
      BY <2>2, <3>1
    <3>2. CASE i # next
      <4>1. i < next
        BY <1>1, <1>2, <3>2
      <4>2. PICK v \in Workers : Busy(v) /\ job[v] = i
        BY <4>1 DEF PinInv, PoolTrue
      <4> QED
        BY <2>1, <2>2, <4>2
    <3> QED
      BY <3>1, <3>2
  <2>7. \A i \in DOMAIN tasks : i >= next' =>
          outcome[i] = "none" /\ requested[i] = {} /\ gone[i] = {}
    BY <1>1, <1>2 DEF PinInv, PoolTrue
  <2> QED
    BY <1>1, <2>4, <2>5, <2>6, <2>7 DEF PinInv, PoolTrue
<1>8. ServiceGrows
  BY <1>1, NoServiceChange
<1>9. \A v \in Workers : WorkTrue(v)'
  <2>1. ASSUME NEW v \in Workers \ {w} PROVE WorkTrue(v)'
    <3>1. Busy(v) => job[v] \in DOMAIN tasks
      BY TasksAreItems DEF PinInv, PinTypes, PoolTrue
    <3> QED
      BY <1>1, <1>4, <1>8, <3>1, WorkStays DEF PinInv
  <2>2. WorkTrue(w)'
    <3>1. tries[w] = 0
      BY <1>1 DEF PinInv, WorkTrue
    <3>2. CASE op = "pin"
      <4>1. /\ IsFiniteSet(requested'[next]) /\ Cardinality(requested'[next]) <= 0
            /\ gone'[next] = {} /\ 0 < MaxAttempts /\ tries'[w] = 0
        BY <1>1, <1>6, <3>1, FS_EmptySet, PinAssumption
      <4>2. at'[w] = "add" /\ job'[w] = next /\ op' = "pin"
        BY <1>1, <1>3, <1>4, <3>2
      <4> QED
        BY <4>1, <4>2 DEF WorkTrue
    <3>3. CASE op = "unpin_all"
      <4>1. tasks[next].req \in Requests /\ of[tasks[next].req] = tasks[next].cid
        BY <1>2, <3>3 DEF PinInv, ListingTrue
      <4> QED
        BY <1>1, <1>3, <1>4, <1>6, <3>3, <4>1 DEF WorkTrue, Found
    <3>4. CASE op \in {"unpin", "update", "status"}
      BY <1>1, <1>3, <1>4, <1>6, <3>4 DEF WorkTrue, Fresh
    <3> QED
      BY <1>3, <3>2, <3>3, <3>4
  <2> QED
    BY <2>1, <2>2
<1>10. \A i \in DOMAIN tasks : TaskTrue(i)'
  BY <1>1, <1>8, TaskStays DEF PinInv
<1> QED
  BY <1>1, <1>5, <1>7, <1>9, <1>10 DEF PinInv, ListingTrue, ErrorTrue

LEMMA WorkKeeps ==
  ASSUME PinInv, NEW w \in Workers, Pin!Work(w)
  PROVE  PinInv'
BY TakeKeeps, CallFailsKeeps, AddKeeps, WaitKeeps, WatchKeeps, FindKeeps, DeleteKeeps,
   ReplaceKeeps DEF Pin!Work

(* The steps of the service and of its other clients.                      *)
LEMMA ServiceKeeps ==
  ASSUME PinInv, NEW r \in Requests,
         Pin!Settle(r) \/ Pin!OtherRemoves(r) \/ \E c \in Cids : Pin!OtherAdds(r, c)
  PROVE  PinInv'
<1>1. UNCHANGED <<op, flags, stage, tasks, next, outcome, firstError, at, job, req, tries,
                  requested, gone>>
  BY DEF Pin!Settle, Pin!OtherRemoves, Pin!OtherAdds, Pin!command, Pin!workers, Pin!reports
<1>2. CASE Pin!Settle(r)
  <2>1. ServiceGrows
    BY <1>2, NoServiceChange DEF Pin!Settle
  <2> QED
    BY <1>1, <2>1, ServiceStays
<1>3. CASE Pin!OtherRemoves(r)
  <2>1. ServiceGrows
    BY <1>3, RequestGone DEF Pin!OtherRemoves
  <2> QED
    BY <1>1, <2>1, ServiceStays
<1>4. ASSUME NEW c \in Cids, Pin!OtherAdds(r, c) PROVE PinInv'
  <2>1. r \in Requests \ Pin!Issued /\ Pin!Put(r, c) /\ live' = (live \ {}) \cup {r}
    BY <1>4 DEF Pin!OtherAdds
  <2>2. ServiceGrows
    BY <2>1, NewRequest
  <2> QED
    BY <1>1, <2>2, ServiceStays
<1> QED
  BY <1>2, <1>3, <1>4

(* A list of items is submitted: every task is new and no worker has one.  *)
LEMMA SubmitKeeps ==
  ASSUME PinInv, stage \in {"idle", "list"}, NEW items \in Seq(Items), Pin!Submit(items),
         op' \in {"pin", "unpin", "unpin_all", "status", "update"},
         stage' \in {"idle", "count", "prompt", "list", "run"},
         stage' # "run" => Len(items) = 0,
         op' = "unpin_all" =>
           \A i \in DOMAIN items : items[i].req \in Requests /\ of[items[i].req] = items[i].cid,
         UNCHANGED <<of, live, at, job, req, tries>>
  PROVE  PinInv'
<1>1. /\ tasks' = items /\ next' = 1 /\ firstError' = FALSE
      /\ outcome' = [i \in DOMAIN items |-> "none"]
      /\ requested' = [i \in DOMAIN items |-> {}] /\ gone' = [i \in DOMAIN items |-> {}]
  BY DEF Pin!Submit
<1>2. Len(items) \in Nat /\ DOMAIN items = 1 .. Len(items)
  OBVIOUS
<1>3. \A w \in Workers : at[w] = "idle" /\ tries[w] = 0
  BY DEF PinInv, PoolTrue, WorkTrue, Busy
<1>4. PinTypes'
  <2>1. /\ outcome' \in [DOMAIN tasks' -> {"none", "ok", "failed"}]
        /\ requested' \in [DOMAIN tasks' -> SUBSET Requests]
        /\ gone' \in [DOMAIN tasks' -> SUBSET Requests]
        /\ tasks' \in Seq(Items)
    BY <1>1, <1>2
  <2>2. Pin!Issued' = Pin!Issued
    BY DEF Pin!Issued
  <2>3. next' \in 1 .. Len(tasks') + 1
    BY <1>1, <1>2
  <2>4. firstError' \in BOOLEAN
    BY <1>1, Zenon
  <2> QED
    BY <2>1, <2>2, <2>3, <2>4 DEF PinInv, PinTypes
<1>5. PoolTrue'
  BY <1>1, <1>2, <1>3 DEF PoolTrue, Busy
<1>6. ListingTrue' /\ ErrorTrue'
  BY <1>1 DEF ListingTrue, ErrorTrue
<1>7. \A w \in Workers : WorkTrue(w)'
  BY <1>3 DEF WorkTrue
<1>8. \A i \in DOMAIN items : TaskTrue(i)'
  <2>1. IsFiniteSet({}) /\ Cardinality({}) = 0
    BY FS_EmptySet
  <2> QED
    BY <1>1, <2>1, PinAssumption DEF TaskTrue, TaskSane
<1> QED
  BY <1>1, <1>4, <1>5, <1>6, <1>7, <1>8 DEF PinInv

LEMMA InvokeKeeps ==
  ASSUME PinInv, NEW o \in {"pin", "unpin", "update", "status"},
         NEW b \in UNION {[1 .. n -> Cids] : n \in 1 .. MaxBatch}, NEW fs, Pin!Invoke(o, b, fs)
  PROVE  PinInv'
<1>1. PICK n \in 1 .. MaxBatch : b \in [1 .. n -> Cids]
  OBVIOUS
<1> DEFINE items == [i \in DOMAIN b |-> Pin!Item(b[i], NoRequest)]
<1>2. items \in Seq(Items)
  <2>1. n \in Nat /\ items \in [1 .. n -> Items]
    BY <1>1, PinAssumption DEF Items, Pin!Item
  <2> QED
    BY <2>1
<1>3. Pin!Submit(items)
  BY DEF Pin!Invoke
<1>4. /\ stage = "idle" /\ op' = o /\ stage' = "run"
      /\ UNCHANGED <<of, live, at, job, req, tries>>
  BY DEF Pin!Invoke, Pin!service, Pin!workers
<1> HIDE DEF items
<1> QED
  BY <1>2, <1>3, <1>4, SubmitKeeps

LEMMA InvokeAllKeeps ==
  ASSUME PinInv, NEW fs, Pin!InvokeAll(fs)
  PROVE  PinInv'
<1>1. << >> \in Seq(Items) /\ Len(<< >>) = 0 /\ DOMAIN << >> = {}
  OBVIOUS
<1>2. /\ stage = "idle" /\ op' = "unpin_all" /\ stage' = "count" /\ Pin!Submit(<< >>)
      /\ UNCHANGED <<of, live, at, job, req, tries>>
  BY DEF Pin!InvokeAll, Pin!service, Pin!workers
<1> QED
  BY <1>1, <1>2, SubmitKeeps

(* The listing of `unpin all' is a sequence of the live requests.          *)
LEMMA ListingIsLive ==
  ASSUME PinInv
  PROVE  Pin!SetToSeq(Pin!Matching) \in [1 .. Cardinality(Pin!Matching) -> Pin!Matching]
         /\ Cardinality(Pin!Matching) \in Nat
<1>1. IsFiniteSet(Pin!Matching)
  <2>1. Pin!Matching \subseteq live
    BY DEF Pin!Matching
  <2> QED
    BY <2>1, FS_Subset DEF PinInv
<1>2. /\ Cardinality(Pin!Matching) \in Nat
      /\ ExistsBijection(1 .. Cardinality(Pin!Matching), Pin!Matching)
  BY <1>1, FS_CardinalityType
<1>3. \E f \in [1 .. Cardinality(Pin!Matching) -> Pin!Matching] : Pin!IsInjective(f)
  BY <1>2 DEF ExistsBijection, Bijection, Injection, IsInjective, Pin!IsInjective
<1> QED
  BY <1>2, <1>3, SamePinCardinality DEF Pin!SetToSeq

LEMMA ListKeeps ==
  ASSUME PinInv, Pin!ListPins
  PROVE  PinInv'
<1>1. PICK found : /\ found = Pin!SetToSeq(Pin!Matching)
                   /\ Pin!Submit([i \in DOMAIN found |-> Pin!Item(of[found[i]], found[i])])
                   /\ stage = "list" /\ stage' = "run" /\ op' = op
                   /\ UNCHANGED <<of, live, at, job, req, tries>>
  BY DEF Pin!ListPins, Pin!service, Pin!workers
<1>2. PICK n \in Nat : found \in [1 .. n -> Pin!Matching]
  BY <1>1, ListingIsLive
<1>3. \A i \in 1 .. n : found[i] \in Requests /\ of[found[i]] \in Cids
  BY <1>2 DEF PinInv, PinTypes, Pin!Matching, Pin!Issued
<1> DEFINE items == [i \in DOMAIN found |-> Pin!Item(of[found[i]], found[i])]
<1>4. /\ items \in [1 .. n -> Items]
      /\ \A i \in DOMAIN items : items[i].req \in Requests /\ of[items[i].req] = items[i].cid
  BY <1>2, <1>3 DEF Items, Pin!Item
<1>5. items \in Seq(Items)
  BY <1>4
<1>6. op \in {"pin", "unpin", "unpin_all", "status", "update"}
  BY <1>1 DEF PinInv, PinTypes, PoolTrue
<1>7. Pin!Submit(items)
  BY <1>1
<1> HIDE DEF items
<1> QED
  BY <1>1, <1>4, <1>5, <1>6, <1>7, SubmitKeeps

(* The other steps of a command change its stage only.                     *)
LEMMA StageKeeps ==
  ASSUME PinInv, stage # "idle", stage' \in {"idle", "prompt", "list"},
         stage = "run" => next > Len(tasks) /\ \A w \in Workers : ~Busy(w),
         UNCHANGED <<of, live, op, flags, tasks, next, outcome, firstError, at, job, req, tries,
                     requested, gone>>
  PROVE  PinInv'
<1>1. ServiceGrows
  BY NoServiceChange
<1>2. Len(tasks) \in Nat /\ next \in 1 .. Len(tasks) + 1
  BY TasksAreItems DEF PinInv, PinTypes
<1>3. next = Len(tasks) + 1 /\ \A w \in Workers : ~Busy(w)
  <2>1. CASE stage = "run"
    BY <1>2, <2>1
  <2>2. CASE stage # "run"
    BY <2>2 DEF PinInv, PoolTrue
  <2> QED
    BY <2>1, <2>2
<1>4. PinTypes' /\ ErrorTrue' /\ IsFiniteSet(live') /\ ListingTrue'
  BY DEF PinInv, PinTypes, ErrorTrue, Pin!Issued, ListingTrue
<1>5. PoolTrue'
  BY <1>3 DEF PinInv, PoolTrue, Busy
<1>6. \A w \in Workers : WorkTrue(w)'
  BY <1>1, <1>3, WorkStays DEF PinInv
<1>7. \A i \in DOMAIN tasks : TaskTrue(i)'
  BY <1>1, TaskStays DEF PinInv
<1> QED
  BY <1>4, <1>5, <1>6, <1>7 DEF PinInv

LEMMA ProceedKeeps ==
  ASSUME PinInv, Pin!Proceed
  PROVE  PinInv'
<1>1. CASE Pin!ListPins
  BY <1>1, ListKeeps
<1>2. CASE Pin!CountPins
  <2>1. stage' \in {"idle", "prompt", "list"}
    BY <1>2, Zenon DEF Pin!CountPins
  <2> QED
    BY <1>2, <2>1, StageKeeps DEF Pin!CountPins, Pin!service, Pin!workers, Pin!reports
<1>3. CASE Pin!TypeCount
  BY <1>3, StageKeeps DEF Pin!TypeCount, Pin!service, Pin!workers, Pin!reports
<1>4. CASE Pin!AbortCommand
  BY <1>4, StageKeeps DEF Pin!AbortCommand, Pin!service, Pin!workers, Pin!reports
<1>5. CASE Pin!Report
  BY <1>5, StageKeeps DEF Pin!Report, Pin!service, Pin!workers, Pin!reports, Busy
<1> QED
  BY <1>1, <1>2, <1>3, <1>4, <1>5 DEF Pin!Proceed

LEMMA PinStarts == Pin!PinInit => PinInv
<1> SUFFICES ASSUME Pin!PinInit PROVE PinInv
  OBVIOUS
<1>1. /\ of = [r \in Requests |-> NoCid] /\ live = {} /\ op = "none" /\ stage = "idle"
      /\ tasks = << >> /\ next = 1 /\ outcome = << >> /\ firstError = FALSE
      /\ requested = << >> /\ gone = << >>
      /\ at = [w \in Workers |-> "idle"] /\ job = [w \in Workers |-> 0]
      /\ req = [w \in Workers |-> NoRequest] /\ tries = [w \in Workers |-> 0]
  BY DEF Pin!PinInit
<1>2. tasks \in Seq(Items) /\ Len(tasks) = 0 /\ DOMAIN tasks = {}
  BY <1>1
<1>3. outcome \in [DOMAIN tasks -> {"none", "ok", "failed"}]
      /\ requested \in [DOMAIN tasks -> SUBSET Requests]
      /\ gone \in [DOMAIN tasks -> SUBSET Requests]
  BY <1>1
<1>4. PinTypes
  <2>1. of \in [Requests -> Cids \cup {NoCid}] /\ live \subseteq Pin!Issued
    BY <1>1
  <2>2. /\ at \in [Workers -> Points] /\ job \in [Workers -> Nat]
        /\ req \in [Workers -> Requests \cup {NoRequest}] /\ tries \in [Workers -> Nat]
    BY <1>1 DEF Points
  <2>3. next \in 1 .. Len(tasks) + 1
    BY <1>1, <1>2
  <2>4. firstError \in BOOLEAN
    BY <1>1, Zenon
  <2> QED
    BY <1>1, <1>2, <1>3, <2>1, <2>2, <2>3, <2>4 DEF PinTypes
<1>5. PoolTrue /\ ListingTrue /\ ErrorTrue
  BY <1>1, <1>2 DEF PoolTrue, ListingTrue, ErrorTrue, Busy
<1>6. \A w \in Workers : WorkTrue(w)
  BY <1>1 DEF WorkTrue
<1> QED
  BY <1>1, <1>2, <1>4, <1>5, <1>6, FS_EmptySet DEF PinInv

LEMMA PinStep ==
  ASSUME PinInv, Pin!PinNext
  PROVE  PinInv'
BY WorkKeeps, ServiceKeeps, InvokeKeeps, InvokeAllKeeps, ProceedKeeps DEF Pin!PinNext

LEMMA PinReports == PinInv => Pin!ReportIsTrue
<1> SUFFICES ASSUME PinInv PROVE Pin!ReportIsTrue
  OBVIOUS
<1>1. Pin!Complete
  <2> SUFFICES ASSUME stage = "idle"
               PROVE  /\ \A w \in Workers : at[w] = "idle"
                      /\ \A i \in DOMAIN tasks : outcome[i] # "none"
    BY DEF Pin!Complete
  <2>1. \A w \in Workers : ~Busy(w)
    BY DEF PinInv, PoolTrue
  <2>2. \A i \in DOMAIN tasks : i < next
    BY TasksAreItems DEF PinInv, PinTypes, PoolTrue
  <2> QED
    BY <2>1, <2>2 DEF PinInv, PoolTrue, Busy
<1>2. \A i \in DOMAIN tasks :
        /\ outcome[i] = "ok" => Pin!Done(i)
        /\ \A r \in gone[i] : Pin!Asked(i, r)
        /\ Pin!Cardinality(gone[i]) <= 1 /\ Pin!Cardinality(requested[i]) <= MaxAttempts
  BY DoneMeans, SamePinCardinality DEF PinInv, TaskTrue, TaskSane
<1> QED
  BY <1>1, <1>2 DEF PinInv, ErrorTrue, Pin!ReportIsTrue

-----------------------------------------------------------------------------
(* BenchRun: two clean-ups of one list, which share the result.            *)
BenchTypes ==
  /\ listed \subseteq Uploads /\ pinned \subseteq Uploads /\ iter \in Uploads
  /\ failed \subseteq Uploads
  /\ main \in {"flags", "upload", "poll", "append", "cleanup", "record", "returned"}
  /\ signalled \in {"waiting", "cleanup", "record", "returned"}
  /\ attempt \in [Cleaners -> Nat]
  /\ batch \in [Cleaners -> [ok : SUBSET Uploads, bad : SUBSET Uploads]]
  /\ slice \in [Cleaners -> [list : {"none", "unpinned", "failed"}, to : SUBSET Uploads]]

(* An upload that may still appear on the server is not in the list, and a  *)
(* clean-up removes from the list only.                                    *)
ListPast ==
  /\ main = "flags" => listed = {}
  /\ main \in {"upload", "poll", "append"} => \A i \in listed : i < iter
  /\ unpinned \subseteq listed \ pinned
  /\ \A c \in Cleaners :
       /\ batch[c].ok \subseteq listed \ pinned
       /\ slice[c].list = "unpinned" => slice[c].to \subseteq listed \ pinned

(* The clean-up of Run begins when the list is whole: what its last batch   *)
(* did not remove is all that is left of the list, and as long as nobody    *)
(* else writes the report, it is in it or about to be.                      *)
CleanupWhole ==
  /\ \A c \in Cleaners : slice[c].list # "none" => Stage(c) = "record"
  /\ attempt["run"] > 0 => main \in {"cleanup", "record", "returned"}
  /\ attempt["run"] > 0 /\ signalled = "waiting" =>
       \A i \in listed \cap pinned :
         \/ i \in batch["run"].bad \/ i \in failed
         \/ slice["run"].list = "failed" /\ i \in slice["run"].to
  /\ signalled = "waiting" /\ slice["run"].list = "failed" => failed \subseteq slice["run"].to
  /\ main = "returned" => batch["run"].bad = {} /\ slice["run"].list = "none"
  /\ process = "exited" => main = "returned"
  /\ process = "running" => main # "returned"

Untouched ==
  /\ unpinned = {} /\ failed = {}
  /\ \A c \in Cleaners : /\ attempt[c] = 0 /\ batch[c].ok = {} /\ batch[c].bad = {}
                         /\ slice[c].list = "none"
NothingTouched ==
  /\ noCleanup \/ main = "flags" => Untouched
  /\ main = "flags" => signalled = "waiting"

BenchInv == BenchTypes /\ ListPast /\ CleanupWhole /\ NothingTouched

LEMMA BenchStarts == BenchInit => BenchInv
<1> SUFFICES ASSUME BenchInit PROVE BenchInv
  OBVIOUS
<1>1. /\ attempt = [c \in Cleaners |-> 0] /\ "run" \in Cleaners
      /\ batch = [c \in Cleaners |-> [ok |-> {}, bad |-> {}]]
      /\ slice = [c \in Cleaners |-> [list |-> "none", to |-> {}]]
  BY DEF BenchInit, NoBatch, NoSlice, Cleaners
<1>2. BenchTypes
  BY <1>1, BenchBounds DEF BenchInit, BenchTypes, Uploads
<1>3. ListPast /\ CleanupWhole /\ NothingTouched
  BY <1>1 DEF BenchInit, ListPast, CleanupWhole, NothingTouched, Untouched
<1> QED
  BY <1>2, <1>3 DEF BenchInv

(* Run reads its options, uploads and polls.                               *)
LEMMA RunKeeps ==
  ASSUME BenchInv, ReadOptions \/ Upload \/ Poll \/ AppendCID
  PROVE  BenchInv'
<1> USE DEF BenchInv, BenchTypes, ListPast, CleanupWhole, NothingTouched, Untouched, Running,
            report
<1>0. /\ iter \in Nat /\ Iterations \in Nat /\ iter <= Iterations
      /\ Cleaners = {"run", "signal"} /\ Stage("run") = main /\ Stage("signal") = signalled
      /\ Stage("run")' = main' /\ Stage("signal")' = signalled'
  BY BenchBounds DEF Uploads, Cleaners, Stage
<1>1. CASE ReadOptions
  BY <1>0, <1>1 DEF ReadOptions
<1>2. CASE Upload
  <2>1. iter' \in Uploads /\ iter <= iter' /\ pinned' \subseteq pinned \cup {iter}
        /\ main' \in {"poll", "upload", "cleanup"} /\ iter \notin listed
        /\ (main' = "upload" => iter' = iter + 1) /\ (main' # "upload" => iter' = iter)
    BY <1>0, <1>2 DEF Upload, NextIteration, Uploads
  <2>2. ~(attempt["run"] > 0) /\ process = "running" /\ main = "upload"
        /\ slice["run"].list = "none"
        /\ UNCHANGED <<noCleanup, expired, listed, signalled, attempt, batch, slice, unpinned,
                       failed, process>>
    BY <1>0, <1>2 DEF Upload
  <2>3. BenchTypes'
    BY <2>1, <2>2
  <2>4. ListPast'
    BY <1>0, <2>1, <2>2 DEF Uploads
  <2>5. CleanupWhole' /\ NothingTouched'
    BY <1>0, <2>1, <2>2
  <2> QED
    BY <2>3, <2>4, <2>5
<1>3. CASE Poll
  BY <1>0, <1>3 DEF Poll
<1>4. CASE AppendCID
  <2>1. iter' \in Uploads /\ main' \in {"upload", "cleanup"} /\ listed' = listed \cup {iter}
        /\ (main' = "upload" => iter' = iter + 1)
    BY <1>0, <1>4 DEF AppendCID, NextIteration, Uploads
  <2>2. ~(attempt["run"] > 0) /\ process = "running" /\ main = "append"
        /\ slice["run"].list = "none"
        /\ UNCHANGED <<pinned, noCleanup, expired, signalled, attempt, batch, slice, unpinned,
                       failed, process>>
    BY <1>0, <1>4 DEF AppendCID
  <2>3. ListPast'
    BY <1>0, <2>1, <2>2 DEF Uploads
  <2> QED
    BY <1>0, <2>1, <2>2, <2>3
<1> QED
  BY <1>1, <1>2, <1>3, <1>4

(* The steps of either clean-up.                                            *)
LEMMA AttemptKeeps ==
  ASSUME BenchInv, NEW c \in Cleaners, Attempt(c)
  PROVE  BenchInv'
<1>1. PICK removed \in SUBSET (listed \cap pinned) : \E ok \in SUBSET removed :
        /\ pinned' = pinned \ removed
        /\ batch' = [batch EXCEPT ![c] = [ok |-> ok, bad |-> listed \ ok]]
  BY DEF Attempt
<1>2. PICK ok \in SUBSET removed :
        /\ pinned' = pinned \ removed
        /\ batch' = [batch EXCEPT ![c] = [ok |-> ok, bad |-> listed \ ok]]
  BY <1>1
<1>3. /\ process = "running" /\ Stage(c) = "cleanup" /\ ~noCleanup
      /\ attempt' = [attempt EXCEPT ![c] = @ + 1]
      /\ UNCHANGED <<noCleanup, expired, main, iter, listed, signalled, slice, unpinned, failed,
                     process>>
  BY DEF Attempt, Running, report
<1>4. /\ main \notin {"flags", "returned"} /\ (c = "run" => main = "cleanup")
      /\ (c # "run" => signalled = "cleanup")
  BY <1>3 DEF BenchInv, CleanupWhole, NothingTouched, Stage
<1>5. /\ Cleaners = {"run", "signal"} /\ batch'[c].ok = ok /\ batch'[c].bad = listed \ ok
      /\ \A d \in Cleaners \ {c} : batch'[d] = batch[d] /\ attempt'[d] = attempt[d]
      /\ \A d \in Cleaners : Stage(d)' = Stage(d)
  BY <1>2, <1>3 DEF BenchInv, BenchTypes, Cleaners, Stage
<1>6. BenchTypes'
  <2>1. ok \subseteq Uploads /\ listed \ ok \subseteq Uploads
    BY DEF BenchInv, BenchTypes
  <2> QED
    BY <1>2, <1>3, <2>1 DEF BenchInv, BenchTypes
<1>7. ListPast'
  <2>1. \A d \in Cleaners : batch'[d].ok \subseteq listed \ pinned'
    BY <1>2, <1>5 DEF BenchInv, ListPast
  <2> QED
    BY <1>2, <1>3, <2>1 DEF BenchInv, ListPast
<1>8. CleanupWhole'
  <2>1. CASE c = "run"
    BY <1>2, <1>3, <1>4, <1>5, <2>1 DEF BenchInv, CleanupWhole
  <2>2. CASE c # "run"
    BY <1>2, <1>3, <1>4, <1>5, <2>2 DEF BenchInv, CleanupWhole
  <2> QED
    BY <2>1, <2>2
<1>9. NothingTouched'
  BY <1>3, <1>4 DEF NothingTouched
<1> QED
  BY <1>6, <1>7, <1>8, <1>9 DEF BenchInv

LEMMA EndAttemptsKeeps ==
  ASSUME BenchInv, NEW c \in Cleaners, EndAttempts(c)
  PROVE  BenchInv'
<1>1. /\ process = "running" /\ Stage(c) = "cleanup" /\ GoTo(c, "record")
      /\ UNCHANGED <<pinned, noCleanup, expired, iter, listed, attempt, batch, slice, unpinned,
                     failed, process>>
  BY DEF EndAttempts, Running, report
<1>2. /\ main # "flags" /\ "run" \in Cleaners
      /\ \/ c = "run" /\ main = "cleanup" /\ main' = "record" /\ signalled' = signalled
         \/ c # "run" /\ main' = main /\ signalled = "cleanup" /\ signalled' = "record"
  BY <1>1 DEF BenchInv, NothingTouched, Stage, GoTo, Cleaners
<1>3. \A d \in Cleaners : Stage(d)' = IF d = c THEN "record" ELSE Stage(d)
  BY <1>2 DEF Stage, Cleaners
<1> QED
  BY <1>1, <1>2, <1>3
     DEF BenchInv, BenchTypes, ListPast, CleanupWhole, NothingTouched, Untouched

LEMMA ReadReportKeeps ==
  ASSUME BenchInv, NEW c \in Cleaners, ReadReport(c)
  PROVE  BenchInv'
<1>1. PICK i \in batch[c].ok \cup batch[c].bad :
        /\ slice' = [slice EXCEPT ![c] = Record(c, i)]
        /\ batch' = [batch EXCEPT ![c] = [ok |-> @.ok \ {i}, bad |-> @.bad \ {i}]]
  BY DEF ReadReport
<1>2. /\ process = "running" /\ Stage(c) = "record" /\ slice[c] = NoSlice
      /\ UNCHANGED <<pinned, noCleanup, expired, main, iter, listed, signalled, attempt,
                     unpinned, failed, process>>
  BY DEF ReadReport, Running
<1>3. /\ Cleaners = {"run", "signal"} /\ \A d \in Cleaners : Stage(d)' = Stage(d)
      /\ main # "flags" /\ ~noCleanup /\ (c = "run" => main = "record")
      /\ (c # "run" => signalled = "record")
  BY <1>1, <1>2 DEF BenchInv, NothingTouched, Untouched, Stage, Cleaners
<1>4. /\ batch'[c].ok = batch[c].ok \ {i} /\ batch'[c].bad = batch[c].bad \ {i}
      /\ slice'[c] = Record(c, i) /\ batch[c].ok \subseteq Uploads /\ i \in Uploads
      /\ \A d \in Cleaners \ {c} : batch'[d] = batch[d] /\ slice'[d] = slice[d]
  BY <1>1 DEF BenchInv, BenchTypes
<1>5. \/ i \in batch[c].ok /\ slice'[c].list = "unpinned" /\ slice'[c].to = unpinned \cup {i}
      \/ i \notin batch[c].ok /\ slice'[c].list = "failed" /\ slice'[c].to = failed \cup {i}
  BY <1>4 DEF Record
<1>6. BenchTypes'
  <2>1. unpinned \subseteq Uploads /\ slice'[c].to \subseteq Uploads
        /\ slice'[c] \in [list : {"none", "unpinned", "failed"}, to : SUBSET Uploads]
    BY <1>1, <1>4 DEF BenchInv, BenchTypes, ListPast, Record
  <2>2. batch'[c] \in [ok : SUBSET Uploads, bad : SUBSET Uploads]
    BY <1>1 DEF BenchInv, BenchTypes
  <2> QED
    BY <1>1, <1>2, <2>1, <2>2 DEF BenchInv, BenchTypes
<1>7. ListPast'
  BY <1>2, <1>3, <1>4, <1>5 DEF BenchInv, ListPast
<1>8. CleanupWhole'
  <2>1. CASE c = "run"
    <3>1. signalled = "waiting" /\ batch[c].ok = {} => i \in batch[c].bad
      BY <1>1
    <3>2. NoSlice.list = "none"
      BY DEF NoSlice
    <3>3. i \in batch[c].ok => i \notin pinned
      BY DEF BenchInv, ListPast
    <3> QED
      BY <1>2, <1>3, <1>4, <1>5, <2>1, <3>1, <3>2, <3>3 DEF BenchInv, CleanupWhole
  <2>2. CASE c # "run"
    BY <1>2, <1>3, <1>4, <1>5, <2>2 DEF BenchInv, CleanupWhole
  <2> QED
    BY <2>1, <2>2
<1>9. NothingTouched'
  BY <1>2, <1>3 DEF NothingTouched
<1> QED
  BY <1>6, <1>7, <1>8, <1>9 DEF BenchInv

LEMMA WriteReportKeeps ==
  ASSUME BenchInv, NEW c \in Cleaners, WriteReport(c)
  PROVE  BenchInv'
<1>1. /\ process = "running" /\ Stage(c) = "record" /\ slice[c].list # "none"
      /\ \/ slice[c].list = "unpinned" /\ unpinned' = slice[c].to /\ failed' = failed
         \/ slice[c].list = "failed" /\ failed' = slice[c].to /\ unpinned' = unpinned
      /\ slice' = [slice EXCEPT ![c] = NoSlice]
      /\ UNCHANGED <<pinned, noCleanup, expired, main, iter, listed, signalled, attempt, batch,
                     process>>
  BY DEF WriteReport, Running
<1>2. /\ Cleaners = {"run", "signal"} /\ \A d \in Cleaners : Stage(d)' = Stage(d)
      /\ main # "flags" /\ ~noCleanup /\ (c = "run" => main = "record")
      /\ (c # "run" => signalled = "record")
  BY <1>1 DEF BenchInv, NothingTouched, Untouched, Stage, Cleaners
<1>3. /\ slice[c].to \subseteq Uploads /\ NoSlice.list = "none"
      /\ NoSlice \in [list : {"none", "unpinned", "failed"}, to : SUBSET Uploads]
      /\ slice'[c] = NoSlice /\ \A d \in Cleaners \ {c} : slice'[d] = slice[d]
  BY <1>1 DEF BenchInv, BenchTypes, NoSlice
<1>4. BenchTypes'
  BY <1>1, <1>3 DEF BenchInv, BenchTypes
<1>5. ListPast'
  BY <1>1, <1>2, <1>3 DEF BenchInv, ListPast
<1>6. CleanupWhole'
  <2>1. CASE c = "run"
    BY <1>1, <1>2, <1>3, <2>1 DEF BenchInv, CleanupWhole
  <2>2. CASE c # "run"
    BY <1>1, <1>2, <1>3, <2>2 DEF BenchInv, CleanupWhole
  <2> QED
    BY <2>1, <2>2
<1>7. NothingTouched'
  BY <1>1, <1>2 DEF NothingTouched
<1> QED
  BY <1>4, <1>5, <1>6, <1>7 DEF BenchInv

LEMMA LeaveKeeps ==
  ASSUME BenchInv, NEW c \in Cleaners, Leave(c)
  PROVE  BenchInv'
<1>1. /\ Stage(c) = "record" /\ slice[c] = NoSlice /\ batch[c].bad = {}
      /\ GoTo(c, "returned") /\ process' = IF c = "run" THEN "exited" ELSE "killed"
      /\ UNCHANGED <<pinned, noCleanup, expired, iter, listed, attempt, batch, slice, unpinned,
                     failed>>
  BY DEF Leave, report
<1>2. /\ main # "flags" /\ Cleaners = {"run", "signal"} /\ slice[c].list = "none"
      /\ \/ c = "run" /\ main = "record" /\ main' = "returned" /\ signalled' = signalled
         \/ c # "run" /\ main' = main /\ signalled = "record" /\ signalled' = "returned"
  BY <1>1 DEF BenchInv, NothingTouched, Stage, GoTo, Cleaners, NoSlice
<1>3. \A d \in Cleaners : Stage(d)' = IF d = c THEN "returned" ELSE Stage(d)
  BY <1>2 DEF Stage
<1> QED
  BY <1>1, <1>2, <1>3
     DEF BenchInv, BenchTypes, ListPast, CleanupWhole, NothingTouched, Untouched

LEMMA BenchStep ==
  ASSUME BenchInv, BenchNext
  PROVE  BenchInv'
<1>1. CASE Expire \/ Interrupt \/ Killed \/ WildRead
  BY <1>1 DEF Expire, Interrupt, Killed, WildRead, Running, BenchInv, BenchTypes, ListPast,
              CleanupWhole, NothingTouched, Untouched, Stage, Cleaners, report
<1> QED
  BY <1>1, RunKeeps, AttemptKeeps, EndAttemptsKeeps, ReadReportKeeps, WriteReportKeeps,
     LeaveKeeps DEF BenchNext, Progress, Cleanup

LEMMA BenchReports == BenchInv => CleanupReportIsTrue
<1> SUFFICES ASSUME BenchInv PROVE CleanupReportIsTrue
  OBVIOUS
<1>1. unpinned \cap pinned = {}
  BY DEF BenchInv, ListPast
<1>2. process = "exited" /\ attempt["run"] > 0 /\ signalled = "waiting" =>
        listed \cap pinned \subseteq failed
  BY DEF BenchInv, CleanupWhole
<1>3. noCleanup => unpinned \cup failed = {} /\ attempt = [c \in Cleaners |-> 0]
  BY DEF BenchInv, BenchTypes, NothingTouched, Untouched
<1> QED
  BY <1>1, <1>2, <1>3 DEF CleanupReportIsTrue

-----------------------------------------------------------------------------
(* VaultSetup: creates one at a time, restores and failures.               *)
SetupTypes ==
  /\ {seedFile, restoring} \subseteq Creates \cup {NoVault}
  /\ approved \subseteq Creates
  /\ doing \in [Creates -> Setup!Ended \cup {"seed", "save", "approve", "state", "register",
                                             "show", "remove"}]

(* One create runs.  Its file is empty when it is about to write it, and    *)
(* holds its phrase from there to its removal, which follows the showing.  *)
OneCreate == \A c, d \in Creates : c \in Setup!Running /\ d \in Setup!Running => c = d
FileHolds ==
  \A c \in Creates :
    /\ doing[c] = "save" => seedFile = NoVault
    /\ doing[c] \in {"approve", "state", "register", "show", "remove"} => seedFile = c
    /\ doing[c] = "remove" => c \in shown

(* A restore works on a vault whose phrase is at hand.                     *)
RestoreHolds == restoring # NoVault => restoring \in shown \/ seedFile = restoring

SetupInv == SetupTypes /\ OneCreate /\ FileHolds /\ RestoreHolds /\ Setup!SeedIsSafe

LEMMA SetupStarts == Setup!SetupInit => SetupInv
BY SetupAssumption
   DEF Setup!SetupInit, SetupInv, SetupTypes, OneCreate, FileHolds, RestoreHolds,
       Setup!SeedIsSafe, Setup!Ended, Setup!Running

LEMMA NoneRuns ==
  ASSUME Setup!Cardinality(Setup!Running) < 1
  PROVE  Setup!Running = {}
<1>1. Setup!Running \subseteq Creates
  BY DEF Setup!Running
<1>2. IsFiniteSet(Setup!Running)
  BY <1>1, SetupAssumption, FS_Subset
<1>3. Cardinality(Setup!Running) \in Nat /\ Cardinality(Setup!Running) < 1
  <2>1. \A S : Setup!Cardinality(S) = Cardinality(S)
    BY DEF Setup!Cardinality, Cardinality
  <2> QED
    BY <1>2, <2>1, FS_CardinalityType
<1> QED
  BY <1>2, <1>3, FS_EmptySet

(* A create that takes a step was the only one and stays the only one.     *)
LEMMA OthersWait ==
  ASSUME SetupInv, NEW c \in Creates, NEW to, doing' = [doing EXCEPT ![c] = to],
         c \in Setup!Running \/ Setup!Running = {}
  PROVE  /\ OneCreate' /\ doing'[c] = to
         /\ \A d \in Creates \ {c} : doing'[d] = doing[d] /\ doing[d] \in Setup!Ended
BY DEF SetupInv, SetupTypes, OneCreate, Setup!Running

LEMMA SetupStep ==
  ASSUME SetupInv, Setup!SetupNext
  PROVE  SetupInv'
<1> USE SetupAssumption
<1>1. ASSUME NEW c \in Creates, Setup!CreateStep(c) \/ Setup!FailCreate(c) PROVE SetupInv'
  <2>1. CASE Setup!StartCreate(c)
    <3>1. Setup!Running = {} /\ UNCHANGED <<seedFile, approved, shown, restoring>>
      BY <2>1, NoneRuns DEF Setup!StartCreate
    <3>2. PICK to \in {"seed", "failed"} : doing' = [doing EXCEPT ![c] = to]
      BY <2>1 DEF Setup!StartCreate, Setup!Goes
    <3>3. /\ OneCreate' /\ doing'[c] = to
          /\ \A d \in Creates \ {c} : doing'[d] = doing[d] /\ doing[d] \in Setup!Ended
      BY <3>1, <3>2, OthersWait
    <3> QED
      BY <3>1, <3>2, <3>3
         DEF SetupInv, SetupTypes, FileHolds, RestoreHolds, Setup!SeedIsSafe, Setup!Ended
  <2>2. ASSUME NEW from \in {"seed", "save", "approve", "state", "register", "show", "remove"},
               NEW to \in {"save", "approve", "state", "register", "show", "remove", "done",
                           "failed"},
               doing[c] = from, doing' = [doing EXCEPT ![c] = to]
        PROVE  /\ SetupTypes => doing' \in [Creates -> Setup!Ended \cup
                 {"seed", "save", "approve", "state", "register", "show", "remove"}]
               /\ OneCreate' /\ doing'[c] = to
               /\ \A d \in Creates \ {c} : doing'[d] = doing[d] /\ doing[d] \in Setup!Ended
    <3>1. c \in Setup!Running
      BY <2>2 DEF Setup!Running, Setup!Ended
    <3> QED
      BY <2>2, <3>1, OthersWait DEF SetupTypes, Setup!Ended
  <2> USE DEF SetupInv, SetupTypes, FileHolds, RestoreHolds, Setup!SeedIsSafe, Setup!Goes
  <2>3. CASE Setup!CheckSeed(c)
    BY <2>2, <2>3 DEF Setup!CheckSeed, Setup!Ended
  <2>4. CASE Setup!SaveSeed(c)
    BY <2>2, <2>4 DEF Setup!SaveSeed, Setup!Ended
  <2>5. CASE Setup!Approve(c)
    BY <2>2, <2>5 DEF Setup!Approve, Setup!Ended
  <2>6. CASE Setup!SaveState(c) \/ Setup!AddProfile(c)
    BY <2>2, <2>6 DEF Setup!SaveState, Setup!AddProfile, Setup!Ended
  <2>7. CASE Setup!ShowSeed(c)
    BY <2>2, <2>7 DEF Setup!ShowSeed, Setup!Ended
  <2>8. CASE Setup!FailCreate(c)
    <3>1. doing[c] \in {"seed", "save", "approve", "state", "register", "show", "remove"}
      BY <2>8 DEF Setup!FailCreate, Setup!Running
    <3> QED
      BY <2>2, <2>8, <3>1 DEF Setup!FailCreate, Setup!Ended
  <2> QED
    BY <1>1, <2>1, <2>3, <2>4, <2>5, <2>6, <2>7, <2>8 DEF Setup!CreateStep
<1>2. ASSUME NEW c \in Creates, Setup!StartRestore(c) PROVE SetupInv'
  BY <1>2 DEF Setup!StartRestore, SetupInv, SetupTypes, OneCreate, FileHolds, RestoreHolds,
              Setup!SeedIsSafe, Setup!Running
<1>3. CASE Setup!EndRestore \/ Setup!ForgetProfile
  BY <1>3 DEF Setup!EndRestore, Setup!ForgetProfile, SetupInv, SetupTypes, OneCreate, FileHolds,
              RestoreHolds, Setup!SeedIsSafe, Setup!Running
<1> QED
  BY <1>1, <1>2, <1>3 DEF Setup!SetupNext

-----------------------------------------------------------------------------
(* WatchLoops: what was shown last when a watch says that all is terminal. *)
WatchInv ==
  /\ DOMAIN display \subseteq WatchItems /\ itemState \in [WatchItems -> Watch!ItemStates]
  /\ Watch!TerminalWatchIsFinal

LEMMA WatchStarts == Watch!WatchInit => WatchInv
BY DEF Watch!WatchInit, WatchInv, Watch!TerminalWatchIsFinal, Watch!ItemStates, Watch!Waiting

(* The rows of a list without colours are terminal when its items settled. *)
LEMMA TerminalRows ==
  ASSUME WatchInv, ~watchLine.colour, NEW items \in SUBSET Watch!Existing,
         Watch!allTerminal(Watch!PinRows(items))
  PROVE  \A i \in items : Watch!IsSettled(itemState[i])
<1> SUFFICES ASSUME NEW i \in items PROVE Watch!IsSettled(itemState[i])
  OBVIOUS
<1> DEFINE row == [item |-> i, columns |-> 4, status |-> Watch!formatStatusWithColor(itemState[i])]
<1>1. Watch!formatStatusWithColor(itemState[i]) = [text |-> itemState[i], plain |-> TRUE]
  BY DEF Watch!formatStatusWithColor
<1>2. row \in Watch!PinRows(items)
  BY DEF Watch!PinRows
<1>3. row.columns = 4 /\ row.status = [text |-> itemState[i], plain |-> TRUE]
  BY <1>1
<1>4. ~(row.columns >= 3 /\ row.status.plain /\ row.status.text \in Watch!Waiting)
  BY <1>2 DEF Watch!allTerminal
<1>5. itemState[i] \notin Watch!Waiting
  BY <1>3, <1>4
<1>6. i \in WatchItems /\ itemState[i] # "absent"
  BY DEF Watch!Existing
<1> QED
  BY <1>5, <1>6 DEF WatchInv, Watch!ItemStates, Watch!IsSettled

LEMMA WatchStep ==
  ASSUME WatchInv, Watch!WatchNext
  PROVE  WatchInv'
<1> USE DEF WatchInv, Watch!TerminalWatchIsFinal, Watch!ColourBlind, Watch!End, Watch!Show,
            Watch!Running
<1>1. ASSUME NEW items \in SUBSET Watch!Existing, NEW rows, watchLine.command \in {"list", "ssl"},
             Watch!Running, Watch!watchLoop(items, rows),
             watchLine.command = "list" => rows = Watch!PinRows(items)
      PROVE  WatchInv'
  <2>1. /\ display' = [i \in items |-> itemState[i]] /\ ended = ""
        /\ UNCHANGED <<watchLine, itemState>>
    BY <1>1 DEF Watch!watchLoop
  <2>2. ended' = "terminal" => Watch!allTerminal(rows)
    <3>1. CASE rows = {}
      BY <1>1, <3>1 DEF Watch!watchLoop
    <3>2. CASE rows # {} /\ Watch!allTerminal(rows)
      BY <3>2
    <3>3. CASE rows # {} /\ ~Watch!allTerminal(rows)
      BY <1>1, <3>3 DEF Watch!watchLoop
    <3> QED
      BY <3>1, <3>2, <3>3
  <2>3. ended' = "terminal" /\ Watch!ColourBlind => \A i \in items : Watch!IsSettled(itemState[i])
    BY <1>1, <2>2, TerminalRows
  <2> QED
    BY <2>1, <2>3 DEF Watch!Existing, Watch!IsSettled
<1>2. CASE Watch!ListWatch
  <2>1. /\ Watch!Filtered \in SUBSET Watch!Existing /\ watchLine.command \in {"list", "ssl"}
        /\ Watch!Running /\ Watch!watchLoop(Watch!Filtered, Watch!PinRows(Watch!Filtered))
    BY <1>2 DEF Watch!ListWatch, Watch!Filtered
  <2> HIDE DEF WatchInv, Watch!Running
  <2> QED
    BY <1>1, <2>1
<1>3. CASE Watch!SSLWatch
  <2>1. PICK i \in Watch!Existing : Watch!watchLoop({i}, Watch!SSLRows(i))
    BY <1>3 DEF Watch!SSLWatch
  <2>2. {i} \in SUBSET Watch!Existing /\ watchLine.command = "ssl" /\ Watch!Running
    BY <1>3 DEF Watch!SSLWatch
  <2> HIDE DEF WatchInv, Watch!Running
  <2> QED
    BY <1>1, <2>1, <2>2
<1>4. ASSUME NEW polled, Watch!OperationsWatch(polled) PROVE WatchInv'
  <2>1. Watch!PageOf(Watch!Listed) \subseteq WatchItems
    BY DEF Watch!PageOf, Watch!Listed, Watch!Filtered, Watch!Existing
  <2> QED
    BY <1>4, <2>1 DEF Watch!OperationsWatch, Watch!allOperationsSettled, Watch!IsSettled
<1>5. CASE Watch!OperationWatch
  BY <1>5 DEF Watch!OperationWatch, Watch!IsSettled
<1>6. CASE Watch!OperationsOnce \/ Watch!ListOnce
  <2>1. Watch!PageOf(Watch!Listed) \subseteq WatchItems /\ Watch!Filtered \subseteq WatchItems
    BY DEF Watch!PageOf, Watch!Listed, Watch!Filtered, Watch!Existing
  <2> QED
    BY <1>6, <2>1 DEF Watch!OperationsOnce, Watch!ListOnce
<1>7. CASE Watch!StatusOf \/ Watch!StatusTable
  <2>1. UNCHANGED itemState /\ ended' # "terminal"
    BY <1>7 DEF Watch!StatusOf, Watch!StatusTable, Watch!lookupOperation
  <2>2. display' = display \/ \E items \in SUBSET WatchItems : Watch!Show(items)
    <3>1. CASE Watch!StatusTable
      BY <3>1 DEF Watch!StatusTable, Watch!Existing
    <3>2. CASE Watch!StatusOf /\ 1 \notin Watch!Existing
      BY <3>2 DEF Watch!StatusOf, Watch!lookupOperation
    <3>3. CASE Watch!StatusOf /\ 1 \in Watch!Existing
      <4>1. {1} \in SUBSET WatchItems
        BY <3>3 DEF Watch!Existing
      <4> QED
        BY <3>3, <4>1 DEF Watch!StatusOf
    <3> QED
      BY <1>7, <3>1, <3>2, <3>3
  <2> QED
    BY <2>1, <2>2
<1>8. CASE Watch!RequireAuthenticated \/ Watch!Interrupted
  BY <1>8 DEF Watch!RequireAuthenticated, Watch!Interrupted
<1>9. ASSUME NEW i \in WatchItems, Watch!Advance(i) \/ Watch!Appear(i) PROVE WatchInv'
  <2>1. /\ itemState' \in [WatchItems -> Watch!ItemStates]
        /\ \A k \in WatchItems \ {i} : itemState'[k] = itemState[k]
        /\ UNCHANGED <<watchLine, display, ended>>
        /\ itemState[i] \in Watch!Waiting \/ ended = ""
    BY <1>9 DEF Watch!Advance, Watch!Appear, Watch!ItemStates, Watch!Waiting
  <2>2. ended = "terminal" /\ Watch!ColourBlind => i \notin DOMAIN display
    BY <2>1 DEF Watch!IsSettled, Watch!Waiting
  <2> QED
    BY <2>1, <2>2 DEF Watch!IsSettled
<1> QED
  BY <1>2, <1>3, <1>4, <1>5, <1>6, <1>7, <1>8, <1>9 DEF Watch!WatchNext, Watch!Poll

-----------------------------------------------------------------------------
(* VaultCopy: copies, flushes and IPFS transfers of one command.           *)
CopyKinds == {"none", "put", "copy", "get", "flush", "download", "upload"}
CopyPoints ==
  {"start", "end", "check", "store", "flush", "read", "rename", "state", "sync", "confirm",
   "exists", "create", "ipfsWrite", "send", "operation", "verify", "meta"}

CopyTypes ==
  /\ object \in [Vaults -> Copy!Data \ {"part"}]
  /\ status \in [Vaults -> {"none", "staged", "flushing", "ok", "lost"}]
  /\ stamp \in [Vaults -> Vaults \cup {NoVaultName}]
  /\ default \in Vaults /\ file \in Copy!Data /\ held \in Copy!Data \ {"part"}
  /\ copy.kind \in CopyKinds /\ copying \in CopyPoints
  /\ copying # "start" => copy.from \in Vaults /\ copy.to \in Vaults

(* Each step belongs to some kinds of commands, and a command answers when  *)
(* it ends.                                                                *)
StepOfKind ==
  /\ answer # "none" => copying = "end"
  /\ copying = "start" => copy.kind = "none"
  /\ copying \in {"check", "store", "flush"} => copy.kind \in {"put", "copy"} /\ held # "none"
  /\ copying = "read" => copy.kind \in {"copy", "get"}
  /\ copying = "rename" => copy.kind = "get"
  /\ copying \in {"state", "sync", "confirm"} => copy.kind = "flush" /\ ~Copy!Has("flush")
  /\ copying = "exists" => copy.kind \in {"get", "download"}
  /\ copying \in {"create", "ipfsWrite"} => copy.kind = "download"
  /\ copying \in {"send", "operation", "verify", "meta"} => copy.kind = "upload"

(* A path with a state has bytes, which no other client replaces; those of  *)
(* a copy stay what it wrote until it answers.                             *)
BytesStay ==
  /\ \A v \in Vaults : status[v] # "none" => object[v] # "none"
  /\ answer \in {"ok", "staged"} /\ copy.kind \in {"put", "copy"} => held # "none"
  /\ copying = "flush" => /\ object[copy.to] = held /\ Copy!Has("flush")
                          /\ Copy!Has("authority") => stamp[copy.to] = copy.to

(* An upload is queued once it was sent, and pinned once it was verified.  *)
UploadKnown ==
  /\ copying = "operation" => upload # "none"
  /\ copying = "verify" => upload = "pinned"
  /\ copying = "meta" /\ Copy!Has("wait") => upload = "pinned"

CopyInv ==
  /\ CopyTypes /\ StepOfKind /\ BytesStay /\ UploadKnown /\ Copy!CopyAnswerIsTrue
  /\ upload \in {"none", "queued", "pinned", "failed"}

LEMMA CopyStarts == Copy!CopyInit => CopyInv
BY DEF Copy!CopyInit, Copy!NoCopy, CopyInv, CopyTypes, CopyKinds, CopyPoints, StepOfKind,
       BytesStay, UploadKnown, Copy!CopyAnswerIsTrue, Copy!Data

(* Other writers, flushers, the pin service and other programs.            *)
LEMMA CopyWorld ==
  ASSUME CopyInv,
         (\E v \in Vaults : Copy!OtherPuts(v) \/ Copy!Flusher(v) \/ Copy!UseProfile(v))
           \/ Copy!OtherCreates \/ Copy!PinSettles
  PROVE  CopyInv'
<1> USE DEF CopyInv, CopyTypes, StepOfKind, BytesStay, UploadKnown, Copy!CopyAnswerIsTrue,
            Copy!Data, Copy!Has
<1>1. ASSUME NEW v \in Vaults, Copy!OtherPuts(v) PROVE CopyInv'
  BY <1>1 DEF Copy!OtherPuts, Copy!PutBytes, Copy!ipfsState
<1>2. ASSUME NEW v \in Vaults, Copy!Flusher(v) PROVE CopyInv'
  BY <1>2 DEF Copy!Flusher, Copy!Flushed, Copy!ipfsState
<1>3. ASSUME NEW v \in Vaults, Copy!UseProfile(v) PROVE CopyInv'
  BY <1>3 DEF Copy!UseProfile, Copy!vaultState, Copy!ipfsState
<1>4. CASE Copy!OtherCreates
  BY <1>4 DEF Copy!OtherCreates, Copy!vaultState, Copy!ipfsState
<1>5. CASE Copy!PinSettles
  BY <1>5 DEF Copy!PinSettles, Copy!vaultState
<1> QED
  BY <1>1, <1>2, <1>3, <1>4, <1>5

LEMMA CopyFirst ==
  /\ Copy!First("put") = "check" /\ Copy!First("copy") = "read"
  /\ Copy!First("get") = "exists" /\ Copy!First("flush") = "state"
  /\ Copy!First("download") = "exists" /\ Copy!First("upload") = "send"
BY DEF Copy!First

LEMMA CopyCommandStarts ==
  ASSUME CopyInv, NEW v \in Vaults, NEW w \in Vaults,
         NEW k \in CopyKinds \ {"none"}, NEW fs \in SUBSET {"force", "flush", "authority", "wait", "meta"},
         k = "flush" => fs = {}, Copy!Start(k, v, w, fs)
  PROVE  CopyInv'
<1>1. /\ copying = "start" /\ copy.kind = "none" /\ answer = "none" /\ file # "part"
      /\ copy' = [kind |-> k, from |-> v, to |-> w, flags |-> fs]
      /\ copying' = Copy!First(k) /\ held' = IF k \in {"put", "upload"} THEN "mine" ELSE "none"
      /\ UNCHANGED <<object, status, stamp, default, file, answer, upload>>
  BY DEF Copy!Start, CopyInv, StepOfKind, Copy!CopyAnswerIsTrue, Copy!vaultState, Copy!ipfsState
<1>2. /\ copy'.kind = k /\ copy'.from = v /\ copy'.to = w /\ copy'.flags = fs
  BY <1>1
<1>3. CopyTypes' /\ StepOfKind' /\ copying' \notin {"flush", "operation", "verify", "meta"}
  BY <1>1, <1>2, CopyFirst DEF CopyInv, CopyTypes, StepOfKind, CopyKinds, CopyPoints, Copy!Data,
                               Copy!Has
<1> QED
  BY <1>1, <1>3 DEF CopyInv, BytesStay, UploadKnown, Copy!CopyAnswerIsTrue, Copy!Has

(* The steps of a put, of a copy between vaults and of a flush.            *)
LEMMA FlushEffect ==
  ASSUME CopyTypes, NEW v \in Vaults, Copy!FlushPath(v)
  PROVE  /\ status' \in [Vaults -> {"none", "staged", "flushing", "ok", "lost"}]
         /\ \A u \in Vaults : (status'[u] # "none" <=> status[u] # "none")
                              /\ (status[u] = "ok" => status'[u] = "ok")
BY DEF CopyTypes, Copy!FlushPath

LEMMA ConfirmAnswer ==
  ASSUME Copy!FlushConfirm, CopyTypes
  PROVE  /\ copying' = "end" /\ answer' # "staged" /\ answer' # "none"
         /\ answer' = "ok" => status[copy.to] = "ok"
         /\ UNCHANGED <<object, status, stamp, default, file, copy, held, upload>>
<1>1. CASE status[copy.to] = "ok"
  BY <1>1 DEF Copy!FlushConfirm, Copy!Finish, Copy!vaultState, Copy!ipfsState
<1>2. CASE status[copy.to] = "none"
  BY <1>2 DEF Copy!FlushConfirm, Copy!Finish, Copy!vaultState, Copy!ipfsState
<1>3. CASE status[copy.to] \notin {"ok", "none"}
  BY <1>3 DEF Copy!FlushConfirm, Copy!Finish, Copy!vaultState, Copy!ipfsState
<1> QED
  BY <1>1, <1>2, <1>3

LEMMA StoreSteps ==
  ASSUME CopyInv,
         Copy!CheckObject \/ Copy!Store \/ Copy!StoreDurably \/ Copy!FlushCopy
           \/ Copy!FlushState \/ Copy!FlushSync \/ Copy!FlushConfirm
  PROVE  CopyInv'
<1> USE DEF CopyInv, CopyTypes, StepOfKind, BytesStay, UploadKnown, Copy!CopyAnswerIsTrue,
            Copy!Data, Copy!Has, CopyPoints, Copy!Finish, Copy!To
<1>1. CASE Copy!CheckObject
  BY <1>1 DEF Copy!CheckObject, Copy!vaultState, Copy!ipfsState
<1>2. CASE Copy!Store
  BY <1>2 DEF Copy!Store, Copy!PutBytes, Copy!StampOf, Copy!ipfsState
<1>3. CASE Copy!StoreDurably
  BY <1>3 DEF Copy!StoreDurably, Copy!StampOf, Copy!ipfsState
<1>4. CASE Copy!FlushCopy
  BY <1>4, FlushEffect DEF Copy!FlushCopy, Copy!ipfsState
<1>5. CASE Copy!FlushState
  BY <1>5 DEF Copy!FlushState, Copy!vaultState, Copy!ipfsState
<1>6. CASE Copy!FlushSync
  BY <1>6, FlushEffect DEF Copy!FlushSync, Copy!ipfsState
<1>7. CASE Copy!FlushConfirm
  BY <1>7, ConfirmAnswer DEF Copy!FlushConfirm
<1> QED
  BY <1>1, <1>2, <1>3, <1>4, <1>5, <1>6, <1>7

(* The steps of a get, of IPFS downloads and uploads, and every failure.   *)
LEMMA TransferSteps ==
  ASSUME CopyInv,
         Copy!CheckFile \/ Copy!ReadObject \/ Copy!Rename \/ Copy!CreateFile \/ Copy!WriteFile
           \/ Copy!Send \/ Copy!WaitOperation \/ Copy!Verify \/ Copy!SetMeta \/ Copy!AbortCopy
  PROVE  CopyInv'
<1> USE DEF CopyInv, CopyTypes, StepOfKind, BytesStay, UploadKnown, Copy!CopyAnswerIsTrue,
            Copy!Data, Copy!Has, CopyPoints, Copy!Finish, Copy!To, Copy!vaultState
<1>1. CASE Copy!CheckFile
  BY <1>1 DEF Copy!CheckFile, Copy!ipfsState
<1>2. CASE Copy!ReadObject
  BY <1>2 DEF Copy!ReadObject, Copy!ipfsState
<1>3. CASE Copy!Rename
  BY <1>3 DEF Copy!Rename, Copy!ipfsState
<1>4. CASE Copy!CreateFile
  BY <1>4 DEF Copy!CreateFile, Copy!ipfsState
<1>5. CASE Copy!WriteFile
  BY <1>5 DEF Copy!WriteFile, Copy!ipfsState
<1>6. CASE Copy!Send
  BY <1>6 DEF Copy!Send
<1>7. CASE Copy!WaitOperation
  BY <1>7 DEF Copy!WaitOperation, Copy!ipfsState
<1>8. CASE Copy!Verify
  BY <1>8 DEF Copy!Verify
<1>9. CASE Copy!SetMeta
  BY <1>9 DEF Copy!SetMeta, Copy!ipfsState
<1>10. CASE Copy!AbortCopy
  BY <1>10 DEF Copy!AbortCopy, Copy!ipfsState
<1> QED
  BY <1>1, <1>2, <1>3, <1>4, <1>5, <1>6, <1>7, <1>8, <1>9, <1>10

LEMMA CopyStepKeeps ==
  ASSUME CopyInv, Copy!CopyNext
  PROVE  CopyInv'
<1>1. ASSUME NEW v \in Vaults, NEW w \in Vaults, NEW fs \in SUBSET {"force", "flush", "authority"},
             Copy!Start("put", v, v, fs) \/ (v # w /\ Copy!Start("copy", v, w, fs))
      PROVE  CopyInv'
  BY <1>1, CopyCommandStarts DEF CopyKinds
<1>2. ASSUME NEW v \in Vaults, NEW fs \in SUBSET {"force"},
             Copy!Start("get", v, v, fs) \/ Copy!Start("download", v, v, fs)
               \/ Copy!Start("flush", v, v, {})
      PROVE  CopyInv'
  BY <1>2, CopyCommandStarts DEF CopyKinds
<1>3. ASSUME NEW v \in Vaults, NEW fs \in SUBSET {"wait", "meta"}, Copy!Start("upload", v, v, fs)
      PROVE  CopyInv'
  BY <1>3, CopyCommandStarts DEF CopyKinds
<1> QED
  BY <1>1, <1>2, <1>3, CopyWorld, StoreSteps, TransferSteps DEF Copy!CopyNext, Copy!CopyStep

-----------------------------------------------------------------------------
(* Credentials: uploads that wait and downloads to a file.                 *)
UploadWaits ==
  stageOf = "meta" /\ invocation.wait => remotePin = "pinned" \/ takenAway

(* The file is as it was found until a download writes to it, and a file    *)
(* that was there is written to with --force only.                         *)
FileWhole ==
  invocation.name = "download" =>
    /\ stageOf \notin {"copy", "ended"} => localFile.now = localFile.found
    /\ stageOf = "copy" /\ localFile.found = "old" => invocation.force

CredInv ==
  /\ UploadWaits /\ FileWhole /\ Cred!TransferIsTrue
  /\ localFile \in [found : {"absent", "old"}, now : {"absent", "old", "partial", "new"}]
  /\ stageOf = "copy" => invocation.name = "download"

LEMMA CredStarts == Cred!CredInit => CredInv
<1> SUFFICES ASSUME Cred!CredInit PROVE CredInv
  OBVIOUS
<1>1. stageOf = "idle" /\ localFile = [found |-> "absent", now |-> "absent"]
  BY DEF Cred!CredInit
<1> QED
  BY <1>1 DEF CredInv, UploadWaits, FileWhole, Cred!TransferIsTrue

(* The service and another client.                                         *)
LEMMA CredWorld ==
  ASSUME CredInv, Cred!OperationSettles \/ Cred!PinProgress \/ Cred!OtherClientRemoves
  PROVE  CredInv'
<1>1. /\ UNCHANGED <<invocation, stageOf, localFile, verdict>>
      /\ remotePin = "pinned" \/ takenAway => remotePin' = "pinned" \/ takenAway'
  BY DEF Cred!OperationSettles, Cred!PinProgress, Cred!OtherClientRemoves
<1> QED
  BY <1>1 DEF CredInv, UploadWaits, FileWhole, Cred!TransferIsTrue

(* A step that neither uploads nor downloads.                              *)
LEMMA OtherCommands ==
  ASSUME CredInv, UNCHANGED <<invocation, localFile>>,
         invocation.name \notin {"upload", "download"}, stageOf' \notin {"copy", "meta"}
  PROVE  CredInv'
BY DEF CredInv, UploadWaits, FileWhole, Cred!TransferIsTrue

(* A step that ends without success, or goes on before anything was done.  *)
LEMMA EndsOrGoesOn ==
  ASSUME CredInv, UNCHANGED <<invocation, localFile>>,
         stageOf \notin {"copy", "ended"},
         \/ stageOf' = "ended" /\ verdict' # "ok"
         \/ stageOf' \notin {"copy", "meta", "ended"}
  PROVE  CredInv'
BY DEF CredInv, UploadWaits, FileWhole, Cred!TransferIsTrue

LEMMA CredUpload ==
  ASSUME CredInv,
         Cred!resolveUploadInput \/ Cred!handleUpload \/ Cred!Upload \/ Cred!waitForPin
           \/ Cred!waitForOperation \/ Cred!verifyPin \/ Cred!updateUploadMetadata
           \/ Cred!WaitCutShort
  PROVE  CredInv'
<1> USE DEF Cred!In, Cred!GoesTo, Cred!Ends
<1>1. CASE \/ Cred!resolveUploadInput \/ Cred!handleUpload \/ Cred!waitForPin
           \/ Cred!waitForOperation \/ Cred!WaitCutShort
  <2>1. /\ UNCHANGED <<invocation, localFile>> /\ stageOf \notin {"copy", "ended"}
        /\ \/ stageOf' = "ended" /\ verdict' # "ok"
           \/ stageOf' \notin {"copy", "meta", "ended"}
    BY <1>1 DEF Cred!resolveUploadInput, Cred!handleUpload, Cred!waitForPin,
                Cred!waitForOperation, Cred!WaitCutShort
  <2> QED
    BY <2>1, EndsOrGoesOn
<1>2. CASE Cred!Upload
  <2>1. /\ UNCHANGED <<invocation, localFile>> /\ stageOf = "upload"
        /\ \/ stageOf' = "ended" /\ verdict' # "ok"
           \/ stageOf' = IF invocation.wait THEN "find" ELSE "meta"
    <3>1. CASE Cred!UploadToken = Cred!NoToken
      BY <1>2, <3>1 DEF Cred!Upload
    <3>2. CASE Cred!UploadToken # Cred!NoToken
      <4>1. PICK t \in Cred!exchangeIfAPIKey(Cred!UploadToken) :
                   Cred!Ends("failed") \/ Cred!UploadTaken(t) \/ Cred!UploadSpurned(t)
        BY <1>2, <3>2 DEF Cred!Upload
      <4> QED
        BY <1>2, <4>1 DEF Cred!Upload, Cred!UploadTaken, Cred!UploadSpurned
    <3> QED
      BY <3>1, <3>2
  <2>2. invocation.name = "upload"
    BY <1>2 DEF Cred!Upload
  <2> QED
    BY <2>1, <2>2 DEF CredInv, UploadWaits, FileWhole, Cred!TransferIsTrue
<1>3. CASE Cred!verifyPin
  <2>1. /\ UNCHANGED <<invocation, localFile, remotePin, takenAway>>
        /\ stageOf = "verify" /\ invocation.name = "upload"
        /\ \/ stageOf' = "meta" /\ remotePin = "pinned"
           \/ stageOf' = "ended" /\ verdict' # "ok"
           \/ stageOf' = "verify"
    BY <1>3 DEF Cred!verifyPin, Cred!IsPinned, Cred!world
  <2> QED
    BY <2>1 DEF CredInv, UploadWaits, FileWhole, Cred!TransferIsTrue
<1>4. CASE Cred!updateUploadMetadata
  <2>1. /\ UNCHANGED <<invocation, localFile, remotePin, takenAway>>
        /\ stageOf = "meta" /\ invocation.name = "upload" /\ stageOf' = "ended"
    BY <1>4 DEF Cred!updateUploadMetadata, Cred!world
  <2> QED
    BY <2>1 DEF CredInv, UploadWaits, FileWhole, Cred!TransferIsTrue
<1> QED
  BY <1>1, <1>2, <1>3, <1>4

LEMMA CredDownload ==
  ASSUME CredInv,
         Cred!handleDownload \/ Cred!newSDKDownloadService \/ Cred!DownloadOpen \/ Cred!Download
  PROVE  CredInv'
<1> USE DEF Cred!In, Cred!GoesTo, Cred!Ends
<1>1. CASE Cred!handleDownload \/ Cred!newSDKDownloadService
  <2>1. /\ UNCHANGED <<invocation, localFile>> /\ stageOf \notin {"copy", "ended"}
        /\ \/ stageOf' = "ended" /\ verdict' # "ok"
           \/ stageOf' \notin {"copy", "meta", "ended"}
    BY <1>1 DEF Cred!handleDownload, Cred!newSDKDownloadService
  <2> QED
    BY <2>1, EndsOrGoesOn
<1>2. CASE Cred!DownloadOpen /\ UNCHANGED localFile
  <2>1. /\ UNCHANGED <<invocation, localFile>> /\ stageOf = "open"
        /\ \/ stageOf' = "ended" /\ verdict' # "ok"
           \/ stageOf' = "copy" /\ localFile'.now = "partial"
    BY <1>2 DEF Cred!DownloadOpen, CredInv
  <2>2. localFile.now # "partial"
    BY <1>2 DEF Cred!DownloadOpen, CredInv, FileWhole
  <2> QED
    BY <2>1, <2>2, EndsOrGoesOn
<1>3. CASE Cred!DownloadOpen /\ ~UNCHANGED localFile
  <2>1. /\ invocation' = invocation /\ invocation.name = "download" /\ stageOf' = "copy"
        /\ localFile' = [localFile EXCEPT !.now = "partial"]
        /\ localFile.found # "absent" => invocation.force
    BY <1>3 DEF Cred!DownloadOpen, Cred!FileInTheWay, Cred!Kept
  <2> QED
    BY <2>1 DEF CredInv, UploadWaits, FileWhole, Cred!TransferIsTrue
<1>4. CASE Cred!Download
  <2>1. /\ invocation' = invocation /\ invocation.name = "download"
        /\ stageOf = "copy" /\ stageOf' = "ended"
        /\ \/ localFile' = [localFile EXCEPT !.now = "new"] /\ verdict' = "ok"
           \/ localFile' = [localFile EXCEPT !.now = "absent"] /\ verdict' = "failed"
    BY <1>4 DEF Cred!Download, Cred!AfterBrokenCopy
  <2> QED
    BY <2>1 DEF CredInv, UploadWaits, FileWhole, Cred!TransferIsTrue
<1> QED
  BY <1>1, <1>2, <1>3, <1>4

LEMMA CredStep ==
  ASSUME CredInv, Cred!CredNext
  PROVE  CredInv'
<1> USE DEF Cred!In, Cred!GoesTo, Cred!Ends
<1>1. ASSUME NEW i \in TypedLines, Cred!newCommandContext(i) PROVE CredInv'
  <2>1. stageOf' = "start" /\ \E f \in {"absent", "old"} : localFile' = [found |-> f, now |-> f]
    BY <1>1 DEF Cred!newCommandContext
  <2>2. /\ localFile' \in [found : {"absent", "old"}, now : {"absent", "old", "partial", "new"}]
        /\ localFile'.now = localFile'.found
    BY <2>1
  <2> QED
    BY <2>1, <2>2 DEF CredInv, UploadWaits, FileWhole, Cred!TransferIsTrue
<1>2. CASE \/ Cred!CatalogueCommand \/ Cred!PinCommand \/ Cred!StatusCommand \/ Cred!BenchCommand
           \/ Cred!Cat \/ Cred!ListDirectory
  <2>1. /\ UNCHANGED <<invocation, localFile>> /\ stageOf' = "ended"
    BY <1>2 DEF Cred!CatalogueCommand, Cred!PinCommand, Cred!StatusCommand, Cred!BenchCommand,
                Cred!Cat, Cred!ListDirectory, Cred!listFileEntry, Cred!Kept
  <2>2. invocation.name \notin {"upload", "download"}
    <3>1. Cred!CatalogueCommand => invocation.name \notin {"upload", "download"}
      BY DEF Cred!CatalogueCommand, Cred!DomainToken
    <3> QED
      BY <1>2, <3>1 DEF Cred!PinCommand, Cred!StatusCommand, Cred!BenchCommand, Cred!Cat,
                        Cred!ListDirectory
  <2> QED
    BY <2>1, <2>2, OtherCommands
<1>3. CASE \/ Cred!saveAuthToken \/ Cred!authLogin \/ Cred!interactiveLogin
           \/ Cred!finishAuthLogin \/ Cred!authLogout \/ Cred!authStatus \/ Cred!register
           \/ Cred!setConfig \/ Cred!getConfig
  <2>1. /\ UNCHANGED <<invocation, localFile>> /\ stageOf' \in {"ended", "otp", "complete"}
        /\ invocation.name \notin {"upload", "download"}
    BY <1>3 DEF Cred!saveAuthToken, Cred!authLogin, Cred!interactiveLogin, Cred!finishAuthLogin,
                Cred!authLogout, Cred!authStatus, Cred!register, Cred!setConfig, Cred!getConfig
  <2> QED
    BY <2>1, OtherCommands
<1> QED
  BY <1>1, <1>2, <1>3, CredUpload, CredDownload, CredWorld DEF Cred!CredNext

-----------------------------------------------------------------------------
(* TerminalWizard: what a wizard's closing box announces.                  *)
TermTypes ==
  /\ term \in [kind : {"setup", "websites", "domains"}, at : 1 .. 8,
               ended : {"no", "completed", "failed"}, reset : BOOLEAN, installer : BOOLEAN]
  /\ term.kind = "setup" => term.at <= 5 /\ (~term.installer => term.at <= 4)
  /\ term.kind = "domains" => term.at <= 7
  /\ settings \in [token : BOOLEAN, endpoint : {"unset", "old", "new"}, secure : BOOLEAN]
  /\ listing \subseteq SiteIds

Drafts ==
  [cid : BOOLEAN, target : {"none", "ipfs", "ipns"}, domain : BOOLEAN, dns : BOOLEAN,
   site : {"none", "new"} \cup SiteIds, verdict : {"none", "invalid", "valid"},
   bound : {"none", "pending", "active"}, verified : {"none", "pending", "active"},
   tries : Nat, again : BOOLEAN,
   asked : {"none", "reset", "kept", "default", "https", "http"}]

Unchosen == {"none", "reset"}
Chosen ==
  /\ draft.asked = "default" => settings.secure
  /\ draft.asked \in {"http", "https"} =>
       settings.endpoint = "new" /\ settings.secure = (draft.asked = "https")

(* Where a wizard is tells what it has done: a setup has chosen after its   *)
(* second step, a website is made by the sixth, a domain bound by the fifth;*)
(* only the last step of `domains' repeats itself, and only the last of     *)
(* `websites' has a verdict.                                               *)
PlaceTells ==
  /\ term.kind = "setup" =>
       Chosen /\ (term.ended = "no" /\ term.at <= 2 => draft.asked \in Unchosen)
  /\ term.kind = "websites" => /\ term.ended = "no" /\ term.at <= 6 => made = 0
                               /\ term.at >= 7 => made = 1
  /\ term.kind = "domains" /\ term.at >= 6 => draft.site \in boundTo
  /\ draft.again => term.kind = "domains" /\ term.at = 7
  /\ draft.verdict # "none" => term.kind = "websites" /\ term.at = 8 /\ draft.dns

(* Everything is announced once nothing can change any more.               *)
AnnouncedLast ==
  /\ announced # {} => term.ended = "completed"
  /\ "verified" \in announced => draft.verified = "active" /\ draft.site \in boundTo
  /\ "validated" \in announced => draft.verdict = "valid"

TermInv == TermTypes /\ draft \in Drafts /\ PlaceTells /\ AnnouncedLast

LEMMA WizardSteps ==
  /\ Wizard!TermSteps["setup"] = <<"auth", "config", "completion", "tutorial", "mcp">>
  /\ Wizard!TermSteps["websites"] =
       <<"auth", "source", "target", "domain", "dns", "create", "setup", "validate">>
  /\ Wizard!TermSteps["domains"] =
       <<"auth", "website", "domain", "namespace", "bind", "delegation", "verify">>
BY DEF Wizard!TermSteps

(* The last step of a setup is the MCP step when there is an installer.    *)
AtLast ==
  \/ term.kind = "setup" /\ term.at = (IF term.installer THEN 5 ELSE 4)
  \/ term.kind = "websites" /\ term.at = 8
  \/ term.kind = "domains" /\ term.at = 7

LEMMA WizardLast ==
  ASSUME TermTypes
  PROVE  term.at = Wizard!LastStep <=> AtLast
<1>1. CASE term.kind = "setup" /\ ~term.installer
  BY <1>1 DEF Wizard!LastStep, AtLast
<1>2. CASE term.kind = "setup" /\ term.installer
  BY <1>2, WizardSteps DEF Wizard!LastStep, AtLast
<1>3. CASE term.kind = "websites"
  BY <1>3, WizardSteps DEF Wizard!LastStep, AtLast
<1>4. CASE term.kind = "domains"
  BY <1>4, WizardSteps DEF Wizard!LastStep, AtLast
<1> QED
  BY <1>1, <1>2, <1>3, <1>4 DEF TermTypes

LEMMA WizardPlaces ==
  ASSUME TermTypes
  PROVE  /\ Wizard!TermSteps[term.kind][term.at] = "auth" => term.at = 1
         /\ Wizard!Doing("setup", "config") => term.kind = "setup" /\ term.at = 2
         /\ \A s \in {"completion", "tutorial", "mcp"} :
              Wizard!Doing("setup", s) => term.kind = "setup" /\ term.at > 2
         /\ \A s \in {"source", "target", "domain", "dns"} :
              Wizard!Doing("websites", s) => term.kind = "websites" /\ term.at < 6
         /\ Wizard!Doing("websites", "create") => term.kind = "websites" /\ term.at = 6
         /\ Wizard!Doing("websites", "setup") => term.kind = "websites" /\ term.at = 7
         /\ Wizard!Doing("websites", "validate") => term.kind = "websites" /\ term.at = 8
         /\ \A s \in {"website", "domain", "namespace"} :
              Wizard!Doing("domains", s) => term.kind = "domains" /\ term.at < 5
         /\ Wizard!Doing("domains", "bind") => term.kind = "domains" /\ term.at = 5
         /\ Wizard!Doing("domains", "delegation") => term.kind = "domains" /\ term.at = 6
         /\ Wizard!Doing("domains", "verify") => term.kind = "domains" /\ term.at = 7
<1>1. CASE term.kind = "setup"
  <2>1. term.at \in 1 .. 5
    BY <1>1 DEF TermTypes
  <2> QED
    BY <1>1, <2>1, WizardSteps DEF Wizard!Doing
<1>2. CASE term.kind = "websites"
  <2>1. term.at \in 1 .. 8
    BY DEF TermTypes
  <2> QED
    BY <1>2, <2>1, WizardSteps DEF Wizard!Doing
<1>3. CASE term.kind = "domains"
  <2>1. term.at \in 1 .. 7
    BY <1>3 DEF TermTypes
  <2> QED
    BY <1>3, <2>1, WizardSteps DEF Wizard!Doing
<1> QED
  BY <1>1, <1>2, <1>3 DEF TermTypes

(* The runner takes the next step, repeats this one or completes.          *)
LEMMA WizardMoves ==
  ASSUME TermInv, term.ended = "no", NEW d \in Drafts, Wizard!Keep(d), UNCHANGED <<settings, listing>>
  PROVE  /\ draft' = d /\ draft' \in Drafts /\ TermTypes'
         /\ term'.kind = term.kind /\ term'.ended # "failed"
         /\ d.again => term' = term
         /\ ~d.again /\ AtLast => term'.at = term.at /\ term'.ended = "completed"
         /\ ~d.again /\ ~AtLast => term'.at = term.at + 1 /\ term'.ended = "no"
<1>1. /\ draft' = d
      /\ term' = IF d.again THEN term
                 ELSE IF AtLast THEN [term EXCEPT !.ended = "completed"]
                 ELSE [term EXCEPT !.at = @ + 1]
  BY WizardLast DEF TermInv, Wizard!Keep, Wizard!GoNext
<1>2. CASE d.again
  BY <1>1, <1>2 DEF TermInv, TermTypes
<1>3. CASE ~d.again /\ AtLast
  <2>1. term' = [term EXCEPT !.ended = "completed"]
    BY <1>1, <1>3
  <2> QED
    BY <1>1, <1>3, <2>1 DEF TermInv, TermTypes
<1>4. CASE ~d.again /\ ~AtLast
  <2>1. term' = [term EXCEPT !.at = term.at + 1]
    BY <1>1, <1>4
  <2>2. /\ term.at \in 1 .. 8
        /\ term.kind = "setup" => term.at < 5 /\ (~term.installer => term.at < 4)
        /\ term.kind = "websites" => term.at < 8
        /\ term.kind = "domains" => term.at < 7
        /\ term.kind \in {"setup", "websites", "domains"}
    BY <1>4 DEF TermInv, TermTypes, AtLast
  <2>3. term.at + 1 \in 1 .. 8
    BY <2>2
  <2> QED
    BY <1>1, <1>4, <2>1, <2>2, <2>3 DEF TermInv, TermTypes
<1> QED
  BY <1>2, <1>3, <1>4

LEMMA WizardStarts == Wizard!TermInit => TermInv
<1> SUFFICES ASSUME Wizard!TermInit PROVE TermInv
  OBVIOUS
<1>1. /\ term \in [kind : {"setup", "websites", "domains"}, at : {1}, ended : {"no"},
                   reset : BOOLEAN, installer : BOOLEAN]
      /\ settings \in [token : BOOLEAN, endpoint : {"unset", "old"}, secure : {FALSE}]
      /\ listing \subseteq SiteIds /\ made = 0 /\ announced = {}
  BY DEF Wizard!TermInit, Wizard!TermSteps
<1>2. /\ draft \in Drafts
      /\ draft.asked = "none" /\ draft.again = FALSE /\ draft.verdict = "none"
  BY DEF Wizard!TermInit, Wizard!EmptyDraft, Drafts
<1>3. term.at = 1 /\ term.ended = "no" /\ term.kind \in {"setup", "websites", "domains"}
  BY <1>1
<1>4. TermTypes
  <2>1. settings \in [token : BOOLEAN, endpoint : {"unset", "old", "new"}, secure : BOOLEAN]
    BY <1>1
  <2>2. term \in [kind : {"setup", "websites", "domains"}, at : 1 .. 8,
                  ended : {"no", "completed", "failed"}, reset : BOOLEAN, installer : BOOLEAN]
    BY <1>1
  <2> QED
    BY <1>1, <1>3, <2>1, <2>2 DEF TermTypes
<1>5. PlaceTells
  BY <1>1, <1>2, <1>3 DEF PlaceTells, Chosen, Unchosen
<1> QED
  BY <1>1, <1>2, <1>4, <1>5 DEF TermInv, AnnouncedLast

(* A step that collects an answer about nothing the invariant tells of.    *)
LEMMA PlainStep ==
  ASSUME TermInv, term.ended = "no", NEW d \in Drafts, Wizard!Keep(d),
         UNCHANGED <<settings, listing, made, boundTo, announced>>,
         d.asked = draft.asked, d.verdict = draft.verdict, ~d.again,
         term.kind = "websites" => term.at # 6 /\ (draft.verdict # "none" => d.dns = draft.dns),
         term.kind = "domains" => term.at # 5 /\ (term.at > 5 => d.site = draft.site)
  PROVE  TermInv'
<1>1. /\ draft' = d /\ draft' \in Drafts /\ TermTypes'
      /\ term'.kind = term.kind /\ term'.ended # "failed"
      /\ \/ AtLast /\ term'.at = term.at /\ term'.ended = "completed"
         \/ ~AtLast /\ term'.at = term.at + 1 /\ term'.ended = "no"
  BY WizardMoves
<1>2. term.at \in 1 .. 8 /\ term.kind \in {"setup", "websites", "domains"} /\ announced = {}
  BY DEF TermInv, TermTypes, AnnouncedLast
<1>3. PlaceTells'
  <2>1. CASE term.kind = "setup"
    <3>1. /\ draft'.asked = draft.asked /\ settings' = settings /\ Chosen
          /\ term'.ended = "no" /\ term'.at <= 2 => draft.asked \in Unchosen
      BY <1>1, <1>2, <2>1 DEF TermInv, PlaceTells
    <3>2. Chosen'
      BY <3>1 DEF Chosen
    <3>3. draft'.again = FALSE /\ draft'.verdict = "none"
      BY <1>1, <2>1 DEF TermInv, PlaceTells, Drafts
    <3> QED
      BY <1>1, <2>1, <3>1, <3>2, <3>3 DEF PlaceTells
  <2>2. CASE term.kind = "websites"
    BY <1>1, <1>2, <2>2 DEF TermInv, PlaceTells, AtLast
  <2>3. CASE term.kind = "domains"
    BY <1>1, <1>2, <2>3 DEF TermInv, PlaceTells, AtLast
  <2> QED
    BY <1>2, <2>1, <2>2, <2>3
<1> QED
  BY <1>1, <1>2, <1>3 DEF TermInv, AnnouncedLast

(* A wizard that fails keeps what it did.                                  *)
LEMMA FailedStep ==
  ASSUME TermInv, term.ended = "no", Wizard!Abort, UNCHANGED <<draft, listing, announced>>,
         settings' \in [token : BOOLEAN, endpoint : {"unset", "old", "new"}, secure : BOOLEAN],
         UNCHANGED settings \/ draft.asked \in Unchosen,
         \/ UNCHANGED made
         \/ term.kind = "websites" /\ term.at = 6
         \/ term.kind # "websites",
         boundTo \subseteq boundTo'
  PROVE  TermInv'
<1>1. /\ term' = [term EXCEPT !.ended = "failed"] /\ TermTypes' /\ announced = {}
      /\ term'.kind = term.kind /\ term'.at = term.at /\ term'.ended = "failed"
  BY DEF Wizard!Abort, TermInv, TermTypes, AnnouncedLast
<1>2. Chosen => Chosen'
  BY DEF Chosen, Unchosen
<1>3. PlaceTells'
  BY <1>1, <1>2 DEF TermInv, TermTypes, PlaceTells
<1> QED
  BY <1>1, <1>3 DEF TermInv, AnnouncedLast

LEMMA SetupSteps ==
  ASSUME TermInv, Wizard!Reset \/ Wizard!AuthStep \/ Wizard!ConfigStep
  PROVE  TermInv'
<1>1. term.ended = "no" /\ announced = {} /\ draft \in Drafts
  BY DEF Wizard!Reset, Wizard!AuthStep, Wizard!ConfigStep, Wizard!Doing, TermInv, AnnouncedLast
<1>2. CASE Wizard!Reset
  <2>1. /\ term' = [term EXCEPT !.reset = FALSE] /\ draft' = [draft EXCEPT !.asked = "reset"]
        /\ settings' = [token |-> FALSE, endpoint |-> "unset", secure |-> TRUE]
        /\ term.kind = "setup" /\ term.at = 1
        /\ UNCHANGED <<listing, made, boundTo, announced>>
    BY <1>2 DEF Wizard!Reset, Wizard!Portal
  <2>2. TermTypes'
    <3>1. settings' \in [token : BOOLEAN, endpoint : {"unset", "old", "new"}, secure : BOOLEAN]
      BY <2>1
    <3> QED
      BY <2>1, <3>1 DEF TermInv, TermTypes
  <2>3. /\ draft' \in Drafts /\ draft'.asked = "reset" /\ draft'.again = draft.again
        /\ draft'.verdict = draft.verdict
    BY <1>1, <2>1 DEF Drafts
  <2>4. term'.kind = "setup" /\ term'.at = 1
    BY <2>1 DEF TermInv, TermTypes
  <2> QED
    BY <1>1, <2>1, <2>2, <2>3, <2>4 DEF TermInv, PlaceTells, AnnouncedLast, Chosen, Unchosen
<1>3. CASE Wizard!AuthStep
  <2>1. term.at = 1 /\ UNCHANGED <<listing, made, boundTo, announced>>
    BY <1>3, WizardPlaces DEF Wizard!AuthStep, Wizard!Portal, TermInv
  <2>2. draft.again = FALSE
    BY <1>1, <2>1 DEF TermInv, PlaceTells, Drafts
  <2>3. CASE Wizard!Keep(draft) /\ UNCHANGED settings
    BY <1>1, <2>1, <2>2, <2>3, PlainStep
  <2>4. CASE Wizard!Abort /\ UNCHANGED <<draft, settings>>
    <3>1. settings' \in [token : BOOLEAN, endpoint : {"unset", "old", "new"}, secure : BOOLEAN]
      BY <2>4 DEF TermInv, TermTypes
    <3> QED
      BY <1>1, <2>1, <2>4, <3>1, FailedStep
  <2>5. CASE term.kind = "setup" /\ Wizard!Keep(draft) /\ settings' = [settings EXCEPT !.token = TRUE]
    <3>1. /\ draft' = draft /\ term' = IF AtLast THEN [term EXCEPT !.ended = "completed"]
                                        ELSE [term EXCEPT !.at = @ + 1]
      BY <2>2, <2>5, WizardLast DEF TermInv, Wizard!Keep, Wizard!GoNext
    <3>2. ~AtLast
      BY <2>1, <2>5 DEF AtLast
    <3>3. term' = [term EXCEPT !.at = 2]
      BY <2>1, <3>1, <3>2
    <3>4. TermTypes' /\ term'.kind = "setup" /\ term'.at = 2 /\ term'.ended = "no"
      <4>1. settings' \in [token : BOOLEAN, endpoint : {"unset", "old", "new"}, secure : BOOLEAN]
        BY <2>5 DEF TermInv, TermTypes
      <4> QED
        BY <1>1, <2>1, <2>5, <3>3, <4>1 DEF TermInv, TermTypes
    <3>5. draft.asked \in Unchosen /\ draft.verdict = "none"
      BY <1>1, <2>1, <2>5 DEF TermInv, PlaceTells, Drafts
    <3> QED
      BY <1>1, <2>1, <2>2, <3>1, <3>4, <3>5
         DEF TermInv, PlaceTells, AnnouncedLast, Chosen, Unchosen
  <2> QED
    BY <1>3, <2>3, <2>4, <2>5 DEF Wizard!AuthStep
<1>4. CASE Wizard!ConfigStep
  <2>1. /\ term.kind = "setup" /\ term.at = 2 /\ UNCHANGED <<listing, made, boundTo, announced>>
    BY <1>4, WizardPlaces DEF Wizard!ConfigStep, Wizard!Portal, TermInv
  <2>2. /\ draft.again = FALSE /\ draft.asked \in Unchosen /\ draft.verdict = "none"
        /\ settings \in [token : BOOLEAN, endpoint : {"unset", "old", "new"}, secure : BOOLEAN]
    BY <1>1, <2>1 DEF TermInv, TermTypes, PlaceTells, Drafts
  <2>3. ASSUME NEW a \in {"kept", "default", "https", "http"}, NEW d, d = [draft EXCEPT !.asked = a],
               Wizard!Keep(d),
               settings' \in [token : BOOLEAN, endpoint : {"unset", "old", "new"},
                              secure : BOOLEAN],
               a = "default" => settings'.secure,
               a \in {"http", "https"} =>
                 settings'.endpoint = "new" /\ settings'.secure = (a = "https")
        PROVE  TermInv'
    <3>1. /\ d \in Drafts /\ d.again = FALSE /\ d.asked = a /\ d.verdict = "none"
      BY <1>1, <2>2, <2>3 DEF Drafts
    <3>2. /\ draft' = d /\ term' = IF AtLast THEN [term EXCEPT !.ended = "completed"]
                                    ELSE [term EXCEPT !.at = @ + 1]
      BY <2>3, <3>1, WizardLast DEF TermInv, Wizard!Keep, Wizard!GoNext
    <3>3. ~AtLast
      BY <2>1 DEF AtLast
    <3>4. term' = [term EXCEPT !.at = 3]
      BY <2>1, <3>2, <3>3
    <3>5. TermTypes' /\ term'.kind = "setup" /\ term'.at = 3 /\ term'.ended = "no"
      BY <1>1, <2>1, <2>3, <3>4 DEF TermInv, TermTypes
    <3>6. Chosen'
      BY <2>3, <3>1, <3>2 DEF Chosen
    <3> QED
      BY <1>1, <2>1, <3>1, <3>2, <3>5, <3>6 DEF TermInv, PlaceTells, AnnouncedLast
  <2>4. CASE Wizard!Keep([draft EXCEPT !.asked = "kept"]) /\ UNCHANGED settings
    BY <2>2, <2>3, <2>4
  <2>5. CASE /\ Wizard!Keep([draft EXCEPT !.asked = "default"])
             /\ settings' = [settings EXCEPT !.secure = TRUE]
    <3>1. /\ settings' \in [token : BOOLEAN, endpoint : {"unset", "old", "new"}, secure : BOOLEAN]
          /\ settings'.secure
      BY <2>2, <2>5
    <3> QED
      BY <2>3, <2>5, <3>1
  <2>6. ASSUME NEW https \in BOOLEAN,
               \/ /\ Wizard!Abort /\ UNCHANGED draft
                  /\ settings' = [settings EXCEPT !.endpoint = "new"]
               \/ /\ Wizard!Keep([draft EXCEPT !.asked = IF https THEN "https" ELSE "http"])
                  /\ settings' = [[settings EXCEPT !.endpoint = "new"] EXCEPT !.secure = https]
        PROVE  TermInv'
    <3>1. CASE /\ Wizard!Abort /\ UNCHANGED draft
               /\ settings' = [settings EXCEPT !.endpoint = "new"]
      <4>1. settings' \in [token : BOOLEAN, endpoint : {"unset", "old", "new"}, secure : BOOLEAN]
        BY <2>2, <3>1
      <4> QED
        BY <1>1, <2>1, <2>2, <3>1, <4>1, FailedStep
    <3>2. CASE /\ Wizard!Keep([draft EXCEPT !.asked = IF https THEN "https" ELSE "http"])
               /\ settings' = [[settings EXCEPT !.endpoint = "new"] EXCEPT !.secure = https]
      <4>1. /\ settings' \in [token : BOOLEAN, endpoint : {"unset", "old", "new"}, secure : BOOLEAN]
            /\ settings'.endpoint = "new" /\ settings'.secure = https
        BY <2>2, <3>2
      <4>2. CASE https
        BY <2>3, <3>2, <4>1, <4>2
      <4>3. CASE ~https
        BY <2>3, <3>2, <4>1, <4>3
      <4> QED
        BY <4>2, <4>3
    <3> QED
      BY <2>6, <3>1, <3>2
  <2> QED
    BY <1>4, <2>4, <2>5, <2>6 DEF Wizard!ConfigStep
<1> QED
  BY <1>2, <1>3, <1>4

(* The steps that only show something or collect an answer.                *)
LEMMA AnswerSteps ==
  ASSUME TermInv,
         \/ Wizard!CompletionStep \/ Wizard!TutorialStep \/ Wizard!McpStep \/ Wizard!DnsSetupStep
         \/ Wizard!NamespaceStep \/ Wizard!DelegationStep \/ Wizard!SourceStep
         \/ Wizard!TargetStep \/ Wizard!DomainStep \/ Wizard!DnsStep \/ Wizard!NameStep
         \/ Wizard!SelectStep
  PROVE  TermInv'
<1> USE DEF Wizard!Portal
<1>1. draft \in Drafts /\ TermTypes
  BY DEF TermInv
<1>2. ASSUME Wizard!Shown, term.ended = "no",
             term.kind = "websites" => term.at # 6, term.kind = "domains" => term.at \notin {5, 7}
      PROVE  TermInv'
  <2>1. ~draft.again
    BY <1>2 DEF TermInv, PlaceTells
  <2> QED
    BY <1>1, <1>2, <2>1, PlainStep DEF Wizard!Shown
<1>3. ASSUME NEW d \in Drafts, Wizard!Answer(d), term.ended = "no",
             d.asked = draft.asked, d.verdict = draft.verdict, d.again = draft.again,
             \/ term.kind = "websites" /\ term.at < 6
             \/ term.kind = "domains" /\ term.at < 5
      PROVE  TermInv'
  <2>1. ~draft.again /\ draft.verdict = "none" /\ term.at \in 1 .. 8
    BY <1>1, <1>3 DEF TermInv, PlaceTells, TermTypes, Drafts
  <2> QED
    BY <1>1, <1>3, <2>1, PlainStep DEF Wizard!Answer
<1>4. CASE Wizard!CompletionStep \/ Wizard!TutorialStep \/ Wizard!McpStep
  <2>1. Wizard!Shown /\ term.ended = "no" /\ term.kind = "setup"
    BY <1>1, <1>4, WizardPlaces
       DEF Wizard!CompletionStep, Wizard!TutorialStep, Wizard!McpStep, Wizard!Doing
  <2> QED
    BY <1>2, <2>1
<1>5. CASE Wizard!DnsSetupStep \/ Wizard!NamespaceStep \/ Wizard!DelegationStep
  <2>1. /\ Wizard!Shown /\ term.ended = "no"
        /\ term.kind = "websites" => term.at = 7
        /\ term.kind = "domains" => term.at = 6 \/ term.at < 5
    BY <1>1, <1>5, WizardPlaces
       DEF Wizard!DnsSetupStep, Wizard!NamespaceStep, Wizard!DelegationStep, Wizard!Doing
  <2>2. term.at \in 1 .. 8
    BY <1>1 DEF TermTypes
  <2> QED
    BY <1>2, <2>1, <2>2
<1>6. CASE Wizard!SourceStep
  <2> DEFINE d == [draft EXCEPT !.cid = TRUE]
  <2>1. d \in Drafts /\ d.asked = draft.asked /\ d.verdict = draft.verdict /\ d.again = draft.again
    BY <1>1 DEF Drafts
  <2>2. Wizard!Answer(d) /\ term.ended = "no" /\ term.kind = "websites" /\ term.at < 6
    BY <1>1, <1>6, WizardPlaces DEF Wizard!SourceStep, Wizard!Doing
  <2> HIDE DEF d
  <2> QED
    BY <1>3, <2>1, <2>2
<1>7. CASE Wizard!TargetStep
  <2>1. PICK t \in {"ipfs", "ipns"} : Wizard!Answer([draft EXCEPT !.target = t])
    BY <1>7 DEF Wizard!TargetStep
  <2> DEFINE d == [draft EXCEPT !.target = t]
  <2>2. d \in Drafts /\ d.asked = draft.asked /\ d.verdict = draft.verdict /\ d.again = draft.again
    BY <1>1 DEF Drafts
  <2>3. Wizard!Answer(d) /\ term.ended = "no" /\ term.kind = "websites" /\ term.at < 6
    BY <1>1, <1>7, <2>1, WizardPlaces DEF Wizard!TargetStep, Wizard!Doing
  <2> HIDE DEF d
  <2> QED
    BY <1>3, <2>2, <2>3
<1>8. CASE Wizard!DomainStep \/ Wizard!NameStep
  <2> DEFINE d == [draft EXCEPT !.domain = TRUE]
  <2>1. d \in Drafts /\ d.asked = draft.asked /\ d.verdict = draft.verdict /\ d.again = draft.again
    BY <1>1 DEF Drafts
  <2>2. /\ Wizard!Answer(d) /\ term.ended = "no"
        /\ \/ term.kind = "websites" /\ term.at < 6
           \/ term.kind = "domains" /\ term.at < 5
    BY <1>1, <1>8, WizardPlaces DEF Wizard!DomainStep, Wizard!NameStep, Wizard!Doing
  <2> HIDE DEF d
  <2> QED
    BY <1>3, <2>1, <2>2
<1>9. CASE Wizard!DnsStep
  <2>1. PICK m \in BOOLEAN : Wizard!Answer([draft EXCEPT !.dns = m])
    BY <1>9 DEF Wizard!DnsStep
  <2> DEFINE d == [draft EXCEPT !.dns = m]
  <2>2. d \in Drafts /\ d.asked = draft.asked /\ d.verdict = draft.verdict /\ d.again = draft.again
    BY <1>1 DEF Drafts
  <2>3. Wizard!Answer(d) /\ term.ended = "no" /\ term.kind = "websites" /\ term.at < 6
    BY <1>1, <1>9, <2>1, WizardPlaces DEF Wizard!DnsStep, Wizard!Doing
  <2> HIDE DEF d
  <2> QED
    BY <1>3, <2>2, <2>3
<1>10. CASE Wizard!SelectStep
  <2>1. /\ term.ended = "no" /\ term.kind = "domains" /\ term.at < 5
        /\ UNCHANGED <<settings, listing, made, boundTo, announced>>
    BY <1>1, <1>10, WizardPlaces DEF Wizard!SelectStep, Wizard!Doing
  <2>2. CASE Wizard!Abort /\ UNCHANGED draft
    <3>1. settings' \in [token : BOOLEAN, endpoint : {"unset", "old", "new"}, secure : BOOLEAN]
      BY <1>1, <2>1 DEF TermTypes
    <3> QED
      BY <2>1, <2>2, <3>1, FailedStep
  <2>3. ASSUME NEW s \in SiteIds, Wizard!Keep([draft EXCEPT !.site = s]) PROVE TermInv'
    <3> DEFINE d == [draft EXCEPT !.site = s]
    <3>1. d \in Drafts /\ d.asked = draft.asked /\ d.verdict = draft.verdict /\ d.again = draft.again
      BY <1>1 DEF Drafts
    <3>2. Wizard!Answer(d)
      BY <2>1, <2>3 DEF Wizard!Answer
    <3> HIDE DEF d
    <3> QED
      BY <1>3, <2>1, <3>1, <3>2
  <2> QED
    BY <1>1, <1>10, <2>2, <2>3 DEF Wizard!SelectStep, TermTypes
<1> QED
  BY <1>4, <1>5, <1>6, <1>7, <1>8, <1>9, <1>10

LEMMA TriedAgain ==
  ASSUME NEW c \in Drafts, NEW n \in Nat, NEW b \in BOOLEAN,
         NEW d, d = [c EXCEPT !.tries = n, !.again = b]
  PROVE  d \in Drafts /\ d.verdict = c.verdict /\ d.site = c.site
<1>1. d \in Drafts
  BY DEF Drafts
<1>2. d.verdict = c.verdict /\ d.site = c.site
  BY DEF Drafts
<1> QED
  BY <1>1, <1>2

(* The steps at which the portal changes or answers.                       *)
LEMMA PortalSteps ==
  ASSUME TermInv, Wizard!CreateStep \/ Wizard!ValidateStep \/ Wizard!BindStep \/ Wizard!VerifyStep
  PROVE  TermInv'
<1> USE DEF Wizard!Portal
<1>1. /\ draft \in Drafts /\ TermTypes /\ term.ended = "no" /\ announced = {}
      /\ settings \in [token : BOOLEAN, endpoint : {"unset", "old", "new"}, secure : BOOLEAN]
  BY DEF Wizard!CreateStep, Wizard!ValidateStep, Wizard!BindStep, Wizard!VerifyStep, Wizard!Doing,
         TermInv, TermTypes, AnnouncedLast
<1>2. CASE Wizard!CreateStep
  <2>1. /\ term.kind = "websites" /\ term.at = 6 /\ made' = made + 1
        /\ UNCHANGED <<settings, listing, boundTo, announced>>
    BY <1>1, <1>2, WizardPlaces DEF Wizard!CreateStep
  <2>2. CASE Wizard!Abort /\ UNCHANGED draft
    BY <1>1, <2>1, <2>2, FailedStep
  <2>3. CASE Wizard!Keep([draft EXCEPT !.site = "new"])
    <3> DEFINE d == [draft EXCEPT !.site = "new"]
    <3>1. /\ d \in Drafts /\ d.again = FALSE /\ d.verdict = "none" /\ made = 0
      BY <1>1, <2>1 DEF TermInv, PlaceTells, Drafts
    <3>3. Wizard!Keep(d)
      BY <2>3
    <3> HIDE DEF d
    <3>2. /\ draft' = d /\ TermTypes' /\ term'.kind = "websites" /\ term'.at = 7
          /\ term'.ended = "no"
      BY <1>1, <2>1, <3>1, <3>3, WizardMoves DEF AtLast
    <3> QED
      BY <1>1, <2>1, <3>1, <3>2 DEF TermInv, PlaceTells, AnnouncedLast
  <2> QED
    BY <1>2, <2>2, <2>3 DEF Wizard!CreateStep
<1>3. CASE Wizard!ValidateStep
  <2>1. /\ term.kind = "websites" /\ term.at = 8 /\ draft.again = FALSE
        /\ UNCHANGED <<settings, listing, made, boundTo, announced>>
    BY <1>1, <1>3, WizardPlaces DEF Wizard!ValidateStep, TermInv, PlaceTells, Drafts
  <2>2. CASE Wizard!Keep(draft)
    BY <1>1, <2>1, <2>2, PlainStep
  <2>3. ASSUME draft.dns, term' = term,
               NEW v \in {draft.verdict, "invalid", "valid"},
               NEW n, draft' = [draft EXCEPT !.tries = n, !.verdict = v], n \in Nat
        PROVE  TermInv'
    <3>1. v \in {"none", "invalid", "valid"}
      BY <1>1 DEF Drafts
    <3>2. /\ draft' \in Drafts /\ draft'.again = FALSE /\ draft'.dns = draft.dns
          /\ draft'.verdict = v
      BY <1>1, <2>1, <2>3, <3>1 DEF Drafts
    <3> QED
      BY <1>1, <2>1, <2>3, <3>2 DEF TermInv, TermTypes, PlaceTells, AnnouncedLast
  <2>4. CASE /\ draft.dns /\ draft.tries < ValidationTries /\ UNCHANGED term
             /\ \E v \in {draft.verdict, "invalid", "valid"} :
                  draft' = [draft EXCEPT !.tries = IF v = "valid" THEN ValidationTries ELSE @ + 1,
                                         !.verdict = v]
    <3>1. PICK v \in {draft.verdict, "invalid", "valid"} :
            draft' = [draft EXCEPT !.tries = IF v = "valid" THEN ValidationTries ELSE draft.tries + 1,
                                   !.verdict = v]
      BY <2>4
    <3>2. ValidationTries \in Nat /\ draft.tries + 1 \in Nat
      BY <1>1, WizardAssumption DEF Drafts
    <3>3. CASE v = "valid"
      BY <2>3, <2>4, <3>1, <3>2, <3>3
    <3>4. CASE v # "valid"
      BY <2>3, <2>4, <3>1, <3>2, <3>4
    <3> QED
      BY <3>3, <3>4
  <2> QED
    BY <1>3, <2>2, <2>4 DEF Wizard!ValidateStep
<1>4. CASE Wizard!BindStep
  <2>1. /\ term.kind = "domains" /\ term.at = 5 /\ boundTo' = boundTo \cup {draft.site}
        /\ UNCHANGED <<settings, listing, made, announced>>
    BY <1>1, <1>4, WizardPlaces DEF Wizard!BindStep
  <2>2. CASE Wizard!Abort /\ UNCHANGED draft
    BY <1>1, <2>1, <2>2, FailedStep
  <2>3. ASSUME NEW status1 \in {"pending", "active"},
               Wizard!Keep([draft EXCEPT !.bound = status1])
        PROVE  TermInv'
    <3> DEFINE d == [draft EXCEPT !.bound = status1]
    <3>1. /\ d \in Drafts /\ d.again = FALSE /\ d.verdict = "none" /\ d.site = draft.site
      BY <1>1, <2>1 DEF TermInv, PlaceTells, Drafts
    <3>3. Wizard!Keep(d)
      BY <2>3
    <3> HIDE DEF d
    <3>2. /\ draft' = d /\ TermTypes' /\ term'.kind = "domains" /\ term'.at = 6
          /\ term'.ended = "no"
      BY <1>1, <2>1, <3>1, <3>3, WizardMoves DEF AtLast
    <3> QED
      BY <1>1, <2>1, <3>1, <3>2 DEF TermInv, PlaceTells, AnnouncedLast
  <2> QED
    BY <1>4, <2>2, <2>3 DEF Wizard!BindStep
<1>5. CASE Wizard!VerifyStep
  <2>1. /\ term.kind = "domains" /\ term.at = 7
        /\ draft.verdict = "none" /\ draft.site \in boundTo
        /\ UNCHANGED <<settings, listing, made, boundTo>>
    BY <1>1, <1>5, WizardPlaces DEF Wizard!VerifyStep, TermInv, PlaceTells, Drafts
  <2>2. PICK reply \in {"none", "pending", "active"} :
          LET d == [draft EXCEPT !.bound = IF reply = "none" THEN draft.bound ELSE reply,
                                 !.verified = reply]
          IN IF reply = "active"
             THEN Wizard!Keep([d EXCEPT !.again = FALSE])
                    /\ announced' = announced \cup {"verified"}
             ELSE /\ Wizard!Keep([d EXCEPT !.tries = d.tries + 1,
                                           !.again = draft.tries + 1 < VerifyTries])
                  /\ UNCHANGED announced
    BY <1>5 DEF Wizard!VerifyStep
  <2> DEFINE c == [draft EXCEPT !.bound = IF reply = "none" THEN draft.bound ELSE reply,
                                !.verified = reply]
  <2>3. /\ c \in Drafts /\ c.verdict = "none" /\ c.site = draft.site /\ c.verified = reply
    BY <1>1, <2>1 DEF Drafts
  <2> HIDE DEF c
  <2>4. CASE reply = "active"
    <3> DEFINE d == [c EXCEPT !.again = FALSE]
    <3>1. /\ d \in Drafts /\ d.again = FALSE /\ d.verdict = "none" /\ d.site = draft.site
          /\ d.verified = "active"
      BY <2>3, <2>4 DEF Drafts
    <3>2. Wizard!Keep(d) /\ announced' = {"verified"}
      BY <1>1, <2>2, <2>4 DEF c
    <3> HIDE DEF d
    <3>3. /\ draft' = d /\ TermTypes' /\ term'.kind = "domains" /\ term'.at = 7
          /\ term'.ended = "completed"
      BY <1>1, <2>1, <3>1, <3>2, WizardMoves DEF AtLast
    <3> QED
      BY <2>1, <3>1, <3>2, <3>3 DEF TermInv, PlaceTells, AnnouncedLast
  <2>5. CASE reply # "active"
    <3> DEFINE n == c.tries + 1
               b == draft.tries + 1 < VerifyTries
               d == [c EXCEPT !.tries = n, !.again = b]
    <3>1. n \in Nat
      BY <2>3 DEF Drafts
    <3>2. b \in BOOLEAN
      OBVIOUS
    <3>3. Wizard!Keep(d) /\ announced' = {}
      BY <1>1, <2>2, <2>5 DEF c
    <3> HIDE DEF n, b
    <3>4. /\ d \in Drafts /\ d.verdict = "none" /\ d.site = draft.site
      BY <2>3, <3>1, <3>2, TriedAgain
    <3> HIDE DEF d
    <3>5. /\ draft' = d /\ TermTypes' /\ term'.kind = "domains" /\ term'.at = 7
      BY <1>1, <2>1, <3>3, <3>4, WizardMoves DEF AtLast
    <3> QED
      BY <2>1, <3>4, <3>3, <3>5 DEF TermInv, PlaceTells, AnnouncedLast
  <2> QED
    BY <2>4, <2>5
<1> QED
  BY <1>2, <1>3, <1>4, <1>5

LEMMA WizardStep ==
  ASSUME TermInv, Wizard!TermNext
  PROVE  TermInv'
<1>1. CASE Wizard!Break
  <2>1. settings' \in [token : BOOLEAN, endpoint : {"unset", "old", "new"}, secure : BOOLEAN]
    BY <1>1 DEF Wizard!Break, TermInv, TermTypes
  <2> QED
    BY <1>1, <2>1, FailedStep DEF Wizard!Break, Wizard!Portal
<1>2. CASE Wizard!Close
  <2>1. /\ announced' = announced \cup {"completed"}
             \cup (IF draft.verdict = "valid" THEN {"validated"} ELSE {})
             \cup (IF draft.bound # "none" THEN {"bound"} ELSE {})
        /\ term.ended = "completed"
        /\ UNCHANGED <<term, draft, settings, listing, made, boundTo>>
    BY <1>2 DEF Wizard!Close, Wizard!Portal
  <2>2. /\ "verified" \in announced' => "verified" \in announced
        /\ "validated" \in announced' => "validated" \in announced \/ draft.verdict = "valid"
    BY <2>1
  <2> QED
    BY <2>1, <2>2 DEF TermInv, TermTypes, PlaceTells, AnnouncedLast, Chosen, Unchosen
<1> QED
  BY <1>1, <1>2, SetupSteps, AnswerSteps, PortalSteps DEF Wizard!TermNext, Wizard!TermProgress

LEMMA WizardAnnounces == TermInv => Wizard!AnnouncedIsTrue
<1> SUFFICES ASSUME TermInv PROVE Wizard!AnnouncedIsTrue
  OBVIOUS
<1>1. "verified" \in announced => draft.verified = "active" /\ draft.site \in boundTo
  BY DEF TermInv, AnnouncedLast
<1>2. "validated" \in announced => made = 1 /\ draft.dns /\ draft.verdict = "valid"
  BY DEF TermInv, AnnouncedLast, PlaceTells
<1>3. term.kind = "setup" => Chosen
  BY DEF TermInv, PlaceTells
<1> QED
  BY <1>1, <1>2, <1>3 DEF Wizard!AnnouncedIsTrue, Chosen

-----------------------------------------------------------------------------
(* The catalogue's commands: what was named, and what was agreed to.       *)
Naming ==
  \/ input.target = typedName
  \/ \E r \in Rows : input.target = TextOf[r] /\ typedName = NameOf[r]

(* A command that goes on to remove something was told to by a flag, or by  *)
(* an answer about the very object.                                        *)
Agreed ==
  \/ argv.force \/ argv.confirm \/ argv.op = "ipns_keys_delete"
  \/ asked.yes /\ asked.name = typedName /\ argv.op # "pins_rm"

CatalogInv ==
  /\ argv \in CommandLines /\ DOMAIN input = {"target", "confirm", "all"}
  /\ objects \subseteq Rows /\ scan.seen \subseteq Rows
  /\ point \in {"positional", "ids", "scan", "gate", "extra", "execute"} => taken = {}
  /\ point \in {"ids", "gate", "extra", "execute"} => Naming
  /\ point \in {"extra", "execute"} /\ Catalog!TheOp.destructive /\ input.confirm # "no" => Agreed
  /\ Catalog!RemovalIsConsented

LEMMA CatalogStarts == Catalog!CommandInit => CatalogInv
<1> SUFFICES ASSUME Catalog!CommandInit PROVE CatalogInv
  OBVIOUS
<1>1. /\ argv \in CommandLines /\ taken = {} /\ said = "none" /\ point = "positional"
      /\ objects \subseteq Rows /\ scan.seen = {}
      /\ DOMAIN input = {"target", "confirm", "all"}
  BY DEF Catalog!CommandInit
<1> QED
  BY <1>1 DEF CatalogInv, Catalog!RemovalIsConsented

LEMMA SameRowCardinality == \A S : Catalog!Cardinality(S) = Cardinality(S)
BY DEF Catalog!Cardinality, Cardinality

(* The target as typed, and the row a name was looked up to.               *)
LEMMA TargetsAreNamed ==
  ASSUME CatalogInv,
         Catalog!ResolvePositional \/ Catalog!ResolveIDs \/ Catalog!ScanNames
  PROVE  CatalogInv'
<1>1. CASE Catalog!ResolvePositional
  <2> DEFINE target == Catalog!Positional
  <2>1. /\ point = "positional" /\ point' = "ids" /\ typedName' = target
        /\ input' = [input EXCEPT !.target = target]
        /\ UNCHANGED <<argv, scan, objects, asked, taken, said>>
    BY <1>1 DEF Catalog!ResolvePositional, Catalog!Step
  <2> HIDE DEF target
  <2>2. DOMAIN input' = {"target", "confirm", "all"} /\ input'.target = typedName'
    BY <2>1 DEF CatalogInv
  <2> QED
    BY <2>1, <2>2 DEF CatalogInv, Naming, Catalog!RemovalIsConsented
<1>2. CASE Catalog!ResolveIDs
  <2>1. /\ point = "ids" /\ point' \in {"scan", "gate"} /\ scan'.seen \in {{}, scan.seen}
        /\ UNCHANGED <<argv, input, typedName, objects, asked, taken, said>>
    BY <1>2 DEF Catalog!ResolveIDs, Catalog!Step
  <2> QED
    BY <2>1 DEF CatalogInv, Naming, Catalog!RemovalIsConsented
<1>3. CASE Catalog!ScanNames
  <2> DEFINE seen == scan.seen \cup Catalog!Page
             last == Catalog!Page = {} \/ scan.next >= Catalog!Cardinality(objects)
             more == [next |-> scan.next + 1, seen |-> seen]
  <2>1. seen \subseteq Rows
    BY DEF CatalogInv, Catalog!Page
  <2>2. /\ point = "scan" /\ UNCHANGED <<argv, typedName, objects, asked, taken>>
        /\ \/ scan' = more /\ UNCHANGED <<input, point, said>>
           \/ UNCHANGED <<scan, input>> /\ point' = "end" /\ said' = "not_found"
           \/ \E r \in Catalog!Matches(seen) :
                /\ input' = [input EXCEPT !.target = TextOf[r]]
                /\ point' = "gate" /\ UNCHANGED <<scan, said>>
    <3>1. Catalog!ScanPage("gate") /\ point = "scan"
      BY <1>3 DEF Catalog!ScanNames
    <3>2. CASE last
      BY <3>1, <3>2 DEF Catalog!ScanPage, Catalog!Stop, Catalog!Step
    <3>3. CASE ~last
      BY <3>1, <3>3 DEF Catalog!ScanPage
    <3> QED
      BY <3>2, <3>3
  <2>3. more.seen = seen
    OBVIOUS
  <2> HIDE DEF more, seen, last
  <2>4. CASE scan' = more /\ UNCHANGED <<input, point, said>>
    BY <2>1, <2>2, <2>3, <2>4 DEF CatalogInv, Naming, Catalog!RemovalIsConsented
  <2>5. CASE UNCHANGED <<scan, input>> /\ point' = "end" /\ said' = "not_found"
    BY <2>2, <2>5 DEF CatalogInv, Catalog!RemovalIsConsented
  <2>6. ASSUME NEW r \in Catalog!Matches(seen), input' = [input EXCEPT !.target = TextOf[r]],
               point' = "gate", UNCHANGED <<scan, said>>
        PROVE  CatalogInv'
    <3>1. r \in Rows /\ NameOf[r] = typedName
      BY <2>1, <2>6 DEF Catalog!Matches
    <3>2. DOMAIN input' = {"target", "confirm", "all"} /\ input'.target = TextOf[r]
      BY <2>6 DEF CatalogInv
    <3>3. Naming'
      BY <2>2, <3>1, <3>2 DEF Naming
    <3> QED
      BY <2>2, <2>6, <3>2, <3>3 DEF CatalogInv, Catalog!RemovalIsConsented
  <2> QED
    BY <2>2, <2>4, <2>5, <2>6
<1> QED
  BY <1>1, <1>2, <1>3

(* Every gate passes on a refusal, or an agreement.                        *)
LEMMA GatesAgree ==
  ASSUME CatalogInv, Catalog!DestructiveGate
  PROVE  CatalogInv'
<1>1. point = "gate" /\ UNCHANGED <<argv, typedName, scan, objects, taken>> /\ taken = {}
      /\ Naming
  BY DEF CatalogInv, Catalog!DestructiveGate
<1>2. ASSUME NEW c, Catalog!SetConfirm(c), c => argv.force \/ argv.confirm
      PROVE  /\ DOMAIN input' = DOMAIN input /\ input'.target = input.target
             /\ input'.confirm # "no" => argv.force \/ argv.confirm
  <2> DEFINE answer_ == IF c THEN "yes" ELSE "no"
  <2>1. input' = [input EXCEPT !.confirm = answer_, !.all = argv.all]
    BY <1>2 DEF Catalog!SetConfirm
  <2>2. answer_ # "no" => argv.force \/ argv.confirm
    BY <1>2
  <2> HIDE DEF answer_
  <2> QED
    BY <2>1, <2>2 DEF CatalogInv
<1>3. /\ DOMAIN input' = DOMAIN input /\ input'.target = input.target
      /\ \/ point' = "end" /\ said' # "unroutable"
         \/ point' = "extra" /\ said' = said /\ (input'.confirm # "no" => Agreed')
  <2>1. \/ Catalog!GateForceReject(input.target # "none")
        \/ Catalog!GateForceReject(Catalog!TheOp.target = "website" /\ input.target # "none")
        \/ Catalog!GateForceReject(TRUE)
        \/ Catalog!GateHintSilent(argv.all \/ input.target # "none")
        \/ Catalog!GateNone /\ Catalog!TheOp.domain = "ipns"
        \/ Catalog!GatePassthroughForce
        \/ Catalog!GateInteractivePrompt /\ argv.op = "platform_domains_delete"
    BY DEF Catalog!DestructiveGate, Catalog!PinsGate, Catalog!DNSGate, Catalog!WebsitesGate,
       Catalog!WorkspacesGate, Catalog!VaultGate, Catalog!AdminGate
  <2>2. ASSUME NEW w, Catalog!GateForceReject(w) \/ Catalog!GateHintSilent(w)
        PROVE  /\ Catalog!SetConfirm(Catalog!Confirm) /\ UNCHANGED asked
               /\ \/ point' = "end" /\ said' # "unroutable"
                  \/ point' = "extra" /\ said' = said
    BY <2>2 DEF Catalog!GateForceReject, Catalog!GateHintSilent, Catalog!Stop, Catalog!Step
  <2>3. CASE Catalog!SetConfirm(Catalog!Confirm) /\ UNCHANGED asked
             /\ \/ point' = "end" /\ said' # "unroutable"
                \/ point' = "extra" /\ said' = said
    BY <1>1, <1>2, <2>3 DEF Catalog!Confirm, Agreed
  <2>4. CASE Catalog!GateNone /\ Catalog!TheOp.domain = "ipns"
    <3>1. argv.op = "ipns_keys_delete"
      BY <2>4, CatalogAssumption DEF CatalogInv, Catalog!TheOp, Catalog!Ops, Catalog!Operation
    <3> QED
      BY <1>1, <2>4, <3>1 DEF Catalog!GateNone, Catalog!Step, Agreed
  <2>5. CASE Catalog!GatePassthroughForce
    BY <1>1, <1>2, <2>5 DEF Catalog!GatePassthroughForce, Catalog!Step, Agreed
  <2>6. CASE Catalog!GateInteractivePrompt /\ argv.op = "platform_domains_delete"
    <3>1. CASE Catalog!Confirm /\ Catalog!SetConfirm(TRUE) /\ point' = "extra"
               /\ UNCHANGED <<said, asked>>
      BY <1>1, <1>2, <3>1 DEF Catalog!Confirm, Agreed
    <3>2. CASE point' = "end" /\ said' # "unroutable" /\ UNCHANGED <<input, asked>>
      BY <3>2
    <3>3. ASSUME NEW yes \in BOOLEAN, asked' = [name |-> typedName, yes |-> yes, count |-> 0],
                 IF yes THEN Catalog!SetConfirm(TRUE) /\ point' = "extra" /\ UNCHANGED said
                 ELSE point' = "end" /\ said' = "aborted" /\ UNCHANGED input
          PROVE  /\ DOMAIN input' = DOMAIN input /\ input'.target = input.target
                 /\ \/ point' = "end" /\ said' # "unroutable"
                    \/ point' = "extra" /\ said' = said /\ (input'.confirm # "no" => Agreed')
      <4>1. CASE yes
        <5>1. asked'.yes /\ asked'.name = typedName /\ typedName' = typedName /\ argv' = argv
          BY <1>1, <3>3, <4>1
        <5>2. Agreed'
          BY <2>6, <5>1 DEF Agreed
        <5>3. input' = [input EXCEPT !.confirm = "yes", !.all = argv.all]
          BY <3>3, <4>1 DEF Catalog!SetConfirm
        <5> QED
          BY <3>3, <4>1, <5>2, <5>3 DEF CatalogInv
      <4>2. CASE ~yes
        BY <3>3, <4>2
      <4> QED
        BY <4>1, <4>2
    <3> QED
      BY <2>6, <3>1, <3>2, <3>3 DEF Catalog!GateInteractivePrompt, Catalog!Stop, Catalog!Step
  <2> QED
    BY <2>1, <2>2, <2>3, <2>4, <2>5, <2>6
<1>4. Naming'
  BY <1>1, <1>3 DEF Naming
<1> QED
  BY <1>1, <1>3, <1>4 DEF CatalogInv, Catalog!RemovalIsConsented, Catalog!TheOp

LEMMA ConfirmsAgree ==
  ASSUME CatalogInv, Catalog!UpdateGuard \/ Catalog!ExtraConfirm
  PROVE  CatalogInv'
<1>1. CASE Catalog!UpdateGuard
  <2>1. /\ point = "gate" /\ ~Catalog!TheOp.destructive
        /\ UNCHANGED <<argv, input, typedName, scan, objects, asked, taken>>
        /\ \/ point' = "execute" /\ said' = said
           \/ point' = "end" /\ said' = "nothing_to_update"
    BY <1>1 DEF Catalog!UpdateGuard, Catalog!Step, Catalog!Stop
  <2> QED
    BY <2>1 DEF CatalogInv, Naming, Catalog!RemovalIsConsented, Catalog!TheOp
<1>2. CASE Catalog!ExtraConfirm
  <2>1. /\ point = "extra" /\ UNCHANGED <<argv, input, typedName, scan, objects, taken>>
        /\ asked' = asked \/ argv.op = "pins_rm"
        /\ \/ point' = "execute" /\ said' = said
           \/ point' = "end" /\ said' = "aborted"
    BY <1>2 DEF Catalog!ExtraConfirm, Catalog!Step, Catalog!Stop
  <2>2. Agreed => Agreed'
    BY <2>1 DEF Agreed
  <2> QED
    BY <2>1, <2>2 DEF CatalogInv, Naming, Catalog!RemovalIsConsented, Catalog!TheOp
<1> QED
  BY <1>1, <1>2

(* The handler removes the object of that row or name, alone.              *)
LEMMA RemovalsAgree ==
  ASSUME CatalogInv, Catalog!Execute
  PROVE  CatalogInv'
<1>1. point = "execute" /\ Naming /\ taken = {} /\ objects \subseteq Rows
      /\ UNCHANGED <<argv, input, typedName, scan, asked>>
  BY DEF CatalogInv, Catalog!Execute
<1>2. CASE UNCHANGED <<objects, taken>>
  <2>1. \/ point' = "end" /\ said' # "unroutable"
        \/ point' = "render" /\ said' = said
    BY DEF Catalog!Execute, Catalog!Stop, Catalog!Step
  <2> QED
    BY <1>1, <1>2, <2>1 DEF CatalogInv, Catalog!RemovalIsConsented
<1>3. CASE ~UNCHANGED <<objects, taken>>
  <2>1. /\ Catalog!TheOp.destructive /\ input.confirm # "no"
        /\ taken' = Catalog!TargetOf /\ objects' = objects \ Catalog!TargetOf
        /\ \/ point' = "end" /\ said' = "failed"
           \/ point' = "render" /\ said' = said
    BY <1>3 DEF Catalog!Execute, Catalog!Stop, Catalog!Step
  <2>2. Agreed
    BY <1>1, <2>1 DEF CatalogInv
  <2>3. ASSUME ~argv.all, Catalog!TargetOf # {}
        PROVE  /\ Cardinality(Catalog!TargetOf) = 1
               /\ \A r \in Catalog!TargetOf : typedName \in {NameOf[r], TextOf[r]}
    <3>1. PICK r \in objects : r \in Catalog!TargetOf
      BY <2>3 DEF Catalog!TargetOf
    <3>2. \A q \in Catalog!TargetOf : q = r
      <4>1. CASE Catalog!Numeric(input.target)
        BY <2>3, <3>1, <4>1 DEF Catalog!TargetOf
      <4>2. CASE ~Catalog!Numeric(input.target)
        BY <1>1, <2>3, <3>1, <4>2, CatalogAssumption DEF Catalog!TargetOf
      <4> QED
        BY <4>1, <4>2
    <3>3. Catalog!TargetOf = {r}
      BY <3>1, <3>2
    <3>4. typedName \in {NameOf[r], TextOf[r]}
      <4>1. r \in Rows
        BY <1>1, <3>1
      <4>2. CASE Catalog!Numeric(input.target)
        <5>1. r = Catalog!RowOf(input.target)
          BY <2>3, <3>1, <4>2 DEF Catalog!TargetOf
        <5>2. TextOf[r] = input.target
          BY <4>2, <5>1 DEF Catalog!RowOf, Catalog!Numeric
        <5>3. \A q \in Rows : input.target = TextOf[q] => q = r
          BY <4>1, <5>2, CatalogAssumption
        <5> QED
          BY <1>1, <5>2, <5>3 DEF Naming
      <4>3. CASE ~Catalog!Numeric(input.target)
        <5>1. input.target = typedName
          BY <1>1, <4>3 DEF Naming, Catalog!Numeric
        <5>2. NameOf[r] = input.target
          BY <2>3, <3>1, <4>3 DEF Catalog!TargetOf
        <5> QED
          BY <5>1, <5>2
      <4> QED
        BY <4>2, <4>3
    <3> QED
      BY <3>3, <3>4, FS_Singleton
  <2>4. Catalog!RemovalIsConsented'
    <3>1. said' # "unroutable"
      BY <2>1 DEF CatalogInv, Catalog!RemovalIsConsented
    <3>2. Catalog!Consented'
      BY <1>1, <2>2 DEF Agreed, Catalog!Consented
    <3> QED
      BY <1>1, <2>1, <2>3, <3>1, <3>2, SameRowCardinality DEF Catalog!RemovalIsConsented
  <2>5. objects' \subseteq Rows
    BY <1>1, <2>1
  <2> QED
    BY <1>1, <2>1, <2>4, <2>5 DEF CatalogInv
<1> QED
  BY <1>2, <1>3

(* Every domain's renderer knows the results of its operations.            *)
LEMMA ResultsAreRouted ==
  ASSUME NEW o \in DOMAIN Catalog!Ops
  PROVE  Catalog!Ops[o].result \in Catalog!Routed[Catalog!Ops[o].domain]
BY DEF Catalog!Ops, Catalog!Operation, Catalog!Routed, Catalog!PinsResults,
   Catalog!DNSResults, Catalog!WebsitesResults, Catalog!IPNSResults, Catalog!AdminResults,
   Catalog!WorkspacesResults, Catalog!APIKeysResults, Catalog!VaultResults,
   Catalog!AccountResults, Catalog!OperationsResults

LEMMA RendersAgree ==
  ASSUME CatalogInv, Catalog!Render
  PROVE  CatalogInv'
<1>1. argv.op \in DOMAIN Catalog!Ops
  BY CatalogAssumption DEF CatalogInv
<1>2. /\ point' = "end" /\ said' = "done"
      /\ UNCHANGED <<argv, input, typedName, scan, objects, asked, taken>>
  BY <1>1, ResultsAreRouted DEF Catalog!Render, Catalog!Stop, Catalog!TheOp
<1> QED
  BY <1>2 DEF CatalogInv, Catalog!RemovalIsConsented, Catalog!Consented

LEMMA CatalogStep ==
  ASSUME CatalogInv, [Catalog!CommandNext]_catalogState
  PROVE  CatalogInv'
<1>1. CASE UNCHANGED catalogState
  <2>1. UNCHANGED <<argv, input, typedName, scan, objects, asked, taken, said, point>>
    BY <1>1 DEF catalogState
  <2> QED
    BY <2>1 DEF CatalogInv, Naming, Agreed, Catalog!RemovalIsConsented, Catalog!Consented,
       Catalog!TheOp
<1>2. CASE Catalog!Others
  <2>1. /\ UNCHANGED <<argv, input, typedName, scan, asked, taken, said, point>>
        /\ objects' \subseteq Rows
    BY <1>2 DEF Catalog!Others, Catalog!OthersRemove, Catalog!OthersAdd, CatalogInv
  <2> QED
    BY <2>1 DEF CatalogInv, Naming, Agreed, Catalog!RemovalIsConsented, Catalog!Consented,
       Catalog!TheOp
<1>3. CASE Catalog!ResolvePositional \/ Catalog!ResolveIDs \/ Catalog!ScanNames
  BY <1>3, TargetsAreNamed
<1>4. CASE Catalog!DestructiveGate \/ Catalog!UpdateGuard \/ Catalog!ExtraConfirm
  BY <1>4, GatesAgree, ConfirmsAgree
<1>5. CASE Catalog!Execute \/ Catalog!Render
  BY <1>5, RemovalsAgree, RendersAgree
<1> QED
  BY <1>1, <1>2, <1>3, <1>4, <1>5 DEF Catalog!CommandNext

-----------------------------------------------------------------------------
(* Types: the bounds of counters and the sets that the invariants above do  *)
(* not need.  An idle worker has no task, and what a task made was issued.  *)
PinBounds ==
  /\ settled \subseteq Pin!Issued
  /\ \A w \in Workers : at[w] = "idle" => job[w] = 0
  /\ \A w \in Workers : tries[w] \in 0 .. MaxAttempts - 1
  /\ \A i \in DOMAIN tasks : requested[i] \cup gone[i] \subseteq Pin!Issued

LEMMA PinBoundsStart == Pin!PinInit => PinBounds
BY PinAssumption DEF Pin!PinInit, PinBounds

LEMMA PinTyped == PinInv /\ PinBounds => Pin!PinTypeOK
<1> SUFFICES ASSUME PinInv, PinBounds PROVE Pin!PinTypeOK
  OBVIOUS
<1>1. PinTypes /\ PoolTrue /\ Len(tasks) \in Nat /\ next \in 1 .. Len(tasks) + 1
      /\ \A i \in DOMAIN tasks : tasks[i].cid \in Cids
  BY TasksAreItems DEF PinInv, PinTypes
<1>2. \A w \in Workers : job[w] \in 0 .. Len(tasks)
  BY <1>1 DEF PinBounds, PoolTrue, Busy
<1>3. job \in [Workers -> 0 .. Len(tasks)] /\ tries \in [Workers -> 0 .. MaxAttempts - 1]
  BY <1>1, <1>2 DEF PinBounds, PinTypes
<1>4. requested \in [DOMAIN tasks -> SUBSET Pin!Issued] /\ gone \in [DOMAIN tasks -> SUBSET Pin!Issued]
  BY <1>1 DEF PinBounds, PinTypes
<1> QED
  BY <1>1, <1>3, <1>4 DEF PinBounds, PinTypes, Pin!PinTypeOK, Points

(* A worker ends its task, tries once more or goes on.                     *)
LEMMA WorkerBounds ==
  ASSUME PinInv, PinBounds, NEW w \in Workers, Busy(w),
         \/ \E o \in {"ok", "failed"} : Pin!End(w, o)
         \/ Pin!NoAnswer(w)
         \/ \E a \in Points \ {"idle"}, r \in Requests : Pin!GoOn(w, a, r)
  PROVE  /\ \A v \in Workers : at'[v] = "idle" => job'[v] = 0
         /\ \A v \in Workers : tries'[v] \in 0 .. MaxAttempts - 1
<1>1. at \in [Workers -> Points] /\ job \in [Workers -> Nat] /\ tries \in [Workers -> Nat]
  BY DEF PinInv, PinTypes
<1>2. ASSUME NEW o, Pin!End(w, o)
      PROVE  /\ \A v \in Workers : at'[v] = "idle" => job'[v] = 0
             /\ \A v \in Workers : tries'[v] \in 0 .. MaxAttempts - 1
  BY <1>1, <1>2, PinAssumption DEF Pin!End, Pin!Free, PinBounds
<1>3. ASSUME tries[w] + 1 < MaxAttempts, tries' = [tries EXCEPT ![w] = @ + 1],
             UNCHANGED <<at, job>>
      PROVE  /\ \A v \in Workers : at'[v] = "idle" => job'[v] = 0
             /\ \A v \in Workers : tries'[v] \in 0 .. MaxAttempts - 1
  BY <1>1, <1>3, PinAssumption DEF PinBounds
<1>4. ASSUME NEW a \in Points \ {"idle"}, NEW r, Pin!GoOn(w, a, r)
      PROVE  /\ \A v \in Workers : at'[v] = "idle" => job'[v] = 0
             /\ \A v \in Workers : tries'[v] \in 0 .. MaxAttempts - 1
  BY <1>1, <1>4, PinAssumption DEF Pin!GoOn, PinBounds, Busy
<1> QED
  BY <1>2, <1>3, <1>4 DEF Pin!NoAnswer

LEMMA WorkBounds ==
  ASSUME PinInv, PinInv', PinBounds, NEW w \in Workers, Pin!Work(w) /\ ~Pin!Take(w)
  PROVE  PinBounds'
<1>1. Busy(w) /\ UNCHANGED <<settled, tasks>>
  BY DEF Pin!Work, Pin!CallFails, Pin!Add, Pin!Wait, Pin!Watch, Pin!Find, Pin!Delete, Pin!Replace,
         Pin!service, Pin!command, Busy
<1>2. /\ job[w] \in DOMAIN tasks /\ WorkTrue(w)
      /\ requested \in [DOMAIN tasks -> SUBSET Requests] /\ gone \in [DOMAIN tasks -> SUBSET Requests]
  BY <1>1, BusyTask DEF PinInv, PinTypes
<1>3. \/ \E o \in {"ok", "failed"} : Pin!End(w, o)
      \/ Pin!NoAnswer(w)
      \/ \E a \in Points \ {"idle"}, r \in Requests : Pin!GoOn(w, a, r)
  <2>1. \A c : Pin!PinsOf(c) \subseteq Requests
    BY DEF PinInv, PinTypes, Pin!PinsOf, Pin!Issued
  <2>2. CASE Pin!CallFails(w) \/ Pin!Wait(w) \/ Pin!Watch(w) \/ Pin!Delete(w) \/ Pin!Replace(w)
    BY <2>2 DEF Pin!CallFails, Pin!Wait, Pin!Watch, Pin!Delete, Pin!Replace
  <2>3. CASE Pin!Add(w)
    BY <2>3 DEF Pin!Add, Points
  <2>4. CASE Pin!Find(w)
    BY <2>1, <2>4 DEF Pin!Find, Points
  <2> QED
    BY <2>2, <2>3, <2>4 DEF Pin!Work
<1>4. /\ \A v \in Workers : at'[v] = "idle" => job'[v] = 0
      /\ \A v \in Workers : tries'[v] \in 0 .. MaxAttempts - 1
  BY <1>1, <1>3, WorkerBounds
<1>5. \A r \in Requests : of[r] # NoCid => of'[r] # NoCid
  <2>1. of' = of \/ \E r \in Requests \ Pin!Issued : Pin!Put(r, Pin!Cid(w))
    BY DEF Pin!Work, Pin!CallFails, Pin!Add, Pin!Wait, Pin!Watch, Pin!Find, Pin!Delete, Pin!Replace,
           Pin!service
  <2> QED
    BY <2>1 DEF Pin!Put, Pin!Issued, PinInv, PinTypes
<1>6. Pin!Issued \subseteq Pin!Issued'
  BY <1>5 DEF Pin!Issued
<1>7. ASSUME NEW i \in DOMAIN tasks PROVE requested'[i] \cup gone'[i] \subseteq Pin!Issued'
  <2>1. requested[i] \cup gone[i] \subseteq Pin!Issued'
    BY <1>6 DEF PinBounds
  <2>2. CASE UNCHANGED <<requested, gone>>
    BY <2>1, <2>2
  <2>3. CASE Pin!Add(w)
    <3>1. PICK r \in Requests \ Pin!Issued :
            Pin!Put(r, Pin!Cid(w)) /\ requested' = [requested EXCEPT ![job[w]] = @ \cup {r}]
      BY <2>3 DEF Pin!Add
    <3>2. requested'[i] \subseteq requested[i] \cup {r} /\ gone' = gone
      BY <1>2, <2>3, <3>1 DEF Pin!Add
    <3>3. r \in Pin!Issued'
      BY <1>1, <1>2, <3>1, BusyTask, PinAssumption DEF Pin!Put, Pin!Issued, Pin!Cid, PinInv, PinTypes
    <3> QED
      BY <2>1, <3>2, <3>3
  <2>4. CASE Pin!Delete(w)
    <3>1. req[w] \in live => req[w] \in Pin!Issued'
      BY <1>6 DEF PinInv, PinTypes
    <3>2. requested' = requested /\ (gone' = gone \/ gone'[i] \subseteq gone[i] \cup {req[w]})
      BY <1>2, <2>4 DEF Pin!Delete
    <3>3. gone' = gone \/ req[w] \in live
      BY <2>4 DEF Pin!Delete
    <3> QED
      BY <2>1, <3>1, <3>2, <3>3
  <2>5. CASE Pin!Replace(w)
    <3>1. CASE UNCHANGED <<requested, gone>>
      BY <2>1, <3>1
    <3>2. CASE ~UNCHANGED <<requested, gone>>
      <4>1. PICK r \in Requests \ Pin!Issued :
              /\ Pin!Put(r, Pin!Cid(w)) /\ requested' = [requested EXCEPT ![job[w]] = @ \cup {r}]
              /\ gone' = [gone EXCEPT ![job[w]] = @ \cup {req[w]}] /\ req[w] \in live
        BY <2>5, <3>2 DEF Pin!Replace
      <4>2. requested'[i] \subseteq requested[i] \cup {r} /\ gone'[i] \subseteq gone[i] \cup {req[w]}
        BY <1>2, <4>1
      <4>3. r \in Pin!Issued'
        BY <1>1, <1>2, <4>1, BusyTask, PinAssumption DEF Pin!Put, Pin!Issued, Pin!Cid, PinInv, PinTypes
      <4>4. req[w] \in Pin!Issued'
        BY <1>6, <4>1 DEF PinInv, PinTypes
      <4> QED
        BY <2>1, <4>2, <4>3, <4>4
    <3> QED
      BY <3>1, <3>2
  <2> QED
    BY <2>2, <2>3, <2>4, <2>5
       DEF Pin!Work, Pin!CallFails, Pin!Wait, Pin!Watch, Pin!Find
<1>8. settled' \subseteq Pin!Issued'
  BY <1>1, <1>6 DEF PinBounds
<1> QED
  BY <1>1, <1>4, <1>7, <1>8 DEF PinBounds

LEMMA PinBoundsKept ==
  ASSUME PinInv, PinInv', PinBounds, Pin!PinNext
  PROVE  PinBounds'
<1>1. CASE \E r \in Requests : Pin!Settle(r) \/ Pin!OtherRemoves(r)
  BY <1>1 DEF Pin!Settle, Pin!OtherRemoves, Pin!command, Pin!workers, Pin!reports, Pin!Issued,
              PinInv, PinTypes, PinBounds
<1>2. ASSUME NEW r \in Requests, NEW c \in Cids, Pin!OtherAdds(r, c) PROVE PinBounds'
  BY <1>2, PinAssumption DEF Pin!OtherAdds, Pin!Put, Pin!command, Pin!workers, Pin!reports,
         Pin!Issued, PinInv, PinTypes, PinBounds
<1>3. ASSUME NEW items, Pin!Submit(items), UNCHANGED <<of, live, settled, at, job, req, tries>>
      PROVE  PinBounds'
  BY <1>3 DEF Pin!Submit, PinBounds, Pin!Issued
<1>4. CASE \E o \in {"pin", "unpin", "update", "status"}, b \in UNION {[1 .. n -> Cids] : n \in 1 .. MaxBatch} :
             \E fs \in SUBSET Pin!FlagsOf(o) : Pin!Invoke(o, b, fs)
  BY <1>3, <1>4 DEF Pin!Invoke, Pin!service, Pin!workers
<1>5. CASE \E fs \in SUBSET Pin!FlagsOf("unpin_all") : Pin!InvokeAll(fs)
  BY <1>3, <1>5 DEF Pin!InvokeAll, Pin!service, Pin!workers
<1>6. CASE Pin!Proceed
  <2>1. CASE Pin!ListPins
    BY <1>3, <2>1 DEF Pin!ListPins, Pin!service, Pin!workers
  <2>2. CASE Pin!CountPins \/ Pin!TypeCount \/ Pin!AbortCommand \/ Pin!Report
    BY <2>2 DEF Pin!CountPins, Pin!TypeCount, Pin!AbortCommand, Pin!Report, Pin!service, Pin!workers,
                Pin!reports, PinBounds, Pin!Issued
  <2> QED
    BY <1>6, <2>1, <2>2 DEF Pin!Proceed
<1>7. ASSUME NEW w \in Workers, Pin!Take(w) PROVE PinBounds'
  <2>1. /\ at' = [at EXCEPT ![w] = Pin!FirstStage] /\ Pin!FirstStage # "idle"
        /\ job' = [job EXCEPT ![w] = next] /\ tries' = tries /\ UNCHANGED <<of, settled, tasks, requested, gone>>
    BY <1>7 DEF Pin!Take, Pin!FirstStage, Pin!service, Pin!reports
  <2> QED
    BY <2>1 DEF PinBounds, PinInv, PinTypes, Pin!Issued
<1> QED
  BY <1>1, <1>2, <1>4, <1>5, <1>6, <1>7, WorkBounds DEF Pin!PinNext

(* The benchmark's clean-ups and the creates.                              *)
BenchBounded ==
  /\ noCleanup \in BOOLEAN /\ expired \in BOOLEAN
  /\ \A c \in Cleaners : attempt[c] <= UnpinAttempts
  /\ process \in {"running", "exited", "killed", "crashed"}

LEMMA BenchTyped == BenchInv /\ BenchBounded => BenchTypeOK
<1> SUFFICES ASSUME BenchInv, BenchBounded PROVE BenchTypeOK
  OBVIOUS
<1>1. BenchTypes /\ unpinned \subseteq Uploads
  BY DEF BenchInv, BenchTypes, ListPast
<1>2. \A c \in Cleaners : attempt[c] \in 0 .. UnpinAttempts
  BY <1>1, BenchBounds DEF BenchTypes, BenchBounded
<1>3. attempt \in [Cleaners -> 0 .. UnpinAttempts]
  BY <1>1, <1>2 DEF BenchTypes
<1> QED
  BY <1>1, <1>3 DEF BenchTypes, BenchBounded, BenchTypeOK

LEMMA BenchBoundsStart == BenchInit => BenchBounded
<1> SUFFICES ASSUME BenchInit PROVE BenchBounded
  OBVIOUS
<1>1. \A c \in Cleaners : attempt[c] <= UnpinAttempts
  BY BenchBounds DEF BenchInit
<1> QED
  BY <1>1 DEF BenchInit, BenchBounded

LEMMA BenchBoundsKept ==
  ASSUME BenchInv, BenchBounded, BenchNext
  PROVE  BenchBounded'
<1>1. CASE ReadOptions \/ Upload \/ Poll \/ AppendCID \/ Expire
  BY <1>1 DEF ReadOptions, Upload, Poll, AppendCID, Expire, BenchBounded
<1>2. CASE Interrupt \/ Killed \/ WildRead
  BY <1>2 DEF Interrupt, Killed, WildRead, BenchBounded
<1>3. ASSUME NEW c \in Cleaners, Attempt(c) PROVE BenchBounded'
  <2>1. /\ attempt' = [attempt EXCEPT ![c] = @ + 1] /\ attempt[c] < UnpinAttempts
        /\ UNCHANGED <<noCleanup, expired, process>>
    BY <1>3 DEF Attempt
  <2>2. attempt \in [Cleaners -> Nat]
    BY DEF BenchInv, BenchTypes
  <2>3. \A d \in Cleaners : attempt'[d] <= UnpinAttempts
    BY <2>1, <2>2, BenchBounds DEF BenchBounded
  <2> QED
    BY <2>1, <2>3 DEF BenchBounded
<1>4. ASSUME NEW c \in Cleaners, EndAttempts(c) \/ ReadReport(c) \/ WriteReport(c) \/ Leave(c)
      PROVE  BenchBounded'
  BY <1>4 DEF EndAttempts, ReadReport, WriteReport, Leave, BenchBounded
<1> QED
  BY <1>1, <1>2, <1>3, <1>4 DEF BenchNext, Progress, Cleanup

SetupBounds == registered \in Creates \cup {NoVault} /\ shown \subseteq Creates

LEMMA SetupTyped == SetupInv /\ SetupBounds => Setup!SetupTypeOK
BY DEF SetupInv, SetupTypes, SetupBounds, Setup!SetupTypeOK

LEMMA SetupBoundsStart == Setup!SetupInit => SetupBounds
BY DEF Setup!SetupInit, SetupBounds

LEMMA SetupBoundsKept ==
  ASSUME SetupInv, SetupBounds, Setup!SetupNext
  PROVE  SetupBounds'
<1>1. ASSUME NEW c \in Creates,
             Setup!CreateStep(c) \/ Setup!FailCreate(c) \/ Setup!StartRestore(c)
      PROVE  SetupBounds'
  BY <1>1 DEF Setup!CreateStep, Setup!StartCreate, Setup!CheckSeed, Setup!SaveSeed, Setup!Approve,
              Setup!SaveState, Setup!AddProfile, Setup!ShowSeed, Setup!FailCreate,
              Setup!StartRestore, SetupBounds
<1>2. CASE Setup!EndRestore \/ Setup!ForgetProfile
  BY <1>2 DEF Setup!EndRestore, Setup!ForgetProfile, SetupInv, SetupTypes, SetupBounds
<1> QED
  BY <1>1, <1>2 DEF Setup!SetupNext

(* Watches: how they end.                                                  *)
WatchEndings ==
  {"", "terminal", "empty", "unauthenticated", "failed", "listed", "operation", "missing", "pin",
   "cancelled", "stopped"}
WatchBounds ==
  watchLine \in Watches /\ client \in {"none", "held", "other"} /\ ended \in WatchEndings

LEMMA WatchTyped == WatchInv /\ WatchBounds => Watch!WatchTypeOK
BY Zenon DEF WatchInv, WatchBounds, WatchEndings, Watch!WatchTypeOK

LEMMA Endings ==
  /\ "terminal" \in WatchEndings /\ "empty" \in WatchEndings /\ "unauthenticated" \in WatchEndings
  /\ "failed" \in WatchEndings /\ "listed" \in WatchEndings /\ "operation" \in WatchEndings
  /\ "missing" \in WatchEndings /\ "pin" \in WatchEndings /\ "cancelled" \in WatchEndings
  /\ "stopped" \in WatchEndings /\ "" \in WatchEndings
BY Zenon DEF WatchEndings

LEMMA WatchBoundsStart == Watch!WatchInit => WatchBounds
<1> SUFFICES ASSUME Watch!WatchInit PROVE WatchBounds
  OBVIOUS
<1>1. watchLine \in Watches /\ ended = ""
  BY Zenon DEF Watch!WatchInit
<1>2. client \in {"none", "other"}
  BY Zenon DEF Watch!WatchInit
<1> QED
  BY <1>1, <1>2, Endings, Zenon DEF WatchBounds

LEMMA WatchBoundsKept ==
  ASSUME WatchBounds, Watch!WatchNext
  PROVE  WatchBounds'
<1> SUFFICES watchLine' = watchLine /\ client' \in {client, "held"} /\ ended' \in WatchEndings
  BY DEF WatchBounds
<1>1. ended \in WatchEndings
  BY DEF WatchBounds
<1>2. ASSUME NEW items, NEW rows, Watch!watchLoop(items, rows)
      PROVE  watchLine' = watchLine /\ client' = client /\ ended' \in WatchEndings
  <2>1. CASE rows = {}
    BY <1>2, <2>1, Endings DEF Watch!watchLoop, Watch!End
  <2>2. CASE rows # {} /\ Watch!allTerminal(rows)
    BY <1>2, <2>2, Endings DEF Watch!watchLoop, Watch!End
  <2>3. CASE rows # {} /\ ~Watch!allTerminal(rows)
    BY <1>1, <1>2, <2>3 DEF Watch!watchLoop
  <2> QED
    BY <2>1, <2>2, <2>3 DEF Watch!watchLoop
<1>3. CASE Watch!ListWatch \/ Watch!SSLWatch
  BY <1>2, <1>3 DEF Watch!ListWatch, Watch!SSLWatch
<1>4. CASE Watch!OperationsWatch(TRUE) \/ Watch!OperationsWatch(FALSE) \/ Watch!OperationWatch
  BY <1>1, <1>4, Endings DEF Watch!OperationsWatch, Watch!OperationWatch, Watch!End
<1>5. CASE Watch!StatusOf \/ Watch!StatusTable \/ Watch!OperationsOnce \/ Watch!ListOnce
  BY <1>1, <1>5, Endings
     DEF Watch!StatusOf, Watch!StatusTable, Watch!OperationsOnce, Watch!ListOnce,
         Watch!lookupOperation, Watch!End
<1>6. CASE Watch!RequireAuthenticated \/ Watch!Interrupted
  BY <1>1, <1>6, Endings DEF Watch!RequireAuthenticated, Watch!Interrupted, Watch!End
<1>7. ASSUME NEW i \in WatchItems, Watch!Advance(i) \/ Watch!Appear(i)
      PROVE  watchLine' = watchLine /\ client' = client /\ ended' \in WatchEndings
  BY <1>1, <1>7 DEF Watch!Advance, Watch!Appear
<1> QED
  BY <1>3, <1>4, <1>5, <1>6, <1>7 DEF Watch!WatchNext, Watch!Poll

(* Copies: what a command answers, and how often it checks a pin.          *)
CopyBounds ==
  /\ answer \in {"none", "ok", "staged", "nothing", "noop", "exists", "error", "killed"}
  /\ verified \in 0 .. Verifications

LEMMA CopyTyped == CopyInv /\ CopyBounds => Copy!CopyTypeOK
BY DEF CopyInv, CopyTypes, CopyBounds, Copy!CopyTypeOK

LEMMA CopyBoundsStart == Copy!CopyInit => CopyBounds
BY CopyAssumption DEF Copy!CopyInit, CopyBounds

LEMMA CopyBoundsKept ==
  ASSUME CopyInv, CopyBounds, Copy!CopyNext
  PROVE  CopyBounds'
<1> USE DEF CopyBounds, Copy!Finish, Copy!To, Copy!ipfsState
<1>1. ASSUME NEW v \in Vaults, Copy!OtherPuts(v) \/ Copy!Flusher(v) \/ Copy!UseProfile(v)
      PROVE  CopyBounds'
  BY <1>1 DEF Copy!OtherPuts, Copy!Flusher, Copy!Flushed, Copy!UseProfile
<1>2. CASE Copy!OtherCreates \/ Copy!PinSettles
  BY <1>2 DEF Copy!OtherCreates, Copy!PinSettles
<1>3. ASSUME NEW k, NEW v, NEW w, NEW fs, Copy!Start(k, v, w, fs) PROVE CopyBounds'
  BY <1>3 DEF Copy!Start
<1>4. CASE \/ Copy!CheckObject \/ Copy!Store \/ Copy!StoreDurably \/ Copy!FlushCopy
           \/ Copy!FlushState \/ Copy!FlushSync \/ Copy!CheckFile \/ Copy!ReadObject
           \/ Copy!Rename \/ Copy!CreateFile \/ Copy!WriteFile
  BY <1>4 DEF Copy!CheckObject, Copy!Store, Copy!StoreDurably, Copy!FlushCopy, Copy!FlushState,
              Copy!FlushSync, Copy!CheckFile, Copy!ReadObject, Copy!Rename, Copy!CreateFile,
              Copy!WriteFile
<1>5. CASE Copy!Send \/ Copy!WaitOperation \/ Copy!Verify \/ Copy!SetMeta \/ Copy!AbortCopy
  BY <1>5, CopyAssumption
     DEF Copy!Send, Copy!WaitOperation, Copy!Verify, Copy!SetMeta, Copy!AbortCopy
<1>6. CASE Copy!FlushConfirm
  <2>1. UNCHANGED verified
    BY <1>6 DEF Copy!FlushConfirm
  <2>2. CASE status[copy.to] = "ok"
    BY <1>6, <2>1, <2>2 DEF Copy!FlushConfirm
  <2>3. CASE status[copy.to] = "none"
    BY <1>6, <2>1, <2>3 DEF Copy!FlushConfirm
  <2>4. CASE status[copy.to] \notin {"ok", "none"}
    BY <1>6, <2>1, <2>4 DEF Copy!FlushConfirm
  <2> QED
    BY <2>2, <2>3, <2>4
<1> QED
  BY <1>1, <1>2, <1>3, <1>4, <1>5, <1>6 DEF Copy!CopyNext, Copy!CopyStep

(* The terminal wizards: tries are counted in one step of each wizard, and  *)
(* a domain is bound to a website that was listed.                         *)
TermBounds ==
  /\ made \in 0 .. 1 /\ (term.kind # "websites" => made = 0)
  /\ boundTo \subseteq SiteIds
  /\ announced \subseteq {"completed", "validated", "verified", "bound"}
  /\ term.kind = "domains" /\ term.at >= 3 => draft.site \in SiteIds
  /\ term.kind = "setup" => draft.tries = 0
  /\ term.kind = "websites" =>
       draft.tries <= ValidationTries /\ (term.at < 8 => draft.tries = 0)
  /\ term.kind = "domains" =>
       /\ draft.tries <= VerifyTries /\ (term.at < 7 => draft.tries = 0)
       /\ term.ended = "no" => draft.tries < VerifyTries

LEMMA WizardTyped == TermInv /\ TermBounds => Wizard!TermTypeOK
<1> SUFFICES ASSUME TermInv, TermBounds PROVE Wizard!TermTypeOK
  OBVIOUS
<1>1. /\ draft.tries \in Nat /\ draft.again \in BOOLEAN /\ settings.token \in BOOLEAN
      /\ term.kind \in {"setup", "websites", "domains"} /\ term.at \in 1 .. 8
      /\ term.ended \in {"no", "completed", "failed"}
      /\ term.kind = "setup" => term.at <= 5
      /\ term.kind = "domains" => term.at <= 7
  BY DEF TermInv, TermTypes, Drafts
<1>2. draft.tries \in 0 .. ValidationTries + VerifyTries
  BY <1>1, WizardAssumption DEF TermBounds
<1>3. DOMAIN Wizard!TermSteps = {"setup", "websites", "domains"}
  BY DEF Wizard!TermSteps
<1>4. term.at \in 1 .. Len(Wizard!TermSteps[term.kind])
  <2>1. /\ Len(Wizard!TermSteps["setup"]) = 5 /\ Len(Wizard!TermSteps["websites"]) = 8
        /\ Len(Wizard!TermSteps["domains"]) = 7
    BY WizardSteps
  <2>2. CASE term.kind = "setup"
    <3>1. term.at \in 1 .. 5
      BY <1>1, <2>2
    <3> QED
      BY <2>1, <2>2, <3>1
  <2>3. CASE term.kind = "websites"
    BY <1>1, <2>1, <2>3
  <2>4. CASE term.kind = "domains"
    <3>1. term.at \in 1 .. 7
      BY <1>1, <2>4
    <3> QED
      BY <2>1, <2>4, <3>1
  <2> QED
    BY <1>1, <2>2, <2>3, <2>4
<1> QED
  BY <1>1, <1>2, <1>3, <1>4 DEF TermBounds, Wizard!TermTypeOK

LEMMA TermBoundsStart == Wizard!TermInit => TermBounds
<1> SUFFICES ASSUME Wizard!TermInit PROVE TermBounds
  OBVIOUS
<1>1. /\ term.at = 1 /\ made = 0 /\ boundTo = {} /\ announced = {} /\ draft.tries = 0
  BY DEF Wizard!TermInit, Wizard!EmptyDraft
<1> QED
  BY <1>1, WizardAssumption DEF TermBounds

(* What the runner does with a step's draft.                               *)
LEMMA Moved ==
  ASSUME TermTypes, NEW d, Wizard!Keep(d)
  PROVE  /\ draft' = d /\ term'.kind = term.kind
         /\ d.again => term' = term
         /\ ~d.again /\ AtLast => term'.at = term.at /\ term'.ended = "completed"
         /\ ~d.again /\ ~AtLast => term'.at = term.at + 1 /\ term'.ended = term.ended
<1>1. /\ draft' = d
      /\ term' = IF d.again THEN term
                 ELSE IF AtLast THEN [term EXCEPT !.ended = "completed"]
                 ELSE [term EXCEPT !.at = @ + 1]
  BY WizardLast DEF Wizard!Keep, Wizard!GoNext
<1>2. CASE d.again
  BY <1>1, <1>2
<1>3. CASE ~d.again /\ AtLast
  BY <1>1, <1>3 DEF TermTypes
<1>4. CASE ~d.again /\ ~AtLast
  BY <1>1, <1>4 DEF TermTypes
<1> QED
  BY <1>2, <1>3, <1>4

(* A step that does not count.                                             *)
LEMMA UncountedStep ==
  ASSUME TermInv, TermBounds, term.ended = "no", UNCHANGED <<made, boundTo, announced>>,
         NEW d, Wizard!Keep(d), d.tries = draft.tries, ~d.again,
         term.kind = "domains" => term.at < 7 /\ (IF term.at = 2 THEN d.site \in SiteIds ELSE d.site = draft.site)
  PROVE  TermBounds'
<1>1. /\ draft' = d /\ term'.kind = term.kind /\ term.at \in 1 .. 8
      /\ \/ AtLast /\ term'.at = term.at /\ term'.ended = "completed"
         \/ ~AtLast /\ term'.at = term.at + 1 /\ term'.ended = "no"
  BY Moved DEF TermInv, TermTypes
<1>2. CASE term.kind = "domains"
  <2>1. term'.at = term.at + 1 /\ draft.tries = 0
    BY <1>1, <1>2 DEF AtLast, TermBounds
  <2>2. term'.at >= 3 => d.site \in SiteIds
    BY <1>1, <1>2, <2>1 DEF TermBounds
  <2> QED
    BY <1>1, <1>2, <2>1, <2>2, WizardAssumption DEF TermBounds
<1>3. CASE term.kind = "websites"
  BY <1>1, <1>3, WizardAssumption DEF TermBounds, AtLast
<1>4. CASE term.kind \notin {"domains", "websites"}
  BY <1>1, <1>4 DEF TermBounds
<1> QED
  BY <1>2, <1>3, <1>4

(* A step that ends the wizard, or moves it and leaves the draft's count.  *)
LEMMA FailedBounds ==
  ASSUME TermInv, TermBounds, Wizard!Abort, UNCHANGED <<draft, announced>>,
         made' = made \/ (term.kind = "websites" /\ made = 0 /\ made' = 1), boundTo' \subseteq SiteIds
  PROVE  TermBounds'
<1>1. term'.kind = term.kind /\ term'.at = term.at /\ term'.ended = "failed"
  BY DEF Wizard!Abort, TermInv, TermTypes
<1> QED
  BY <1>1 DEF TermBounds

LEMMA SetupBounded ==
  ASSUME TermInv, TermBounds, Wizard!Reset \/ Wizard!AuthStep \/ Wizard!ConfigStep
  PROVE  TermBounds'
<1>1. /\ term.ended = "no" /\ draft \in Drafts /\ TermTypes
      /\ UNCHANGED <<listing, made, boundTo, announced>>
  BY DEF Wizard!Reset, Wizard!AuthStep, Wizard!ConfigStep, Wizard!Doing, Wizard!Portal, TermInv
<1>2. CASE Wizard!Reset
  <2>1. /\ term' = [term EXCEPT !.reset = FALSE] /\ draft' = [draft EXCEPT !.asked = "reset"]
        /\ term.kind = "setup"
    BY <1>2 DEF Wizard!Reset
  <2>2. term'.kind = "setup" /\ draft'.tries = draft.tries
    BY <1>1, <2>1 DEF TermInv, TermTypes, Drafts
  <2> QED
    BY <1>1, <2>1, <2>2 DEF TermBounds
<1>3. CASE Wizard!AuthStep
  <2>1. term.at = 1
    BY <1>3, WizardPlaces DEF Wizard!AuthStep, TermInv
  <2>2. draft.again = FALSE
    BY <1>1, <2>1 DEF TermInv, PlaceTells, Drafts
  <2>3. CASE Wizard!Abort /\ UNCHANGED draft
    BY <1>1, <2>3, FailedBounds DEF TermBounds
  <2>4. CASE Wizard!Keep(draft)
    <3>1. /\ draft' = draft /\ term'.kind = term.kind /\ term'.at = 2 /\ term'.ended = "no"
      BY <1>1, <1>3, <2>1, <2>2, <2>4, Moved DEF AtLast
    <3> QED
      BY <1>1, <2>1, <3>1 DEF TermBounds
  <2> QED
    BY <1>3, <2>3, <2>4 DEF Wizard!AuthStep
<1>4. CASE Wizard!ConfigStep
  <2>1. term.kind = "setup" /\ term.at = 2 /\ draft.again = FALSE
    BY <1>1, <1>4, WizardPlaces DEF Wizard!ConfigStep, TermInv, PlaceTells, Drafts
  <2>2. CASE Wizard!Abort /\ UNCHANGED draft
    BY <1>1, <2>2, FailedBounds DEF TermBounds
  <2>3. ASSUME NEW s, Wizard!Keep([draft EXCEPT !.asked = s]),
               s \in {"kept", "default", "https", "http"}
        PROVE  TermBounds'
    <3> DEFINE d == [draft EXCEPT !.asked = s]
    <3>1. d \in Drafts /\ d.tries = draft.tries
      BY <1>1, <2>3 DEF Drafts
    <3>2. Wizard!Keep(d)
      BY <2>3
    <3> HIDE DEF d
    <3>3. draft' = d /\ term'.kind = "setup"
      BY <1>1, <2>1, <3>1, <3>2, Moved
    <3> QED
      BY <1>1, <2>1, <3>1, <3>3 DEF TermBounds
  <2>4. \/ Wizard!Abort /\ UNCHANGED draft
        \/ \E s \in {"kept", "default", "https", "http"} : Wizard!Keep([draft EXCEPT !.asked = s])
    <3>1. ASSUME NEW https \in BOOLEAN,
                 Wizard!Keep([draft EXCEPT !.asked = IF https THEN "https" ELSE "http"])
          PROVE  \E s \in {"kept", "default", "https", "http"} : Wizard!Keep([draft EXCEPT !.asked = s])
      <4>1. CASE https
        BY <3>1, <4>1
      <4>2. CASE ~https
        BY <3>1, <4>2
      <4> QED
        BY <4>1, <4>2
    <3> QED
      BY <1>4, <3>1 DEF Wizard!ConfigStep
  <2> QED
    BY <2>2, <2>3, <2>4
<1> QED
  BY <1>2, <1>3, <1>4

(* Steps that show something, or take an answer.                           *)
LEMMA AnsweredBounds ==
  ASSUME TermInv, TermBounds,
         \/ Wizard!CompletionStep \/ Wizard!TutorialStep \/ Wizard!McpStep \/ Wizard!SourceStep
         \/ Wizard!TargetStep \/ Wizard!DomainStep \/ Wizard!DnsStep \/ Wizard!DnsSetupStep
         \/ Wizard!SelectStep \/ Wizard!NameStep \/ Wizard!NamespaceStep \/ Wizard!DelegationStep
  PROVE  TermBounds'
<1> USE DEF Wizard!Portal, Wizard!Shown, Wizard!Answer
<1>1. /\ draft \in Drafts /\ TermTypes /\ term.ended = "no"
      /\ UNCHANGED <<made, boundTo, announced>>
  BY DEF Wizard!CompletionStep, Wizard!TutorialStep, Wizard!McpStep, Wizard!SourceStep,
         Wizard!TargetStep, Wizard!DomainStep, Wizard!DnsStep, Wizard!DnsSetupStep,
         Wizard!SelectStep, Wizard!NameStep, Wizard!NamespaceStep, Wizard!DelegationStep,
         Wizard!Doing, TermInv, TermTypes
<1>2. /\ term.kind = "domains" => term.at < 7 /\ (term.at = 2 <=> Wizard!SelectStep)
      /\ Wizard!SelectStep => term.kind = "domains"
  <2>1. term.kind = "domains" => term.at < 7
    <3>1. \/ \E s \in {"completion", "tutorial", "mcp"} : Wizard!Doing("setup", s)
          \/ \E s \in {"source", "target", "domain", "dns"} : Wizard!Doing("websites", s)
          \/ Wizard!Doing("websites", "setup") \/ Wizard!Doing("domains", "delegation")
          \/ \E s \in {"website", "domain", "namespace"} : Wizard!Doing("domains", s)
      BY DEF Wizard!CompletionStep, Wizard!TutorialStep, Wizard!McpStep, Wizard!SourceStep,
             Wizard!TargetStep, Wizard!DomainStep, Wizard!DnsStep, Wizard!DnsSetupStep,
             Wizard!SelectStep, Wizard!NameStep, Wizard!NamespaceStep, Wizard!DelegationStep
    <3>2. term.at \in 1 .. 8
      BY <1>1 DEF TermTypes
    <3> QED
      BY <1>1, <3>1, <3>2, WizardPlaces
  <2>2. term.kind = "domains" /\ term.at # 2 => Wizard!TermSteps["domains"][term.at] # "website"
    BY <1>1, WizardSteps DEF TermTypes
  <2>3. CASE Wizard!SelectStep
    BY <2>1, <2>2, <2>3 DEF Wizard!SelectStep, Wizard!Doing
  <2>4. CASE ~Wizard!SelectStep
    <3>1. \/ \E s \in {"completion", "tutorial", "mcp"} : Wizard!Doing("setup", s)
          \/ \E s \in {"source", "target", "domain", "dns", "setup"} : Wizard!Doing("websites", s)
          \/ \E s \in {"domain", "namespace", "delegation"} : Wizard!Doing("domains", s)
      BY <2>4
         DEF Wizard!CompletionStep, Wizard!TutorialStep, Wizard!McpStep, Wizard!SourceStep,
             Wizard!TargetStep, Wizard!DomainStep, Wizard!DnsStep, Wizard!DnsSetupStep,
             Wizard!NameStep, Wizard!NamespaceStep, Wizard!DelegationStep
    <3>2. term.kind = "domains" => Wizard!TermSteps["domains"][term.at] # "website"
      BY <3>1 DEF Wizard!Doing
    <3>3. term.kind = "domains" => term.at # 2
      BY <3>2, WizardSteps
    <3> QED
      BY <2>1, <2>4, <3>3
  <2> QED
    BY <2>3, <2>4
<1>3. draft.again = FALSE
  BY <1>1, <1>2 DEF TermInv, PlaceTells, Drafts
<1>4. ASSUME NEW d, Wizard!Keep(d), d.tries = draft.tries, d.again = draft.again,
             d.site = draft.site, ~Wizard!SelectStep
      PROVE  TermBounds'
  BY <1>1, <1>2, <1>3, <1>4, UncountedStep
<1>5. CASE \/ Wizard!CompletionStep \/ Wizard!TutorialStep \/ Wizard!McpStep
           \/ Wizard!NamespaceStep \/ Wizard!DnsSetupStep \/ Wizard!DelegationStep
  <2>1. Wizard!Keep(draft) /\ ~Wizard!SelectStep
    BY <1>5, <1>2, WizardPlaces, WizardSteps
       DEF Wizard!CompletionStep, Wizard!TutorialStep, Wizard!McpStep, Wizard!NamespaceStep,
           Wizard!DnsSetupStep, Wizard!DelegationStep, Wizard!SelectStep, Wizard!Doing
  <2> QED
    BY <1>4, <2>1
<1>6. ASSUME NEW d \in {[draft EXCEPT !.cid = TRUE], [draft EXCEPT !.domain = TRUE]}
                      \cup {[draft EXCEPT !.target = t] : t \in {"ipfs", "ipns"}}
                      \cup {[draft EXCEPT !.dns = m] : m \in BOOLEAN}
      PROVE  d.tries = draft.tries /\ d.again = draft.again /\ d.site = draft.site
  BY <1>1, <1>6 DEF Drafts
<1>7. CASE Wizard!SourceStep \/ Wizard!TargetStep \/ Wizard!DomainStep \/ Wizard!DnsStep \/ Wizard!NameStep
  <2>1. PICK d \in {[draft EXCEPT !.cid = TRUE], [draft EXCEPT !.domain = TRUE]}
                      \cup {[draft EXCEPT !.target = t] : t \in {"ipfs", "ipns"}}
                      \cup {[draft EXCEPT !.dns = m] : m \in BOOLEAN} : Wizard!Keep(d)
    BY <1>7 DEF Wizard!SourceStep, Wizard!TargetStep, Wizard!DomainStep, Wizard!DnsStep, Wizard!NameStep
  <2>2. ~Wizard!SelectStep
    BY <1>7 DEF Wizard!SourceStep, Wizard!TargetStep, Wizard!DomainStep, Wizard!DnsStep,
                Wizard!NameStep, Wizard!SelectStep, Wizard!Doing
  <2>3. d.tries = draft.tries /\ d.again = draft.again /\ d.site = draft.site
    BY <1>6
  <2> QED
    BY <1>4, <2>1, <2>2, <2>3
<1>8. CASE Wizard!SelectStep
  <2>1. CASE Wizard!Abort /\ UNCHANGED draft
    BY <1>1, <2>1, FailedBounds DEF TermBounds
  <2>2. ASSUME NEW s \in listing, Wizard!Keep([draft EXCEPT !.site = s]) PROVE TermBounds'
    <3> DEFINE d == [draft EXCEPT !.site = s]
    <3>1. d.tries = draft.tries /\ d.again = draft.again /\ d.site \in SiteIds
      BY <1>1, <2>2 DEF Drafts, TermTypes
    <3>2. Wizard!Keep(d)
      BY <2>2
    <3> HIDE DEF d
    <3> QED
      BY <1>1, <1>2, <1>3, <1>8, <3>1, <3>2, UncountedStep
  <2> QED
    BY <1>8, <2>1, <2>2 DEF Wizard!SelectStep
<1> QED
  BY <1>5, <1>7, <1>8

(* The steps at which the portal changes or answers.                       *)
LEMMA PortalBounds ==
  ASSUME TermInv, TermBounds,
         Wizard!CreateStep \/ Wizard!ValidateStep \/ Wizard!BindStep \/ Wizard!VerifyStep
  PROVE  TermBounds'
<1> USE DEF Wizard!Portal
<1>1. draft \in Drafts /\ TermTypes /\ term.ended = "no"
  BY DEF Wizard!CreateStep, Wizard!ValidateStep, Wizard!BindStep, Wizard!VerifyStep, Wizard!Doing, TermInv
<1>2. CASE Wizard!CreateStep
  <2>1. /\ term.kind = "websites" /\ term.at = 6 /\ made = 0 /\ made' = 1 /\ draft.again = FALSE
        /\ UNCHANGED <<boundTo, announced>>
    BY <1>1, <1>2, WizardPlaces DEF Wizard!CreateStep, TermInv, PlaceTells, Drafts
  <2>2. CASE Wizard!Abort /\ UNCHANGED draft
    BY <2>1, <2>2, FailedBounds DEF TermBounds
  <2>3. CASE Wizard!Keep([draft EXCEPT !.site = "new"])
    <3> DEFINE d == [draft EXCEPT !.site = "new"]
    <3>1. d.again = FALSE /\ d.tries = draft.tries
      BY <1>1, <2>1 DEF Drafts
    <3>2. Wizard!Keep(d)
      BY <2>3
    <3> HIDE DEF d
    <3>3. /\ draft' = d /\ term'.kind = "websites" /\ term'.at = 7
      BY <1>1, <2>1, <3>1, <3>2, Moved DEF AtLast
    <3> QED
      BY <2>1, <3>1, <3>3, WizardAssumption DEF TermBounds
  <2> QED
    BY <1>2, <2>2, <2>3 DEF Wizard!CreateStep
<1>3. CASE Wizard!ValidateStep
  <2>1. /\ term.kind = "websites" /\ term.at = 8 /\ draft.again = FALSE
        /\ UNCHANGED <<made, boundTo, announced>>
    BY <1>1, <1>3, WizardPlaces DEF Wizard!ValidateStep, TermInv, PlaceTells, Drafts
  <2>2. CASE Wizard!Keep(draft)
    BY <1>1, <2>1, <2>2, UncountedStep
  <2>3. CASE /\ draft.tries < ValidationTries /\ UNCHANGED term
             /\ \E v \in {draft.verdict, "invalid", "valid"} :
                  draft' = [draft EXCEPT !.tries = IF v = "valid" THEN ValidationTries ELSE @ + 1,
                                         !.verdict = v]
    <3>1. draft'.tries = ValidationTries \/ draft'.tries = draft.tries + 1
      BY <1>1, <2>3 DEF Drafts
    <3>2. draft'.tries <= ValidationTries
      BY <1>1, <2>3, <3>1, WizardAssumption DEF Drafts
    <3> QED
      BY <2>1, <2>3, <3>2 DEF TermBounds
  <2> QED
    BY <1>3, <2>2, <2>3 DEF Wizard!ValidateStep
<1>4. CASE Wizard!BindStep
  <2>1. /\ term.kind = "domains" /\ term.at = 5 /\ boundTo' \subseteq SiteIds /\ draft.again = FALSE
        /\ UNCHANGED <<made, announced>>
    BY <1>1, <1>4, WizardPlaces DEF Wizard!BindStep, TermBounds, TermInv, PlaceTells, Drafts
  <2>2. CASE Wizard!Abort /\ UNCHANGED draft
    BY <2>1, <2>2, FailedBounds
  <2>3. ASSUME NEW state \in {"pending", "active"}, Wizard!Keep([draft EXCEPT !.bound = state])
        PROVE  TermBounds'
    <3> DEFINE d == [draft EXCEPT !.bound = state]
    <3>1. d.again = FALSE /\ d.tries = draft.tries /\ d.site = draft.site
      BY <1>1, <2>1 DEF Drafts
    <3>2. Wizard!Keep(d)
      BY <2>3
    <3> HIDE DEF d
    <3>3. /\ draft' = d /\ term'.kind = "domains" /\ term'.at = 6 /\ term'.ended = "no"
      BY <1>1, <2>1, <3>1, <3>2, Moved DEF AtLast
    <3> QED
      BY <2>1, <3>1, <3>3, WizardAssumption DEF TermBounds
  <2> QED
    BY <1>4, <2>2, <2>3 DEF Wizard!BindStep
<1>5. CASE Wizard!VerifyStep
  <2>1. /\ term.kind = "domains" /\ term.at = 7 /\ UNCHANGED <<made, boundTo>>
        /\ announced' \subseteq announced \cup {"verified"}
        /\ draft.tries \in Nat /\ draft.tries < VerifyTries /\ draft.site \in SiteIds
    BY <1>1, <1>5, WizardPlaces DEF Wizard!VerifyStep, TermBounds, Drafts
  <2>2. PICK reply \in {"none", "pending", "active"} :
          LET d == [draft EXCEPT !.bound = IF reply = "none" THEN draft.bound ELSE reply,
                                 !.verified = reply]
          IN IF reply = "active"
             THEN Wizard!Keep([d EXCEPT !.again = FALSE])
             ELSE Wizard!Keep([d EXCEPT !.tries = d.tries + 1,
                                        !.again = draft.tries + 1 < VerifyTries])
    BY <1>5 DEF Wizard!VerifyStep
  <2> DEFINE c == [draft EXCEPT !.bound = IF reply = "none" THEN draft.bound ELSE reply,
                                !.verified = reply]
  <2>3. c \in Drafts /\ c.site = draft.site /\ c.tries = draft.tries
    BY <1>1 DEF Drafts
  <2> HIDE DEF c
  <2>4. CASE reply = "active"
    <3> DEFINE d == [c EXCEPT !.again = FALSE]
    <3>1. d.again = FALSE /\ d.site = draft.site /\ d.tries = draft.tries
      BY <2>3 DEF Drafts
    <3>2. Wizard!Keep(d)
      BY <2>2, <2>4 DEF c
    <3> HIDE DEF d
    <3>3. /\ draft' = d /\ term'.kind = "domains" /\ term'.at = 7 /\ term'.ended = "completed"
      BY <1>1, <2>1, <3>1, <3>2, Moved DEF AtLast
    <3> QED
      BY <2>1, <3>1, <3>3, WizardAssumption DEF TermBounds
  <2>5. CASE reply # "active"
    <3> DEFINE n == c.tries + 1
               b == draft.tries + 1 < VerifyTries
               d == [c EXCEPT !.tries = n, !.again = b]
    <3>1. n = draft.tries + 1 /\ n \in Nat /\ b \in BOOLEAN /\ (b <=> n < VerifyTries)
      BY <2>1, <2>3
    <3>2. Wizard!Keep(d)
      BY <2>2, <2>5 DEF c
    <3> HIDE DEF n, b
    <3>3. d.again = b /\ d.tries = n /\ d.site = draft.site
      BY <2>3, <3>1 DEF Drafts
    <3> HIDE DEF d
    <3>4. /\ draft' = d /\ term'.kind = "domains" /\ term'.at = 7
          /\ (~b => term'.ended = "completed")
      BY <1>1, <2>1, <3>2, <3>3, Moved DEF AtLast
    <3>5. draft'.tries <= VerifyTries /\ (term'.ended = "no" => draft'.tries < VerifyTries)
      BY <2>1, <3>1, <3>3, <3>4, WizardAssumption
    <3> QED
      BY <2>1, <3>3, <3>4, <3>5 DEF TermBounds
  <2> QED
    BY <2>4, <2>5
<1> QED
  BY <1>2, <1>3, <1>4, <1>5

LEMMA TermBoundsKept ==
  ASSUME TermInv, TermBounds, Wizard!TermNext
  PROVE  TermBounds'
<1>1. CASE Wizard!Break
  BY <1>1, FailedBounds DEF Wizard!Break, Wizard!Portal, TermBounds
<1>2. CASE Wizard!Close
  BY <1>2 DEF Wizard!Close, Wizard!Portal, TermBounds
<1> QED
  BY <1>1, <1>2, SetupBounded, AnsweredBounds, PortalBounds DEF Wizard!TermNext, Wizard!TermProgress

(* The catalogue's commands: a listing has no more pages than there are    *)
(* rows, and nothing is taken that is no row.                              *)
CatalogBounds ==
  /\ taken \subseteq Rows /\ input.confirm \in {"default", "yes", "no"}
  /\ scan.next \in 0 .. Cardinality(Rows) + 1
  /\ point \in {"positional", "ids", "scan", "gate", "extra", "execute", "render", "end"}

LEMMA RowsCounted ==
  /\ Cardinality(Rows) \in Nat
  /\ \A S \in SUBSET Rows : Cardinality(S) \in Nat /\ Cardinality(S) <= Cardinality(Rows)
BY CatalogAssumption, FS_CardinalityType, FS_Subset

LEMMA CatalogTyped == CatalogInv /\ CatalogBounds => Catalog!CommandTypeOK
BY SameRowCardinality DEF CatalogInv, CatalogBounds, Catalog!CommandTypeOK

LEMMA CatalogBoundsStart == Catalog!CommandInit => CatalogBounds
BY RowsCounted DEF Catalog!CommandInit, CatalogBounds

LEMMA ResolvingBounds ==
  ASSUME CatalogInv, CatalogBounds,
         Catalog!ResolvePositional \/ Catalog!ResolveIDs \/ Catalog!ScanNames
  PROVE  CatalogBounds'
<1>1. CASE Catalog!ResolvePositional
  <2> DEFINE p == Catalog!Positional
  <2>1. input' = [input EXCEPT !.target = p] /\ UNCHANGED <<taken, scan>> /\ point' = "ids"
    BY <1>1 DEF Catalog!ResolvePositional, Catalog!Step
  <2> HIDE DEF p
  <2> QED
    BY <2>1 DEF CatalogInv, CatalogBounds
<1>2. CASE Catalog!ResolveIDs
  <2>1. /\ UNCHANGED <<taken, input>> /\ point' \in {"scan", "gate"}
        /\ UNCHANGED scan \/ scan' = [next |-> 1, seen |-> {}]
    BY <1>2 DEF Catalog!ResolveIDs, Catalog!Step
  <2> QED
    BY <2>1, RowsCounted DEF CatalogBounds
<1>3. CASE Catalog!ScanNames
  <2>1. point = "scan" /\ Catalog!ScanPage("gate") /\ UNCHANGED taken
    BY <1>3 DEF Catalog!ScanNames, Catalog!ScanPage
  <2>2. CASE ~(Catalog!Page = {} \/ scan.next >= Catalog!Cardinality(objects))
    <3> DEFINE seen == scan.seen \cup Catalog!Page
    <3>1. scan' = [next |-> scan.next + 1, seen |-> seen] /\ UNCHANGED <<input, point>>
      BY <2>1, <2>2 DEF Catalog!ScanPage
    <3> HIDE DEF seen
    <3>2. Cardinality(objects) \in Nat /\ Cardinality(objects) <= Cardinality(Rows)
      BY RowsCounted DEF CatalogInv
    <3>3. scan.next \in Nat /\ scan.next < Cardinality(objects)
      BY <2>2, <3>2, SameRowCardinality DEF CatalogBounds
    <3>4. scan'.next \in 0 .. Cardinality(Rows) + 1
      BY <3>1, <3>2, <3>3, RowsCounted
    <3> QED
      BY <2>1, <3>1, <3>4 DEF CatalogBounds
  <2>3. CASE Catalog!Page = {} \/ scan.next >= Catalog!Cardinality(objects)
    <3>1. UNCHANGED scan
      BY <2>1, <2>3 DEF Catalog!ScanPage
    <3>2. \/ UNCHANGED input /\ point' = "end"
          \/ \E r : input' = [input EXCEPT !.target = TextOf[r]] /\ point' = "gate"
      BY <2>1, <2>3 DEF Catalog!ScanPage, Catalog!Stop, Catalog!Step
    <3>3. input'.confirm = input.confirm /\ point' \in {"end", "gate"}
      BY <3>2 DEF CatalogInv
    <3> QED
      BY <2>1, <3>1, <3>3 DEF CatalogBounds
  <2> QED
    BY <2>2, <2>3
<1> QED
  BY <1>1, <1>2, <1>3

LEMMA GateBounds ==
  ASSUME CatalogInv, CatalogBounds, Catalog!DestructiveGate
  PROVE  CatalogBounds'
<1> USE DEF Catalog!Step, Catalog!Stop
<1>1. UNCHANGED <<taken, scan>>
  BY DEF Catalog!DestructiveGate
<1>2. ASSUME NEW c, Catalog!SetConfirm(c) PROVE input'.confirm \in {"yes", "no"}
  BY <1>2 DEF Catalog!SetConfirm, CatalogInv
<1>3. ASSUME NEW w, Catalog!GateForceReject(w) \/ Catalog!GateHintSilent(w)
      PROVE  point' \in {"end", "extra"} /\ \E c : Catalog!SetConfirm(c)
  BY <1>3 DEF Catalog!GateForceReject, Catalog!GateHintSilent
<1>4. /\ point' \in {"end", "extra"}
      /\ UNCHANGED input \/ \E c : Catalog!SetConfirm(c)
  <2>1. \/ \E w : Catalog!GateForceReject(w) \/ Catalog!GateHintSilent(w)
        \/ Catalog!GateNone \/ Catalog!GatePassthroughForce \/ Catalog!GateInteractivePrompt
    BY DEF Catalog!DestructiveGate, Catalog!PinsGate, Catalog!DNSGate, Catalog!WebsitesGate,
           Catalog!WorkspacesGate, Catalog!VaultGate, Catalog!AdminGate
  <2>2. CASE Catalog!GateNone \/ Catalog!GatePassthroughForce
    BY <2>2 DEF Catalog!GateNone, Catalog!GatePassthroughForce
  <2>3. CASE Catalog!GateInteractivePrompt
    BY <2>3 DEF Catalog!GateInteractivePrompt
  <2> QED
    BY <1>3, <2>1, <2>2, <2>3
<1> QED
  BY <1>1, <1>2, <1>4 DEF CatalogBounds

LEMMA CatalogBoundsKept ==
  ASSUME CatalogInv, CatalogBounds, Catalog!CommandNext
  PROVE  CatalogBounds'
<1> USE DEF Catalog!Step, Catalog!Stop
<1>1. CASE Catalog!UpdateGuard \/ Catalog!ExtraConfirm \/ Catalog!Render
  <2>1. UNCHANGED <<taken, scan, input>> /\ point' \in {"execute", "end"}
    BY <1>1 DEF Catalog!UpdateGuard, Catalog!ExtraConfirm, Catalog!Render
  <2> QED
    BY <2>1 DEF CatalogBounds
<1>2. CASE Catalog!Execute
  <2>1. UNCHANGED <<scan, input>> /\ point' \in {"render", "end"} /\ taken' \in {taken, Catalog!TargetOf}
    BY <1>2 DEF Catalog!Execute
  <2>2. Catalog!TargetOf \subseteq Rows
    BY DEF Catalog!TargetOf, CatalogInv
  <2> QED
    BY <2>1, <2>2 DEF CatalogBounds
<1>3. CASE Catalog!Others
  <2>1. UNCHANGED <<taken, scan, input, point>>
    BY <1>3 DEF Catalog!Others, Catalog!OthersRemove, Catalog!OthersAdd
  <2> QED
    BY <2>1 DEF CatalogBounds
<1> QED
  BY <1>1, <1>2, <1>3, ResolvingBounds, GateBounds DEF Catalog!CommandNext

(* The credentials: a request carries a token of one of the two accounts,   *)
(* since a command that has none ends before it sends anything.            *)
RealTokens == [account : {"C", "T"}, kind : {"api", "login"}]
Tokens == RealTokens \cup {Cred!NoToken}

CredBounds ==
  /\ probes \in 0 .. MaxProbes /\ (stageOf # "ended" => probes # 0)
  /\ remotePin \in {"none", "queued", "pinned", "failed"} /\ takenAway \in BOOLEAN
  /\ DOMAIN remoteOp \in {{}, {"older"}, {"older", "newer"}}
  /\ \A q \in sentWith : q.token \in RealTokens
  /\ storedToken \in Tokens /\ invocation.token \in Tokens
  /\ stageOf \in {"find", "settle", "verify", "meta"} => storedToken # Cred!NoToken
  /\ stageOf = "service" => Cred!DownloadToken # Cred!NoToken

LEMMA CredTyped == CredInv /\ CredBounds => Cred!CredTypeOK
<1> SUFFICES ASSUME CredInv, CredBounds PROVE Cred!CredTypeOK
  OBVIOUS
<1>1. \A q \in sentWith : q.token.account \in {"C", "T"} /\ q.token.kind \in {"api", "login"}
  BY DEF CredBounds, RealTokens
<1> QED
  BY <1>1 DEF CredBounds, CredInv, Cred!CredTypeOK, Cred!TokenKinds

LEMMA CredBoundsStart == Cred!CredInit => CredBounds
<1> SUFFICES ASSUME Cred!CredInit PROVE CredBounds
  OBVIOUS
<1>1. /\ stageOf = "idle" /\ sentWith = {} /\ remoteOp = <<>> /\ remotePin = "none"
      /\ takenAway = FALSE /\ probes = MaxProbes
      /\ storedToken \in {Cred!NoToken} \cup Cred!TokensOf("C")
  BY DEF Cred!CredInit
<1>2. invocation.token = Cred!NoToken
  BY Zenon DEF Cred!CredInit, Cred!NoInvocation
<1>3. Cred!TokensOf("C") \subseteq RealTokens
  BY DEF Cred!TokensOf, Cred!TokenKinds, RealTokens
<1>4. DOMAIN remoteOp = {}
  BY <1>1
<1>5. probes \in 0 .. MaxProbes /\ probes # 0
  BY <1>1, UploadAssumption
<1>6. storedToken \in Tokens /\ invocation.token \in Tokens
  BY <1>1, <1>2, <1>3 DEF Tokens
<1> QED
  BY <1>1, <1>4, <1>5, <1>6 DEF CredBounds

(* What is typed carries no token, or that of the second account.          *)
LEMMA TypedTokens == \A i \in TypedLines : i.token \in Tokens
<1>1. \A n : Typed(n).token = NoToken /\ "token" \in DOMAIN Typed(n)
  BY DEF Typed
<1>2. \A n, t : Given(n, t).token = t
  BY <1>1 DEF Given
<1>3. \A w, m : Uploading(w, m).token = NoToken /\ "token" \in DOMAIN Uploading(w, m)
  BY <1>1 DEF Uploading
<1>4. \A f, d : Fetching(f, d).token = NoToken
  BY <1>1 DEF Fetching
<1>5. /\ [Typed("upload") EXCEPT !.dry = TRUE].token = NoToken
      /\ [Typed("upload") EXCEPT !.path = NoPath].token = NoToken
      /\ [Uploading(TRUE, TRUE) EXCEPT !.token = TokenT].token = TokenT
  BY <1>1, <1>3
<1>6. \A i \in TypedLines : i.token \in {NoToken, TokenT}
  <2> TAKE i \in TypedLines
  <2>1. \/ \E n : i = Typed(n)
        \/ \E n, t : t \in {NoToken, TokenT} /\ i = Given(n, t)
        \/ \E w, m : i = Uploading(w, m)
        \/ i \in OtherUploads
        \/ \E f, d : i = Fetching(f, d)
    BY DEF TypedLines
  <2>2. CASE i \in OtherUploads
    BY <1>5, <2>2 DEF OtherUploads
  <2> QED
    BY <1>1, <1>2, <1>3, <1>4, <2>1, <2>2
<1>7. NoToken = Cred!NoToken
  BY Zenon DEF NoToken, Cred!NoToken
<1>8. TokenT \in RealTokens
  BY DEF TokenT, RealTokens
<1> QED
  BY <1>6, <1>7, <1>8 DEF Tokens

(* The tokens of the services, and what an API key is exchanged for.       *)
LEMMA ServiceTokens ==
  ASSUME CredBounds
  PROVE  /\ Cred!GetAuthToken \in Tokens /\ Cred!ConfigToken = storedToken
         /\ Cred!PinServiceToken = Cred!GetAuthToken /\ Cred!DownloadToken = Cred!GetAuthToken
         /\ Cred!UploadToken = storedToken
         /\ storedToken # Cred!NoToken => Cred!GetAuthToken # Cred!NoToken
         /\ \A n \in DOMAIN Cred!DomainToken : Cred!DomainToken[n] \in Tokens
<1>1. /\ Cred!GetAuthToken \in Tokens /\ Cred!ConfigToken = storedToken
      /\ storedToken # Cred!NoToken => Cred!GetAuthToken # Cred!NoToken
  BY DEF CredBounds, Cred!GetAuthToken, Cred!ConfigToken
<1>2. \A n \in DOMAIN Cred!DomainToken :
        Cred!DomainToken[n] \in {Cred!GetAuthToken, Cred!ConfigToken}
  BY DEF Cred!DomainToken, Cred!PinsToken, Cred!DNSToken, Cred!IPNSToken, Cred!APIKeysToken,
         Cred!OperationsToken, Cred!WebsitesToken, Cred!WorkspacesToken, Cred!AccountToken,
         Cred!AdminToken
<1>3. storedToken \in Tokens
  BY DEF CredBounds
<1> QED
  BY <1>1, <1>2, <1>3 DEF Cred!PinServiceToken, Cred!DownloadToken, Cred!UploadToken

LEMMA ExchangedTokens ==
  ASSUME NEW t \in RealTokens, NEW u \in Cred!exchangeIfAPIKey(t), u # Cred!NoToken
  PROVE  u \in RealTokens
<1>1. u \in {t, [t EXCEPT !.kind = "login"], Cred!NoToken}
  BY DEF Cred!exchangeIfAPIKey
<1>2. [t EXCEPT !.kind = "login"] \in RealTokens
  BY DEF RealTokens
<1> QED
  BY <1>1, <1>2

(* A command that ends, having sent only requests with a token.            *)
LEMMA EndedBounds ==
  ASSUME CredBounds, stageOf' = "ended", UNCHANGED <<invocation, remoteOp, remotePin, takenAway, probes>>,
         storedToken' \in Tokens, \A q \in sentWith' : q.token \in RealTokens
  PROVE  CredBounds'
BY DEF CredBounds

LEMMA SendingBounds ==
  ASSUME CredBounds,
         \/ Cred!CatalogueCommand \/ Cred!PinCommand \/ Cred!StatusCommand
         \/ Cred!BenchCommand \/ Cred!authStatus
  PROVE  CredBounds'
<1> USE DEF Cred!Ends, Cred!Sends, Cred!world
<1>1. stageOf' = "ended" /\ UNCHANGED <<storedToken, invocation, remoteOp, remotePin, takenAway, probes>>
  BY DEF Cred!CatalogueCommand, Cred!PinCommand, Cred!StatusCommand, Cred!BenchCommand,
         Cred!authStatus
<1>2. \A q \in sentWith : q.token \in RealTokens
  BY DEF CredBounds
<1>3. \A t \in Tokens : t # Cred!NoToken => t \in RealTokens
  BY DEF Tokens
<1>4. \A q \in sentWith' : q.token \in RealTokens
  <2>1. CASE Cred!CatalogueCommand
    <3> DEFINE t == Cred!DomainToken[invocation.name]
    <3>1. t \in Tokens
      BY <2>1, ServiceTokens DEF Cred!CatalogueCommand
    <3>2. \/ UNCHANGED sentWith
          \/ t # Cred!NoToken /\ sentWith' = sentWith \cup {[for |-> "service", token |-> t]}
      BY <2>1 DEF Cred!CatalogueCommand
    <3> HIDE DEF t
    <3> QED
      BY <1>2, <1>3, <3>1, <3>2
  <2>2. CASE Cred!PinCommand
    BY <1>2, <1>3, <2>2, ServiceTokens DEF Cred!PinCommand
  <2>3. CASE Cred!StatusCommand
    <3>1. \/ UNCHANGED sentWith
          \/ /\ Cred!PinServiceToken # Cred!NoToken
             /\ \A q \in sentWith' :
                  \/ q \in sentWith
                  \/ q.token = Cred!PinServiceToken
                  \/ q.token = Cred!ConfigToken /\ q.token # Cred!NoToken
      BY <2>3 DEF Cred!StatusCommand
    <3>2. Cred!PinServiceToken \in Tokens /\ Cred!ConfigToken \in Tokens
      BY ServiceTokens DEF CredBounds
    <3> QED
      BY <1>2, <1>3, <3>1, <3>2
  <2>4. CASE Cred!BenchCommand
    <3>1. \/ UNCHANGED sentWith
          \/ /\ storedToken # Cred!NoToken
             /\ \A q \in sentWith' : q.token \in {storedToken, Cred!GetAuthToken}
      BY <2>4, ServiceTokens DEF Cred!BenchCommand
    <3>2. storedToken \in Tokens
      BY DEF CredBounds
    <3> QED
      BY <1>2, <1>3, <3>1, <3>2, ServiceTokens
  <2>5. CASE Cred!authStatus
    <3>1. storedToken \in Tokens
      BY DEF CredBounds
    <3> QED
      BY <1>2, <1>3, <2>5, <3>1 DEF Cred!authStatus
  <2> QED
    BY <2>1, <2>2, <2>3, <2>4, <2>5
<1>5. storedToken' \in Tokens
  BY <1>1 DEF CredBounds
<1> QED
  BY <1>1, <1>4, <1>5, EndedBounds

LEMMA StoringBounds ==
  ASSUME CredBounds,
         Cred!saveAuthToken \/ Cred!finishAuthLogin \/ Cred!authLogout \/ Cred!setConfig
  PROVE  CredBounds'
<1> USE DEF Cred!Ends, Cred!world
<1>1. stageOf' = "ended" /\ UNCHANGED <<invocation, sentWith, remoteOp, remotePin, takenAway, probes>>
  BY DEF Cred!saveAuthToken, Cred!finishAuthLogin, Cred!authLogout, Cred!setConfig
<1>2. storedToken \in Tokens /\ invocation.token \in Tokens /\ \A q \in sentWith : q.token \in RealTokens
  BY DEF CredBounds
<1>3. \A k \in {"login", "api"} : [account |-> "C", kind |-> k] \in Tokens
  BY DEF Tokens, RealTokens
<1>4. storedToken' \in Tokens
  <2>1. CASE Cred!saveAuthToken \/ Cred!setConfig
    BY <1>2, <2>1 DEF Cred!saveAuthToken, Cred!setConfig
  <2>2. CASE Cred!authLogout
    BY <1>2, <2>2 DEF Cred!authLogout, Tokens
  <2>3. CASE Cred!finishAuthLogin
    <3>1. \/ UNCHANGED storedToken
          \/ storedToken' = [account |-> "C", kind |-> IF invocation.meta THEN "login" ELSE "api"]
      BY <2>3 DEF Cred!finishAuthLogin
    <3> DEFINE k == IF invocation.meta THEN "login" ELSE "api"
    <3>2. k \in {"login", "api"}
      OBVIOUS
    <3>3. UNCHANGED storedToken \/ storedToken' = [account |-> "C", kind |-> k]
      BY <3>1
    <3> HIDE DEF k
    <3> QED
      BY <1>2, <1>3, <3>2, <3>3
  <2> QED
    BY <2>1, <2>2, <2>3
<1> QED
  BY <1>1, <1>2, <1>4, EndedBounds

(* A command that moves on without a request.                              *)
LEMMA MovingBounds ==
  ASSUME CredBounds,
         \/ Cred!resolveUploadInput \/ Cred!handleUpload \/ Cred!waitForPin
         \/ Cred!waitForOperation \/ Cred!WaitCutShort \/ Cred!handleDownload
         \/ Cred!DownloadOpen \/ Cred!Download \/ Cred!Cat \/ Cred!ListDirectory
         \/ Cred!authLogin \/ Cred!interactiveLogin \/ Cred!register \/ Cred!getConfig
  PROVE  CredBounds'
<1> USE DEF Cred!Ends, Cred!GoesTo, Cred!In, Cred!world
<1>1. /\ UNCHANGED <<storedToken, invocation, sentWith, remoteOp, remotePin, takenAway, probes>>
      /\ stageOf # "ended"
  BY DEF Cred!resolveUploadInput, Cred!handleUpload, Cred!waitForPin, Cred!waitForOperation,
         Cred!WaitCutShort, Cred!handleDownload, Cred!DownloadOpen, Cred!Download, Cred!Cat,
         Cred!ListDirectory, Cred!authLogin, Cred!interactiveLogin, Cred!register, Cred!getConfig
<1>2. /\ \/ stageOf' \in {"ended", "input", "upload", "open", "copy", "complete", "otp"}
         \/ stageOf' \in {"settle", "verify"} /\ stageOf \in {"find", "settle"}
         \/ stageOf' = "service" /\ Cred!DownloadToken # Cred!NoToken
  <2>1. CASE \/ Cred!resolveUploadInput \/ Cred!handleUpload \/ Cred!waitForPin
             \/ Cred!waitForOperation \/ Cred!WaitCutShort
    BY <2>1 DEF Cred!resolveUploadInput, Cred!handleUpload, Cred!waitForPin,
                Cred!waitForOperation, Cred!WaitCutShort
  <2>2. CASE Cred!handleDownload
    BY <2>2 DEF Cred!handleDownload
  <2>3. CASE \/ Cred!DownloadOpen \/ Cred!Download \/ Cred!Cat \/ Cred!ListDirectory
             \/ Cred!authLogin \/ Cred!interactiveLogin \/ Cred!register \/ Cred!getConfig
    BY <2>3 DEF Cred!DownloadOpen, Cred!Download, Cred!Cat, Cred!ListDirectory, Cred!listFileEntry,
                Cred!authLogin, Cred!interactiveLogin, Cred!register, Cred!getConfig
  <2> QED
    BY <2>1, <2>2, <2>3
<1>3. Cred!DownloadToken' = Cred!DownloadToken
  BY <1>1 DEF Cred!DownloadToken, Cred!GetAuthToken
<1> QED
  BY <1>1, <1>2, <1>3 DEF CredBounds

(* The requests of an upload and of a download.                            *)
LEMMA TransferBounds ==
  ASSUME CredBounds,
         Cred!Upload \/ Cred!verifyPin \/ Cred!updateUploadMetadata \/ Cred!newSDKDownloadService
  PROVE  CredBounds'
<1> USE DEF Cred!Ends, Cred!GoesTo, Cred!In, Cred!world, Cred!Sends
<1>1. /\ \A q \in sentWith : q.token \in RealTokens
      /\ storedToken \in Tokens /\ UNCHANGED <<storedToken, invocation>>
      /\ \A t \in Tokens : t # Cred!NoToken => t \in RealTokens
  BY DEF CredBounds, Tokens, Cred!Upload, Cred!verifyPin, Cred!updateUploadMetadata,
         Cred!newSDKDownloadService
<1>2. CASE Cred!Upload
  <2>1. stageOf = "upload" /\ UNCHANGED probes
    BY <1>2 DEF Cred!Upload
  <2>2. CASE storedToken = Cred!NoToken
    BY <1>1, <1>2, <2>2, ServiceTokens, EndedBounds DEF Cred!Upload
  <2>3. CASE storedToken # Cred!NoToken
    <3>1. PICK t \in Cred!exchangeIfAPIKey(storedToken) :
            IF t = Cred!NoToken THEN Cred!Ends("failed") /\ UNCHANGED <<sentWith, Cred!world>>
            ELSE Cred!UploadTaken(t) \/ Cred!UploadSpurned(t)
      BY <1>2, <2>3, ServiceTokens DEF Cred!Upload
    <3>2. CASE t = Cred!NoToken
      BY <1>1, <2>1, <3>1, <3>2, EndedBounds
    <3>3. CASE t # Cred!NoToken
      <4>1. t \in RealTokens
        BY <1>1, <2>3, <3>3, ExchangedTokens
      <4>2. sentWith' = sentWith \cup {[for |-> "bytes", token |-> t]}
        BY <3>1, <3>3 DEF Cred!UploadTaken, Cred!UploadSpurned
      <4>3. \A q \in sentWith' : q.token \in RealTokens
        BY <1>1, <4>1, <4>2
      <4>4. CASE Cred!UploadSpurned(t)
        BY <1>1, <2>1, <4>3, <4>4, EndedBounds DEF Cred!UploadSpurned
      <4>5. CASE Cred!UploadTaken(t)
        <5>1. /\ stageOf' \in {"find", "meta"} /\ UNCHANGED <<remotePin, takenAway>>
              /\ DOMAIN remoteOp' =
                   DOMAIN remoteOp \cup {IF DOMAIN remoteOp = {} THEN "older" ELSE "newer"}
          BY <4>5 DEF Cred!UploadTaken
        <5>2. DOMAIN remoteOp' \in {{"older"}, {"older", "newer"}}
          BY <5>1 DEF CredBounds
        <5> QED
          BY <1>1, <2>1, <2>3, <4>3, <5>1, <5>2 DEF CredBounds
      <4> QED
        BY <3>1, <3>3, <4>4, <4>5
    <3> QED
      BY <3>2, <3>3
  <2> QED
    BY <2>2, <2>3
<1>3. CASE Cred!verifyPin
  <2>1. /\ stageOf = "verify" /\ sentWith' = sentWith \cup {[for |-> "pins", token |-> storedToken]}
        /\ UNCHANGED <<remoteOp, remotePin, takenAway>>
        /\ \/ stageOf' = "meta" /\ UNCHANGED probes
           \/ probes' = probes - 1 /\ (IF probes = 1 THEN stageOf' = "ended" ELSE stageOf' = "verify")
    BY <1>3, ServiceTokens DEF Cred!verifyPin
  <2>2. storedToken \in RealTokens /\ probes \in 1 .. MaxProbes
    BY <1>1, <2>1, UploadAssumption DEF CredBounds
  <2>3. \A q \in sentWith' : q.token \in RealTokens
    BY <1>1, <2>1, <2>2
  <2>4. probes' \in 0 .. MaxProbes /\ (stageOf' # "ended" => probes' # 0)
    BY <2>1, <2>2, UploadAssumption
  <2>5. stageOf' # "service"
    BY <2>1
  <2> QED
    BY <1>1, <2>1, <2>3, <2>4, <2>5 DEF CredBounds
<1>4. CASE Cred!updateUploadMetadata
  <2>1. /\ stageOf = "meta" /\ stageOf' = "ended"
        /\ UNCHANGED <<remoteOp, remotePin, takenAway, probes>>
        /\ \/ UNCHANGED sentWith
           \/ sentWith' = sentWith \cup {[for |-> "metadata", token |-> Cred!GetAuthToken]}
    BY <1>4, ServiceTokens DEF Cred!updateUploadMetadata
  <2>2. Cred!GetAuthToken \in RealTokens
    BY <1>1, <2>1, ServiceTokens DEF CredBounds
  <2>3. \A q \in sentWith' : q.token \in RealTokens
    BY <1>1, <2>1, <2>2
  <2> QED
    BY <1>1, <2>1, <2>3, EndedBounds
<1>5. CASE Cred!newSDKDownloadService
  <2>1. stageOf = "service" /\ UNCHANGED <<remoteOp, remotePin, takenAway, probes>>
    BY <1>5 DEF Cred!newSDKDownloadService
  <2>2. PICK t \in Cred!exchangeIfAPIKey(Cred!GetAuthToken) :
          IF t = Cred!NoToken THEN stageOf' = "ended" /\ UNCHANGED sentWith
          ELSE /\ sentWith' = sentWith \cup {[for |-> "content", token |-> t]}
               /\ stageOf' = "open"
    BY <1>5, ServiceTokens DEF Cred!newSDKDownloadService
  <2>3. Cred!GetAuthToken \in RealTokens
    BY <1>1, <2>1, ServiceTokens DEF CredBounds
  <2>4. t # Cred!NoToken => t \in RealTokens
    BY <2>3, ExchangedTokens
  <2>5. \A q \in sentWith' : q.token \in RealTokens
    BY <1>1, <2>2, <2>4
  <2>6. stageOf' \in {"ended", "open"}
    BY <2>2
  <2> QED
    BY <1>1, <2>1, <2>5, <2>6 DEF CredBounds
<1> QED
  BY <1>2, <1>3, <1>4, <1>5

LEMMA CredBoundsKept ==
  ASSUME CredBounds, Cred!CredNext
  PROVE  CredBounds'
<1>1. ASSUME NEW i \in TypedLines, Cred!newCommandContext(i) PROVE CredBounds'
  <2>1. /\ invocation' = i /\ stageOf' = "start" /\ sentWith' = {} /\ probes' = MaxProbes
        /\ takenAway' = FALSE /\ UNCHANGED <<storedToken, remoteOp, remotePin>>
    BY <1>1 DEF Cred!newCommandContext
  <2>2. probes' \in 0 .. MaxProbes /\ probes' # 0
    BY <2>1, UploadAssumption
  <2>3. invocation'.token \in Tokens
    BY <2>1, TypedTokens
  <2> QED
    BY <2>1, <2>2, <2>3 DEF CredBounds
<1>2. CASE Cred!OperationSettles \/ Cred!PinProgress \/ Cred!OtherClientRemoves
  <2>1. UNCHANGED <<storedToken, invocation, stageOf, sentWith, probes>>
    BY <1>2 DEF Cred!OperationSettles, Cred!PinProgress, Cred!OtherClientRemoves
  <2>2. DOMAIN remoteOp' = DOMAIN remoteOp
    BY <1>2 DEF Cred!OperationSettles, Cred!PinProgress, Cred!OtherClientRemoves
  <2>3. /\ remotePin' \in {"none", "queued", "pinned", "failed"}
        /\ takenAway' \in BOOLEAN
    BY <1>2 DEF CredBounds, Cred!OperationSettles, Cred!PinProgress, Cred!OtherClientRemoves
  <2>4. Cred!DownloadToken' = Cred!DownloadToken
    BY <2>1 DEF Cred!DownloadToken, Cred!GetAuthToken
  <2> QED
    BY <2>1, <2>2, <2>3, <2>4 DEF CredBounds
<1> QED
  BY <1>1, <1>2, SendingBounds, StoringBounds, MovingBounds, TransferBounds DEF Cred!CredNext

(* The command tree: every operation of a domain's registry lies under the  *)
(* root of the domain, and no registry is as long as the mark of the        *)
(* commands written by hand.                                               *)
RootedPath(p, d) ==
  /\ Len(p) \in Nat /\ Head(p) = d
  /\ \A i \in 2 .. Len(p) : Head(SubSeq(p, 1, i)) = d

Rooted(s, d, n) ==
  /\ Len(s) \in 0 .. n /\ DOMAIN s = 1 .. Len(s)
  /\ \A i \in 1 .. Len(s) : RootedPath(s[i].path, d)

LEMMA PairRooted == \A d, a : RootedPath(<<d, a>>, d)
BY DEF RootedPath

LEMMA TripleRooted == \A d, a, b : RootedPath(<<d, a, b>>, d)
BY DEF RootedPath

LEMMA FourRooted == \A d, a, b, c : RootedPath(<<d, a, b, c>>, d)
BY DEF RootedPath

LEMMA OpPaths ==
  /\ \A p : Tree!Op(p).path = p /\ Tree!Folded(p).path = p
  /\ \A p, a : Tree!Aka(Tree!Op(p), a).path = p
  /\ \A p, k : [Tree!Op(p) EXCEPT !.order = k].path = p
  /\ \A p, b : [Tree!Op(p) EXCEPT !.excluded = b].path = p
BY DEF Tree!Op, Tree!Folded, Tree!Aka

LEMMA GroupRooted ==
  ASSUME NEW p, NEW tokens, NEW d, NEW n \in Nat, DOMAIN tokens = 1 .. n,
         \A i \in 1 .. n : RootedPath(p \o <<tokens[i]>>, d)
  PROVE  Rooted(Tree!Group(p, tokens), d, n)
<1> DEFINE shape(i) == Tree!Op(p \o <<tokens[i]>>)
           g == [i \in 1 .. n |-> shape(i)]
<1>1. \A i \in 1 .. n : RootedPath(shape(i).path, d)
  BY OpPaths
<1>2. Tree!Group(p, tokens) = g
  BY DEF Tree!Group
<1> HIDE DEF shape
<1>3. g \in Seq({shape(i) : i \in 1 .. n}) /\ Len(g) = n
  OBVIOUS
<1> QED
  BY <1>1, <1>2, <1>3 DEF Rooted

LEMMA GroupPaths ==
  /\ \A d, x : RootedPath(<<d>> \o <<x>>, d)
  /\ \A d, a, x : RootedPath(<<d, a>> \o <<x>>, d)
  /\ \A d, a, b, x : RootedPath(<<d, a, b>> \o <<x>>, d)
<1>1. \A d, x : RootedPath(<<d>> \o <<x>>, d)
  BY DEF RootedPath
<1>2. \A d, a, x : RootedPath(<<d, a>> \o <<x>>, d)
  BY DEF RootedPath
<1>3. \A d, a, b, x : RootedPath(<<d, a, b>> \o <<x>>, d)
  BY DEF RootedPath
<1> QED
  BY <1>1, <1>2, <1>3

LEMMA OneRooted == \A o, d : RootedPath(o.path, d) => Rooted(<<o>>, d, 1)
BY DEF Rooted

LEMMA CatRooted ==
  ASSUME NEW d, NEW m \in Nat, NEW n \in Nat, NEW s, NEW t, Rooted(s, d, m), Rooted(t, d, n)
  PROVE  Rooted(s \o t, d, m + n)
BY DEF Rooted

LEMMA PinsRooted == Rooted(Tree!PinsShapes, "pins", 5)
<1> DEFINE s1 == <<Tree!Aka(Tree!Op(<<"pins", "list">>), "ls")>>
           s2 == Tree!Group(<<"pins">>, <<"add", "rm", "status", "update">>)
<1>1. Rooted(s1, "pins", 1)
  BY PairRooted, TripleRooted, FourRooted, OpPaths DEF Rooted
<1>2. Rooted(s2, "pins", 4)
  <2>1. DOMAIN <<"add", "rm", "status", "update">> = 1 .. 4
    OBVIOUS
  <2> QED
    BY <2>1, GroupPaths, GroupRooted
<1> HIDE DEF s1, s2
<1>3. Rooted(s1 \o s2, "pins", 5)
  BY <1>1, <1>2, 1 + 4 = 5, CatRooted
<1> QED
  BY <1>3 DEF s1, s2, Tree!PinsShapes

LEMMA DNSRooted == Rooted(Tree!DNSShapes, "dns", 10)
<1> DEFINE s1 == Tree!Group(<<"dns", "zones">>, <<"list", "create", "get", "delete",
                             "validate">>)
           s2 == Tree!Group(<<"dns", "records">>, <<"list", "create", "get",
                             "update", "delete">>)
<1>1. Rooted(s1, "dns", 5)
  <2>1. DOMAIN <<"list", "create", "get", "delete", "validate">> = 1 .. 5
    OBVIOUS
  <2> QED
    BY <2>1, GroupPaths, GroupRooted
<1>2. Rooted(s2, "dns", 5)
  <2>1. DOMAIN <<"list", "create", "get", "update", "delete">> = 1 .. 5
    OBVIOUS
  <2> QED
    BY <2>1, GroupPaths, GroupRooted
<1> HIDE DEF s1, s2
<1>3. Rooted(s1 \o s2, "dns", 10)
  BY <1>1, <1>2, 5 + 5 = 10, CatRooted
<1> QED
  BY <1>3 DEF s1, s2, Tree!DNSShapes

LEMMA IPNSRooted == Rooted(Tree!IPNSShapes, "ipns", 7)
<1> DEFINE s1 == Tree!Group(<<"ipns", "keys">>, <<"list", "create", "get",
                             "delete">>)
           s2 == Tree!Group(<<"ipns">>, <<"publish", "republish", "resolve">>)
<1>1. Rooted(s1, "ipns", 4)
  <2>1. DOMAIN <<"list", "create", "get", "delete">> = 1 .. 4
    OBVIOUS
  <2> QED
    BY <2>1, GroupPaths, GroupRooted
<1>2. Rooted(s2, "ipns", 3)
  <2>1. DOMAIN <<"publish", "republish", "resolve">> = 1 .. 3
    OBVIOUS
  <2> QED
    BY <2>1, GroupPaths, GroupRooted
<1> HIDE DEF s1, s2
<1>3. Rooted(s1 \o s2, "ipns", 7)
  BY <1>1, <1>2, 4 + 3 = 7, CatRooted
<1> QED
  BY <1>3 DEF s1, s2, Tree!IPNSShapes

LEMMA OperationsRooted == Rooted(Tree!OperationsShapes, "operations", 2)
<1>1. Rooted(<<Tree!Op(<<"operations", "get">>), [Tree!Op(<<"operations", "list">>) EXCEPT
              !.order = 1]>>, "operations", 2)
  <2> DEFINE o == [Tree!Op(<<"operations", "list">>) EXCEPT !.order = 1]
  <2>1. o.path = <<"operations", "list">>
    BY OpPaths
  <2> HIDE DEF o
  <2>2. Rooted(<<Tree!Op(<<"operations", "get">>), o>>, "operations", 2)
    BY <2>1, PairRooted, OpPaths DEF Rooted
  <2> QED
    BY <2>2 DEF o
<1> QED
  BY <1>1 DEF Tree!OperationsShapes

LEMMA WorkspacesRooted == Rooted(Tree!WorkspacesShapes, "workspaces", 8)
<1> DEFINE s1 == <<Tree!Aka(Tree!Op(<<"workspaces", "list">>), "ls")>>
           s2 == Tree!Group(<<"workspaces">>, <<"create", "get", "attach",
                             "suspend", "resume", "access", "delete">>)
<1>1. Rooted(s1, "workspaces", 1)
  BY PairRooted, TripleRooted, FourRooted, OpPaths DEF Rooted
<1>2. Rooted(s2, "workspaces", 7)
  <2>1. DOMAIN <<"create", "get", "attach", "suspend", "resume", "access", "delete">> = 1 .. 7
    OBVIOUS
  <2> QED
    BY <2>1, GroupPaths, GroupRooted
<1> HIDE DEF s1, s2
<1>3. Rooted(s1 \o s2, "workspaces", 8)
  BY <1>1, <1>2, 1 + 7 = 8, CatRooted
<1> QED
  BY <1>3 DEF s1, s2, Tree!WorkspacesShapes

LEMMA AccountRooted == Rooted(Tree!AccountShapes, "account", 6)
<1> DEFINE s1 == Tree!Group(<<"account">>, <<"info", "update_email",
                             "update_password", "subscription", "quota">>)
           s2 == <<[Tree!Op(<<"account", "otp_disable">>) EXCEPT !.excluded = TRUE]>>
<1>1. Rooted(s1, "account", 5)
  <2>1. DOMAIN <<"info", "update_email", "update_password", "subscription", "quota">> = 1 .. 5
    OBVIOUS
  <2> QED
    BY <2>1, GroupPaths, GroupRooted
<1>2. Rooted(s2, "account", 1)
  <2> DEFINE o == [Tree!Op(<<"account", "otp_disable">>) EXCEPT !.excluded = TRUE]
  <2>1. o.path = <<"account", "otp_disable">>
    BY OpPaths
  <2> HIDE DEF o
  <2>2. Rooted(<<o>>, "account", 1)
    BY <2>1, PairRooted, OneRooted
  <2> QED
    BY <2>2 DEF o
<1> HIDE DEF s1, s2
<1>3. Rooted(s1 \o s2, "account", 6)
  BY <1>1, <1>2, 5 + 1 = 6, CatRooted
<1> QED
  BY <1>3 DEF s1, s2, Tree!AccountShapes

LEMMA APIKeysRooted == Rooted(Tree!APIKeysShapes, "api-keys", 3)
<1>1. Rooted(Tree!Group(<<"api-keys">>, <<"list", "create", "delete">>), "api-keys", 3)
  <2>1. DOMAIN <<"list", "create", "delete">> = 1 .. 3
    OBVIOUS
  <2> QED
    BY <2>1, GroupPaths, GroupRooted
<1> QED
  BY <1>1 DEF Tree!APIKeysShapes

LEMMA WebsitesRooted == Rooted(Tree!WebsitesShapes, "websites", 19)
<1> DEFINE s1 == <<Tree!Aka(Tree!Op(<<"websites", "list">>), "ls"),
                 Tree!Aka(Tree!Op(<<"websites", "enable_ipns">>), "ipns")>>
           s2 == Tree!Group(<<"websites">>, <<"get", "create", "update", "delete",
                             "validate", "config">>)
           s3 == <<Tree!Op(<<"websites", "ssl", "status">>), Tree!Aka(Tree!Op(<<"websites",
                 "domains", "list">>), "ls"), Tree!Op(<<"websites", "domains", "add">>),
                 Tree!Aka(Tree!Op(<<"websites", "domains", "remove">>), "rm")>>
           s4 == Tree!Group(<<"websites", "domains">>, <<"verify",
                             "dns_requirements", "convert_onchain", "update">>)
           s5 == <<Tree!Op(<<"websites", "domains", "dane", "republish">>)>>
           s6 == Tree!Group(<<"websites", "platform">>, <<"domains_list",
                             "domain_availability">>)
<1>1. Rooted(s1, "websites", 2)
  BY PairRooted, TripleRooted, FourRooted, OpPaths DEF Rooted
<1>2. Rooted(s2, "websites", 6)
  <2>1. DOMAIN <<"get", "create", "update", "delete", "validate", "config">> = 1 .. 6
    OBVIOUS
  <2> QED
    BY <2>1, GroupPaths, GroupRooted
<1>3. Rooted(s3, "websites", 4)
  BY PairRooted, TripleRooted, FourRooted, OpPaths DEF Rooted
<1>4. Rooted(s4, "websites", 4)
  <2>1. DOMAIN <<"verify", "dns_requirements", "convert_onchain", "update">> = 1 .. 4
    OBVIOUS
  <2> QED
    BY <2>1, GroupPaths, GroupRooted
<1>5. Rooted(s5, "websites", 1)
  BY PairRooted, TripleRooted, FourRooted, OpPaths DEF Rooted
<1>6. Rooted(s6, "websites", 2)
  <2>1. DOMAIN <<"domains_list", "domain_availability">> = 1 .. 2
    OBVIOUS
  <2> QED
    BY <2>1, GroupPaths, GroupRooted
<1> HIDE DEF s1, s2, s3, s4, s5, s6
<1>7. Rooted(s1 \o s2, "websites", 8)
  BY <1>1, <1>2, 2 + 6 = 8, CatRooted
<1>8. Rooted(s1 \o s2 \o s3, "websites", 12)
  BY <1>7, <1>3, 8 + 4 = 12, CatRooted
<1>9. Rooted(s1 \o s2 \o s3 \o s4, "websites", 16)
  BY <1>8, <1>4, 12 + 4 = 16, CatRooted
<1>10. Rooted(s1 \o s2 \o s3 \o s4 \o s5, "websites", 17)
  BY <1>9, <1>5, 16 + 1 = 17, CatRooted
<1>11. Rooted(s1 \o s2 \o s3 \o s4 \o s5 \o s6, "websites", 19)
  BY <1>10, <1>6, 17 + 2 = 19, CatRooted
<1> QED
  BY <1>11 DEF s1, s2, s3, s4, s5, s6, Tree!WebsitesShapes

LEMMA VaultRooted == Rooted(Tree!VaultShapes, "vault", 24)
<1> DEFINE s1 == Tree!Group(<<"vault">>, <<"status", "ls", "stat", "verify",
                             "search", "rm", "sync", "profiles", "send", "forget">>)
           s2 == <<Tree!Folded(<<"vault", "flush">>), Tree!Folded(<<"vault", "share">>)>>
           s3 == Tree!Group(<<"vault", "version">>, <<"ls", "get", "restore">>)
           s4 == Tree!Group(<<"vault", "tag">>, <<"add", "rm", "set", "ls">>)
           s5 == <<Tree!Op(<<"vault", "flush", "status">>), Tree!Op(<<"vault", "share",
                 "accept">>), Tree!Op(<<"vault", "profile", "use">>)>>
           s6 == Tree!Group(<<"vault", "cache">>, <<"rebuild", "clear">>)
<1>1. Rooted(s1, "vault", 10)
  <2>1. DOMAIN <<"status", "ls", "stat", "verify", "search", "rm", "sync", "profiles", "send",
                 "forget">> = 1 .. 10
    OBVIOUS
  <2> QED
    BY <2>1, GroupPaths, GroupRooted
<1>2. Rooted(s2, "vault", 2)
  BY PairRooted, TripleRooted, FourRooted, OpPaths DEF Rooted
<1>3. Rooted(s3, "vault", 3)
  <2>1. DOMAIN <<"ls", "get", "restore">> = 1 .. 3
    OBVIOUS
  <2> QED
    BY <2>1, GroupPaths, GroupRooted
<1>4. Rooted(s4, "vault", 4)
  <2>1. DOMAIN <<"add", "rm", "set", "ls">> = 1 .. 4
    OBVIOUS
  <2> QED
    BY <2>1, GroupPaths, GroupRooted
<1>5. Rooted(s5, "vault", 3)
  BY PairRooted, TripleRooted, FourRooted, OpPaths DEF Rooted
<1>6. Rooted(s6, "vault", 2)
  <2>1. DOMAIN <<"rebuild", "clear">> = 1 .. 2
    OBVIOUS
  <2> QED
    BY <2>1, GroupPaths, GroupRooted
<1> HIDE DEF s1, s2, s3, s4, s5, s6
<1>7. Rooted(s1 \o s2, "vault", 12)
  BY <1>1, <1>2, 10 + 2 = 12, CatRooted
<1>8. Rooted(s1 \o s2 \o s3, "vault", 15)
  BY <1>7, <1>3, 12 + 3 = 15, CatRooted
<1>9. Rooted(s1 \o s2 \o s3 \o s4, "vault", 19)
  BY <1>8, <1>4, 15 + 4 = 19, CatRooted
<1>10. Rooted(s1 \o s2 \o s3 \o s4 \o s5, "vault", 22)
  BY <1>9, <1>5, 19 + 3 = 22, CatRooted
<1>11. Rooted(s1 \o s2 \o s3 \o s4 \o s5 \o s6, "vault", 24)
  BY <1>10, <1>6, 22 + 2 = 24, CatRooted
<1> QED
  BY <1>11 DEF s1, s2, s3, s4, s5, s6, Tree!VaultShapes

LEMMA QuotaRooted == Rooted(Tree!QuotaShapes, "admin", 16)
<1> DEFINE s1 == Tree!Group(<<"admin", "quota", "plans">>, <<"list", "get",
                             "create", "update", "delete", "set-default">>)
           s2 == Tree!Group(<<"admin", "quota", "allowances">>, <<"list", "create",
                             "update", "delete">>)
           s3 == Tree!Group(<<"admin", "quota", "user-configs">>, <<"list",
                             "update", "reset">>)
           s4 == Tree!Group(<<"admin", "quota">>, <<"stats", "reconcile",
                             "cleanup">>)
<1>1. Rooted(s1, "admin", 6)
  <2>1. DOMAIN <<"list", "get", "create", "update", "delete", "set-default">> = 1 .. 6
    OBVIOUS
  <2> QED
    BY <2>1, GroupPaths, GroupRooted
<1>2. Rooted(s2, "admin", 4)
  <2>1. DOMAIN <<"list", "create", "update", "delete">> = 1 .. 4
    OBVIOUS
  <2> QED
    BY <2>1, GroupPaths, GroupRooted
<1>3. Rooted(s3, "admin", 3)
  <2>1. DOMAIN <<"list", "update", "reset">> = 1 .. 3
    OBVIOUS
  <2> QED
    BY <2>1, GroupPaths, GroupRooted
<1>4. Rooted(s4, "admin", 3)
  <2>1. DOMAIN <<"stats", "reconcile", "cleanup">> = 1 .. 3
    OBVIOUS
  <2> QED
    BY <2>1, GroupPaths, GroupRooted
<1> HIDE DEF s1, s2, s3, s4
<1>5. Rooted(s1 \o s2, "admin", 10)
  BY <1>1, <1>2, 6 + 4 = 10, CatRooted
<1>6. Rooted(s1 \o s2 \o s3, "admin", 13)
  BY <1>5, <1>3, 10 + 3 = 13, CatRooted
<1>7. Rooted(s1 \o s2 \o s3 \o s4, "admin", 16)
  BY <1>6, <1>4, 13 + 3 = 16, CatRooted
<1> QED
  BY <1>7 DEF s1, s2, s3, s4, Tree!QuotaShapes

LEMMA BillingRooted == Rooted(Tree!BillingShapes, "admin", 38)
<1> DEFINE s1 == Tree!Group(<<"admin", "billing", "credits">>, <<"list", "get",
                             "create", "delete", "restore", "purge", "user-balance",
                             "user-deleted-credits">>)
           s2 == Tree!Group(<<"admin", "billing", "price-lines">>, <<"list", "get",
                             "create", "update", "delete", "add-plan", "delete-plan",
                             "update-plan-position">>)
           s3 == Tree!Group(<<"admin", "billing", "pricing-plans">>, <<"list",
                             "get", "create", "update", "delete", "sync", "sync-all">>)
           s4 == Tree!Group(<<"admin", "billing", "pricing-plan-periods">>,
                             <<"list", "get", "create", "update", "delete">>)
           s5 == Tree!Group(<<"admin", "billing", "subscribers">>, <<"list", "get",
                             "list-gateway", "list-user", "cancel", "abort-cancel",
                             "change-plan", "pause", "resume">>)
           s6 == <<Tree!Op(<<"admin", "billing", "overview">>)>>
<1>1. Rooted(s1, "admin", 8)
  <2>1. DOMAIN <<"list", "get", "create", "delete", "restore", "purge", "user-balance",
                 "user-deleted-credits">> = 1 .. 8
    OBVIOUS
  <2> QED
    BY <2>1, GroupPaths, GroupRooted
<1>2. Rooted(s2, "admin", 8)
  <2>1. DOMAIN <<"list", "get", "create", "update", "delete", "add-plan", "delete-plan",
                 "update-plan-position">> = 1 .. 8
    OBVIOUS
  <2> QED
    BY <2>1, GroupPaths, GroupRooted
<1>3. Rooted(s3, "admin", 7)
  <2>1. DOMAIN <<"list", "get", "create", "update", "delete", "sync", "sync-all">> = 1 .. 7
    OBVIOUS
  <2> QED
    BY <2>1, GroupPaths, GroupRooted
<1>4. Rooted(s4, "admin", 5)
  <2>1. DOMAIN <<"list", "get", "create", "update", "delete">> = 1 .. 5
    OBVIOUS
  <2> QED
    BY <2>1, GroupPaths, GroupRooted
<1>5. Rooted(s5, "admin", 9)
  <2>1. DOMAIN <<"list", "get", "list-gateway", "list-user", "cancel", "abort-cancel",
                 "change-plan", "pause", "resume">> = 1 .. 9
    OBVIOUS
  <2> QED
    BY <2>1, GroupPaths, GroupRooted
<1>6. Rooted(s6, "admin", 1)
  BY PairRooted, TripleRooted, FourRooted, OpPaths DEF Rooted
<1> HIDE DEF s1, s2, s3, s4, s5, s6
<1>7. Rooted(s1 \o s2, "admin", 16)
  BY <1>1, <1>2, 8 + 8 = 16, CatRooted
<1>8. Rooted(s1 \o s2 \o s3, "admin", 23)
  BY <1>7, <1>3, 16 + 7 = 23, CatRooted
<1>9. Rooted(s1 \o s2 \o s3 \o s4, "admin", 28)
  BY <1>8, <1>4, 23 + 5 = 28, CatRooted
<1>10. Rooted(s1 \o s2 \o s3 \o s4 \o s5, "admin", 37)
  BY <1>9, <1>5, 28 + 9 = 37, CatRooted
<1>11. Rooted(s1 \o s2 \o s3 \o s4 \o s5 \o s6, "admin", 38)
  BY <1>10, <1>6, 37 + 1 = 38, CatRooted
<1> QED
  BY <1>11 DEF s1, s2, s3, s4, s5, s6, Tree!BillingShapes

LEMMA AdminRooted == Rooted(Tree!AdminShapes, "admin", 20)
<1> DEFINE s1 == Tree!Group(<<"admin", "platform-domains">>, <<"list", "register",
                             "update", "delete", "bind">>)
           s2 == Tree!Group(<<"admin", "websites">>, <<"block", "unblock">>)
           s3 == Tree!Group(<<"admin", "social-providers">>, <<"list", "get",
                             "create", "update", "delete", "enable", "disable">>)
           s4 == Tree!Group(<<"admin", "users">>, <<"list", "get", "verify",
                             "create", "update", "delete">>)
<1>1. Rooted(s1, "admin", 5)
  <2>1. DOMAIN <<"list", "register", "update", "delete", "bind">> = 1 .. 5
    OBVIOUS
  <2> QED
    BY <2>1, GroupPaths, GroupRooted
<1>2. Rooted(s2, "admin", 2)
  <2>1. DOMAIN <<"block", "unblock">> = 1 .. 2
    OBVIOUS
  <2> QED
    BY <2>1, GroupPaths, GroupRooted
<1>3. Rooted(s3, "admin", 7)
  <2>1. DOMAIN <<"list", "get", "create", "update", "delete", "enable", "disable">> = 1 .. 7
    OBVIOUS
  <2> QED
    BY <2>1, GroupPaths, GroupRooted
<1>4. Rooted(s4, "admin", 6)
  <2>1. DOMAIN <<"list", "get", "verify", "create", "update", "delete">> = 1 .. 6
    OBVIOUS
  <2> QED
    BY <2>1, GroupPaths, GroupRooted
<1> HIDE DEF s1, s2, s3, s4
<1>5. Rooted(s1 \o s2, "admin", 7)
  BY <1>1, <1>2, 5 + 2 = 7, CatRooted
<1>6. Rooted(s1 \o s2 \o s3, "admin", 14)
  BY <1>5, <1>3, 7 + 7 = 14, CatRooted
<1>7. Rooted(s1 \o s2 \o s3 \o s4, "admin", 20)
  BY <1>6, <1>4, 14 + 6 = 20, CatRooted
<1> QED
  BY <1>7 DEF s1, s2, s3, s4, Tree!AdminShapes

RootDomains == {"pins", "dns", "ipns", "operations", "workspaces", "account",
                "api-keys", "websites", "vault", "admin"}

LEMMA WiderRooted ==
  ASSUME NEW s, NEW d, NEW n \in 0 .. 100, Rooted(s, d, n)
  PROVE  Rooted(s, d, 100)
<1>1. Len(s) \in 0 .. n
  BY DEF Rooted
<1>2. Len(s) \in 0 .. 100
  <2> DEFINE k == Len(s)
  <2>1. k \in 0 .. n
    BY <1>1
  <2> HIDE DEF k
  <2>2. k \in 0 .. 100
    BY <2>1
  <2> QED
    BY <2>2 DEF k
<1> QED
  BY <1>2 DEF Rooted

LEMMA RegistryRooted == \A d \in RootDomains : Rooted(Tree!ShapesOf(d), d, 100)
<1>1. /\ Tree!ShapesOf("pins") = Tree!PinsShapes /\ Tree!ShapesOf("dns") = Tree!DNSShapes
      /\ Tree!ShapesOf("ipns") = Tree!IPNSShapes
      /\ Tree!ShapesOf("operations") = Tree!OperationsShapes
      /\ Tree!ShapesOf("workspaces") = Tree!WorkspacesShapes
      /\ Tree!ShapesOf("account") = Tree!AccountShapes
      /\ Tree!ShapesOf("api-keys") = Tree!APIKeysShapes
      /\ Tree!ShapesOf("websites") = Tree!WebsitesShapes
      /\ Tree!ShapesOf("vault") = Tree!VaultShapes
      /\ Tree!ShapesOf("admin") = Tree!AdminShapes \o Tree!QuotaShapes \o Tree!BillingShapes
  BY DEF Tree!ShapesOf
<1>2. Rooted(Tree!AdminShapes \o Tree!QuotaShapes, "admin", 36)
  BY AdminRooted, QuotaRooted, 20 + 16 = 36, CatRooted
<1>3. Rooted(Tree!AdminShapes \o Tree!QuotaShapes \o Tree!BillingShapes, "admin", 74)
  BY <1>2, BillingRooted, 36 + 38 = 74, CatRooted
<1>4. /\ Rooted(Tree!PinsShapes, "pins", 100)
      /\ Rooted(Tree!DNSShapes, "dns", 100)
      /\ Rooted(Tree!IPNSShapes, "ipns", 100)
      /\ Rooted(Tree!OperationsShapes, "operations", 100)
      /\ Rooted(Tree!WorkspacesShapes, "workspaces", 100)
      /\ Rooted(Tree!AccountShapes, "account", 100)
      /\ Rooted(Tree!APIKeysShapes, "api-keys", 100)
      /\ Rooted(Tree!WebsitesShapes, "websites", 100)
      /\ Rooted(Tree!VaultShapes, "vault", 100)
      /\ Rooted(Tree!AdminShapes \o Tree!QuotaShapes \o Tree!BillingShapes, "admin", 100)
  BY <1>3, WiderRooted, PinsRooted, DNSRooted, IPNSRooted, OperationsRooted, WorkspacesRooted,
     AccountRooted, APIKeysRooted, WebsitesRooted, VaultRooted
<1> QED
  BY <1>1, <1>4 DEF RootDomains

Under(n, d) == {"key", "leaf"} \subseteq DOMAIN n /\ Head(n.key) = d /\ n.leaf \in 0 .. 1000

TreeBounds ==
  /\ domain \in RootDomains /\ placed \in 0 .. Len(Tree!ShapesOf(domain))
  /\ phase \in {"sections", "place", "fold", "done", "panic"}
  /\ \A n \in nodes : Under(n, domain)
  /\ folds \in Seq(Nat) /\ \A i \in 1 .. Len(folds) : Tree!ShapesOf(domain)[folds[i]].fold

LEMMA TreeTyped == TreeBounds => Tree!TreeTypeOK
BY DEF TreeBounds, Tree!TreeTypeOK, RootDomains, Under

LEMMA TreeBoundsStart == Tree!TreeInit => TreeBounds
<1> SUFFICES ASSUME Tree!TreeInit PROVE TreeBounds
  OBVIOUS
<1>1. /\ domain \in RootDomains /\ placed = 0 /\ nodes = {} /\ folds = <<>> /\ phase = "sections"
  BY DEF Tree!TreeInit, RootDomains
<1>2. Len(Tree!ShapesOf(domain)) \in Nat
  BY <1>1, RegistryRooted DEF Rooted
<1> QED
  BY <1>1, <1>2 DEF TreeBounds

LEMMA NodeUnder ==
  \A key, name, aliases, leaf, order, decl, d :
    Head(key) = d /\ leaf \in 0 .. 1000 => Under(Tree!Node(key, name, aliases, leaf, order, decl), d)
BY DEF Tree!Node, Under

(* What is mounted beside the compiled commands lies under the root too.   *)
LEMMA HandWrittenUnder == \A d \in RootDomains : \A n \in Tree!HandWritten(d) : Under(n, d)
<1>1. \A path, decl, d : Head(path) = d => Under(Tree!ByHand(path, decl), d)
  BY NodeUnder DEF Tree!ByHand
<1>2. \A n, d : Under(n, d) => Under([n EXCEPT !.order = -1], d)
  BY DEF Under
<1>3. ASSUME NEW d \in RootDomains, NEW n \in Tree!HandWritten(d) PROVE Under(n, d)
  <2>1. CASE d = "vault"
    <3>1. Tree!HandWritten("vault") =
            {Tree!ByHand(<<"vault", c>>, 900) : c \in {"create", "restore", "cp", "cat"}}
      BY Zenon DEF Tree!HandWritten
    <3>2. \E c : n = Tree!ByHand(<<"vault", c>>, 900)
      BY Zenon, <1>3, <2>1, <3>1
    <3> QED
      BY <1>1, <2>1, <3>2
  <2>2. CASE d = "websites"
    <3>1. Tree!HandWritten("websites") =
            {Tree!ByHand(<<"websites", "wizard">>, 900),
             Tree!ByHand(<<"websites", "domains", "wizard">>, 900)}
      BY ZenonT(60) DEF Tree!HandWritten
    <3> QED
      BY <1>1, <1>3, <2>2, <3>1
  <2>3. CASE d = "account"
    <3>1. \E c : n = [Tree!ByHand(<<"account", c>>, 0) EXCEPT !.order = -1]
      BY Zenon, <1>3, <2>3 DEF Tree!HandWritten
    <3> QED
      BY <1>1, <1>2, <2>3, <3>1
  <2>4. CASE d = "admin"
    <3>1. n = Tree!ByHand(<<"admin", "pprof">>, 900)
      BY Zenon, <1>3, <2>4 DEF Tree!HandWritten
    <3> QED
      BY <1>1, <2>4, <3>1
  <2>5. CASE d \notin {"vault", "websites", "account", "admin"}
    <3>1. n \in {}
      BY Zenon, <1>3, <2>5 DEF Tree!HandWritten
    <3> QED
      BY <3>1
  <2> QED
    BY <2>1, <2>2, <2>3, <2>4, <2>5
<1> QED
  BY <1>3

LEMMA PlaceBounds ==
  ASSUME TreeBounds, Tree!PlaceOp
  PROVE  TreeBounds'
<1> DEFINE shapes == Tree!ShapesOf(domain)
           shape == shapes[placed + 1]
           parent(i) == Tree!Node(SubSeq(shape.path, 1, i), Tree!segmentFor(SubSeq(shape.path, 1, i)).name,
                                  Tree!segmentFor(SubSeq(shape.path, 1, i)).aliases, 0, 0, placed)
           parents == {parent(i) : i \in Tree!Unmade(shape.path)}
           leaf == Tree!Node(shape.path, Tree!leafName(Tree!Last(shape.path)), shape.aliases, placed + 1, shape.order, placed)
<1>1. /\ phase = "place" /\ placed < Len(shapes) /\ placed' = placed + 1 /\ UNCHANGED domain
      /\ phase' \in {"fold", "place"}
  BY DEF Tree!PlaceOp, Tree!PlaceWith, Tree!Goes
<1>2. \/ UNCHANGED <<nodes, folds>>
      \/ shape.fold /\ folds' = Append(folds, placed + 1) /\ UNCHANGED nodes
      \/ nodes' = nodes \cup parents \cup {leaf} /\ UNCHANGED folds
  <2>1. IF shape.excluded THEN UNCHANGED <<nodes, folds>>
        ELSE IF shape.fold /\ TRUE THEN folds' = Append(folds, placed + 1) /\ UNCHANGED nodes
        ELSE nodes' = nodes \cup parents \cup {leaf} /\ UNCHANGED folds
    BY Zenon DEF Tree!PlaceOp, Tree!PlaceWith
  <2> HIDE DEF shape, parents, leaf
  <2> QED
    BY Zenon, <2>1
<1>3. /\ Rooted(shapes, domain, 100) /\ placed \in Nat /\ placed + 1 \in 1 .. Len(shapes)
      /\ placed + 1 \in 0 .. 1000
  <2>1. domain \in RootDomains /\ placed \in Nat
    BY DEF TreeBounds
  <2>2. Rooted(shapes, domain, 100)
    BY <2>1, RegistryRooted
  <2>3. Len(shapes) \in 0 .. 100
    BY <2>2 DEF Rooted
  <2> DEFINE k == Len(shapes)
  <2>4. k \in 0 .. 100 /\ placed < k
    BY <1>1, <2>3
  <2> HIDE DEF k
  <2>5. placed + 1 \in 1 .. k /\ placed + 1 \in 0 .. 1000
    BY <2>1, <2>4
  <2> QED
    BY <2>1, <2>2, <2>5 DEF k
<1>4. RootedPath(shape.path, domain)
  BY <1>3 DEF Rooted
<1>5. Under(leaf, domain)
  BY <1>3, <1>4, NodeUnder DEF RootedPath
<1>6. ASSUME NEW i \in Tree!Unmade(shape.path) PROVE Under(parent(i), domain)
  <2>1. i \in 2 .. Len(shape.path)
    BY <1>4 DEF Tree!Unmade, RootedPath
  <2>2. Head(SubSeq(shape.path, 1, i)) = domain
    BY <1>4, <2>1 DEF RootedPath
  <2>3. 0 \in 0 .. 1000
    OBVIOUS
  <2> QED
    BY Zenon, <2>2, <2>3, NodeUnder
<1>7. \A n \in parents : Under(n, domain)
  BY <1>6
<1> HIDE DEF shape, parent, parents, leaf
<1>8. \A n \in nodes' : Under(n, domain)
  BY <1>2, <1>5, <1>7 DEF TreeBounds
<1>9. folds' \in Seq(Nat) /\ \A i \in 1 .. Len(folds') : shapes[folds'[i]].fold
  <2>1. folds \in Seq(Nat) /\ \A i \in 1 .. Len(folds) : shapes[folds[i]].fold
    BY DEF TreeBounds
  <2>2. CASE UNCHANGED folds
    BY <2>1, <2>2
  <2>3. CASE shape.fold /\ folds' = Append(folds, placed + 1)
    BY <1>3, <2>1, <2>3 DEF shape
  <2> QED
    BY <1>2, <2>2, <2>3
<1> QED
  BY <1>1, <1>3, <1>8, <1>9 DEF TreeBounds

LEMMA TreeBoundsKept ==
  ASSUME TreeBounds, Tree!TreeNext
  PROVE  TreeBounds'
<1>1. CASE Tree!DeclareSections
  <2>1. /\ phase' = "place" /\ UNCHANGED <<domain, placed, folds>>
        /\ \A n \in nodes' : \E i : n = Tree!Node(<<"admin", Tree!AdminSections[i]>>, Tree!AdminSections[i], {}, 0, 0, i - 1)
        /\ nodes' = {} \/ domain = "admin"
    BY <1>1 DEF Tree!DeclareSections, Tree!Goes
  <2>2. \A n \in nodes' : Under(n, domain)
    <3>1. \A x : Head(<<"admin", x>>) = "admin" /\ 0 \in 0 .. 1000
      OBVIOUS
    <3> QED
      <4>1. CASE nodes' = {}
        BY <4>1
      <4>2. CASE domain = "admin"
        <5> SUFFICES ASSUME NEW n \in nodes' PROVE Under(n, domain)
          OBVIOUS
        <5>1. PICK i : n = Tree!Node(<<"admin", Tree!AdminSections[i]>>, Tree!AdminSections[i],
                                     {}, 0, 0, i - 1)
          BY <2>1
        <5>2. Head(<<"admin", Tree!AdminSections[i]>>) = domain
          BY <3>1, <4>2
        <5> QED
          BY Zenon, <3>1, <5>1, <5>2, NodeUnder
      <4> QED
        BY <2>1, <4>1, <4>2
  <2> QED
    BY <2>1, <2>2 DEF TreeBounds
<1>2. CASE Tree!FoldOp
  <2>1. UNCHANGED <<domain, placed>> /\ phase' \in {"panic", "fold"} /\ folds # <<>>
    BY <1>2 DEF Tree!FoldOp, Tree!Goes
  <2>2. \/ UNCHANGED <<nodes, folds>>
        \/ /\ folds' = Tail(folds)
           /\ \A n \in nodes' : \E m \in nodes : n = m \/ n = [m EXCEPT !.fold = Head(folds)]
    <3> DEFINE key == SubSeq(Tree!ShapesOf(domain)[Head(folds)].path, 1, 2)
               parents == {n \in Tree!Parents : n.key = key}
    <3>1. \/ UNCHANGED <<nodes, folds>>
          \/ /\ folds' = Tail(folds)
             /\ nodes' = {IF n \in parents THEN [n EXCEPT !.fold = Head(folds)] ELSE n : n \in nodes}
      BY Zenon, <1>2 DEF Tree!FoldOp
    <3> HIDE DEF key, parents
    <3> QED
      BY Zenon, <3>1
  <2>3. \A m, d, x : Under(m, d) => Under([m EXCEPT !.fold = x], d)
    BY DEF Under
  <2>4. \A n \in nodes' : Under(n, domain)
    <3>1. \A n \in nodes : Under(n, domain)
      BY DEF TreeBounds
    <3> SUFFICES ASSUME NEW n \in nodes' PROVE Under(n, domain)
      OBVIOUS
    <3>2. PICK m \in nodes : n = m \/ n = [m EXCEPT !.fold = Head(folds)]
      BY Zenon, <2>2
    <3> QED
      BY Zenon, <2>3, <3>1, <3>2
  <2>5. folds' \in Seq(Nat) /\ \A i \in 1 .. Len(folds') : Tree!ShapesOf(domain)[folds'[i]].fold
    <3> DEFINE shapes == Tree!ShapesOf(domain)
    <3>1. folds \in Seq(Nat) /\ \A i \in 1 .. Len(folds) : shapes[folds[i]].fold
      BY DEF TreeBounds
    <3> HIDE DEF shapes
    <3>2. /\ Tail(folds) \in Seq(Nat) /\ Len(Tail(folds)) = Len(folds) - 1 /\ Len(folds) \in Nat
          /\ \A i \in 1 .. Len(folds) - 1 : Tail(folds)[i] = folds[i + 1]
      BY <2>1, <3>1
    <3>3. ASSUME folds' = Tail(folds)
          PROVE  folds' \in Seq(Nat) /\ \A i \in 1 .. Len(folds') : shapes[folds'[i]].fold
      <4>1. \A i \in 1 .. Len(folds) - 1 : i + 1 \in 1 .. Len(folds)
        BY <3>2
      <4> QED
        BY <3>1, <3>2, <3>3, <4>1
    <3>4. ASSUME UNCHANGED folds
          PROVE  folds' \in Seq(Nat) /\ \A i \in 1 .. Len(folds') : shapes[folds'[i]].fold
      BY <3>1, <3>4
    <3>5. folds' \in Seq(Nat) /\ \A i \in 1 .. Len(folds') : shapes[folds'[i]].fold
      BY <2>2, <3>3, <3>4
    <3> QED
      BY <3>5 DEF shapes
  <2> QED
    BY <2>1, <2>4, <2>5 DEF TreeBounds
<1>3. CASE Tree!Mount
  <2>1. /\ UNCHANGED <<domain, placed, folds>> /\ phase' = "done"
        /\ nodes' = nodes \cup Tree!HandWritten(domain)
    BY <1>3 DEF Tree!Mount, Tree!Goes
  <2>2. \A n \in nodes' : Under(n, domain)
    BY <2>1, HandWrittenUnder DEF TreeBounds
  <2> QED
    BY <2>1, <2>2 DEF TreeBounds
<1> QED
  BY <1>1, <1>2, <1>3, PlaceBounds DEF Tree!TreeNext

-----------------------------------------------------------------------------
(* A process runs one command: the invariant is that of its command.       *)
CommandInv ==
  /\ command = "pinning" => PinInv
  /\ command = "bench"   => BenchInv
  /\ command = "setup"   => SetupInv
  /\ command = "watch"   => WatchInv
  /\ command = "copy"    => CopyInv
  /\ command = "credentials" => CredInv
  /\ command = "wizard"  => TermInv
  /\ command = "catalog" => CatalogInv

LEMMA CommandStarts == CommandsInit => CommandInv
<1> SUFFICES ASSUME CommandsInit PROVE CommandInv
  OBVIOUS
<1>1. command = "pinning" => Pin!PinInit
  BY DEF CommandsInit
<1>2. command = "bench" => BenchInit
  BY DEF CommandsInit
<1>3. command = "setup" => Setup!SetupInit
  BY DEF CommandsInit
<1>4. command = "watch" => Watch!WatchInit
  BY DEF CommandsInit
<1>5. command = "copy" => Copy!CopyInit
  BY DEF CommandsInit
<1>6. command = "credentials" => Cred!CredInit
  BY DEF CommandsInit
<1>7. command = "wizard" => Wizard!TermInit
  BY DEF CommandsInit
<1>8. command = "catalog" => Catalog!CommandInit
  BY DEF CommandsInit
<1> QED
  BY <1>1, <1>2, <1>3, <1>4, <1>5, <1>6, <1>7, <1>8, PinStarts, BenchStarts, SetupStarts,
     WatchStarts, CopyStarts, CredStarts, WizardStarts, CatalogStarts DEF CommandInv

LEMMA CommandWaits ==
  ASSUME CommandInv, UNCHANGED commandsVars
  PROVE  CommandInv'
<1>1. UNCHANGED command /\ UNCHANGED pinState /\ UNCHANGED benchVars /\ UNCHANGED setupState
      /\ UNCHANGED watchState /\ UNCHANGED copyState /\ UNCHANGED credState
      /\ UNCHANGED wizardState /\ UNCHANGED catalogState
  BY DEF commandsVars
<1>2. PinInv => PinInv'
  BY <1>1, NoServiceChange, ServiceStays DEF pinState
<1>3. BenchInv => BenchInv'
  BY <1>1 DEF benchVars, BenchInv, BenchTypes, ListPast, CleanupWhole, NothingTouched, Untouched,
              Stage
<1>4. SetupInv => SetupInv'
  BY <1>1 DEF setupState, SetupInv, SetupTypes, OneCreate, FileHolds, RestoreHolds,
              Setup!SeedIsSafe, Setup!Running
<1>5. WatchInv => WatchInv'
  BY <1>1 DEF watchState, WatchInv, Watch!TerminalWatchIsFinal, Watch!ColourBlind,
              Watch!IsSettled
<1>6. CopyInv => CopyInv'
  BY <1>1 DEF copyState, CopyInv, CopyTypes, StepOfKind, BytesStay, UploadKnown,
              Copy!CopyAnswerIsTrue, Copy!Has
<1>7. CredInv => CredInv'
  BY <1>1 DEF credState, CredInv, UploadWaits, FileWhole, Cred!TransferIsTrue
<1>8. TermInv => TermInv'
  BY <1>1 DEF wizardState, TermInv, TermTypes, PlaceTells, AnnouncedLast, Chosen
<1>9. CatalogInv => CatalogInv'
  BY <1>1, CatalogStep
<1> QED
  BY <1>1, <1>2, <1>3, <1>4, <1>5, <1>6, <1>7, <1>8, <1>9 DEF CommandInv

LEMMA CommandStep ==
  ASSUME CommandInv, [CommandsNext]_commandsVars
  PROVE  CommandInv'
<1>1. CASE Others("pinning") /\ Pin!PinNext
  BY <1>1, PinStep DEF Others, CommandInv
<1>2. CASE Others("bench") /\ BenchNext
  BY <1>2, BenchStep DEF Others, CommandInv
<1>3. CASE Others("setup") /\ Setup!SetupNext
  BY <1>3, SetupStep DEF Others, CommandInv
<1>4. CASE Others("watch") /\ Watch!WatchNext
  BY <1>4, WatchStep DEF Others, CommandInv
<1>5. CASE Others("copy") /\ Copy!CopyNext
  BY <1>5, CopyStepKeeps DEF Others, CommandInv
<1>6. CASE Others("credentials") /\ Cred!CredNext
  BY <1>6, CredStep DEF Others, CommandInv
<1>7. CASE Others("wizard") /\ Wizard!TermNext
  BY <1>7, WizardStep DEF Others, CommandInv
<1>8. CASE Others("catalog") /\ Catalog!CommandNext
  BY <1>8, CatalogStep DEF Others, CommandInv
<1>9. CASE Others("tree")
  BY <1>9 DEF Others, CommandInv
<1>10. CASE UNCHANGED commandsVars
  BY <1>10, CommandWaits
<1> QED
  BY <1>1, <1>2, <1>3, <1>4, <1>5, <1>6, <1>7, <1>8, <1>9, <1>10 DEF CommandsNext

LEMMA CommandsAreTrue == CommandsSpec => []CommandInv
<1>1. CommandsInit => CommandInv
  BY CommandStarts
<1>2. CommandInv /\ [CommandsNext]_commandsVars => CommandInv'
  BY CommandStep
<1> QED
  BY <1>1, <1>2, PTL DEF CommandsSpec

(* What the types of a command need beside its invariant.                  *)
TypesInv ==
  /\ command = "pinning" => PinBounds
  /\ command = "bench"   => BenchBounded
  /\ command = "setup"   => SetupBounds
  /\ command = "watch"   => WatchBounds
  /\ command = "copy"    => CopyBounds
  /\ command = "credentials" => CredBounds
  /\ command = "wizard"  => TermBounds
  /\ command = "catalog" => CatalogBounds
  /\ command = "tree"    => TreeBounds

LEMMA TypesStart == CommandsInit => TypesInv
<1> SUFFICES ASSUME CommandsInit PROVE TypesInv
  OBVIOUS
<1>1. command = "pinning" => Pin!PinInit
  BY DEF CommandsInit
<1>2. command = "bench" => BenchInit
  BY DEF CommandsInit
<1>3. command = "setup" => Setup!SetupInit
  BY DEF CommandsInit
<1>4. command = "watch" => Watch!WatchInit
  BY DEF CommandsInit
<1>5. command = "copy" => Copy!CopyInit
  BY DEF CommandsInit
<1>6. command = "credentials" => Cred!CredInit
  BY DEF CommandsInit
<1>7. command = "wizard" => Wizard!TermInit
  BY DEF CommandsInit
<1>8. command = "catalog" => Catalog!CommandInit
  BY DEF CommandsInit
<1>9. command = "tree" => Tree!TreeInit
  BY DEF CommandsInit
<1> QED
  BY <1>1, <1>2, <1>3, <1>4, <1>5, <1>6, <1>7, <1>8, <1>9, PinBoundsStart, BenchBoundsStart,
     SetupBoundsStart, WatchBoundsStart, CopyBoundsStart, CredBoundsStart, TermBoundsStart,
     CatalogBoundsStart, TreeBoundsStart DEF TypesInv

LEMMA TypesWait ==
  ASSUME TypesInv, UNCHANGED commandsVars
  PROVE  TypesInv'
<1>1. UNCHANGED command /\ UNCHANGED pinState /\ UNCHANGED benchVars /\ UNCHANGED setupState
      /\ UNCHANGED watchState /\ UNCHANGED copyState /\ UNCHANGED credState
      /\ UNCHANGED wizardState /\ UNCHANGED catalogState /\ UNCHANGED treeState
  BY DEF commandsVars
<1>2. PinBounds => PinBounds'
  BY <1>1 DEF pinState, PinBounds, Pin!Issued
<1>3. BenchBounded => BenchBounded'
  BY <1>1 DEF benchVars, BenchBounded
<1>4. SetupBounds => SetupBounds'
  BY <1>1 DEF setupState, SetupBounds
<1>5. WatchBounds => WatchBounds'
  BY <1>1 DEF watchState, WatchBounds
<1>6. CopyBounds => CopyBounds'
  BY <1>1 DEF copyState, CopyBounds
<1>7. CredBounds => CredBounds'
  BY <1>1 DEF credState, CredBounds, Cred!DownloadToken, Cred!GetAuthToken
<1>8. TermBounds => TermBounds'
  BY <1>1 DEF wizardState, TermBounds
<1>9. CatalogBounds => CatalogBounds'
  BY <1>1 DEF catalogState, CatalogBounds
<1>10. TreeBounds => TreeBounds'
  BY <1>1 DEF treeState, TreeBounds
<1> QED
  BY <1>1, <1>2, <1>3, <1>4, <1>5, <1>6, <1>7, <1>8, <1>9, <1>10 DEF TypesInv

LEMMA TypesStep ==
  ASSUME CommandInv, CommandInv', TypesInv, [CommandsNext]_commandsVars
  PROVE  TypesInv'
<1>1. CASE Others("pinning") /\ Pin!PinNext
  BY <1>1, PinBoundsKept DEF Others, CommandInv, TypesInv
<1>2. CASE Others("bench") /\ BenchNext
  BY <1>2, BenchBoundsKept DEF Others, CommandInv, TypesInv
<1>3. CASE Others("setup") /\ Setup!SetupNext
  BY <1>3, SetupBoundsKept DEF Others, CommandInv, TypesInv
<1>4. CASE Others("watch") /\ Watch!WatchNext
  BY <1>4, WatchBoundsKept DEF Others, CommandInv, TypesInv
<1>5. CASE Others("copy") /\ Copy!CopyNext
  BY <1>5, CopyBoundsKept DEF Others, CommandInv, TypesInv
<1>6. CASE Others("credentials") /\ Cred!CredNext
  BY <1>6, CredBoundsKept DEF Others, CommandInv, TypesInv
<1>7. CASE Others("wizard") /\ Wizard!TermNext
  BY <1>7, TermBoundsKept DEF Others, CommandInv, TypesInv
<1>8. CASE Others("catalog") /\ Catalog!CommandNext
  BY <1>8, CatalogBoundsKept DEF Others, CommandInv, TypesInv
<1>9. CASE Others("tree") /\ Tree!TreeNext
  BY <1>9, TreeBoundsKept DEF Others, TypesInv
<1>10. CASE UNCHANGED commandsVars
  BY <1>10, TypesWait
<1> QED
  BY <1>1, <1>2, <1>3, <1>4, <1>5, <1>6, <1>7, <1>8, <1>9, <1>10 DEF CommandsNext

LEMMA TypesFollow ==
  ASSUME CommandInv, TypesInv
  PROVE  CommandsTypeOK
BY PinTyped, BenchTyped, SetupTyped, WatchTyped, CopyTyped, CredTyped, WizardTyped,
   CatalogTyped, TreeTyped DEF CommandInv, TypesInv, CommandsTypeOK

(* For any command, any numbers of workers, requests, attempts, checks and  *)
(* tries, and any command lines: every variable keeps its type. In          *)
(* particular the tree hangs every node under the domain that is compiled,  *)
(* and a request carries the token of an account or none.                   *)
THEOREM CommandsKeepTheirTypes == CommandsSpec => []CommandsTypeOK
<1>1. CommandsInit => TypesInv
  BY TypesStart
<1>2. CommandInv /\ CommandInv' /\ TypesInv /\ [CommandsNext]_commandsVars => TypesInv'
  BY TypesStep
<1>3. CommandInv /\ TypesInv => CommandsTypeOK
  BY TypesFollow
<1> QED
  BY <1>1, <1>2, <1>3, CommandsAreTrue, PTL DEF CommandsSpec

(* For any number of workers, requests, attempts and CIDs, and any number   *)
(* of iterations and clean-up attempts: a batch is reported when every task *)
(* has ended, a task that is reported done did it, it removed one request   *)
(* at most and the right one; and what a benchmark reports as unpinned is.  *)
THEOREM BatchReportsAreTrue == CommandsSpec => []ReportsAreTrue
<1>1. CommandInv => ReportsAreTrue
  BY PinReports, BenchReports DEF CommandInv, ReportsAreTrue
<1> QED
  BY <1>1, CommandsAreTrue, PTL

(* For any finite number of creates that do not overlap, with restores at   *)
(* any time: the recovery phrase of a vault the indexer knows was shown or  *)
(* is on disk.                                                             *)
THEOREM RecoveryPhraseIsSafe == CommandsSpec => []SeedStaysSafe
<1>1. CommandInv => SeedStaysSafe
  BY DEF CommandInv, SeedStaysSafe, SetupInv
<1> QED
  BY <1>1, CommandsAreTrue, PTL

(* For any items and any page size: when a watch ends because all is        *)
(* terminal, the table it printed last is what the items are for good.     *)
THEOREM LastTableIsFinal == CommandsSpec => []WatchedIsFinal
<1>1. CommandInv => WatchedIsFinal
  BY DEF CommandInv, WatchedIsFinal, WatchInv
<1> QED
  BY <1>1, CommandsAreTrue, PTL

(* For any vaults, any number of checks of a pin and of commands in a row,  *)
(* and whatever other clients, flushers and programs do: bytes said to be   *)
(* stored are durable and what the command held, an upload that waited is   *)
(* pinned or was unpinned by another client, and a download leaves a whole  *)
(* file or none.                                                           *)
THEOREM TransfersReportTruth == CommandsSpec => []TransfersAreTrue
<1>1. CommandInv => TransfersAreTrue
  BY DEF CommandInv, TransfersAreTrue, CopyInv, CredInv
<1> QED
  BY <1>1, CommandsAreTrue, PTL

(* For any websites the account holds, any number of tries at validating    *)
(* and verifying, and wherever the user breaks off or the portal fails:     *)
(* the closing box of a wizard claims a verified domain, a validated        *)
(* website or a chosen endpoint only when the answers and the portal bear   *)
(* it out.                                                                 *)
THEOREM WizardBoxesAreTrue == CommandsSpec => []WizardAnnouncesTrue
<1>1. CommandInv => WizardAnnouncesTrue
  BY WizardAnnounces DEF CommandInv, WizardAnnouncesTrue
<1> QED
  BY <1>1, CommandsAreTrue, PTL

(* For any command lines, names and rows, and whatever others add or remove *)
(* meanwhile: a catalogue command removes something only with a flag or an  *)
(* answer about that very object (IPNS keys excepted), without --all just   *)
(* the one that was named, and its result can be reported.                 *)
THEOREM RemovalsAreAgreed == CommandsSpec => []RemovalIsAgreed
<1>1. CommandInv => RemovalIsAgreed
  BY DEF CommandInv, CatalogInv, RemovalIsAgreed
<1> QED
  BY <1>1, CommandsAreTrue, PTL
=============================================================================
