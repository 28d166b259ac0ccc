---------------------------- MODULE ServicesProofs ----------------------------
(***************************************************************************)
(* The promises of the services, for any servers, skills, providers,       *)
(* packages, listeners and tasks, whoever takes part and however their     *)
(* steps interleave.                                                       *)
(***************************************************************************)
EXTENDS Services, FiniteSetTheorems, SequenceTheorems, TLAPS

(***************************************************************************)
(* McpPool.  The clients that somebody holds are the pooled ones, each of  *)
(* one server, and those whose tools a task lists.                         *)
(* What makes that inductive is that a task connects only to a server      *)
(* without a pooled client and without another connection under way, and   *)
(* that the client a task closes stays in the pool till then.  The         *)
(* configurations a task works from are no older than the last reconnect,  *)
(* and neither is any pooled client once no task closes.                   *)
(***************************************************************************)
Job == [srv : Servers, config : 1 .. MaxEdits]
At == {"idle", "next", "connects", "lists", "waits", "woken", "closes"}
TaskRec == [at : At, todo : Seq(Job), who : SUBSET Loaders,
            client : Clients \cup {None}]

Makes(t)    == task[t].at \in {"connects", "lists"}
AsksTools(t)  == task[t].at = "lists"
Closes(t)   == task[t].at = "closes"

\* The pooled clients are open and in use, and each serves one server.
Owned ==
  /\ \A v \in Servers : pool[v] # None => pool[v] \in open /\ made[pool[v]] # 0
  /\ \A v, w \in Servers : pool[v] = pool[w] /\ pool[v] # None => v = w

\* Beside them only those are open whose tools a task lists.
Held ==
  \A c \in open : \/ \E v \in Servers : pool[v] = c
                 \/ \E t \in Tasks : AsksTools(t) /\ task[t].client = c

\* A task makes a client nobody else has, for a server without one.
Alone1(t) ==
  /\ task[t].client \in Clients /\ (AsksTools(t) => task[t].client \in open)
  /\ \A v \in Servers : pool[v] # task[t].client
  /\ made[task[t].client] = Head(task[t].todo).config
  /\ pool[Pool!Server(t)] = None
  /\ connecting[Pool!Server(t)] = task[t].client
  /\ \A u \in Tasks : Makes(u) /\ u # t =>
       task[u].client # task[t].client /\ Pool!Server(u) # Pool!Server(t)
ConnectsAlone == \A t \in Tasks : Makes(t) => Alone1(t)

\* At most one task closes, and what it closes is still pooled.
ClosesPooled ==
  \A t \in Tasks : Closes(t) =>
    /\ task[t].client = pool[Pool!Server(t)] /\ task[t].client # None
    /\ \A u \in Tasks : Closes(u) => u = t

\* Nothing older than the last reconnect is in use or about to be.
NoneOld ==
  /\ \A v \in Servers : due[v] <= config[v]
  /\ \A t \in Tasks : ~Closes(t) =>
       \A i \in DOMAIN task[t].todo :
         due[task[t].todo[i].srv] <= task[t].todo[i].config
  /\ (\A t \in Tasks : ~Closes(t)) =>
       \A v \in Servers : pool[v] # None => due[v] <= made[pool[v]]

PoolInv == Pool!TypeOK /\ Owned /\ Held /\ ConnectsAlone /\ ClosesPooled /\ NoneOld

------------------------------------------------------------------------------
(***************************************************************************)
(* Lemmas about the pieces of the actions                                  *)
(***************************************************************************)

\* SetToSeq of a finite set is a sequence of its elements.
LEMMA SetToSeqType ==
  ASSUME NEW S, IsFiniteSet(S)
  PROVE  Pool!SetToSeq(S) \in Seq(S)
<1> DEFINE n == Cardinality(S)
<1>1. n \in Nat /\ ExistsBijection(1 .. n, S)
  BY FS_CardinalityType
<1>2. \E f \in [1 .. n -> S] : Pool!IsInjective(f)
  BY <1>1 DEF ExistsBijection, Bijection, Injection, IsInjective, Pool!IsInjective
<1>3. Pool!Cardinality(S) = n
  BY DEF Pool!Cardinality, Cardinality
<1>4. Pool!SetToSeq(S) \in [1 .. n -> S]
  <2> HIDE DEF n
  <2> QED BY <1>2, <1>3 DEF Pool!SetToSeq
<1> HIDE DEF n
<1> QED BY <1>1, <1>4

\* What is loaded are jobs, each with its server's configuration of now.
LEMMA LoadedJobs ==
  ASSUME Pool!PoolAssumption, Pool!TypeOK
  PROVE  /\ Pool!LoadServers \in Seq(Job)
         /\ \A i \in DOMAIN Pool!LoadServers :
              Pool!LoadServers[i].config = config[Pool!LoadServers[i].srv]
<1> DEFINE U == {u \in Servers : config[u] % 2 = 1}
           J(v) == [srv |-> v, config |-> config[v]]
           S == {J(v) : v \in U}
           f == [v \in U |-> J(v)]
<1>1. IsFiniteSet(U)
  <2>1. IsFiniteSet(Servers)
    BY DEF Pool!PoolAssumption, Pool!IsFiniteSet, IsFiniteSet
  <2> QED BY <2>1, FS_Subset
<1>2. f \in Surjection(U, S)
  BY DEF Surjection
<1>3. IsFiniteSet(S)
  BY <1>1, <1>2, FS_Surjection
<1>4. Pool!LoadServers \in Seq(S)
  BY <1>3, SetToSeqType DEF Pool!LoadServers
<1>5. ASSUME NEW v \in U PROVE J(v) \in Job
  <2>1. config[v] \in 0 .. MaxEdits /\ config[v] # 0 /\ MaxEdits \in Nat
    BY DEF Pool!TypeOK, Pool!PoolAssumption
  <2> QED BY <2>1 DEF Job
<1>6. S \subseteq Job /\ \A x \in S : x.config = config[x.srv]
  BY <1>5
<1> HIDE DEF S
<1>7. Pool!LoadServers \in Seq(Job)
  BY <1>4, <1>6
<1>8. \A i \in DOMAIN Pool!LoadServers : Pool!LoadServers[i] \in S
  BY <1>4
<1> QED BY <1>6, <1>7, <1>8

LEMMA TaskTypes ==
  ASSUME Pool!TypeOK
  PROVE  /\ task \in [Tasks -> TaskRec]
         /\ \A t \in Tasks : task[t].at # "idle" =>
              /\ Head(task[t].todo) \in Job /\ Pool!Server(t) \in Servers
              /\ Head(task[t].todo) = task[t].todo[1] /\ 1 \in DOMAIN task[t].todo
<1>1. task \in [Tasks -> TaskRec]
  BY DEF Pool!TypeOK, TaskRec, At, Job
<1>2. ASSUME NEW t \in Tasks, task[t].at # "idle"
      PROVE  /\ Head(task[t].todo) \in Job /\ Pool!Server(t) \in Servers
             /\ Head(task[t].todo) = task[t].todo[1] /\ 1 \in DOMAIN task[t].todo
  <2>1. task[t].todo \in Seq(Job) /\ task[t].todo # <<>>
    BY <1>1, <1>2 DEF Pool!TypeOK, TaskRec
  <2>2. /\ Head(task[t].todo) \in Job /\ 1 \in DOMAIN task[t].todo
        /\ Head(task[t].todo) = task[t].todo[1]
    BY <2>1
  <2> QED BY <2>2 DEF Pool!Server, Job
<1> QED BY <1>1, <1>2

\* A task between two servers, or done.
LEMMA ConnectAllType ==
  ASSUME NEW w \in SUBSET Loaders, NEW q \in Seq(Job)
  PROVE  /\ Pool!ConnectAll(w, q) \in TaskRec
         /\ Pool!ConnectAll(w, q).at \in {"idle", "next"}
         /\ Pool!ConnectAll(w, q).todo = q
         /\ Pool!ConnectAll(w, q).at = "idle" <=> q = <<>>
<1>1. Pool!Idle \in TaskRec
  BY DEF Pool!Idle, TaskRec, At
<1>2. CASE q = <<>>
  BY <1>1, <1>2 DEF Pool!ConnectAll, Pool!Idle
<1>3. CASE q # <<>>
  <2>1. Pool!ConnectAll(w, q) = [at |-> "next", todo |-> q, who |-> w, client |-> None]
    BY <1>3 DEF Pool!ConnectAll, Pool!Idle
  <2> QED BY <1>3, <2>1 DEF TaskRec, At
<1> QED BY <1>2, <1>3

LEMMA AfterType ==
  ASSUME Pool!TypeOK, NEW t \in Tasks, task[t].at # "idle"
  PROVE  /\ Pool!After(t) \in TaskRec /\ Pool!After(t).at \in {"idle", "next"}
         /\ Pool!After(t).at = "idle" \/ Pool!After(t).todo # <<>>
         /\ \A i \in DOMAIN Pool!After(t).todo :
              \E j \in DOMAIN task[t].todo : Pool!After(t).todo[i] = task[t].todo[j]
<1>1. task[t] \in TaskRec
  BY TaskTypes
<1>2. task[t].todo \in Seq(Job) /\ task[t].who \in SUBSET Loaders
      /\ task[t].todo # <<>>
  BY <1>1 DEF TaskRec, Pool!TypeOK
<1>3. Tail(task[t].todo) \in Seq(Job)
      /\ \A i \in DOMAIN Tail(task[t].todo) :
           i + 1 \in DOMAIN task[t].todo /\ Tail(task[t].todo)[i] = task[t].todo[i + 1]
  BY <1>2
<1>4. /\ Pool!After(t) \in TaskRec /\ Pool!After(t).at \in {"idle", "next"}
      /\ Pool!After(t).todo = Tail(task[t].todo)
      /\ Pool!After(t).at = "idle" <=> Tail(task[t].todo) = <<>>
  BY <1>2, <1>3, ConnectAllType DEF Pool!After
<1> QED BY <1>3, <1>4

LEMMA TypeFromTasks ==
  ASSUME task' \in [Tasks -> TaskRec],
         \A u \in Tasks : task'[u].at = "idle" \/ task'[u].todo # <<>>,
         config' \in [Servers -> 0 .. MaxEdits], due' \in [Servers -> 0 .. MaxEdits],
         pool' \in [Servers -> Clients \cup {None}],
         connecting' \in [Servers -> Clients \cup {None}],
         made' \in [Clients -> 0 .. MaxEdits], open' \in SUBSET Clients,
         lost' \in SUBSET Servers, tools' \in [Loaders -> SUBSET Servers]
  PROVE  Pool!TypeOK'
BY DEF Pool!TypeOK, TaskRec, At, Job

\* What registers is a server of a task.
LEMMA RegisterType ==
  ASSUME Pool!TypeOK, NEW t \in Tasks, task[t].at # "idle", NEW found, Pool!Register(t, found)
  PROVE  tools' \in [Loaders -> SUBSET Servers]
<1>1. Pool!Server(t) \in Servers /\ tools \in [Loaders -> SUBSET Servers]
  BY TaskTypes DEF Pool!TypeOK
<1>2. tools' = [l \in Loaders |-> IF found /\ l \in task[t].who
                                  THEN tools[l] \cup {Pool!Server(t)} ELSE tools[l]]
  BY DEF Pool!Register
<1> HIDE DEF Pool!Server
<1> QED BY <1>1, <1>2

\* A step that moves only tasks, begins or ends no connection and no close, and
\* gives no task an old configuration.
LEMMA TaskOnly ==
  ASSUME PoolInv, Pool!TypeOK', UNCHANGED <<pool, connecting, made, open, due>>,
         \A v \in Servers : config[v] <= config'[v],
         \A u \in Tasks :
           /\ Closes(u)' <=> Closes(u)
           /\ Makes(u)' => Makes(u)
           /\ AsksTools(u)' <=> AsksTools(u)
           /\ Makes(u)' \/ Closes(u)' =>
                task'[u].todo = task[u].todo /\ task'[u].client = task[u].client
           /\ ~Closes(u)' => \A i \in DOMAIN task'[u].todo :
                due[task'[u].todo[i].srv] <= task'[u].todo[i].config
  PROVE  PoolInv'
<1>1. Owned'
  BY DEF PoolInv, Owned
<1>5. Held'
  <2>1. \A u \in Tasks : AsksTools(u) => AsksTools(u)' /\ task'[u].client = task[u].client
    BY DEF AsksTools, Makes
  <2> QED BY <2>1 DEF PoolInv, Held
<1>2. ConnectsAlone'
  BY DEF PoolInv, ConnectsAlone, Alone1, Pool!Server
<1>3. ClosesPooled'
  BY DEF PoolInv, ClosesPooled, Pool!Server, Closes
<1>4. NoneOld'
  <2>1. ASSUME NEW v \in Servers PROVE due'[v] <= config'[v]
    <3>1. due[v] <= config[v] /\ config[v] <= config'[v] /\ due' = due
      BY DEF PoolInv, NoneOld
    <3>2. due[v] \in Nat /\ config[v] \in Nat /\ config'[v] \in Nat
      BY DEF PoolInv, Pool!TypeOK
    <3> QED BY <3>1, <3>2
  <2> QED BY <2>1 DEF PoolInv, NoneOld
<1> QED BY <1>1, <1>2, <1>3, <1>4, <1>5 DEF PoolInv

\* The jobs of a task that closes nothing are not old, and stay so after it
\* has left one out.
LEMMA JobsFresh ==
  ASSUME PoolInv, NEW t \in Tasks, ~Closes(t), task[t].at # "idle"
  PROVE  \A i \in DOMAIN Pool!After(t).todo :
           due[Pool!After(t).todo[i].srv] <= Pool!After(t).todo[i].config
BY AfterType DEF PoolInv, NoneOld

LEMMA LoadedFresh ==
  ASSUME Pool!PoolAssumption, PoolInv
  PROVE  \A i \in DOMAIN Pool!LoadServers :
           due[Pool!LoadServers[i].srv] <= Pool!LoadServers[i].config
<1> SUFFICES ASSUME NEW i \in DOMAIN Pool!LoadServers
             PROVE  due[Pool!LoadServers[i].srv] <= Pool!LoadServers[i].config
  OBVIOUS
<1>1. Pool!LoadServers \in Seq(Job) /\ Pool!LoadServers[i].config = config[Pool!LoadServers[i].srv]
  BY LoadedJobs DEF PoolInv
<1>2. Pool!LoadServers[i] \in Job
  BY <1>1
<1> QED BY <1>1, <1>2 DEF Job, PoolInv, NoneOld

------------------------------------------------------------------------------
(***************************************************************************)
(* The steps                                                               *)
(***************************************************************************)

LEMMA EditStep ==
  ASSUME Pool!PoolAssumption, PoolInv, NEW v \in Servers, NEW n \in 1 .. MaxEdits, Pool!Edit(v, n)
  PROVE  PoolInv'
<1>1. /\ config' = [config EXCEPT ![v] = n] /\ config \in [Servers -> 0 .. MaxEdits]
      /\ n \in {config[v] + 1, config[v] + 2} /\ MaxEdits \in Nat
      /\ UNCHANGED <<pool, connecting, made, open, lost, task, tools, due>>
  BY DEF Pool!Edit, PoolInv, Pool!TypeOK, Pool!PoolAssumption
<1>2. config' \in [Servers -> 0 .. MaxEdits]
  BY <1>1
<1>3. Pool!TypeOK'
  BY <1>1, <1>2 DEF PoolInv, Pool!TypeOK
<1>4. \A w \in Servers : config[w] <= config'[w]
  BY <1>1
<1>5. \A u \in Tasks : ~Closes(u) => \A i \in DOMAIN task[u].todo :
        due[task[u].todo[i].srv] <= task[u].todo[i].config
  BY DEF PoolInv, NoneOld
<1>6. \A u \in Tasks : /\ (Closes(u)' <=> Closes(u)) /\ (Makes(u)' <=> Makes(u))
                       /\ (AsksTools(u)' <=> AsksTools(u))
  BY <1>1 DEF Closes, Makes, AsksTools
<1> QED BY <1>1, <1>3, <1>4, <1>5, <1>6, TaskOnly

LEMMA SessionStartStep ==
  ASSUME Pool!PoolAssumption, PoolInv, NEW t \in Tasks, NEW l \in Loaders, Pool!SessionStart(l, t)
  PROVE  PoolInv'
<1> DEFINE new == Pool!ConnectAll({l}, Pool!LoadServers)
<1>0. Pool!TypeOK
  BY DEF PoolInv
<1>1. /\ task[t] = Pool!Idle /\ tools' = [tools EXCEPT ![l] = {}]
      /\ task' = [u \in Tasks |-> IF u = t THEN new
                                  ELSE [task[u] EXCEPT !.who = @ \ {l}]]
      /\ UNCHANGED <<config, pool, connecting, made, open, lost, due>>
  BY DEF Pool!SessionStart
<1>2. /\ Pool!LoadServers \in Seq(Job) /\ new \in TaskRec /\ new.at \in {"idle", "next"}
      /\ new.todo = Pool!LoadServers /\ (new.at = "idle" <=> Pool!LoadServers = <<>>)
  BY <1>0, LoadedJobs, ConnectAllType
<1>3. task'[t] = new
  BY <1>1
<1>4. ASSUME NEW u \in Tasks, u # t
      PROVE  /\ task'[u] \in TaskRec
             /\ task'[u].at = task[u].at /\ task'[u].todo = task[u].todo
             /\ task'[u].client = task[u].client
  <2>1. task'[u] = [task[u] EXCEPT !.who = @ \ {l}] /\ task[u] \in TaskRec
    BY <1>0, <1>1, <1>4, TaskTypes
  <2> QED BY <2>1 DEF TaskRec
<1> HIDE DEF new
<1>5. task' \in [Tasks -> TaskRec]
      /\ \A u \in Tasks : task'[u].at = "idle" \/ task'[u].todo # <<>>
  <2>1. new \in TaskRec /\ (new.at = "idle" \/ new.todo # <<>>)
    BY <1>2 DEF new
  <2>2. \A u \in Tasks : task'[u] \in TaskRec
    BY <1>2, <1>3, <1>4
  <2>3. task' = [u \in Tasks |-> task'[u]]
    BY <1>1
  <2>4. \A u \in Tasks : task[u].at = "idle" \/ task[u].todo # <<>>
    BY <1>0 DEF Pool!TypeOK
  <2>5. \A u \in Tasks : task'[u].at = "idle" \/ task'[u].todo # <<>>
    BY <1>2, <1>3, <1>4, <2>4
  <2> QED BY <2>2, <2>3, <2>5
<1>6. Pool!TypeOK'
  BY <1>0, <1>1, <1>5, TypeFromTasks DEF Pool!TypeOK
<1>7. Pool!Idle.at = "idle"
  BY DEF Pool!Idle
<1>8. ASSUME NEW u \in Tasks
      PROVE  /\ Closes(u)' <=> Closes(u)
             /\ Makes(u)' => Makes(u)
             /\ AsksTools(u)' <=> AsksTools(u)
             /\ Makes(u)' \/ Closes(u)' =>
                  task'[u].todo = task[u].todo /\ task'[u].client = task[u].client
             /\ ~Closes(u)' => \A i \in DOMAIN task'[u].todo :
                  due[task'[u].todo[i].srv] <= task'[u].todo[i].config
  <2>1. CASE u = t
    BY <1>1, <1>2, <1>3, <1>7, <2>1, LoadedFresh DEF Closes, Makes, AsksTools
  <2>2. CASE u # t
    BY <1>4, <2>2 DEF Closes, Makes, AsksTools, PoolInv, NoneOld
  <2> QED BY <2>1, <2>2
<1>9. \A v \in Servers : config[v] <= config'[v]
  BY <1>0, <1>1 DEF Pool!TypeOK
<1> QED BY <1>1, <1>6, <1>8, <1>9, TaskOnly

\* A task goes on to its next server, or to await another's connection.
LEMMA GoOnStep ==
  ASSUME Pool!PoolAssumption, PoolInv, NEW t \in Tasks,
         Pool!UsePooled(t) \/ Pool!AwaitOther(t) \/ Pool!Woken(t)
  PROVE  PoolInv'
<1>0. Pool!TypeOK /\ task \in [Tasks -> TaskRec]
  BY TaskTypes DEF PoolInv
<1>1. /\ task[t].at \in {"next", "woken"}
      /\ UNCHANGED <<config, pool, connecting, made, open, lost, due>>
  BY DEF Pool!UsePooled, Pool!AwaitOther, Pool!Woken
<1>2. /\ task' \in [Tasks -> TaskRec]
      /\ \A u \in Tasks : u # t => task'[u] = task[u]
      /\ task'[t].at \in {"idle", "next", "waits"}
      /\ task'[t].at = "idle" \/ task'[t].todo # <<>>
      /\ \A i \in DOMAIN task'[t].todo :
           due[task'[t].todo[i].srv] <= task'[t].todo[i].config
  <2>1. CASE Pool!AwaitOther(t)
    <3>1. task' = [task EXCEPT ![t].at = "waits"]
      BY <2>1 DEF Pool!AwaitOther
    <3>2. task'[t] = [task[t] EXCEPT !.at = "waits"] /\ task[t] \in TaskRec
      BY <1>0, <3>1
    <3>3. task'[t] \in TaskRec /\ task'[t].at = "waits" /\ task'[t].todo = task[t].todo
      BY <3>2 DEF TaskRec, At
    <3> QED BY <1>0, <1>1, <3>1, <3>3 DEF PoolInv, NoneOld, Closes, Pool!TypeOK
  <2>2. CASE Pool!UsePooled(t) \/ Pool!Woken(t)
    <3>1. task' = [task EXCEPT ![t] = Pool!After(t)]
      BY <2>2 DEF Pool!UsePooled, Pool!Woken
    <3>2. Pool!After(t) \in TaskRec /\ Pool!After(t).at \in {"idle", "next"}
          /\ (Pool!After(t).at = "idle" \/ Pool!After(t).todo # <<>>)
      BY <1>0, <1>1, AfterType
    <3>3. \A i \in DOMAIN Pool!After(t).todo :
            due[Pool!After(t).todo[i].srv] <= Pool!After(t).todo[i].config
      BY <1>1, JobsFresh DEF Closes
    <3>4. task'[t] = Pool!After(t)
      BY <1>0, <3>1
    <3> QED BY <1>0, <3>1, <3>2, <3>3, <3>4
  <2> QED BY <2>1, <2>2
<1>3. tools' \in [Loaders -> SUBSET Servers]
  <2>1. CASE Pool!AwaitOther(t)
    BY <1>0, <2>1 DEF Pool!AwaitOther, Pool!TypeOK
  <2>2. CASE Pool!UsePooled(t)
    BY <1>0, <1>1, <2>2, RegisterType DEF Pool!UsePooled
  <2>3. CASE Pool!Woken(t)
    BY <1>0, <1>1, <2>3, RegisterType DEF Pool!Woken
  <2> QED BY <2>1, <2>2, <2>3
<1>4. Pool!TypeOK'
  <2>1. \A u \in Tasks : task'[u].at = "idle" \/ task'[u].todo # <<>>
    BY <1>0, <1>2 DEF Pool!TypeOK
  <2> QED BY <1>0, <1>1, <1>2, <1>3, <2>1, TypeFromTasks DEF Pool!TypeOK
<1>5. ASSUME NEW u \in Tasks
      PROVE  /\ Closes(u)' <=> Closes(u)
             /\ Makes(u)' => Makes(u)
             /\ AsksTools(u)' <=> AsksTools(u)
             /\ Makes(u)' \/ Closes(u)' =>
                  task'[u].todo = task[u].todo /\ task'[u].client = task[u].client
             /\ ~Closes(u)' => \A i \in DOMAIN task'[u].todo :
                  due[task'[u].todo[i].srv] <= task'[u].todo[i].config
  <2>1. CASE u = t
    BY <1>1, <1>2, <2>1 DEF Closes, Makes, AsksTools
  <2>2. CASE u # t
    BY <1>2, <2>2 DEF Closes, Makes, AsksTools, PoolInv, NoneOld
  <2> QED BY <2>1, <2>2
<1>6. \A v \in Servers : config[v] <= config'[v]
  BY <1>0, <1>1 DEF Pool!TypeOK
<1> QED BY <1>1, <1>4, <1>5, <1>6, TaskOnly

LEMMA ConnectStep ==
  ASSUME Pool!PoolAssumption, PoolInv, NEW t \in Tasks, NEW c \in Clients, Pool!Connect(t, c)
  PROVE  PoolInv'
<1>0. /\ Pool!TypeOK /\ task \in [Tasks -> TaskRec] /\ None \notin Clients
      /\ MaxEdits \in Nat
  BY TaskTypes DEF PoolInv, Pool!PoolAssumption
<1> DEFINE v == Pool!Server(t)
           n == Head(task[t].todo).config
<1>1. /\ task[t].at = "next" /\ pool[v] = None /\ connecting[v] = None
      /\ made[c] = 0 /\ made' = [made EXCEPT ![c] = n]
      /\ connecting' = [connecting EXCEPT ![v] = c]
      /\ task' = [task EXCEPT ![t].at = "connects", ![t].client = c]
      /\ UNCHANGED <<config, pool, open, lost, tools, due>>
  BY DEF Pool!Connect, Pool!MayShare
<1>2. /\ Head(task[t].todo) \in Job /\ v \in Servers /\ n \in 1 .. MaxEdits
      /\ Head(task[t].todo) = task[t].todo[1] /\ 1 \in DOMAIN task[t].todo
  BY <1>0, <1>1, TaskTypes DEF Job
<1>3. /\ task'[t].at = "connects" /\ task'[t].client = c
      /\ task'[t].todo = task[t].todo /\ task'[t] \in TaskRec
      /\ \A u \in Tasks : u # t => task'[u] = task[u]
      /\ task' \in [Tasks -> TaskRec]
  <2>1. task[t] \in TaskRec /\ DOMAIN task = Tasks
    BY <1>0
  <2>2. task'[t] = [task[t] EXCEPT !.at = "connects", !.client = c]
    BY <1>1, <2>1
  <2>3. /\ task'[t].at = "connects" /\ task'[t].client = c
        /\ task'[t].todo = task[t].todo /\ task'[t] \in TaskRec
    BY <2>1, <2>2 DEF TaskRec, At
  <2> QED BY <1>0, <1>1, <2>3
<1>4. made' \in [Clients -> 0 .. MaxEdits] /\ connecting' \in [Servers -> Clients \cup {None}]
  BY <1>0, <1>1, <1>2 DEF Pool!TypeOK
<1>5. Pool!TypeOK'
  <2>1. \A u \in Tasks : task'[u].at = "idle" \/ task'[u].todo # <<>>
    BY <1>0, <1>1, <1>3 DEF Pool!TypeOK
  <2> QED BY <1>0, <1>1, <1>3, <1>4, <2>1, TypeFromTasks DEF Pool!TypeOK
<1>6. \A w \in Servers : pool[w] # c
  BY <1>0, <1>1 DEF PoolInv, Owned
<1>7. \A d \in Clients : d # c => made'[d] = made[d]
  BY <1>0, <1>1 DEF Pool!TypeOK
<1>8. Owned'
  BY <1>1, <1>6, <1>7 DEF PoolInv, Owned, Pool!TypeOK
<1>9. ASSUME NEW u \in Tasks, Makes(u)', u # t
      PROVE  Makes(u) /\ task'[u] = task[u]
  BY <1>3, <1>9 DEF Makes
<1>10. \A u \in Tasks : Makes(u) =>
         /\ task[u].client # c /\ Pool!Server(u) # v /\ task[u].client \in Clients
         /\ made[task[u].client] = Head(task[u].todo).config
         /\ pool[Pool!Server(u)] = None /\ connecting[Pool!Server(u)] = task[u].client
  <2> SUFFICES ASSUME NEW u \in Tasks, Makes(u)
               PROVE  /\ task[u].client # c /\ Pool!Server(u) # v
                      /\ task[u].client \in Clients
                      /\ made[task[u].client] = Head(task[u].todo).config
                      /\ pool[Pool!Server(u)] = None
                      /\ connecting[Pool!Server(u)] = task[u].client
    OBVIOUS
  <2>1. Alone1(u)
    BY DEF PoolInv, ConnectsAlone
  <2>2. Head(task[u].todo) \in Job
    BY <1>0, TaskTypes DEF Makes
  <2>3. made[task[u].client] # 0
    BY <2>1, <2>2 DEF Alone1, Job
  <2> QED BY <1>0, <1>1, <2>1, <2>3 DEF Alone1
<1>11. Pool!Server(t)' = v /\ \A u \in Tasks : Pool!Server(u)' = Pool!Server(u)
  BY <1>3 DEF Pool!Server
<1>15. \A u \in Tasks : AsksTools(u)' <=> u # t /\ AsksTools(u)
  BY <1>1, <1>3 DEF AsksTools
<1>16. Held'
  BY <1>1, <1>3, <1>15 DEF PoolInv, Held, AsksTools
<1>12. ConnectsAlone'
  <2> SUFFICES ASSUME NEW u \in Tasks, Makes(u)' PROVE Alone1(u)'
    BY DEF ConnectsAlone
  <2>1. CASE u = t
    <3>1. made'[c] = n /\ connecting'[v] = c
      BY <1>0, <1>1, <1>2 DEF Pool!TypeOK
    <3>2. \A w \in Tasks : Makes(w)' /\ w # t =>
            task'[w].client # c /\ Pool!Server(w)' # v
      BY <1>9, <1>10, <1>11
    <3> QED BY <1>1, <1>3, <1>6, <1>11, <1>15, <2>1, <3>1, <3>2 DEF Alone1
  <2>2. CASE u # t
    <3>1. Makes(u) /\ task'[u] = task[u] /\ Pool!Server(u) \in Servers
      BY <1>0, <1>9, <2>2, TaskTypes DEF Makes
    <3>2. connecting'[Pool!Server(u)] = task[u].client
          /\ made'[task[u].client] = Head(task[u].todo).config
      BY <1>0, <1>1, <1>7, <1>10, <3>1 DEF Pool!TypeOK
    <3>3. \A w \in Tasks : Makes(w)' /\ w # u =>
            task'[w].client # task[u].client /\ Pool!Server(w)' # Pool!Server(u)
      <4>1. Alone1(u)
        BY <3>1 DEF PoolInv, ConnectsAlone
      <4> QED BY <1>3, <1>9, <1>10, <1>11, <3>1, <4>1 DEF Alone1
    <3>4. Alone1(u)
      BY <3>1 DEF PoolInv, ConnectsAlone
    <3>5. /\ task'[u].client \in Clients
          /\ (AsksTools(u)' => task'[u].client \in open')
          /\ \A w \in Servers : pool'[w] # task'[u].client
      <4>1. pool' = pool /\ open' = open /\ task'[u] = task[u]
            /\ (AsksTools(u)' => AsksTools(u))
        BY <1>1, <1>15, <3>1
      <4>2. /\ task[u].client \in Clients
            /\ (AsksTools(u) => task[u].client \in open)
            /\ \A w \in Servers : pool[w] # task[u].client
        BY <3>4 DEF Alone1
      <4> QED BY ONLY <4>1, <4>2
    <3>6. /\ made'[task'[u].client] = Head(task'[u].todo).config
          /\ Pool!Server(u)' = Pool!Server(u) /\ pool'[Pool!Server(u)] = None
          /\ connecting'[Pool!Server(u)] = task'[u].client
      BY <1>1, <1>10, <1>11, <3>1, <3>2
    <3> QED BY <3>1, <3>3, <3>5, <3>6 DEF Alone1
  <2> QED BY <2>1, <2>2
<1>13. ClosesPooled'
  <2>1. \A u \in Tasks : Closes(u)' => Closes(u) /\ task'[u] = task[u]
    BY <1>3 DEF Closes
  <2>2. ClosesPooled /\ pool' = pool /\ \A u \in Tasks : Pool!Server(u)' = Pool!Server(u)
    BY <1>1, <1>11 DEF PoolInv
  <2> QED BY <2>1, <2>2 DEF ClosesPooled
<1>14. NoneOld'
  <2>1. \A u \in Tasks : Closes(u)' <=> Closes(u)
    BY <1>1, <1>3 DEF Closes
  <2>2. \A u \in Tasks : task'[u].todo = task[u].todo
    BY <1>3
  <2>3. \A w \in Servers : pool[w] # None => made'[pool[w]] = made[pool[w]]
    BY <1>0, <1>6, <1>7 DEF PoolInv, Owned, Pool!TypeOK
  <2> QED BY <1>1, <2>1, <2>2, <2>3 DEF PoolInv, NoneOld
<1> QED BY <1>5, <1>8, <1>12, <1>13, <1>14, <1>16 DEF PoolInv

\* What a settled connection does to the tasks: its own goes on, and those
\* that waited for it are woken or end.
LEMMA SettleTasks ==
  ASSUME Pool!PoolAssumption, PoolInv, NEW t \in Tasks, Makes(t), NEW stands,
         task' = Pool!Settle(t, stands)
  PROVE  /\ task' \in [Tasks -> TaskRec]
         /\ \A u \in Tasks : task'[u].at = "idle" \/ task'[u].todo # <<>>
         /\ ~Makes(t)' /\ ~Closes(t)'
         /\ \A u \in Tasks : Makes(u)' \/ Closes(u)' => u # t /\ task'[u] = task[u]
         /\ \A u \in Tasks : Closes(u) => Closes(u)'
         /\ \A u \in Tasks : ~Closes(u)' => \A i \in DOMAIN task'[u].todo :
              due[task'[u].todo[i].srv] <= task'[u].todo[i].config
<1>0. Pool!TypeOK /\ task \in [Tasks -> TaskRec]
  BY TaskTypes DEF PoolInv
<1>1. /\ Pool!After(t) \in TaskRec /\ Pool!After(t).at \in {"idle", "next"}
      /\ (Pool!After(t).at = "idle" \/ Pool!After(t).todo # <<>>)
      /\ \A i \in DOMAIN Pool!After(t).todo :
           due[Pool!After(t).todo[i].srv] <= Pool!After(t).todo[i].config
  BY <1>0, AfterType, JobsFresh DEF Makes, Closes
<1>2. /\ Pool!Idle \in TaskRec /\ Pool!Idle.at = "idle" /\ Pool!Idle.todo = <<>>
  BY DEF Pool!Idle, TaskRec, At
<1>3. ASSUME NEW u \in Tasks
      PROVE  \/ u = t /\ task'[u] = Pool!After(t)
             \/ u # t /\ task'[u] = task[u]
             \/ u # t /\ task[u].at = "waits" /\ task'[u] = [task[u] EXCEPT !.at = "woken"]
             \/ u # t /\ task[u].at = "waits" /\ task'[u] = Pool!Idle
  BY DEF Pool!Settle
<1>4. ASSUME NEW u \in Tasks
      PROVE  /\ task[u] \in TaskRec
             /\ [task[u] EXCEPT !.at = "woken"] \in TaskRec
             /\ [task[u] EXCEPT !.at = "woken"].at = "woken"
             /\ [task[u] EXCEPT !.at = "woken"].todo = task[u].todo
  <2>1. task[u] \in TaskRec
    BY <1>0
  <2> QED BY <2>1 DEF TaskRec, At
<1>5. \A u \in Tasks : task'[u] \in TaskRec
  BY <1>1, <1>2, <1>3, <1>4
<1>6. task' \in [Tasks -> TaskRec]
  BY <1>5 DEF Pool!Settle
<1>7. ASSUME NEW u \in Tasks PROVE task'[u].at = "idle" \/ task'[u].todo # <<>>
  <2>1. task[u].at = "idle" \/ task[u].todo # <<>>
    BY <1>0 DEF Pool!TypeOK
  <2>2. CASE task[u].at = "waits" /\ task'[u] = [task[u] EXCEPT !.at = "woken"]
    BY <1>4, <2>1, <2>2
  <2> QED BY <1>1, <1>2, <1>3, <2>1, <2>2
<1>8. \A u \in Tasks : Makes(u)' \/ Closes(u)' => u # t /\ task'[u] = task[u]
  BY <1>1, <1>2, <1>3, <1>4 DEF Makes, Closes
<1>9. \A u \in Tasks : Closes(u) => Closes(u)'
  BY <1>3 DEF Closes, Makes
<1>10. ASSUME NEW u \in Tasks, ~Closes(u)', NEW i \in DOMAIN task'[u].todo
       PROVE  due[task'[u].todo[i].srv] <= task'[u].todo[i].config
  <2>1. \A j \in DOMAIN task[u].todo : ~Closes(u) =>
          due[task[u].todo[j].srv] <= task[u].todo[j].config
    BY DEF PoolInv, NoneOld
  <2>2. ~Closes(u)
    BY <1>9, <1>10
  <2>3. CASE task'[u] = Pool!Idle
    <3>1. i \in DOMAIN <<>>
      BY <1>2, <1>10, <2>3
    <3> QED BY <3>1
  <2> QED BY <1>1, <1>3, <1>4, <1>10, <2>1, <2>2, <2>3
<1> QED BY <1>6, <1>7, <1>8, <1>9, <1>10

LEMMA ConnectedStep ==
  ASSUME Pool!PoolAssumption, PoolInv, NEW t \in Tasks, Pool!Connected(t)
  PROVE  PoolInv'
<1> DEFINE v == Pool!Server(t)
           c == task[t].client
<1>0. /\ Pool!TypeOK /\ task \in [Tasks -> TaskRec] /\ None \notin Clients
      /\ MaxEdits \in Nat
  BY TaskTypes DEF PoolInv, Pool!PoolAssumption
<1>1. /\ AsksTools(t) /\ Makes(t) /\ pool' = [pool EXCEPT ![v] = c]
      /\ connecting' = [connecting EXCEPT ![v] = None]
      /\ Pool!Register(t, TRUE) /\ task' = Pool!Settle(t, TRUE)
      /\ UNCHANGED <<config, made, open, lost, due>>
  BY DEF Pool!Connected, Makes, AsksTools
<1>2. /\ c \in open /\ made[c] = Head(task[t].todo).config
      /\ pool[v] = None /\ \A w \in Servers : pool[w] # c
      /\ \A u \in Tasks : Makes(u) /\ u # t => task[u].client # c /\ Pool!Server(u) # v
  BY <1>1 DEF PoolInv, ConnectsAlone, Alone1
<1>3. /\ Head(task[t].todo) \in Job /\ v \in Servers
      /\ Head(task[t].todo) = task[t].todo[1] /\ 1 \in DOMAIN task[t].todo
  BY <1>0, <1>1, TaskTypes DEF Makes
<1>4. made[c] # 0 /\ due[v] <= made[c]
  <2>1. ~Closes(t)
    BY <1>1 DEF Makes, Closes
  <2>2. due[task[t].todo[1].srv] <= task[t].todo[1].config
    BY <1>3, <2>1 DEF PoolInv, NoneOld
  <2> QED BY <1>2, <1>3, <2>2 DEF Job, Pool!Server
<1>5. /\ task' \in [Tasks -> TaskRec]
      /\ \A u \in Tasks : task'[u].at = "idle" \/ task'[u].todo # <<>>
      /\ \A u \in Tasks : Makes(u)' \/ Closes(u)' => u # t /\ task'[u] = task[u]
      /\ \A u \in Tasks : Closes(u) => Closes(u)'
      /\ \A u \in Tasks : ~Closes(u)' => \A i \in DOMAIN task'[u].todo :
           due[task'[u].todo[i].srv] <= task'[u].todo[i].config
  BY <1>1, SettleTasks
<1>6. /\ pool'[v] = c /\ \A w \in Servers : w # v => pool'[w] = pool[w]
      /\ pool' \in [Servers -> Clients \cup {None}]
      /\ connecting' \in [Servers -> Clients \cup {None}]
      /\ \A w \in Servers : w # v => connecting'[w] = connecting[w]
  BY <1>0, <1>1, <1>2, <1>3 DEF Pool!TypeOK
<1>7. Pool!TypeOK'
  <2>1. tools' \in [Loaders -> SUBSET Servers]
    BY <1>0, <1>1, RegisterType DEF Makes
  <2> QED BY <1>0, <1>1, <1>5, <1>6, <2>1, TypeFromTasks DEF Pool!TypeOK
<1>8. Owned'
  <2>1. ASSUME NEW w \in Servers, pool'[w] # None
        PROVE  pool'[w] \in open' /\ made[pool'[w]] # 0
    <3>1. CASE w = v
      BY <1>1, <1>2, <1>4, <1>6, <3>1
    <3>2. CASE w # v
      <4>1. pool'[w] = pool[w] /\ pool[w] # None
        BY <1>6, <2>1, <3>2
      <4> QED BY <1>1, <4>1 DEF PoolInv, Owned
    <3> QED BY <3>1, <3>2
  <2>3. ASSUME NEW w \in Servers, NEW x \in Servers,
               pool'[w] = pool'[x], pool'[w] # None
        PROVE  w = x
    <3>1. \A y \in Servers : y # v => pool'[y] # c
      BY <1>0, <1>2, <1>6 DEF PoolInv, Owned
    <3> QED BY <1>6, <2>3, <3>1 DEF PoolInv, Owned
  <2> QED BY <1>1, <2>1, <2>3 DEF Owned
<1>13. Held'
  <2> SUFFICES ASSUME NEW d \in open
               PROVE  \/ \E w \in Servers : pool'[w] = d
                      \/ \E u \in Tasks : AsksTools(u)' /\ task'[u].client = d
    BY <1>1 DEF Held
  <2>1. CASE d = c
    BY <1>3, <1>6, <2>1
  <2>2. CASE \E w \in Servers : pool[w] = d
    <3>1. PICK w \in Servers : pool[w] = d
      BY <2>2
    <3>2. d # None
      BY <1>0 DEF Pool!TypeOK
    <3> QED BY <1>2, <1>6, <3>1, <3>2
  <2>3. CASE \E u \in Tasks : AsksTools(u) /\ task[u].client = d /\ d # c
    <3>1. PICK u \in Tasks : AsksTools(u) /\ task[u].client = d /\ d # c
      BY <2>3
    <3>2. u # t /\ task'[u] = task[u]
      BY <1>1, <3>1 DEF Pool!Settle, AsksTools
    <3> QED BY <3>1, <3>2 DEF AsksTools
  <2> QED BY <2>1, <2>2, <2>3 DEF PoolInv, Held
<1>9. \A u \in Tasks : Makes(u)' \/ Closes(u)' => Pool!Server(u)' = Pool!Server(u)
  BY <1>5 DEF Pool!Server
<1>10. ConnectsAlone'
  <2> SUFFICES ASSUME NEW u \in Tasks, Makes(u)' PROVE Alone1(u)'
    BY DEF ConnectsAlone
  <2>1. u # t /\ task'[u] = task[u] /\ Makes(u) /\ Pool!Server(u)' = Pool!Server(u)
    BY <1>5, <1>9 DEF Makes
  <2>2. Alone1(u)
    BY <2>1 DEF PoolInv, ConnectsAlone
  <2>3. Pool!Server(u) # v /\ task[u].client # c /\ Pool!Server(u) \in Servers
    BY <1>0, <1>2, <2>1, TaskTypes DEF Makes
  <2>4. \A w \in Tasks : Makes(w)' /\ w # u =>
          task'[w].client # task[u].client /\ Pool!Server(w)' # Pool!Server(u)
    BY <1>5, <1>9, <2>2 DEF Alone1, Makes
  <2>6. (\A w \in Servers : pool'[w] # task[u].client) /\ (AsksTools(u)' => AsksTools(u))
    BY <1>6, <2>1, <2>2, <2>3 DEF Alone1, AsksTools
  <2>5. pool'[Pool!Server(u)] = None /\ connecting'[Pool!Server(u)] = task[u].client
    BY <1>6, <2>2, <2>3 DEF Alone1
  <2> QED BY <1>1, <2>1, <2>2, <2>3, <2>4, <2>5, <2>6 DEF Alone1
<1>11. ClosesPooled'
  <2> SUFFICES ASSUME NEW u \in Tasks, Closes(u)'
               PROVE  /\ task'[u].client = pool'[Pool!Server(u)'] /\ task'[u].client # None
                      /\ \A w \in Tasks : Closes(w)' => w = u
    BY DEF ClosesPooled
  <2>1. task'[u] = task[u] /\ Closes(u) /\ Pool!Server(u)' = Pool!Server(u)
    BY <1>5, <1>9 DEF Closes
  <2>2. /\ task[u].client = pool[Pool!Server(u)] /\ task[u].client # None
        /\ \A w \in Tasks : Closes(w) => w = u
    BY <2>1 DEF PoolInv, ClosesPooled
  <2>3. Pool!Server(u) # v /\ Pool!Server(u) \in Servers
    BY <1>0, <1>2, <2>1, <2>2, TaskTypes DEF Closes
  <2>4. \A w \in Tasks : Closes(w)' => Closes(w)
    BY <1>5 DEF Closes
  <2> QED BY <1>6, <2>1, <2>2, <2>3, <2>4
<1>12. NoneOld'
  <2>1. (\A u \in Tasks : ~Closes(u)') =>
          \A w \in Servers : pool'[w] # None => due[w] <= made[pool'[w]]
    BY <1>4, <1>5, <1>6 DEF PoolInv, NoneOld
  <2> QED BY <1>1, <1>5, <2>1 DEF PoolInv, NoneOld
<1> QED BY <1>7, <1>8, <1>10, <1>11, <1>12, <1>13 DEF PoolInv

\* A connection stands.
LEMMA StandsStep ==
  ASSUME Pool!PoolAssumption, PoolInv, NEW t \in Tasks, Pool!Stands(t)
  PROVE  PoolInv'
<1>0. Pool!TypeOK /\ task \in [Tasks -> TaskRec]
  BY TaskTypes DEF PoolInv
<1>1. /\ task[t].at = "connects" /\ open' = open \cup {task[t].client}
      /\ task' = [task EXCEPT ![t].at = "lists"]
      /\ UNCHANGED <<config, pool, connecting, made, lost, tools, due>>
  BY DEF Pool!Stands
<1>2. /\ task' \in [Tasks -> TaskRec] /\ task'[t].at = "lists"
      /\ \A u \in Tasks : /\ task'[u].todo = task[u].todo
                          /\ task'[u].client = task[u].client
                          /\ u # t => task'[u] = task[u]
  <2>1. task[t] \in TaskRec /\ DOMAIN task = Tasks
    BY <1>0
  <2>2. task'[t] = [task[t] EXCEPT !.at = "lists"]
    BY <1>1, <2>1
  <2>3. /\ task'[t] \in TaskRec /\ task'[t].at = "lists"
        /\ task'[t].todo = task[t].todo /\ task'[t].client = task[t].client
    BY <2>1, <2>2 DEF TaskRec, At
  <2> QED BY <1>0, <1>1, <2>3
<1>3. /\ \A u \in Tasks : (Makes(u)' <=> Makes(u)) /\ (Closes(u)' <=> Closes(u))
      /\ \A u \in Tasks : AsksTools(u) => AsksTools(u)'
      /\ \A u \in Tasks : Pool!Server(u)' = Pool!Server(u)
      /\ \A u \in Tasks : AsksTools(u)' => u = t \/ AsksTools(u)
  BY <1>1, <1>2 DEF Makes, Closes, AsksTools, Pool!Server
<1>4. Alone1(t)
  BY <1>1 DEF PoolInv, ConnectsAlone, Makes
<1>5. Pool!TypeOK'
  <2>1. open' \in SUBSET Clients
    BY <1>0, <1>1, <1>4 DEF Alone1, Pool!TypeOK
  <2>2. \A u \in Tasks : task'[u].at = "idle" \/ task'[u].todo # <<>>
    BY <1>0, <1>1, <1>2 DEF Pool!TypeOK
  <2> QED BY <1>0, <1>1, <1>2, <2>1, <2>2, TypeFromTasks DEF Pool!TypeOK
<1>6. Owned'
  BY <1>1 DEF PoolInv, Owned
<1>7. Held'
  <2>1. AsksTools(t)' /\ task'[t].client = task[t].client
    BY <1>2 DEF AsksTools
  <2> QED BY <1>1, <1>2, <1>3, <2>1 DEF PoolInv, Held
<1>8. ConnectsAlone'
  BY <1>1, <1>2, <1>3 DEF PoolInv, ConnectsAlone, Alone1
<1>9. ClosesPooled'
  BY <1>1, <1>2, <1>3 DEF PoolInv, ClosesPooled
<1>10. NoneOld'
  BY <1>1, <1>2, <1>3 DEF PoolInv, NoneOld
<1> QED BY <1>5, <1>6, <1>7, <1>8, <1>9, <1>10 DEF PoolInv

\* It fails, or the listing of its server's tools does.
LEMMA FailsStep ==
  ASSUME Pool!PoolAssumption, PoolInv, NEW t \in Tasks, Pool!Fails(t) \/ Pool!ListFails(t)
  PROVE  PoolInv'
<1> DEFINE v == Pool!Server(t)
           c == task[t].client
<1>0. /\ Pool!TypeOK /\ task \in [Tasks -> TaskRec] /\ None \notin Clients
      /\ MaxEdits \in Nat
  BY TaskTypes DEF PoolInv, Pool!PoolAssumption
<1>1. /\ Makes(t) /\ made' = [made EXCEPT ![c] = 0]
      /\ connecting' = [connecting EXCEPT ![v] = None]
      /\ task' = Pool!Settle(t, FALSE)
      /\ UNCHANGED <<config, pool, tools, due>>
  BY DEF Pool!Fails, Pool!ListFails, Makes
<1>12. /\ open' \in {open, open \ {c}} /\ (AsksTools(t) => open' = open \ {c})
       /\ open' \in SUBSET Clients /\ lost' \in SUBSET Servers
  <2>1. CASE Pool!Fails(t)
    BY <1>0, <2>1 DEF Pool!Fails, AsksTools, Pool!TypeOK
  <2>2. CASE Pool!ListFails(t)
    <3>1. v \in Servers
      BY <1>0, <1>1, TaskTypes DEF Makes
    <3> QED BY <1>0, <2>2, <3>1 DEF Pool!ListFails, Pool!TypeOK
  <2> QED BY <2>1, <2>2
<1>2. /\ c \in Clients /\ v \in Servers /\ \A w \in Servers : pool[w] # c
      /\ \A u \in Tasks : Makes(u) /\ u # t => task[u].client # c /\ Pool!Server(u) # v
  BY <1>0, <1>1, TaskTypes DEF PoolInv, ConnectsAlone, Alone1, Makes
<1>3. /\ task' \in [Tasks -> TaskRec]
      /\ \A u \in Tasks : task'[u].at = "idle" \/ task'[u].todo # <<>>
      /\ \A u \in Tasks : Makes(u)' \/ Closes(u)' => u # t /\ task'[u] = task[u]
      /\ \A u \in Tasks : Closes(u) => Closes(u)'
      /\ \A u \in Tasks : ~Closes(u)' => \A i \in DOMAIN task'[u].todo :
           due[task'[u].todo[i].srv] <= task'[u].todo[i].config
  BY <1>1, SettleTasks
<1>4. /\ made' \in [Clients -> 0 .. MaxEdits]
      /\ \A d \in Clients : d # c => made'[d] = made[d]
      /\ connecting' \in [Servers -> Clients \cup {None}]
      /\ \A w \in Servers : w # v => connecting'[w] = connecting[w]
  <2>1. /\ made \in [Clients -> 0 .. MaxEdits] /\ 0 \in 0 .. MaxEdits
        /\ connecting \in [Servers -> Clients \cup {None}]
    BY <1>0 DEF Pool!TypeOK
  <2> HIDE DEF c, v
  <2> QED BY <1>1, <1>2, <2>1
<1>5. Pool!TypeOK'
  BY <1>0, <1>1, <1>3, <1>4, <1>12, TypeFromTasks DEF Pool!TypeOK
<1>6. \A w \in Servers : pool[w] # None => made'[pool[w]] = made[pool[w]]
  BY <1>0, <1>2, <1>4 DEF PoolInv, Owned, Pool!TypeOK
<1>7. Owned'
  <2>1. \A w \in Servers : pool[w] # None => pool[w] \in open'
    BY <1>2, <1>12 DEF PoolInv, Owned
  <2> QED BY <1>1, <1>6, <2>1 DEF PoolInv, Owned
<1>13. Held'
  <2> SUFFICES ASSUME NEW d \in open'
               PROVE  \/ \E w \in Servers : pool[w] = d
                      \/ \E u \in Tasks : AsksTools(u)' /\ task'[u].client = d
    BY <1>1 DEF Held
  <2>1. d \in open
    BY <1>12
  <2>2. ASSUME NEW u \in Tasks, AsksTools(u), task[u].client = d
        PROVE  AsksTools(u)' /\ task'[u].client = d
    <3>1. u # t
      BY <1>12, <2>2
    <3>2. task'[u] = task[u]
      BY <1>1, <2>2, <3>1 DEF Pool!Settle, AsksTools
    <3> QED BY <2>2, <3>2 DEF AsksTools
  <2> QED BY <2>1, <2>2 DEF PoolInv, Held
<1>8. \A u \in Tasks : Makes(u)' \/ Closes(u)' => Pool!Server(u)' = Pool!Server(u)
  BY <1>3 DEF Pool!Server
<1>9. ConnectsAlone'
  <2> SUFFICES ASSUME NEW u \in Tasks, Makes(u)' PROVE Alone1(u)'
    BY DEF ConnectsAlone
  <2>1. u # t /\ task'[u] = task[u] /\ Makes(u) /\ Pool!Server(u)' = Pool!Server(u)
    BY <1>3, <1>8 DEF Makes
  <2>2. Alone1(u)
    BY <2>1 DEF PoolInv, ConnectsAlone
  <2>3. Pool!Server(u) # v /\ task[u].client # c /\ Pool!Server(u) \in Servers
    BY <1>0, <1>2, <2>1, TaskTypes DEF Makes
  <2>4. \A w \in Tasks : Makes(w)' /\ w # u =>
          task'[w].client # task[u].client /\ Pool!Server(w)' # Pool!Server(u)
    BY <1>3, <1>8, <2>2 DEF Alone1, Makes
  <2>5. connecting'[Pool!Server(u)] = task[u].client /\ made'[task[u].client] = made[task[u].client]
    BY <1>4, <2>2, <2>3 DEF Alone1
  <2>6. AsksTools(u)' => task[u].client \in open'
    BY <1>12, <2>1, <2>2, <2>3 DEF Alone1, AsksTools
  <2> QED BY <1>1, <2>1, <2>2, <2>4, <2>5, <2>6 DEF Alone1
<1>10. ClosesPooled'
  <2> SUFFICES ASSUME NEW u \in Tasks, Closes(u)'
               PROVE  /\ task'[u].client = pool'[Pool!Server(u)'] /\ task'[u].client # None
                      /\ \A w \in Tasks : Closes(w)' => w = u
    BY DEF ClosesPooled
  <2>1. task'[u] = task[u] /\ Closes(u) /\ Pool!Server(u)' = Pool!Server(u)
    BY <1>3, <1>8 DEF Closes
  <2>2. /\ task[u].client = pool[Pool!Server(u)] /\ task[u].client # None
        /\ \A w \in Tasks : Closes(w) => w = u
    BY <2>1 DEF PoolInv, ClosesPooled
  <2>3. \A w \in Tasks : Closes(w)' => Closes(w)
    BY <1>3 DEF Closes
  <2> QED BY <1>1, <2>1, <2>2, <2>3
<1>11. NoneOld'
  BY <1>1, <1>3, <1>6 DEF PoolInv, NoneOld
<1> QED BY <1>5, <1>7, <1>9, <1>10, <1>11, <1>13 DEF PoolInv

\* A task that closes the client of a server, as NextClose makes it.
LEMMA ClosingType ==
  ASSUME Pool!PoolAssumption, Pool!TypeOK, NEW w \in SUBSET Loaders, NEW v \in Servers,
         NEW c \in Clients, made[c] # 0, NEW r,
         r = [at |-> "closes", who |-> w, client |-> c,
              todo |-> <<[srv |-> v, config |-> made[c]]>>]
  PROVE  r \in TaskRec /\ r.todo # <<>> /\ Head(r.todo).srv = v /\ r.client = c
<1>1. made[c] \in 1 .. MaxEdits
  BY DEF Pool!TypeOK, Pool!PoolAssumption
<1>2. [srv |-> v, config |-> made[c]] \in Job
  BY <1>1 DEF Job
<1>3. /\ <<[srv |-> v, config |-> made[c]]>> \in Seq(Job)
      /\ <<[srv |-> v, config |-> made[c]]>> # <<>>
      /\ Head(<<[srv |-> v, config |-> made[c]]>>) = [srv |-> v, config |-> made[c]]
  BY <1>2
<1> QED BY <1>3 DEF TaskRec, At

LEMMA ReconnectStep ==
  ASSUME Pool!PoolAssumption, PoolInv, NEW t \in Tasks, NEW l \in Loaders, Pool!Reconnect(l, t)
  PROVE  PoolInv'
<1>0. /\ Pool!TypeOK /\ task \in [Tasks -> TaskRec] /\ None \notin Clients
  BY TaskTypes DEF PoolInv, Pool!PoolAssumption
<1>1. /\ \A u \in Tasks : task[u] = Pool!Idle
      /\ Pool!NextClose(t, {l}, pool) /\ due' = config
      /\ UNCHANGED <<config, pool, connecting, made, open, lost, tools>>
  BY DEF Pool!Reconnect
<1>2. Pool!Idle.at = "idle" /\ Pool!Idle.todo = <<>>
  BY DEF Pool!Idle
\* The task that reconnects, after its first step.
<1>3. /\ task' = [task EXCEPT ![t] = task'[t]] /\ task'[t] \in TaskRec
      /\ task'[t].at \notin {"connects", "lists"} /\ (task'[t].at = "idle" \/ task'[t].todo # <<>>)
      /\ Closes(t)' => /\ Head(task'[t].todo).srv \in Servers
                       /\ task'[t].client = pool[Head(task'[t].todo).srv]
                       /\ task'[t].client # None
      /\ ~Closes(t)' => /\ task'[t].todo = Pool!LoadServers
                        /\ \A v \in Servers : pool[v] = None
  <2>1. CASE Pool!ToClose(pool) = {}
    <3>1. task' = [task EXCEPT ![t] = Pool!ConnectAll({l}, Pool!LoadServers)]
      BY <1>1, <2>1 DEF Pool!NextClose
    <3>2. task'[t] = Pool!ConnectAll({l}, Pool!LoadServers)
      BY <1>0, <3>1
    <3>3. /\ Pool!ConnectAll({l}, Pool!LoadServers) \in TaskRec
          /\ Pool!ConnectAll({l}, Pool!LoadServers).at \in {"idle", "next"}
          /\ Pool!ConnectAll({l}, Pool!LoadServers).todo = Pool!LoadServers
          /\ (Pool!ConnectAll({l}, Pool!LoadServers).at = "idle" <=> Pool!LoadServers = <<>>)
      BY <1>0, LoadedJobs, ConnectAllType
    <3>4. \A v \in Servers : pool[v] = None
      BY <2>1 DEF Pool!ToClose
    <3> QED BY <3>1, <3>2, <3>3, <3>4 DEF Closes
  <2>2. CASE Pool!ToClose(pool) # {}
    <3>1. PICK v \in Pool!ToClose(pool) :
            task' = [task EXCEPT ![t] =
              [at |-> "closes", who |-> {l}, client |-> pool[v],
               todo |-> <<[srv |-> v, config |-> made[pool[v]]]>>]]
      BY <1>1, <2>2 DEF Pool!NextClose
    <3>2. v \in Servers /\ pool[v] \in Clients /\ pool[v] # None /\ made[pool[v]] # 0
      BY <1>0, <3>1 DEF Pool!ToClose, Pool!TypeOK, PoolInv, Owned
    <3>3. task'[t] = [at |-> "closes", who |-> {l}, client |-> pool[v],
                      todo |-> <<[srv |-> v, config |-> made[pool[v]]]>>]
      BY <1>0, <3>1
    <3>4. /\ task'[t] \in TaskRec /\ task'[t].todo # <<>>
          /\ Head(task'[t].todo).srv = v /\ task'[t].client = pool[v]
      BY <1>0, <3>2, <3>3, ClosingType
    <3>5. task'[t].at = "closes"
      BY <3>3
    <3> QED BY <3>1, <3>2, <3>3, <3>4, <3>5 DEF Closes
  <2> QED BY <2>1, <2>2
<1>4. \A u \in Tasks : u # t => task'[u] = Pool!Idle
  BY <1>0, <1>1, <1>3
<1>5. Pool!TypeOK'
  <2>1. task' \in [Tasks -> TaskRec]
    BY <1>0, <1>3
  <2>2. \A u \in Tasks : task'[u].at = "idle" \/ task'[u].todo # <<>>
    BY <1>2, <1>3, <1>4
  <2>3. due' \in [Servers -> 0 .. MaxEdits]
    BY <1>0, <1>1 DEF Pool!TypeOK
  <2> QED BY <1>0, <1>1, <2>1, <2>2, <2>3, TypeFromTasks DEF Pool!TypeOK
<1>6. Owned'
  BY <1>1 DEF PoolInv, Owned
<1>10. Held'
  <2>1. \A u \in Tasks : ~AsksTools(u)
    BY <1>1, <1>2 DEF AsksTools
  <2> QED BY <1>1, <2>1 DEF PoolInv, Held
<1>7. ConnectsAlone'
  BY <1>2, <1>3, <1>4 DEF ConnectsAlone, Makes
<1>8. ClosesPooled'
  <2>1. \A u \in Tasks : Closes(u)' => u = t
    BY <1>2, <1>4 DEF Closes
  <2>2. Pool!Server(t)' = Head(task'[t].todo).srv
    BY DEF Pool!Server
  <2> QED BY <1>1, <1>3, <2>1, <2>2 DEF ClosesPooled
<1>9. NoneOld'
  <2>1. \A v \in Servers : config[v] <= config[v]
    BY <1>0 DEF Pool!TypeOK
  <2>2. ASSUME NEW u \in Tasks, ~Closes(u)', NEW i \in DOMAIN task'[u].todo
        PROVE  config[task'[u].todo[i].srv] <= task'[u].todo[i].config
    <3>1. CASE u = t
      <4>1. task'[u].todo = Pool!LoadServers
        BY <1>3, <2>2, <3>1
      <4>2. Pool!LoadServers[i] \in Job /\ Pool!LoadServers[i].config = config[Pool!LoadServers[i].srv]
        BY <1>0, <2>2, <4>1, LoadedJobs
      <4> QED BY <4>1, <4>2 DEF Job
    <3>2. CASE u # t
      <4>1. i \in DOMAIN <<>>
        BY <1>2, <1>4, <2>2, <3>2
      <4> QED BY <4>1
    <3> QED BY <3>1, <3>2
  <2>3. (\A u \in Tasks : ~Closes(u)') => \A v \in Servers : pool[v] = None
    BY <1>3
  <2> QED BY <1>1, <2>1, <2>2, <2>3 DEF NoneOld
<1> QED BY <1>5, <1>6, <1>7, <1>8, <1>9, <1>10 DEF PoolInv

LEMMA ClosedStep ==
  ASSUME Pool!PoolAssumption, PoolInv, NEW t \in Tasks, Pool!Closed(t)
  PROVE  PoolInv'
<1> DEFINE v == Pool!Server(t)
           c == task[t].client
<1>0. /\ Pool!TypeOK /\ task \in [Tasks -> TaskRec] /\ None \notin Clients
      /\ MaxEdits \in Nat
  BY TaskTypes DEF PoolInv, Pool!PoolAssumption
<1>1. /\ Closes(t) /\ open' = open \ {c} /\ made' = [made EXCEPT ![c] = 0]
      /\ pool' = [pool EXCEPT ![v] = None]
      /\ Pool!NextClose(t, task[t].who, pool')
      /\ UNCHANGED <<config, connecting, lost, tools, due>>
  BY DEF Pool!Closed, Closes
<1>2. /\ v \in Servers /\ c = pool[v] /\ c \in Clients /\ c # None
      /\ \A u \in Tasks : Closes(u) => u = t
  <2>1. v \in Servers
    BY <1>0, <1>1, TaskTypes DEF Closes
  <2> QED BY <1>0, <1>1, <2>1 DEF PoolInv, ClosesPooled, Pool!TypeOK
<1>3. /\ pool'[v] = None /\ \A w \in Servers : w # v => pool'[w] = pool[w]
      /\ pool' \in [Servers -> Clients \cup {None}]
      /\ made' \in [Clients -> 0 .. MaxEdits]
      /\ \A d \in Clients : d # c => made'[d] = made[d]
      /\ open' \in SUBSET Clients
  BY <1>0, <1>1, <1>2 DEF Pool!TypeOK
<1>4. \A w \in Servers : pool'[w] # None =>
        w # v /\ pool[w] # c /\ pool'[w] = pool[w] /\ pool[w] \in Clients
        /\ made'[pool[w]] = made[pool[w]] /\ made[pool[w]] # 0
  BY <1>0, <1>2, <1>3 DEF PoolInv, Owned, Pool!TypeOK
<1>5. task[t].who \in SUBSET Loaders
  BY <1>0 DEF TaskRec
\* The task that reconnects, after this step.
<1>6. /\ task' = [task EXCEPT ![t] = task'[t]] /\ task'[t] \in TaskRec
      /\ task'[t].at \notin {"connects", "lists"} /\ (task'[t].at = "idle" \/ task'[t].todo # <<>>)
      /\ Closes(t)' => /\ Head(task'[t].todo).srv \in Servers
                       /\ task'[t].client = pool'[Head(task'[t].todo).srv]
                       /\ task'[t].client # None
      /\ ~Closes(t)' => /\ task'[t].todo = Pool!LoadServers
                        /\ \A w \in Servers : pool'[w] = None
  <2>1. CASE Pool!ToClose(pool') = {}
    <3>1. task' = [task EXCEPT ![t] = Pool!ConnectAll(task[t].who, Pool!LoadServers)]
      BY <1>1, <2>1 DEF Pool!NextClose
    <3>2. task'[t] = Pool!ConnectAll(task[t].who, Pool!LoadServers)
      BY <1>0, <3>1
    <3>3. /\ Pool!ConnectAll(task[t].who, Pool!LoadServers) \in TaskRec
          /\ Pool!ConnectAll(task[t].who, Pool!LoadServers).at \in {"idle", "next"}
          /\ Pool!ConnectAll(task[t].who, Pool!LoadServers).todo = Pool!LoadServers
          /\ (Pool!ConnectAll(task[t].who, Pool!LoadServers).at = "idle" <=> Pool!LoadServers = <<>>)
      BY <1>0, <1>5, LoadedJobs, ConnectAllType
    <3>4. \A w \in Servers : pool'[w] = None
      BY <2>1 DEF Pool!ToClose
    <3> QED BY <3>1, <3>2, <3>3, <3>4 DEF Closes
  <2>2. CASE Pool!ToClose(pool') # {}
    <3>1. PICK w \in Pool!ToClose(pool') :
            task' = [task EXCEPT ![t] =
              [at |-> "closes", who |-> task[t].who, client |-> pool'[w],
               todo |-> <<[srv |-> w, config |-> made[pool'[w]]]>>]]
      BY <1>1, <2>2 DEF Pool!NextClose
    <3>2. w \in Servers /\ pool'[w] \in Clients /\ pool'[w] # None
          /\ made[pool'[w]] # 0
      BY <1>4, <3>1 DEF Pool!ToClose
    <3>3. task'[t] = [at |-> "closes", who |-> task[t].who, client |-> pool'[w],
                      todo |-> <<[srv |-> w, config |-> made[pool'[w]]]>>]
      BY <1>0, <3>1
    <3>4. /\ task'[t] \in TaskRec /\ task'[t].todo # <<>>
          /\ Head(task'[t].todo).srv = w /\ task'[t].client = pool'[w]
      <4>1. task[t].who \in SUBSET Loaders
        BY <1>0 DEF TaskRec
      <4> DEFINE r == task'[t]
      <4> HIDE DEF r
      <4>2. r = [at |-> "closes", who |-> task[t].who, client |-> pool'[w],
                 todo |-> <<[srv |-> w, config |-> made[pool'[w]]]>>]
        BY <3>3 DEF r
      <4>3. r \in TaskRec /\ r.todo # <<>> /\ Head(r.todo).srv = w /\ r.client = pool'[w]
        BY <1>0, <3>2, <4>1, <4>2, ClosingType
      <4> QED BY <4>3 DEF r
    <3>5. task'[t].at = "closes"
      BY <3>3
    <3> QED BY <3>1, <3>2, <3>3, <3>4, <3>5 DEF Closes
  <2> QED BY <2>1, <2>2
<1>7. \A u \in Tasks : u # t => task'[u] = task[u]
  BY <1>0, <1>6
<1>8. Pool!TypeOK'
  <2>1. task' \in [Tasks -> TaskRec]
    BY <1>0, <1>6
  <2>2. \A u \in Tasks : task'[u].at = "idle" \/ task'[u].todo # <<>>
    BY <1>0, <1>6, <1>7 DEF Pool!TypeOK
  <2> QED BY <1>0, <1>1, <1>3, <2>1, <2>2, TypeFromTasks DEF Pool!TypeOK
<1>9. Owned'
  <2>1. \A w \in Servers : pool'[w] # None => pool'[w] \in open' /\ made'[pool'[w]] # 0
    BY <1>1, <1>4 DEF PoolInv, Owned
  <2>3. \A w, x \in Servers : pool'[w] = pool'[x] /\ pool'[w] # None => w = x
    BY <1>4 DEF PoolInv, Owned
  <2> QED BY <2>1, <2>3 DEF Owned
<1>13. Held'
  <2> SUFFICES ASSUME NEW d \in open, d # c
               PROVE  \/ \E w \in Servers : pool'[w] = d
                      \/ \E u \in Tasks : AsksTools(u)' /\ task'[u].client = d
    BY <1>1 DEF Held
  <2>1. \A u \in Tasks : AsksTools(u) => AsksTools(u)' /\ task'[u] = task[u]
    BY <1>1, <1>7 DEF AsksTools, Closes
  <2>2. \A w \in Servers : pool[w] = d => pool'[w] = d
    BY <1>2, <1>3
  <2> QED BY <2>1, <2>2 DEF PoolInv, Held
<1>10. ConnectsAlone'
  <2> SUFFICES ASSUME NEW u \in Tasks, Makes(u)' PROVE Alone1(u)'
    BY DEF ConnectsAlone
  <2>1. u # t /\ task'[u] = task[u] /\ Makes(u) /\ Pool!Server(u)' = Pool!Server(u)
    BY <1>6, <1>7 DEF Makes, Pool!Server
  <2>2. Alone1(u)
    BY <2>1 DEF PoolInv, ConnectsAlone
  <2>3. Pool!Server(u) \in Servers /\ Pool!Server(u) # v
    BY <1>0, <1>2, <2>1, <2>2, TaskTypes DEF Makes, Alone1
  <2>4. task[u].client # c /\ (AsksTools(u)' => task[u].client \in open')
    BY <1>1, <1>2, <2>1, <2>2 DEF Alone1, AsksTools
  <2>7. \A w \in Servers : pool'[w] # task[u].client
    BY <1>4, <2>2, <1>0 DEF Alone1
  <2>5. \A w \in Tasks : Makes(w)' /\ w # u =>
          task'[w].client # task[u].client /\ Pool!Server(w)' # Pool!Server(u)
    BY <1>6, <1>7, <2>2 DEF Alone1, Makes, Pool!Server
  <2>6. pool'[Pool!Server(u)] = None /\ made'[task[u].client] = made[task[u].client]
    BY <1>3, <2>2, <2>3, <2>4 DEF Alone1
  <2> QED BY <1>1, <2>1, <2>2, <2>4, <2>5, <2>6, <2>7 DEF Alone1
<1>11. ClosesPooled'
  <2>1. \A u \in Tasks : Closes(u)' => u = t
    BY <1>2, <1>7 DEF Closes
  <2>2. Pool!Server(t)' = Head(task'[t].todo).srv
    BY DEF Pool!Server
  <2> QED BY <1>6, <2>1, <2>2 DEF ClosesPooled
<1>12. NoneOld'
  <2>1. ASSUME NEW u \in Tasks, ~Closes(u)', NEW i \in DOMAIN task'[u].todo
        PROVE  due[task'[u].todo[i].srv] <= task'[u].todo[i].config
    <3>1. CASE u = t
      BY <1>6, <2>1, <3>1, LoadedFresh
    <3>2. CASE u # t
      BY <1>2, <1>7, <2>1, <3>2 DEF PoolInv, NoneOld
    <3> QED BY <3>1, <3>2
  <2> QED BY <1>1, <1>6, <2>1 DEF PoolInv, NoneOld
<1> QED BY <1>8, <1>9, <1>10, <1>11, <1>12, <1>13 DEF PoolInv

------------------------------------------------------------------------------
LEMMA PoolInit == Pool!PoolAssumption /\ Pool!Init => PoolInv
<1> SUFFICES ASSUME Pool!PoolAssumption, Pool!Init PROVE PoolInv
  OBVIOUS
<1>1. Pool!Idle \in TaskRec /\ Pool!Idle.at = "idle" /\ Pool!Idle.todo = <<>>
  BY DEF Pool!Idle, TaskRec, At
<1>2. Pool!TypeOK
  <2>1. task \in [Tasks -> TaskRec] /\ \A t \in Tasks : task[t].at = "idle"
    BY <1>1 DEF Pool!Init
  <2>2. /\ config \in [Servers -> 0 .. MaxEdits] /\ due \in [Servers -> 0 .. MaxEdits]
        /\ made \in [Clients -> 0 .. MaxEdits]
    <3>1. MaxEdits \in Nat \ {0}
      BY DEF Pool!PoolAssumption
    <3>2. {0, 1} \subseteq 0 .. MaxEdits /\ 0 \in 0 .. MaxEdits
      BY <3>1
    <3> QED BY <3>2 DEF Pool!Init
  <2>3. /\ {pool, connecting} \subseteq [Servers -> Clients \cup {None}]
        /\ open \in SUBSET Clients /\ lost \in SUBSET Servers /\ tools \in [Loaders -> SUBSET Servers]
    BY DEF Pool!Init
  <2> QED BY <2>1, <2>2, <2>3 DEF Pool!TypeOK, TaskRec, At, Job
<1>3. \A t \in Tasks : ~Makes(t) /\ ~Closes(t) /\ DOMAIN task[t].todo = {}
  BY <1>1 DEF Pool!Init, Makes, Closes
<1>4. Owned /\ Held
  BY DEF Pool!Init, Owned, Held
<1>5. \A v \in Servers : due[v] <= config[v]
  BY DEF Pool!Init
<1> QED BY <1>2, <1>3, <1>4, <1>5
        DEF Pool!Init, PoolInv, ConnectsAlone, ClosesPooled, NoneOld

LEMMA PoolStep == Pool!PoolAssumption /\ PoolInv /\ [Pool!Next]_poolVars => PoolInv'
<1> SUFFICES ASSUME Pool!PoolAssumption, PoolInv, [Pool!Next]_poolVars PROVE PoolInv'
  OBVIOUS
<1>1. CASE UNCHANGED poolVars
  <2>1. /\ config' = config /\ pool' = pool /\ connecting' = connecting /\ made' = made
        /\ open' = open /\ lost' = lost /\ task' = task /\ tools' = tools /\ due' = due
    BY <1>1 DEF poolVars
  <2>2. Pool!TypeOK' <=> Pool!TypeOK
    BY <2>1 DEF Pool!TypeOK
  <2>3. Owned' <=> Owned
    BY <2>1 DEF Owned
  <2>4. ConnectsAlone' <=> ConnectsAlone
    BY <2>1 DEF ConnectsAlone, Alone1, Makes, AsksTools, Pool!Server
  <2>7. Held' <=> Held
    BY <2>1 DEF Held, AsksTools
  <2>5. ClosesPooled' <=> ClosesPooled
    BY <2>1 DEF ClosesPooled, Closes, Pool!Server
  <2>6. NoneOld' <=> NoneOld
    BY <2>1 DEF NoneOld, Closes
  <2> QED BY <2>2, <2>3, <2>4, <2>5, <2>6, <2>7 DEF PoolInv
<1>2. ASSUME NEW t \in Tasks, Pool!Steps(t) PROVE PoolInv'
  BY <1>2, GoOnStep, ConnectStep, StandsStep, ConnectedStep, FailsStep, ClosedStep DEF Pool!Steps
<1> QED BY <1>1, <1>2, EditStep, SessionStartStep, ReconnectStep DEF Pool!Next

\* At most one client of each server is connected, the shared one, and after
\* "/mcp reconnect" none of an older configuration is in use.
LEMMA PoolInvSound ==
  ASSUME PoolInv PROVE Pool!PoolSound
<1>1. Pool!OneClient
  <2>1. Pool!Kept \subseteq {pool[v] : v \in Servers}
                           \cup {task[t].client : t \in {u \in Tasks : Pool!Lists(u)}}
    BY DEF PoolInv, Held, AsksTools, Pool!Kept, Pool!Lists
  <2>2. \A t \in Tasks : Pool!Lists(t) => Makes(t) /\ Alone1(t)
    BY DEF PoolInv, ConnectsAlone, Makes, Pool!Lists
  <2> QED BY <2>1, <2>2 DEF PoolInv, Owned, Alone1, Pool!OneClient
<1>2. Pool!ReconnectFresh
  <2> SUFFICES ASSUME \A t \in Tasks : task[t] = Pool!Idle,
                      NEW v \in Servers, pool[v] # None
               PROVE  made[pool[v]] >= due[v]
    BY DEF Pool!ReconnectFresh
  <2>1. \A t \in Tasks : ~Closes(t)
    BY DEF Closes, Pool!Idle
  <2>2. due[v] <= made[pool[v]]
    BY <2>1 DEF PoolInv, NoneOld
  <2> QED BY <2>2 DEF PoolInv, Pool!TypeOK
<1> QED BY <1>1, <1>2 DEF Pool!PoolSound

------------------------------------------------------------------------------
(***************************************************************************)
(* EventBus.  In order: the microtasks are a queue, so an emit whose       *)
(* listeners return is always a call ahead of a later one that is before   *)
(* it in the queue or running.  Once: what a once-registration's first     *)
(* call removes is nowhere else and never registered again, so no later    *)
(* snapshot has it.                                                        *)
(***************************************************************************)
Listeners == Named \cup ForAll
Befores == UNION {[1 .. k -> Nat] : k \in Nat}
EmitRec == [name : EventNames, listeners : Seq(Listeners), calls : Seq(Bus!Ends),
            over : BOOLEAN, before : Befores]
Calls(i) == Len(emits[i].calls)
NoAsync(i) == \A k \in DOMAIN emits[i].calls : emits[i].calls[k] # "async"
NoThrow(j, n) == \A k \in 1 .. n : emits[j].calls[k] # "throws"

\* Whoever runs is not in the queue; those in the queue have begun and not
\* ended; the others have ended or wait for an asynchronous listener.
Queued ==
  /\ turn # 0 => turn \notin Bus!Range(ready) /\ ~emits[turn].over
  /\ \A i \in Bus!Range(ready) : ~emits[i].over /\ emits[i].calls # <<>>
  /\ Bus!AllCalled

\* Every registration is at one place only, if it is made and not removed.
Registered ==
  /\ \A n \in EventNames : Bus!IsInjective(entries[n]) /\ Bus!Range(entries[n]) \cap fresh = {}
  /\ \A n, m \in EventNames : Bus!Range(entries[n]) \cap Bus!Range(entries[m]) # {} => n = m
  /\ Bus!IsInjective(all) /\ Bus!Range(all) \cap fresh = {}

\* What a snapshot has was registered then, for its name if by name; and a
\* once-registration that was called is gone.
Snapshots ==
  \A i \in 1 .. Len(emits) : \A p \in 1 .. Len(emits[i].listeners) :
    LET l == emits[i].listeners[p] IN
    /\ l \notin fresh
    /\ \A n \in EventNames : l \in Bus!Range(entries[n]) => n = emits[i].name
    /\ l \in Once /\ p <= Calls(i) => \A n \in EventNames : l \notin Bus!Range(entries[n])

\* How far the earlier emit i is when the later emit j is at its q-th call,
\* and when j has its turn first.
Behind(j, i) ==
  \E a, b \in DOMAIN ready : a < b /\ ready[a] = j /\ ready[b] = i
Ahead(i, j) ==
  NoAsync(i) /\ Bus!HasNext(i) =>
    /\ \A q \in 1 .. Calls(j) : NoThrow(j, q - 1) => Calls(i) >= q
    /\ NoThrow(j, Calls(j)) /\ (turn = j \/ Behind(j, i)) => Calls(i) > Calls(j)
Queues == \A j \in 1 .. Len(emits) : \A i \in 1 .. j - 1 : Ahead(i, j)

\* TypeOK with the parts that are told apart below.
Typed ==
  /\ entries \in [EventNames -> Seq(Named)] /\ all \in Seq(ForAll)
  /\ fresh \subseteq Listeners /\ emits \in Seq(EmitRec)
  /\ turn \in 0 .. Len(emits) /\ ready \in Seq(Nat) /\ Bus!IsInjective(ready)
  /\ \A a \in DOMAIN ready : ready[a] \in 1 .. Len(emits)
  /\ \A i \in 1 .. Len(emits) :
       Calls(i) <= Len(emits[i].listeners) /\ DOMAIN emits[i].before = 1 .. i - 1

BusInv == Typed /\ Queued /\ Registered /\ Snapshots /\ Queues /\ Bus!OnceOnly

------------------------------------------------------------------------------
\* What removing a registration from a list leaves, if it occurs once.
LEMMA RemoveKept ==
  ASSUME NEW S, NEW s \in Seq(S), Bus!IsInjective(s), NEW l
  PROVE  /\ Bus!RemoveFirst(s, l) \in Seq(S) /\ Bus!IsInjective(Bus!RemoveFirst(s, l))
         /\ Bus!Range(Bus!RemoveFirst(s, l)) = Bus!Range(s) \ {l}
<1>1. CASE ~\E i \in 1 .. Len(s) : s[i] = l
  <2>1. Bus!RemoveFirst(s, l) = s
    BY <1>1 DEF Bus!RemoveFirst
  <2>2. l \notin Bus!Range(s)
    BY <1>1 DEF Bus!Range
  <2> QED BY <2>1, <2>2
<1>2. CASE \E i \in 1 .. Len(s) : s[i] = l
  <2>1. PICK k \in 1 .. Len(s) : s[k] = l
    BY <1>2
  <2>2. {i \in 1 .. Len(s) : s[i] = l} = {k}
    BY <2>1 DEF Bus!IsInjective
  <2>3. Bus!Min({k}) = k
    BY DEF Bus!Min
  <2>4. Bus!SelectInSeq(s, LAMBDA v : v = l) = k
    BY <2>2, <2>3 DEF Bus!SelectInSeq
  <2>5. Bus!RemoveFirst(s, l) = SubSeq(s, 1, k - 1) \o SubSeq(s, k + 1, Len(s))
    BY <1>2, <2>4 DEF Bus!RemoveFirst, Bus!RemoveAt
  <2> DEFINE t == SubSeq(s, 1, k - 1) \o SubSeq(s, k + 1, Len(s))
  <2>6. t \in Seq(S) /\ Len(t) = Len(s) - 1
        /\ \A i \in 1 .. Len(t) : t[i] = IF i < k THEN s[i] ELSE s[i + 1]
    <3> DEFINE u == SubSeq(s, 1, k - 1)
               v == SubSeq(s, k + 1, Len(s))
    <3>1. u \in Seq(S) /\ Len(u) = k - 1 /\ \A i \in 1 .. k - 1 : u[i] = s[i]
      OBVIOUS
    <3>2. v \in Seq(S) /\ Len(v) = Len(s) - k
          /\ \A i \in 1 .. Len(s) - k : v[i] = s[k + i]
      OBVIOUS
    <3>3. t = u \o v
      OBVIOUS
    <3> HIDE DEF u, v, t
    <3>4. u \o v \in Seq(S) /\ Len(u \o v) = Len(u) + Len(v)
      BY <3>1, <3>2, ConcatProperties
    <3>5. \A i \in 1 .. Len(u) + Len(v) :
            (u \o v)[i] = IF i <= Len(u) THEN u[i] ELSE v[i - Len(u)]
      BY <3>1, <3>2, ConcatProperties
    <3>6. Len(s) \in Nat /\ Len(t) = Len(s) - 1
      BY <3>1, <3>2, <3>3, <3>4
    <3>7. ASSUME NEW i \in 1 .. Len(t)
          PROVE  t[i] = IF i < k THEN s[i] ELSE s[i + 1]
      <4>1. t[i] = IF i <= k - 1 THEN u[i] ELSE v[i - (k - 1)]
        BY <3>1, <3>2, <3>3, <3>5, <3>6
      <4>2. CASE i < k
        BY <3>1, <4>1, <4>2
      <4>3. CASE ~(i < k)
        <5>1. i - (k - 1) \in 1 .. Len(s) - k /\ k + (i - (k - 1)) = i + 1
          BY <3>6, <4>3
        <5>2. v[i - (k - 1)] = s[i + 1]
          BY <3>2, <5>1
        <5> QED BY <4>1, <4>3, <5>2
      <4> QED BY <4>2, <4>3
    <3> QED BY <3>3, <3>4, <3>6, <3>7
  <2> HIDE DEF t
  <2>7. Bus!IsInjective(t)
    <3> DEFINE at == [i \in 1 .. Len(t) |-> IF i < k THEN i ELSE i + 1]
    <3> SUFFICES ASSUME NEW i \in DOMAIN t, NEW j \in DOMAIN t, t[i] = t[j]
                 PROVE  i = j
      BY DEF Bus!IsInjective
    <3>1. i \in 1 .. Len(t) /\ j \in 1 .. Len(t)
      BY <2>6
    <3>2. \A x \in 1 .. Len(t) : at[x] \in DOMAIN s /\ t[x] = s[at[x]]
      BY <2>6
    <3>3. at[i] = at[j]
      BY <3>1, <3>2 DEF Bus!IsInjective
    <3> QED BY <2>6, <3>1, <3>3
  <2>8. Bus!Range(t) \subseteq Bus!Range(s) \ {l}
    BY <2>1, <2>6 DEF Bus!IsInjective, Bus!Range
  <2>9. ASSUME NEW i \in 1 .. Len(s), s[i] # l PROVE s[i] \in Bus!Range(t)
    <3>1. CASE i < k
      <4> i \in 1 .. Len(t) /\ t[i] = s[i] BY <2>6, <3>1
      <4> QED BY <2>6 DEF Bus!Range
    <3>2. CASE i > k
      <4> i - 1 \in 1 .. Len(t) /\ t[i - 1] = s[i] BY <2>6, <3>2
      <4> QED BY <2>6 DEF Bus!Range
    <3> QED BY <2>1, <2>9, <3>1, <3>2
  <2>10. Bus!Range(s) \ {l} \subseteq Bus!Range(t)
    BY <2>9 DEF Bus!Range
  <2> QED BY <2>5, <2>6, <2>7, <2>8, <2>10 DEF t
<1> QED BY <1>1, <1>2

\* What adding one leaves, if it was not there.
LEMMA AppendKept ==
  ASSUME NEW S, NEW s \in Seq(S), Bus!IsInjective(s), NEW l \in S, l \notin Bus!Range(s)
  PROVE  /\ Append(s, l) \in Seq(S) /\ Bus!IsInjective(Append(s, l))
         /\ Bus!Range(Append(s, l)) = Bus!Range(s) \cup {l}
<1> DEFINE t == Append(s, l)
<1>1. t \in Seq(S) /\ Len(t) = Len(s) + 1 /\ t[Len(s) + 1] = l
      /\ \A i \in 1 .. Len(s) : t[i] = s[i]
  OBVIOUS
<1>2. \A i \in 1 .. Len(s) : s[i] # l
  BY DEF Bus!Range
<1> HIDE DEF t
<1>3. Bus!IsInjective(t)
  BY <1>1, <1>2 DEF Bus!IsInjective
<1>4. Bus!Range(t) = Bus!Range(s) \cup {l}
  BY <1>1 DEF Bus!Range
<1> QED BY <1>1, <1>3, <1>4 DEF t

------------------------------------------------------------------------------
\* What an emit becomes by a call, and by its end.
LEMMA CallUpdate ==
  ASSUME NEW r \in EmitRec, NEW c \in Seq(Bus!Ends)
  PROVE  [r EXCEPT !.calls = c] \in EmitRec
  BY SMTT(20) DEF EmitRec

LEMMA EndUpdate ==
  ASSUME NEW r \in EmitRec
  PROVE  [r EXCEPT !.over = TRUE] \in EmitRec
  BY Zenon DEF EmitRec

LEMMA Fields ==
  ASSUME Typed, NEW i \in 1 .. Len(emits)
  PROVE  /\ emits[i] \in EmitRec /\ emits[i].name \in EventNames
         /\ emits[i].listeners \in Seq(Listeners) /\ emits[i].calls \in Seq(Bus!Ends)
         /\ emits[i].over \in BOOLEAN /\ emits[i].before \in Befores
         /\ Calls(i) \in Nat /\ Len(emits[i].listeners) \in Nat
         /\ DOMAIN emits[i].calls = 1 .. Calls(i)
         /\ Calls(i) <= Len(emits[i].listeners)
<1>1. emits[i] \in EmitRec
  BY DEF Typed
<1>2. emits[i].listeners \in Seq(Listeners) /\ emits[i].calls \in Seq(Bus!Ends)
      /\ emits[i].name \in EventNames /\ emits[i].over \in BOOLEAN
      /\ emits[i].before \in Befores
  BY <1>1 DEF EmitRec
<1>3. Calls(i) <= Len(emits[i].listeners)
  BY DEF Typed
<1> QED BY <1>1, <1>2, <1>3 DEF Calls

LEMMA TypedIsTypeOK ==
  ASSUME Typed
  PROVE  Bus!TypeOK
<1>1. ready \in Seq(1 .. Len(emits))
  <2>1. ready \in [1 .. Len(ready) -> 1 .. Len(emits)] /\ Len(ready) \in Nat
    BY DEF Typed
  <2> QED BY <2>1
<1>2. ASSUME NEW i \in 1 .. Len(emits)
      PROVE  emits[i].before \in [1 .. i - 1 -> Nat]
  <2>1. PICK k \in Nat : emits[i].before \in [1 .. k -> Nat]
    BY Fields DEF Befores
  <2>2. DOMAIN emits[i].before = 1 .. i - 1
    BY DEF Typed
  <2> QED BY <2>1, <2>2
<1>3. \A i \in 1 .. Len(emits) :
        /\ emits[i].name \in EventNames /\ emits[i].listeners \in Seq(Named \cup ForAll)
        /\ emits[i].calls \in Seq(Bus!Ends)
        /\ Len(emits[i].calls) <= Len(emits[i].listeners)
        /\ emits[i].over \in BOOLEAN
  BY Fields DEF Calls, Listeners
<1>4. /\ entries \in [EventNames -> Seq(Named)] /\ all \in Seq(ForAll)
      /\ fresh \subseteq Named \cup ForAll
      /\ turn \in 0 .. Len(emits) /\ Bus!IsInjective(ready)
  BY DEF Typed, Listeners
<1> QED BY <1>1, <1>2, <1>3, <1>4 DEF Bus!TypeOK

LEMMA BusInit == Bus!BusAssumption /\ Bus!Init => BusInv
<1> SUFFICES ASSUME Bus!BusAssumption, Bus!Init PROVE BusInv
  OBVIOUS
<1>1. emits = <<>> /\ Len(emits) = 0 /\ turn = 0 /\ ready = <<>> /\ all = <<>>
      /\ entries = [n \in EventNames |-> <<>>] /\ fresh = Listeners
  BY DEF Bus!Init, Listeners
<1>2. Typed
  BY <1>1 DEF Typed, Bus!IsInjective
<1>3. Queued
  BY <1>1 DEF Queued, Bus!AllCalled, Bus!Range
<1>4. Registered
  BY <1>1 DEF Registered, Bus!IsInjective, Bus!Range
<1>5. Snapshots /\ Queues /\ Bus!OnceOnly
  BY <1>1 DEF Snapshots, Queues, Bus!OnceOnly
<1> QED BY <1>2, <1>3, <1>4, <1>5 DEF BusInv

\* OnceOnly, of the lists of a later emit and of an earlier one.
Apart(later, called, earlier) ==
  \A q \in 1 .. Len(later), p \in 1 .. Len(earlier) :
    (later[q] = earlier[p] /\ earlier[p] \in Once) => called < p

OnceApart ==
  \A j \in 1 .. Len(emits) : \A i \in 1 .. j - 1 :
    Apart(emits[j].listeners, emits[j].before[i], emits[i].listeners)

LEMMA OnceNamed == Bus!OnceOnly <=> OnceApart
  BY DEF Bus!OnceOnly, OnceApart, Apart

LEMMA OnceNamedNext == Bus!OnceOnly' <=> OnceApart'
  BY DEF Bus!OnceOnly, OnceApart, Apart

\* It is kept where the lists of the emits are.
LEMMA OnceKept ==
  ASSUME Bus!OnceOnly, Len(emits) \in Nat, Len(emits') = Len(emits),
         \A k \in 1 .. Len(emits) :
           emits'[k].listeners = emits[k].listeners /\ emits'[k].before = emits[k].before
  PROVE  Bus!OnceOnly'
<1>1. ASSUME NEW j \in 1 .. Len(emits), NEW i \in 1 .. j - 1
      PROVE  Apart(emits'[j].listeners, emits'[j].before[i], emits'[i].listeners)
  <2>1. i \in 1 .. Len(emits)
    OBVIOUS
  <2>2. Apart(emits[j].listeners, emits[j].before[i], emits[i].listeners)
    BY OnceNamed DEF OnceApart
  <2> QED BY <2>1, <2>2
<1> QED BY <1>1, OnceNamedNext DEF OnceApart

\* What subscribing and unsubscribing leave alone: all of the emits.
Elsewhere == emits' = emits /\ turn' = turn /\ ready' = ready

LEMMA ElsewhereKept ==
  ASSUME BusInv, Elsewhere
  PROVE  Queued' /\ Queues' /\ Bus!OnceOnly'
<1>1. Queued'
  BY DEF BusInv, Elsewhere, Queued, Bus!AllCalled, Bus!HasNext
<1>2. ASSUME NEW i, NEW j PROVE Ahead(i, j)' <=> Ahead(i, j)
  BY DEF Elsewhere, Ahead, NoAsync, NoThrow, Bus!HasNext, Calls, Behind
<1>3. Queues'
  BY <1>2 DEF BusInv, Queues, Elsewhere
<1>4. Bus!OnceOnly'
  BY OnceNamed, OnceNamedNext DEF BusInv, OnceApart, Elsewhere
<1> QED BY <1>1, <1>3, <1>4

\* Lists that lose registrations.
Shrinks ==
  /\ entries' \in [EventNames -> Seq(Named)] /\ all' \in Seq(ForAll)
  /\ \A n \in EventNames : Bus!IsInjective(entries'[n])
                      /\ Bus!Range(entries'[n]) \subseteq Bus!Range(entries[n])
  /\ Bus!IsInjective(all') /\ Bus!Range(all') \subseteq Bus!Range(all)
  /\ fresh' = fresh

LEMMA ShrinksRegistered ==
  ASSUME Registered, Shrinks
  PROVE  Registered'
<1>1. \A n \in EventNames : Bus!IsInjective(entries'[n]) /\ Bus!Range(entries'[n]) \cap fresh' = {}
  BY DEF Registered, Shrinks
<1>2. \A n, m \in EventNames : Bus!Range(entries'[n]) \cap Bus!Range(entries'[m]) # {} => n = m
  BY DEF Registered, Shrinks
<1>3. Bus!IsInjective(all') /\ Bus!Range(all') \cap fresh' = {}
  BY DEF Registered, Shrinks
<1> QED BY <1>1, <1>2, <1>3 DEF Registered

LEMMA ShrinksInv ==
  ASSUME BusInv, Shrinks, Elsewhere
  PROVE  BusInv'
<1>1. Registered'
  BY ShrinksRegistered DEF BusInv
<1>2. Snapshots'
  <2> SUFFICES ASSUME NEW i \in 1 .. Len(emits),
                      NEW p \in 1 .. Len(emits[i].listeners),
                      NEW l, l = emits[i].listeners[p]
               PROVE  /\ l \notin fresh
                      /\ \A n \in EventNames : l \in Bus!Range(entries'[n]) => n = emits[i].name
                      /\ l \in Once /\ p <= Calls(i)
                           => \A n \in EventNames : l \notin Bus!Range(entries'[n])
    BY SMTT(30) DEF Snapshots, Elsewhere, Shrinks, Calls
  <2> QED BY DEF BusInv, Snapshots, Shrinks
<1>3. Typed'
  BY DEF BusInv, Typed, Shrinks, Elsewhere, Calls
<1> QED BY <1>1, <1>2, <1>3, ElsewhereKept DEF BusInv

LEMMA UnsubscribeInv ==
  ASSUME BusInv, NEW l, Bus!Unsubscribe(l)
  PROVE  BusInv'
<1>1. Elsewhere
  BY DEF Bus!Unsubscribe, Elsewhere
<1>2. entries \in [EventNames -> Seq(Named)] /\ all \in Seq(ForAll)
      /\ (\A n \in EventNames : entries[n] \in Seq(Named) /\ Bus!IsInjective(entries[n]))
      /\ Bus!IsInjective(all)
  BY DEF BusInv, Typed, Registered
<1>3. ASSUME NEW n \in EventNames
      PROVE  entries'[n] \in Seq(Named) /\ Bus!IsInjective(entries'[n])
             /\ Bus!Range(entries'[n]) \subseteq Bus!Range(entries[n])
  <2>1. entries'[n] = Bus!RemoveFirst(entries[n], l)
    BY DEF Bus!Unsubscribe
  <2> QED BY <1>2, <2>1, RemoveKept
<1>4. all' \in Seq(ForAll) /\ Bus!IsInjective(all') /\ Bus!Range(all') \subseteq Bus!Range(all)
  <2>1. all' = Bus!RemoveFirst(all, l)
    BY DEF Bus!Unsubscribe
  <2> QED BY <1>2, <2>1, RemoveKept
<1>5. entries' \in [EventNames -> Seq(Named)]
  <2>1. entries' = [n \in EventNames |-> entries'[n]]
    BY DEF Bus!Unsubscribe
  <2> QED BY <1>3, <2>1
<1>6. Shrinks
  BY <1>3, <1>4, <1>5 DEF Shrinks, Bus!Unsubscribe
<1> QED BY <1>1, <1>6, ShrinksInv

LEMMA ClearInv ==
  ASSUME BusInv, Bus!Clear
  PROVE  BusInv'
<1>1. Elsewhere
  BY DEF Bus!Clear, Elsewhere
<1>2. Shrinks
  <2>1. entries' = [n \in EventNames |-> <<>>] /\ all' = <<>> /\ fresh' = fresh
    BY DEF Bus!Clear
  <2>2. Bus!IsInjective(<<>>) /\ Bus!Range(<<>>) = {}
    BY DEF Bus!IsInjective, Bus!Range
  <2> QED BY <2>1, <2>2 DEF Shrinks
<1> QED BY <1>1, <1>2, ShrinksInv

LEMMA SubscribeInv ==
  ASSUME BusInv, NEW n \in EventNames, NEW l \in Named, Bus!Subscribe(n, l)
  PROVE  BusInv'
<1>1. Elsewhere
  BY DEF Bus!Subscribe, Elsewhere
<1>2. l \in fresh /\ fresh' = fresh \ {l} /\ all' = all
      /\ entries' = [entries EXCEPT ![n] = Append(@, l)]
  BY DEF Bus!Subscribe
<1>3. entries \in [EventNames -> Seq(Named)] /\ Bus!IsInjective(entries[n])
      /\ (\A m \in EventNames : l \notin Bus!Range(entries[m]))
  BY <1>2 DEF BusInv, Typed, Registered
<1>4. entries'[n] \in Seq(Named) /\ Bus!IsInjective(entries'[n])
      /\ Bus!Range(entries'[n]) = Bus!Range(entries[n]) \cup {l}
  <2>1. entries[n] \in Seq(Named) /\ entries'[n] = Append(entries[n], l)
    BY <1>2, <1>3
  <2> QED BY <1>3, <2>1, AppendKept
<1>5. \A m \in EventNames : m # n => entries'[m] = entries[m]
  BY <1>2, <1>3
<1>6. entries' \in [EventNames -> Seq(Named)]
  <2>1. entries' = [m \in EventNames |-> entries'[m]]
    BY <1>2, <1>3
  <2> QED BY <1>3, <1>4, <1>5, <2>1
<1>7. Typed'
  BY <1>1, <1>2, <1>6 DEF BusInv, Typed, Elsewhere, Calls
<1>8. Registered'
  <2>1. ASSUME NEW m \in EventNames
        PROVE  Bus!IsInjective(entries'[m]) /\ Bus!Range(entries'[m]) \cap fresh' = {}
    BY <1>2, <1>4, <1>5 DEF BusInv, Registered
  <2>2. ASSUME NEW m \in EventNames, NEW k \in EventNames,
               Bus!Range(entries'[m]) \cap Bus!Range(entries'[k]) # {}
        PROVE  m = k
    BY <1>3, <1>4, <1>5, <2>2 DEF BusInv, Registered
  <2>3. Bus!IsInjective(all') /\ Bus!Range(all') \cap fresh' = {}
    BY <1>2 DEF BusInv, Registered
  <2> QED BY <2>1, <2>2, <2>3 DEF Registered
<1>9. Snapshots'
  <2> SUFFICES ASSUME NEW i \in 1 .. Len(emits),
                      NEW p \in 1 .. Len(emits[i].listeners),
                      NEW k, k = emits[i].listeners[p]
               PROVE  /\ k \notin fresh'
                      /\ \A m \in EventNames : k \in Bus!Range(entries'[m]) => m = emits[i].name
                      /\ k \in Once /\ p <= Calls(i)
                           => \A m \in EventNames : k \notin Bus!Range(entries'[m])
    BY <1>1 DEF Snapshots, Elsewhere, Calls
  <2>1. k \notin fresh /\ k # l
    BY <1>2 DEF BusInv, Snapshots
  <2>2. \A m \in EventNames : k \in Bus!Range(entries'[m]) => k \in Bus!Range(entries[m])
    BY <1>4, <1>5, <2>1
  <2> QED BY <1>2, <2>1, <2>2 DEF BusInv, Snapshots
<1> QED BY <1>1, <1>7, <1>8, <1>9, ElsewhereKept DEF BusInv

LEMMA SubscribeAllInv ==
  ASSUME BusInv, NEW l \in ForAll, Bus!SubscribeAll(l)
  PROVE  BusInv'
<1>1. Elsewhere
  BY DEF Bus!SubscribeAll, Elsewhere
<1>2. l \in fresh /\ fresh' = fresh \ {l} /\ all' = Append(all, l) /\ entries' = entries
  BY DEF Bus!SubscribeAll
<1>3. all \in Seq(ForAll) /\ Bus!IsInjective(all) /\ l \notin Bus!Range(all)
  BY <1>2 DEF BusInv, Typed, Registered
<1>4. all' \in Seq(ForAll) /\ Bus!IsInjective(all') /\ Bus!Range(all') = Bus!Range(all) \cup {l}
  BY <1>2, <1>3, AppendKept
<1>5. Typed'
  BY <1>1, <1>2, <1>4 DEF BusInv, Typed, Elsewhere, Calls
<1>6. Registered'
  BY <1>2, <1>4 DEF BusInv, Registered
<1>7. Snapshots'
  BY <1>1, <1>2 DEF BusInv, Snapshots, Elsewhere, Calls
<1> QED BY <1>1, <1>5, <1>6, <1>7, ElsewhereKept DEF BusInv

------------------------------------------------------------------------------
\* What the emits' own steps leave alone: the lists.
Listed == entries' = entries /\ all' = all /\ fresh' = fresh

LEMMA EmitInv ==
  ASSUME Bus!BusAssumption, BusInv, NEW n \in EventNames, Bus!Emit(n)
  PROVE  BusInv'
<1>a. PICK N \in Nat : N = Len(emits)
  BY DEF BusInv, Typed
<1> DEFINE e == [name |-> n, listeners |-> entries[n] \o all, calls |-> <<>>,
                 over |-> FALSE, before |-> [k \in 1 .. N |-> Len(emits[k].calls)]]
<1>0. Listed /\ turn = 0 /\ ready' = ready
  BY DEF Bus!Emit, Listed
<1>1. emits \in Seq(EmitRec) /\ N \in Nat /\ N = Len(emits)
  BY <1>a DEF BusInv, Typed
<1>2. emits' = Append(emits, e)
  BY <1>a DEF Bus!Emit
<1>3. e \in EmitRec /\ (entries[n] \o all) \in Seq(Listeners)
  <2>1. entries[n] \in Seq(Named) /\ all \in Seq(ForAll)
    BY DEF BusInv, Typed
  <2>2. entries[n] \in Seq(Listeners) /\ all \in Seq(Listeners)
    BY <2>1 DEF Listeners
  <2>3. (entries[n] \o all) \in Seq(Listeners)
    BY <2>2, ConcatProperties
  <2>4. e.before \in [1 .. N -> Nat]
    BY Fields DEF BusInv, Calls
  <2>5. e.before \in Befores
    BY <1>1, <2>4 DEF Befores
  <2> QED BY <2>3, <2>5 DEF EmitRec
<1>4. /\ e.listeners = entries[n] \o all /\ e.calls = <<>> /\ e.over = FALSE /\ e.name = n
      /\ DOMAIN e.before = 1 .. N
      /\ \A k \in 1 .. N : e.before[k] = Calls(k)
  BY DEF Calls
<1> HIDE DEF e
<1>5. /\ emits' \in Seq(EmitRec) /\ Len(emits') = N + 1 /\ emits'[N + 1] = e
      /\ \A i \in 1 .. N : emits'[i] = emits[i]
  BY <1>1, <1>2, <1>3, AppendProperties
<1>6. turn' = N + 1
  BY <1>5 DEF Bus!Emit
<1>7. /\ \A i \in 1 .. N : Calls(i)' = Calls(i) /\ NoAsync(i)' = NoAsync(i)
                           /\ Bus!HasNext(i)' = Bus!HasNext(i)
      /\ Calls(N + 1)' = 0
  <2>1. Calls(N + 1)' = 0
    BY <1>4, <1>5 DEF Calls
  <2>2. \A i \in 1 .. N : Calls(i)' = Calls(i) /\ NoAsync(i)' = NoAsync(i)
                           /\ Bus!HasNext(i)' = Bus!HasNext(i)
    BY <1>5 DEF Calls, NoAsync, Bus!HasNext
  <2> QED BY <2>1, <2>2
<1>8. Typed'
  <2>1. \A i \in 1 .. N + 1 : Calls(i)' <= Len(emits'[i].listeners)
                              /\ DOMAIN emits'[i].before = 1 .. i - 1
    <3>1. \A i \in 1 .. N : Calls(i)' <= Len(emits'[i].listeners)
                            /\ DOMAIN emits'[i].before = 1 .. i - 1
      BY <1>a, <1>5, <1>7 DEF BusInv, Typed
    <3>2. Calls(N + 1)' <= Len(emits'[N + 1].listeners)
      BY <1>3, <1>4, <1>5, <1>7
    <3>3. DOMAIN emits'[N + 1].before = 1 .. (N + 1) - 1
      BY <1>1, <1>4, <1>5
    <3> QED BY <1>1, <3>1, <3>2, <3>3
  <2> QED BY <1>a, <1>0, <1>1, <1>5, <1>6, <2>1 DEF BusInv, Typed, Listed
<1>9. \A i \in Bus!Range(ready) : i \in 1 .. N
  BY <1>a DEF BusInv, Typed, Bus!Range
<1>10. Queued'
  <2>1. turn' \notin Bus!Range(ready') /\ ~emits'[turn'].over
    BY <1>0, <1>1, <1>4, <1>5, <1>6, <1>9
  <2>2. \A i \in Bus!Range(ready') : ~emits'[i].over /\ emits'[i].calls # <<>>
    BY <1>0, <1>5, <1>9 DEF BusInv, Queued
  <2>3. Bus!AllCalled'
    <3>1. ASSUME NEW i \in 1 .. N
          PROVE  /\ emits'[i].over => ~Bus!HasNext(i)'
                 /\ turn' # i /\ ~emits'[i].over /\ i \notin Bus!Range(ready')
                    => emits'[i].calls # <<>> /\ Bus!Last(emits'[i].calls) = "async"
      BY <1>a, <1>0, <1>5, <1>7 DEF BusInv, Queued, Bus!AllCalled
    <3>2. ~emits'[N + 1].over /\ turn' = N + 1
      BY <1>4, <1>5, <1>6
    <3> QED BY <1>1, <1>5, <3>1, <3>2 DEF Bus!AllCalled
  <2> QED BY <2>1, <2>2, <2>3 DEF Queued
<1>11. Registered'
  BY <1>0 DEF BusInv, Registered, Listed
<1>12. ASSUME NEW p \in 1 .. Len(e.listeners)
       PROVE  e.listeners[p] \in Bus!Range(entries[n]) \cup Bus!Range(all)
  <2>1. entries[n] \in Seq(Named) /\ all \in Seq(ForAll)
    BY DEF BusInv, Typed
  <2>2. entries[n] \in Seq(Listeners) /\ all \in Seq(Listeners)
    BY <2>1 DEF Listeners
  <2> DEFINE u == entries[n]
  <2> HIDE DEF u
  <2>3. /\ Len(u \o all) = Len(u) + Len(all)
        /\ \A i \in 1 .. Len(u) + Len(all) : (u \o all)[i] =
                     IF i <= Len(u) THEN u[i] ELSE all[i - Len(u)]
    BY <2>2, ConcatProperties DEF u
  <2>4. e.listeners = u \o all /\ Len(u) \in Nat /\ Len(all) \in Nat
    BY <1>4, <2>1 DEF u
  <2>5. CASE p <= Len(u)
    <3>1. p \in 1 .. Len(u) /\ e.listeners[p] = u[p]
      BY <2>3, <2>4, <2>5
    <3> QED BY <2>1, <3>1 DEF u, Bus!Range
  <2>6. CASE ~(p <= Len(u))
    <3>1. p - Len(u) \in 1 .. Len(all) /\ e.listeners[p] = all[p - Len(u)]
      BY <2>3, <2>4, <2>6
    <3> QED BY <2>1, <3>1 DEF Bus!Range
  <2> QED BY <2>5, <2>6
<1>13. /\ \A m \in EventNames : Bus!Range(entries[m]) \subseteq Named
       /\ Bus!Range(all) \subseteq ForAll
  <2>1. \A m \in EventNames : entries[m] \in Seq(Named)
    BY DEF BusInv, Typed
  <2>2. all \in Seq(ForAll)
    BY DEF BusInv, Typed
  <2> QED BY <2>1, <2>2 DEF Bus!Range
<1>14. Snapshots'
  <2>1. ASSUME NEW i \in 1 .. N, NEW p \in 1 .. Len(emits'[i].listeners),
               NEW l, l = emits'[i].listeners[p]
        PROVE  /\ l \notin fresh'
               /\ \A m \in EventNames : l \in Bus!Range(entries'[m]) => m = emits'[i].name
               /\ l \in Once /\ p <= Calls(i)'
                  => \A m \in EventNames : l \notin Bus!Range(entries'[m])
    <3>1. emits'[i] = emits[i] /\ Calls(i)' = Calls(i)
      BY <1>5, <1>7
    <3> QED BY <1>a, <1>0, <2>1, <3>1 DEF BusInv, Snapshots, Listed
  <2>2. ASSUME NEW p \in 1 .. Len(e.listeners), NEW l, l = e.listeners[p]
        PROVE  /\ l \notin fresh'
               /\ \A m \in EventNames : l \in Bus!Range(entries'[m]) => m = e.name
               /\ ~(p <= Calls(N + 1)')
    <3>1. l \notin fresh'
      BY <1>0, <1>12, <2>2 DEF BusInv, Registered, Listed
    <3>2. ASSUME NEW m \in EventNames, l \in Bus!Range(entries'[m])
          PROVE  m = e.name
      <4>1. l \in Bus!Range(entries[n])
        BY <1>0, <1>12, <1>13, <2>2, <3>2 DEF Bus!BusAssumption, Listed
      <4> QED BY <1>0, <1>4, <3>2, <4>1 DEF BusInv, Registered, Listed
    <3>3. ~(p <= Calls(N + 1)')
      BY <1>7
    <3> QED BY <3>1, <3>2, <3>3
  <2> QED BY SMTT(30), <1>1, <1>5, <2>1, <2>2 DEF Snapshots
<1>15. Queues'
  <2> SUFFICES ASSUME NEW j \in 1 .. N + 1, NEW i \in 1 .. j - 1,
                      NoAsync(i)', Bus!HasNext(i)'
               PROVE  /\ \A q \in 1 .. Calls(j)' :
                           NoThrow(j, q - 1)' => Calls(i)' >= q
                      /\ NoThrow(j, Calls(j))' /\ (turn' = j \/ Behind(j, i)')
                           => Calls(i)' > Calls(j)'
    BY <1>5 DEF Queues, Ahead
  <2>1. i \in 1 .. N
    BY <1>1
  <2>2. Calls(i)' = Calls(i) /\ NoAsync(i) /\ Bus!HasNext(i) /\ Calls(i) \in Nat
    BY <1>a, <1>7, <2>1, Fields DEF BusInv
  <2>3. CASE j = N + 1
    <3>1. ~emits[i].over
      BY <1>a, <2>1, <2>2 DEF BusInv, Queued, Bus!AllCalled
    <3>2. emits[i].calls # <<>>
      BY <1>a, <1>0, <2>1, <3>1 DEF BusInv, Queued, Bus!AllCalled
    <3>3. Calls(i) # 0
      <4>1. emits[i].calls \in Seq(Bus!Ends)
        BY <1>a, <2>1, Fields DEF BusInv
      <4> QED BY <3>2, <4>1 DEF Calls
    <3> QED BY <1>7, <2>2, <2>3, <3>3
  <2>4. CASE j \in 1 .. N
    <3>1. Calls(j)' = Calls(j) /\ turn' # j /\ Behind(j, i)' = Behind(j, i)
      BY <1>0, <1>1, <1>6, <1>7, <2>4 DEF Behind
    <3>2. \A q : NoThrow(j, q)' = NoThrow(j, q)
      BY <1>5, <2>4 DEF NoThrow
    <3>3. NoThrow(j, Calls(j))' = NoThrow(j, Calls(j))
      BY <1>5, <2>4, <3>1 DEF NoThrow
    <3>4. Ahead(i, j)
      BY <1>a, <2>4 DEF BusInv, Queues
    <3> QED BY <2>2, <3>1, <3>2, <3>3, <3>4 DEF Ahead
  <2> QED BY <1>1, <2>3, <2>4
<1>16. Bus!OnceOnly'
  <2> SUFFICES ASSUME NEW j \in 1 .. N + 1, NEW i \in 1 .. j - 1,
                      NEW q \in 1 .. Len(emits'[j].listeners),
                      NEW p \in 1 .. Len(emits'[i].listeners),
                      emits'[j].listeners[q] = emits'[i].listeners[p],
                      emits'[i].listeners[p] \in Once
               PROVE  emits'[j].before[i] < p
    BY <1>5 DEF Bus!OnceOnly
  <2>1. i \in 1 .. N /\ emits'[i] = emits[i]
    BY <1>1, <1>5
  <2>2. CASE j = N + 1
    <3> DEFINE l == emits[i].listeners[p]
    <3>1. l \in Once /\ l = e.listeners[q] /\ q \in 1 .. Len(e.listeners)
      BY <1>5, <2>1, <2>2
    <3> HIDE DEF l
    <3>2. l \in Bus!Range(entries[n])
      BY <1>12, <1>13, <3>1 DEF Bus!BusAssumption
    <3>3. ~(p <= Calls(i))
      BY <1>a, <2>1, <3>1, <3>2 DEF BusInv, Snapshots, l
    <3>4. Calls(i) \in Nat /\ p \in Nat /\ emits'[j].before[i] = Calls(i)
      BY <1>a, <1>4, <1>5, <2>1, <2>2, Fields DEF BusInv
    <3> QED BY <3>3, <3>4
  <2>3. CASE j \in 1 .. N
    <3>1. Apart(emits[j].listeners, emits[j].before[i], emits[i].listeners)
      BY <1>a, <2>3, OnceNamed DEF BusInv, OnceApart
    <3>2. emits'[j] = emits[j]
      BY <1>5, <2>3
    <3> QED BY <2>1, <3>1, <3>2 DEF Apart
  <2> QED BY <1>1, <2>2, <2>3
<1> QED BY <1>8, <1>10, <1>11, <1>14, <1>15, <1>16 DEF BusInv

\* The microtasks after one is added.
LEMMA ReadyAppended ==
  ASSUME BusInv, NEW i \in 1 .. Len(emits), i \notin Bus!Range(ready),
         ready' = Append(ready, i)
  PROVE  /\ ready' \in Seq(Nat) /\ Bus!IsInjective(ready')
         /\ Bus!Range(ready') = Bus!Range(ready) \cup {i}
         /\ \A a \in DOMAIN ready' : ready'[a] \in 1 .. Len(emits)
         /\ \A j, k : k # i /\ Behind(j, k)' => Behind(j, k)
<1>1. ready \in Seq(Nat) /\ Bus!IsInjective(ready)
      /\ \A a \in DOMAIN ready : ready[a] \in 1 .. Len(emits)
  BY DEF BusInv, Typed
<1>2. i \in Nat
  OBVIOUS
<1>3. ready' \in Seq(Nat) /\ Bus!IsInjective(ready') /\ Bus!Range(ready') = Bus!Range(ready) \cup {i}
  BY <1>1, <1>2, AppendKept
<1>4. \A a \in DOMAIN ready' : ready'[a] \in 1 .. Len(emits)
  BY <1>1
<1>5. ASSUME NEW j, NEW k, k # i, Behind(j, k)'
      PROVE  Behind(j, k)
  <2>1. PICK a, b \in DOMAIN ready' : a < b /\ ready'[a] = j /\ ready'[b] = k
    BY <1>5 DEF Behind
  <2>2. DOMAIN ready' = 1 .. Len(ready) + 1 /\ ready'[Len(ready) + 1] = i
        /\ \A c \in 1 .. Len(ready) : ready'[c] = ready[c]
    BY <1>1, <1>2
  <2>3. Len(ready) \in Nat /\ DOMAIN ready = 1 .. Len(ready)
    BY <1>1
  <2>4. b \in 1 .. Len(ready)
    BY <1>5, <2>1, <2>2, <2>3
  <2>5. a \in 1 .. Len(ready)
    BY <2>1, <2>2, <2>3, <2>4
  <2> QED BY <2>1, <2>2, <2>3, <2>4, <2>5 DEF Behind
<1> QED BY <1>3, <1>4, <1>5

\* Calls, snapshots and ends of the other emits, when one makes a call.
CalledOnly(i, end) ==
  /\ emits' \in Seq(EmitRec) /\ Len(emits') = Len(emits)
  /\ \A k \in 1 .. Len(emits) :
       /\ emits'[k].listeners = emits[k].listeners /\ emits'[k].name = emits[k].name
       /\ emits'[k].over = emits[k].over /\ emits'[k].before = emits[k].before
       /\ k # i => emits'[k].calls = emits[k].calls
  /\ emits'[i].calls = Append(emits[i].calls, end)

LEMMA CallOnly ==
  ASSUME BusInv, NEW i \in 1 .. Len(emits), NEW end \in Bus!Ends, Bus!Call(i, end)
  PROVE  CalledOnly(i, end)
<1> DEFINE c == Append(emits[i].calls, end)
<1>1. emits' = [emits EXCEPT ![i] = [emits[i] EXCEPT !.calls = c]]
  BY DEF Bus!Call
<1>2. emits \in Seq(EmitRec) /\ emits[i] \in EmitRec /\ c \in Seq(Bus!Ends)
  <2>1. Typed /\ emits \in Seq(EmitRec)
    BY DEF BusInv, Typed
  <2>2. emits[i] \in EmitRec /\ emits[i].calls \in Seq(Bus!Ends)
    BY Zenon, <2>1, Fields
  <2> QED BY <2>1, <2>2, AppendProperties
<1> HIDE DEF c
<1>3. [emits[i] EXCEPT !.calls = c] \in EmitRec
  BY Zenon, <1>2, CallUpdate
<1>4. emits' \in Seq(EmitRec) /\ Len(emits') = Len(emits)
  BY <1>1, <1>2, <1>3
<1>5. \A k \in 1 .. Len(emits) : k # i => emits'[k] = emits[k]
  BY <1>1, <1>2
<1>6. emits'[i] = [emits[i] EXCEPT !.calls = c]
  BY <1>1, <1>2
<1>7. /\ emits'[i].calls = c /\ emits'[i].listeners = emits[i].listeners
      /\ emits'[i].name = emits[i].name /\ emits'[i].over = emits[i].over
      /\ emits'[i].before = emits[i].before
  BY <1>2, <1>6 DEF EmitRec
<1> QED BY <1>4, <1>5, <1>7 DEF CalledOnly, c

LEMMA CallReady ==
  ASSUME BusInv, NEW i \in 1 .. Len(emits), NEW end \in Bus!Ends, Bus!Call(i, end)
  PROVE  /\ ready' \in Seq(Nat) /\ Bus!IsInjective(ready')
         /\ Bus!Range(ready') = Bus!Range(ready) \cup (IF end = "returns" THEN {i} ELSE {})
         /\ \A a \in DOMAIN ready' : ready'[a] \in 1 .. Len(emits)
         /\ \A j, k : k # i /\ Behind(j, k)' => Behind(j, k)
         /\ i \notin Bus!Range(ready) /\ ~emits[i].over
<1>1. i \notin Bus!Range(ready) /\ ~emits[i].over
  BY DEF BusInv, Queued, Bus!Call
<1>2. CASE end = "returns"
  <2>1. ready' = Append(ready, i)
    BY <1>2 DEF Bus!Call, Bus!GoesOn
  <2> QED BY <1>1, <1>2, <2>1, ReadyAppended
<1>3. CASE end # "returns"
  <2>1. ready' = ready
    BY <1>3 DEF Bus!Call, Bus!GoesOn
  <2> QED BY <1>1, <1>3, <2>1 DEF BusInv, Typed, Behind
<1> QED BY <1>2, <1>3

\* A once-registration is removed by its call; a call removes nothing else.
LEMMA CallLists ==
  ASSUME BusInv, NEW i \in 1 .. Len(emits), NEW end \in Bus!Ends, Bus!Call(i, end)
  PROVE  /\ Shrinks
         /\ Bus!Upcoming(i) \in Once => Bus!Upcoming(i) \notin Bus!Range(entries'[emits[i].name])
<1> DEFINE m == emits[i].name
           l == Bus!Upcoming(i)
<1>1. entries' = [entries EXCEPT ![m] = IF l \in Once THEN Bus!RemoveFirst(@, l) ELSE @]
      /\ all' = all /\ fresh' = fresh
  BY DEF Bus!Call
<1>2. entries \in [EventNames -> Seq(Named)] /\ m \in EventNames /\ all \in Seq(ForAll)
  BY Fields DEF BusInv, Typed
<1>3. Bus!IsInjective(all) /\ \A n \in EventNames : Bus!IsInjective(entries[n])
  BY DEF BusInv, Registered
<1> HIDE DEF m, l
<1>4. Bus!RemoveFirst(entries[m], l) \in Seq(Named) /\ Bus!IsInjective(Bus!RemoveFirst(entries[m], l))
      /\ Bus!Range(Bus!RemoveFirst(entries[m], l)) = Bus!Range(entries[m]) \ {l}
  <2>1. entries[m] \in Seq(Named) /\ Bus!IsInjective(entries[m])
    BY <1>2, <1>3
  <2> QED BY <2>1, RemoveKept
<1>5. entries'[m] = IF l \in Once THEN Bus!RemoveFirst(entries[m], l) ELSE entries[m]
  BY <1>1, <1>2
<1>6. \A n \in EventNames : n # m => entries'[n] = entries[n]
  BY <1>1, <1>2
<1>7. \A n \in EventNames : entries'[n] \in Seq(Named) /\ Bus!IsInjective(entries'[n])
                       /\ Bus!Range(entries'[n]) \subseteq Bus!Range(entries[n])
  BY <1>2, <1>3, <1>4, <1>5, <1>6
<1>8. entries' \in [EventNames -> Seq(Named)]
  <2>1. entries' = [n \in EventNames |-> entries'[n]]
    BY <1>1, <1>2
  <2> QED BY <1>7, <2>1
<1>9. Shrinks
  BY <1>1, <1>2, <1>3, <1>7, <1>8 DEF Shrinks
<1>10. l \in Once => l \notin Bus!Range(entries'[m])
  BY <1>4, <1>5
<1> QED BY <1>9, <1>10 DEF m, l

LEMMA CallQueues ==
  ASSUME BusInv, NEW i \in 1 .. Len(emits), NEW end \in Bus!Ends, Bus!Call(i, end)
  PROVE  Queues'
<1>1. CalledOnly(i, end)
  BY CallOnly
<1>2. turn = i /\ turn' = (IF end = "throws" THEN i ELSE 0)
  BY DEF Bus!Call, Bus!GoesOn
<1>3. /\ \A j, k : k # i /\ Behind(j, k)' => Behind(j, k)
      /\ Bus!Range(ready') = Bus!Range(ready) \cup (IF end = "returns" THEN {i} ELSE {})
      /\ i \notin Bus!Range(ready) /\ ready' \in Seq(Nat) /\ Bus!IsInjective(ready')
  BY CallReady
<1>4. Len(emits) \in Nat /\ Len(emits') = Len(emits)
  BY <1>1 DEF CalledOnly, BusInv, Typed
<1>5. \A k \in 1 .. Len(emits) : Calls(k) \in Nat /\ emits[k].calls \in Seq(Bus!Ends)
  BY Fields DEF BusInv
<1>6. /\ Calls(i)' = Calls(i) + 1 /\ emits'[i].calls[Calls(i) + 1] = end
      /\ \A q \in 1 .. Calls(i) : emits'[i].calls[q] = emits[i].calls[q]
  BY <1>1, <1>5 DEF CalledOnly, Calls
<1>7. \A k \in 1 .. Len(emits) : k # i =>
        Calls(k)' = Calls(k) /\ emits'[k].calls = emits[k].calls
  BY <1>1 DEF CalledOnly, Calls
<1> SUFFICES ASSUME NEW j \in 1 .. Len(emits), NEW k \in 1 .. j - 1,
                    NoAsync(k)', Bus!HasNext(k)'
             PROVE  /\ \A q \in 1 .. Calls(j)' :
                         NoThrow(j, q - 1)' => Calls(k)' >= q
                    /\ NoThrow(j, Calls(j))' /\ (turn' = j \/ Behind(j, k)')
                         => Calls(k)' > Calls(j)'
  BY <1>4 DEF Queues, Ahead
<1>8. k \in 1 .. Len(emits) /\ k # j
  BY <1>4
<1>9. Ahead(k, j)
  BY DEF BusInv, Queues
<1>10. NoAsync(k) /\ Bus!HasNext(k)
  <2>1. CASE k # i
    BY <1>1, <1>7, <1>8, <2>1 DEF CalledOnly, NoAsync, Bus!HasNext
  <2>2. CASE k = i
    <3>1. NoAsync(k)
      <4>1. emits[i].calls \in Seq(Bus!Ends)
            /\ emits'[i].calls = Append(emits[i].calls, end)
        BY <1>1, <1>5 DEF CalledOnly
      <4> DEFINE c == emits[i].calls
                 d == emits'[i].calls
      <4>2. \A x \in DOMAIN d : d[x] # "async"
        BY <2>2 DEF NoAsync
      <4> HIDE DEF c, d
      <4>3. c \in Seq(Bus!Ends) /\ d = Append(c, end)
        BY <4>1 DEF c, d
      <4>4. \A x \in DOMAIN c : x \in DOMAIN d /\ d[x] = c[x]
        BY <4>3
      <4>5. \A x \in DOMAIN c : c[x] # "async"
        BY <4>2, <4>4
      <4> QED BY <2>2, <4>5 DEF NoAsync, c
    <3>2. Bus!HasNext(k)
      <4>1. Bus!HasNext(i)
        BY DEF Bus!Call
      <4> QED BY <2>2, <4>1
    <3> QED BY <3>1, <3>2
  <2> QED BY <2>1, <2>2
<1>11. /\ \A q \in 1 .. Calls(j) : NoThrow(j, q - 1) => Calls(k) >= q
       /\ NoThrow(j, Calls(j)) /\ (turn = j \/ Behind(j, k)) => Calls(k) > Calls(j)
  BY <1>9, <1>10 DEF Ahead
<1>12. CASE j = i
  <2>1. k # i /\ Calls(k)' = Calls(k) /\ Calls(j)' = Calls(i) + 1
    BY <1>6, <1>7, <1>8, <1>12
  <2>2. \A q \in 0 .. Calls(i) : NoThrow(i, q)' => NoThrow(i, q)
    <3> SUFFICES ASSUME NEW q \in 0 .. Calls(i), NoThrow(i, q)', NEW x \in 1 .. q
                 PROVE  emits[i].calls[x] # "throws"
      BY DEF NoThrow
    <3>1. x \in 1 .. Calls(i)
      BY <1>5
    <3>2. emits'[i].calls[x] = emits[i].calls[x]
      BY <1>6, <3>1
    <3> QED BY <3>2 DEF NoThrow
  <2>3. ASSUME NEW q \in 1 .. Calls(i) + 1, NoThrow(i, q - 1)'
        PROVE  Calls(k) >= q
    <3>1. NoThrow(i, q - 1)
      BY <1>5, <2>2, <2>3
    <3>2. CASE q \in 1 .. Calls(i)
      BY <1>11, <1>12, <3>1, <3>2
    <3>3. CASE q = Calls(i) + 1
      <4>1. q - 1 = Calls(i)
        BY <1>5, <3>3
      <4>2. NoThrow(i, Calls(i))
        BY <3>1, <4>1
      <4>3. Calls(k) > Calls(i)
        BY <1>2, <1>11, <1>12, <4>2
      <4> QED BY <1>5, <1>8, <3>3, <4>3
    <3> QED BY <1>5, <3>2, <3>3
  <2>4. ~(NoThrow(i, Calls(i))' /\ (turn' = i \/ Behind(i, k)'))
    <3>1. CASE end = "throws"
      <4>1. ~NoThrow(i, Calls(i))'
        BY <1>5, <1>6, <3>1 DEF NoThrow
      <4> QED BY <4>1
    <3>2. CASE end # "throws"
      <4>1. turn' # i
        BY <1>2, <3>2
      <4>2. ~Behind(i, k)
        <5>1. \A a \in DOMAIN ready : ready[a] # i
          BY <1>3 DEF Bus!Range
        <5> QED BY <5>1 DEF Behind
      <4> QED BY <1>3, <2>1, <4>1, <4>2
    <3> QED BY <3>1, <3>2
  <2> QED BY <1>12, <2>1, <2>3, <2>4
<1>13. CASE j # i
  <2>1. Calls(j)' = Calls(j) /\ turn' # j
    BY <1>2, <1>7, <1>13
  <2>2. \A q : NoThrow(j, q)' = NoThrow(j, q)
    BY <1>7, <1>13 DEF NoThrow
  <2>3. NoThrow(j, Calls(j))' = NoThrow(j, Calls(j))
    BY <1>7, <1>13, <2>1 DEF NoThrow
  <2>4. CASE k # i
    <3>1. Calls(k)' = Calls(k) /\ (Behind(j, k)' => Behind(j, k))
      BY <1>3, <1>7, <1>8, <2>4
    <3> QED BY <1>11, <2>1, <2>2, <2>3, <3>1
  <2>5. CASE k = i
    <3>1. Calls(k)' = Calls(k) + 1
      BY <1>6, <2>5
    <3>2. ASSUME NEW q \in 1 .. Calls(j), NoThrow(j, q - 1)'
          PROVE  Calls(k)' >= q
      <4>1. Calls(k) >= q
        BY <1>11, <2>2, <3>2
      <4> QED BY <1>5, <1>8, <3>1, <4>1
    <3>3. ASSUME NoThrow(j, Calls(j)) PROVE Calls(k) + 1 > Calls(j)
      <4>1. CASE Calls(j) = 0
        BY <1>5, <1>8, <4>1
      <4>2. CASE Calls(j) # 0
        <5>1. Calls(j) \in 1 .. Calls(j) /\ NoThrow(j, Calls(j) - 1)
          BY <1>5, <3>3, <4>2 DEF NoThrow
        <5>2. Calls(k) >= Calls(j)
          BY <1>11, <5>1
        <5> QED BY <1>5, <1>8, <5>2
      <4> QED BY <4>1, <4>2
    <3> QED BY <2>1, <2>3, <3>1, <3>2, <3>3
  <2> QED BY <2>4, <2>5
<1> QED BY <1>12, <1>13

LEMMA CallInv ==
  ASSUME BusInv, NEW i \in 1 .. Len(emits), NEW end \in Bus!Ends, Bus!Call(i, end)
  PROVE  BusInv'
<1>1. CalledOnly(i, end)
  BY CallOnly
<1>2. turn = i /\ turn' = (IF end = "throws" THEN i ELSE 0) /\ Bus!HasNext(i)
  BY DEF Bus!Call, Bus!GoesOn
<1>3. /\ ready' \in Seq(Nat) /\ Bus!IsInjective(ready')
      /\ Bus!Range(ready') = Bus!Range(ready) \cup (IF end = "returns" THEN {i} ELSE {})
      /\ \A a \in DOMAIN ready' : ready'[a] \in 1 .. Len(emits)
      /\ i \notin Bus!Range(ready) /\ ~emits[i].over
  BY CallReady
<1>4. Shrinks /\ (Bus!Upcoming(i) \in Once => Bus!Upcoming(i) \notin Bus!Range(entries'[emits[i].name]))
  BY CallLists
<1>5. Len(emits) \in Nat /\ Len(emits') = Len(emits)
  BY <1>1 DEF CalledOnly, BusInv, Typed
<1>6. \A k \in 1 .. Len(emits) :
        /\ Calls(k) \in Nat /\ emits[k].calls \in Seq(Bus!Ends)
        /\ Len(emits[k].listeners) \in Nat /\ Calls(k) <= Len(emits[k].listeners)
        /\ emits[k].name \in EventNames
  BY Fields DEF BusInv
<1>7. Calls(i)' = Calls(i) + 1 /\ emits'[i].calls # <<>> /\ Bus!Last(emits'[i].calls) = end
      /\ Calls(i) + 1 <= Len(emits[i].listeners)
  <2>1. emits[i].calls \in Seq(Bus!Ends) /\ emits'[i].calls = Append(emits[i].calls, end)
    BY <1>1, <1>6 DEF CalledOnly
  <2> DEFINE c == emits[i].calls
             d == emits'[i].calls
  <2> HIDE DEF c, d
  <2>2. c \in Seq(Bus!Ends) /\ d = Append(c, end)
    BY <2>1 DEF c, d
  <2>3. Len(d) = Len(c) + 1 /\ d # <<>> /\ d[Len(d)] = end
    BY <2>2
  <2>4. Calls(i) + 1 <= Len(emits[i].listeners)
    BY <1>2, <1>6 DEF Bus!HasNext, Calls
  <2> QED BY <2>3, <2>4 DEF Calls, Bus!Last, c, d
<1>8. \A k \in 1 .. Len(emits) : k # i =>
        Calls(k)' = Calls(k) /\ emits'[k].calls = emits[k].calls
  BY <1>1 DEF CalledOnly, Calls
<1>9. Typed'
  <2>1. \A k \in 1 .. Len(emits) : Calls(k)' <= Len(emits'[k].listeners)
                                   /\ DOMAIN emits'[k].before = 1 .. k - 1
    <3>1. \A k \in 1 .. Len(emits) : emits'[k].listeners = emits[k].listeners
            /\ DOMAIN emits'[k].before = DOMAIN emits[k].before
      BY <1>1 DEF CalledOnly
    <3> QED BY <1>6, <1>7, <1>8, <3>1 DEF BusInv, Typed
  <2>2. turn' \in 0 .. Len(emits)
    BY <1>2, <1>5
  <2>3. emits' \in Seq(EmitRec) /\ fresh' \subseteq Listeners
        /\ entries' \in [EventNames -> Seq(Named)] /\ all' \in Seq(ForAll)
    BY <1>1, <1>4 DEF CalledOnly, Shrinks, BusInv, Typed
  <2> QED BY <1>3, <1>5, <2>1, <2>2, <2>3 DEF Typed
<1>10. Queued'
  <2>1. turn' # 0 => turn' \notin Bus!Range(ready') /\ ~emits'[turn'].over
    BY <1>1, <1>2, <1>3 DEF CalledOnly
  <2>2. ASSUME NEW k \in Bus!Range(ready')
        PROVE  ~emits'[k].over /\ emits'[k].calls # <<>>
    <3>1. k \in 1 .. Len(emits)
      BY <1>3 DEF Bus!Range
    <3>2. CASE k = i
      BY <1>1, <1>3, <1>7, <3>2 DEF CalledOnly
    <3>3. CASE k # i
      <4>1. k \in Bus!Range(ready)
        BY <1>3, <3>3
      <4> QED BY <1>1, <1>8, <3>1, <3>3, <4>1 DEF CalledOnly, BusInv, Queued
    <3> QED BY <3>2, <3>3
  <2>3. ASSUME NEW k \in 1 .. Len(emits)
        PROVE  /\ emits'[k].over => ~Bus!HasNext(k)'
               /\ turn' # k /\ ~emits'[k].over /\ k \notin Bus!Range(ready')
                  => emits'[k].calls # <<>> /\ Bus!Last(emits'[k].calls) = "async"
    <3>1. emits'[k].over = emits[k].over /\ emits'[k].listeners = emits[k].listeners
      BY <1>1 DEF CalledOnly
    <3>2. CASE k = i
      BY <1>2, <1>3, <1>7, <3>1, <3>2 DEF Bus!Ends
    <3>3. CASE k # i
      <4>1. emits'[k].calls = emits[k].calls
        BY <1>8, <3>3
      <4>2. turn # k /\ (k \in Bus!Range(ready) => k \in Bus!Range(ready'))
        BY <1>2, <1>3, <3>3
      <4> QED BY <3>1, <4>1, <4>2 DEF BusInv, Queued, Bus!AllCalled, Bus!HasNext
    <3> QED BY <3>2, <3>3
  <2>4. Bus!AllCalled'
    BY <1>5, <2>3 DEF Bus!AllCalled
  <2> QED BY <2>1, <2>2, <2>4 DEF Queued
<1>11. Registered'
  BY <1>4, ShrinksRegistered DEF BusInv
<1>12. Snapshots'
  <2> SUFFICES ASSUME NEW k \in 1 .. Len(emits),
                      NEW p \in 1 .. Len(emits'[k].listeners),
                      NEW l, l = emits'[k].listeners[p]
               PROVE  /\ l \notin fresh'
                      /\ \A n \in EventNames : l \in Bus!Range(entries'[n]) => n = emits'[k].name
                      /\ l \in Once /\ p <= Calls(k)'
                           => \A n \in EventNames : l \notin Bus!Range(entries'[n])
    BY <1>5 DEF Snapshots
  <2>1. emits'[k].listeners = emits[k].listeners /\ emits'[k].name = emits[k].name
    BY <1>1 DEF CalledOnly
  <2>2. /\ l \notin fresh
        /\ \A n \in EventNames : l \in Bus!Range(entries[n]) => n = emits[k].name
        /\ l \in Once /\ p <= Calls(k) => \A n \in EventNames : l \notin Bus!Range(entries[n])
    BY <2>1 DEF BusInv, Snapshots
  <2>3. \A n \in EventNames : l \in Bus!Range(entries'[n]) => l \in Bus!Range(entries[n])
    BY <1>4 DEF Shrinks
  <2>4. l \notin fresh'
    BY <1>4, <2>2 DEF Shrinks
  <2>5. ASSUME l \in Once, p <= Calls(k)', NEW n \in EventNames
        PROVE  l \notin Bus!Range(entries'[n])
    <3>1. CASE p <= Calls(k)
      BY <2>2, <2>3, <2>5, <3>1
    <3>2. CASE ~(p <= Calls(k))
      <4>1. k = i
        BY <1>8, <2>5, <3>2
      <4>2. p = Calls(i) + 1
        BY <1>6, <1>7, <2>5, <3>2, <4>1
      <4>3. l = Bus!Upcoming(i)
        BY <2>1, <4>1, <4>2 DEF Bus!Upcoming, Calls
      <4>4. l \notin Bus!Range(entries'[emits[i].name])
        BY <1>4, <2>5, <4>3
      <4> QED BY <2>2, <2>3, <4>1, <4>4
    <3> QED BY <3>1, <3>2
  <2> QED BY <2>1, <2>2, <2>3, <2>4, <2>5
<1>13. Bus!OnceOnly'
  <2>1. \A k \in 1 .. Len(emits) :
          emits'[k].listeners = emits[k].listeners /\ emits'[k].before = emits[k].before
    BY <1>1 DEF CalledOnly
  <2> QED BY <1>5, <2>1, OnceKept DEF BusInv
<1> QED BY <1>9, <1>10, <1>11, <1>12, <1>13, CallQueues DEF BusInv

LEMMA ListedKept ==
  ASSUME BusInv, Listed,
         Len(emits') = Len(emits),
         \A k \in 1 .. Len(emits) :
           /\ emits'[k].listeners = emits[k].listeners
           /\ emits'[k].name = emits[k].name /\ emits'[k].before = emits[k].before
           /\ emits'[k].calls = emits[k].calls
  PROVE  Registered' /\ Snapshots' /\ Bus!OnceOnly'
<1>1. Registered'
  BY DEF BusInv, Registered, Listed
<1>2. \A k \in 1 .. Len(emits) : Calls(k)' = Calls(k)
  BY DEF Calls
<1>3. Snapshots'
  BY <1>2 DEF BusInv, Snapshots, Listed
<1>4. Bus!OnceOnly'
  <2>1. Len(emits) \in Nat
    BY DEF BusInv, Typed
  <2> QED BY <2>1, OnceKept DEF BusInv
<1> QED BY <1>1, <1>3, <1>4

LEMMA SettlesInv ==
  ASSUME BusInv, NEW i \in 1 .. Len(emits), Bus!Settles(i)
  PROVE  BusInv'
<1>1. Listed /\ emits' = emits /\ turn' = turn /\ turn = 0 /\ ready' = Append(ready, i)
      /\ i \notin Bus!Range(ready) /\ ~emits[i].over
      /\ emits[i].calls # <<>> /\ Bus!Last(emits[i].calls) = "async"
  BY DEF Bus!Settles, Listed
<1>2. /\ ready' \in Seq(Nat) /\ Bus!IsInjective(ready')
      /\ Bus!Range(ready') = Bus!Range(ready) \cup {i}
      /\ \A a \in DOMAIN ready' : ready'[a] \in 1 .. Len(emits)
      /\ \A j, k : k # i /\ Behind(j, k)' => Behind(j, k)
  BY <1>1, ReadyAppended
<1>3. Typed'
  BY <1>1, <1>2 DEF BusInv, Typed, Listed, Calls
<1>4. Queued'
  BY <1>1, <1>2 DEF BusInv, Queued, Bus!AllCalled, Bus!HasNext
<1>5. ~NoAsync(i)
  <2>1. emits[i].calls \in Seq(Bus!Ends)
    BY Fields DEF BusInv
  <2> DEFINE c == emits[i].calls
  <2>2. c \in Seq(Bus!Ends) /\ c # <<>> /\ c[Len(c)] = "async"
    BY <1>1, <2>1 DEF Bus!Last
  <2> HIDE DEF c
  <2>3. Len(c) \in DOMAIN c
    BY <2>2
  <2> QED BY <2>2, <2>3 DEF NoAsync, c
<1>6. Queues'
  <2>1. ASSUME NEW j \in 1 .. Len(emits), NEW k \in 1 .. j - 1
        PROVE  Ahead(k, j)'
    <3>1. Ahead(k, j)
      BY DEF BusInv, Queues
    <3>2. CASE k = i
      BY <1>1, <1>5, <3>2 DEF Ahead, NoAsync
    <3>3. CASE k # i
      <4>1. Behind(j, k)' => Behind(j, k)
        BY <1>2, <3>3
      <4> QED BY <1>1, <3>1, <4>1 DEF Ahead, NoAsync, NoThrow, Bus!HasNext, Calls
    <3> QED BY <3>2, <3>3
  <2> QED BY <1>1, <2>1 DEF Queues
<1>7. Registered' /\ Snapshots' /\ Bus!OnceOnly'
  BY <1>1, ListedKept
<1> QED BY <1>3, <1>4, <1>6, <1>7 DEF BusInv

LEMMA ResumeInv ==
  ASSUME BusInv, Bus!Resume
  PROVE  BusInv'
<1>1. Listed /\ emits' = emits /\ turn = 0 /\ ready # <<>>
      /\ turn' = Head(ready) /\ ready' = Tail(ready)
  BY DEF Bus!Resume, Listed
<1>2. ready \in Seq(Nat) /\ Bus!IsInjective(ready) /\ Len(emits) \in Nat
      /\ \A a \in DOMAIN ready : ready[a] \in 1 .. Len(emits)
  BY DEF BusInv, Typed
<1>3. /\ Len(ready) \in Nat \ {0} /\ ready' \in Seq(Nat) /\ turn' = ready[1]
      /\ Len(ready') = Len(ready) - 1
      /\ \A a \in 1 .. Len(ready) - 1 : ready'[a] = ready[a + 1]
  BY <1>1, <1>2
<1>4. DOMAIN ready = 1 .. Len(ready) /\ DOMAIN ready' = 1 .. Len(ready) - 1
  BY <1>2, <1>3
<1>5. Bus!IsInjective(ready')
  <2> SUFFICES ASSUME NEW a \in 1 .. Len(ready) - 1, NEW b \in 1 .. Len(ready) - 1,
                      ready'[a] = ready'[b]
               PROVE  a = b
    BY <1>4 DEF Bus!IsInjective
  <2>1. a + 1 \in DOMAIN ready /\ b + 1 \in DOMAIN ready /\ ready[a + 1] = ready[b + 1]
    BY <1>3, <1>4
  <2>2. a + 1 = b + 1
    BY <1>2, <2>1 DEF Bus!IsInjective
  <2> QED BY <1>3, <2>2
<1>6. \A a \in DOMAIN ready' : ready'[a] \in 1 .. Len(emits) /\ ready'[a] \in Bus!Range(ready)
                               /\ ready'[a] # turn'
  <2> SUFFICES ASSUME NEW a \in 1 .. Len(ready) - 1
               PROVE  ready'[a] \in 1 .. Len(emits) /\ ready'[a] \in Bus!Range(ready)
                      /\ ready'[a] # turn'
    BY <1>4
  <2>1. a + 1 \in DOMAIN ready /\ 1 \in DOMAIN ready /\ a + 1 # 1
    BY <1>3, <1>4
  <2>2. ready'[a] = ready[a + 1]
    BY <1>3
  <2> QED BY <1>2, <1>3, <2>1, <2>2 DEF Bus!IsInjective, Bus!Range
<1>7. Bus!Range(ready) \subseteq Bus!Range(ready') \cup {turn'}
  <2> SUFFICES ASSUME NEW a \in 1 .. Len(ready), a # 1 PROVE ready[a] \in Bus!Range(ready')
    BY <1>3, <1>4 DEF Bus!Range
  <2>1. a - 1 \in 1 .. Len(ready) - 1 /\ ready'[a - 1] = ready[a]
    BY <1>3
  <2> QED BY <1>4, <2>1 DEF Bus!Range
<1>8. Bus!Range(ready') \subseteq Bus!Range(ready) /\ turn' \notin Bus!Range(ready')
      /\ turn' \in Bus!Range(ready) /\ turn' \in 1 .. Len(emits)
  <2>1. Bus!Range(ready') \subseteq Bus!Range(ready) /\ turn' \notin Bus!Range(ready')
    BY <1>6 DEF Bus!Range
  <2>2. 1 \in DOMAIN ready
    BY <1>3, <1>4
  <2> QED BY <1>2, <1>3, <2>1, <2>2 DEF Bus!Range
<1>9. Typed'
  <2>1. turn' \in 0 .. Len(emits)
    BY <1>2, <1>8
  <2> QED BY <1>1, <1>3, <1>5, <1>6, <2>1 DEF BusInv, Typed, Listed, Calls
<1>10. Queued'
  <2>1. ASSUME NEW k \in 1 .. Len(emits)
        PROVE  /\ emits'[k].over => ~Bus!HasNext(k)'
               /\ turn' # k /\ ~emits'[k].over /\ k \notin Bus!Range(ready')
                  => emits'[k].calls # <<>> /\ Bus!Last(emits'[k].calls) = "async"
    <3>1. turn # k /\ (turn' # k /\ k \notin Bus!Range(ready') => k \notin Bus!Range(ready))
      BY <1>1, <1>7
    <3> QED BY <1>1, <3>1 DEF BusInv, Queued, Bus!AllCalled, Bus!HasNext
  <2>2. Bus!AllCalled'
    BY <1>1, <2>1 DEF Bus!AllCalled
  <2> QED BY <1>1, <1>8, <2>2 DEF BusInv, Queued
<1>11. Queues'
  <2> SUFFICES ASSUME NEW j \in 1 .. Len(emits), NEW k \in 1 .. j - 1,
                      NoAsync(k), Bus!HasNext(k)
               PROVE  /\ \A q \in 1 .. Calls(j) : NoThrow(j, q - 1) => Calls(k) >= q
                      /\ NoThrow(j, Calls(j)) /\ (turn' = j \/ Behind(j, k)')
                           => Calls(k) > Calls(j)
    BY <1>1 DEF Queues, Ahead, NoAsync, NoThrow, Bus!HasNext, Calls
  <2>1. k \in 1 .. Len(emits) /\ k # j
    BY <1>2
  <2>2. /\ \A q \in 1 .. Calls(j) : NoThrow(j, q - 1) => Calls(k) >= q
        /\ NoThrow(j, Calls(j)) /\ (turn = j \/ Behind(j, k)) => Calls(k) > Calls(j)
    BY DEF BusInv, Queues, Ahead
  <2>3. Behind(j, k)' => Behind(j, k)
    <3> SUFFICES ASSUME NEW a \in DOMAIN ready', NEW b \in DOMAIN ready', a < b,
                        ready'[a] = j, ready'[b] = k
                 PROVE  Behind(j, k)
      BY DEF Behind
    <3>1. a + 1 \in DOMAIN ready /\ b + 1 \in DOMAIN ready /\ a + 1 < b + 1
          /\ ready[a + 1] = j /\ ready[b + 1] = k
      <4>1. a \in 1 .. Len(ready) - 1 /\ b \in 1 .. Len(ready) - 1
        BY <1>4
      <4>2. ready[a + 1] = j /\ ready[b + 1] = k
        BY <1>3, <4>1
      <4>3. a + 1 \in 1 .. Len(ready) /\ b + 1 \in 1 .. Len(ready) /\ a + 1 < b + 1
        <5>1. Len(ready) \in Nat
          BY <1>3
        <5> QED BY <4>1, <5>1
      <4> QED BY <1>4, <4>2, <4>3
    <3> QED BY <3>1 DEF Behind
  <2>4. ASSUME turn' = j PROVE Behind(j, k)
    <3>1. ~emits[k].over
      BY <2>1 DEF BusInv, Queued, Bus!AllCalled
    <3>2. Bus!Last(emits[k].calls) # "async" \/ emits[k].calls = <<>>
      <4>1. emits[k].calls \in Seq(Bus!Ends)
        BY <2>1, Fields DEF BusInv
      <4> DEFINE c == emits[k].calls
      <4>2. \A x \in DOMAIN c : c[x] # "async"
        BY DEF NoAsync
      <4> HIDE DEF c
      <4>3. c \in Seq(Bus!Ends)
        BY <4>1 DEF c
      <4>4. c # <<>> => Len(c) \in DOMAIN c
        BY <4>3
      <4> QED BY <4>2, <4>4 DEF Bus!Last, c
    <3>3. k \in Bus!Range(ready)
      BY <1>1, <2>1, <3>1, <3>2 DEF BusInv, Queued, Bus!AllCalled
    <3>4. PICK b \in DOMAIN ready : ready[b] = k
      BY <3>3 DEF Bus!Range
    <3>5. 1 \in DOMAIN ready /\ ready[1] = j
      BY <1>3, <1>4, <2>4
    <3>6. b # 1
      BY <2>1, <3>4, <3>5
    <3>7. 1 < b
      BY <1>3, <1>4, <3>4, <3>6
    <3> QED BY <3>4, <3>5, <3>7 DEF Behind
  <2> QED BY <2>2, <2>3, <2>4
<1>12. Registered' /\ Snapshots' /\ Bus!OnceOnly'
  BY <1>1, ListedKept
<1> QED BY <1>9, <1>10, <1>11, <1>12 DEF BusInv

LEMMA DoneInv ==
  ASSUME BusInv, NEW i \in 1 .. Len(emits), Bus!Done(i)
  PROVE  BusInv'
<1>1. Listed /\ turn = i /\ turn' = 0 /\ ready' = ready /\ ~Bus!HasNext(i)
      /\ emits' = [emits EXCEPT ![i] = [emits[i] EXCEPT !.over = TRUE]]
  BY DEF Bus!Done, Listed
<1>2. emits \in Seq(EmitRec) /\ emits[i] \in EmitRec /\ Len(emits) \in Nat
  BY Fields DEF BusInv, Typed
<1>3. [emits[i] EXCEPT !.over = TRUE] \in EmitRec
  BY Zenon, <1>2, EndUpdate
<1>4. emits' \in Seq(EmitRec) /\ Len(emits') = Len(emits)
      /\ \A k \in 1 .. Len(emits) : k # i => emits'[k] = emits[k]
  BY <1>1, <1>2, <1>3
<1>5. /\ emits'[i].over /\ emits'[i].listeners = emits[i].listeners
      /\ emits'[i].name = emits[i].name /\ emits'[i].calls = emits[i].calls
      /\ emits'[i].before = emits[i].before
  <2> DEFINE r == [emits[i] EXCEPT !.over = TRUE]
  <2> HIDE DEF r
  <2>0. emits' = [emits EXCEPT ![i] = r]
    BY <1>1 DEF r
  <2>1. emits'[i] = r
    BY <1>2, <2>0
  <2> QED BY <1>2, <2>1 DEF EmitRec, r
<1>6. \A k \in 1 .. Len(emits) :
        /\ emits'[k].listeners = emits[k].listeners
        /\ emits'[k].name = emits[k].name /\ emits'[k].before = emits[k].before
        /\ emits'[k].calls = emits[k].calls
  BY <1>4, <1>5
<1>7. \A k \in 1 .. Len(emits) : Calls(k)' = Calls(k) /\ Bus!HasNext(k)' = Bus!HasNext(k)
                                 /\ NoAsync(k)' = NoAsync(k)
  BY <1>6 DEF Calls, Bus!HasNext, NoAsync
<1>8. Typed'
  <2>1. \A k \in 1 .. Len(emits) : Calls(k)' <= Len(emits'[k].listeners)
                                   /\ DOMAIN emits'[k].before = 1 .. k - 1
    BY <1>6, <1>7 DEF BusInv, Typed
  <2>2. turn' \in 0 .. Len(emits')
    BY <1>1, <1>2, <1>4
  <2> QED BY <1>1, <1>4, <2>1, <2>2 DEF BusInv, Typed, Listed
<1>9. i \notin Bus!Range(ready)
  BY <1>1 DEF BusInv, Queued
<1>10. Queued'
  <2>1. ASSUME NEW k \in Bus!Range(ready)
        PROVE  ~emits'[k].over /\ emits'[k].calls # <<>>
    <3>1. k \in 1 .. Len(emits) /\ k # i
      BY <1>9 DEF BusInv, Typed, Bus!Range
    <3> QED BY <1>4, <3>1 DEF BusInv, Queued
  <2>2. ASSUME NEW k \in 1 .. Len(emits)
        PROVE  /\ emits'[k].over => ~Bus!HasNext(k)'
               /\ turn' # k /\ ~emits'[k].over /\ k \notin Bus!Range(ready')
                  => emits'[k].calls # <<>> /\ Bus!Last(emits'[k].calls) = "async"
    <3>1. CASE k = i
      BY <1>1, <1>5, <1>7, <3>1
    <3>2. CASE k # i
      BY <1>1, <1>4, <1>7, <3>2 DEF BusInv, Queued, Bus!AllCalled
    <3> QED BY <3>1, <3>2
  <2>3. Bus!AllCalled'
    BY <1>4, <2>2 DEF Bus!AllCalled
  <2> QED BY <1>1, <2>1, <2>3 DEF Queued
<1>11. Queues'
  <2> SUFFICES ASSUME NEW j \in 1 .. Len(emits), NEW k \in 1 .. j - 1,
                      NoAsync(k)', Bus!HasNext(k)'
               PROVE  /\ \A q \in 1 .. Calls(j)' :
                           NoThrow(j, q - 1)' => Calls(k)' >= q
                      /\ NoThrow(j, Calls(j))' /\ (turn' = j \/ Behind(j, k)')
                           => Calls(k)' > Calls(j)'
    BY <1>4 DEF Queues, Ahead
  <2>1. k \in 1 .. Len(emits) /\ turn' # j
    BY <1>1, <1>2
  <2>2. Calls(k)' = Calls(k) /\ NoAsync(k) /\ Bus!HasNext(k) /\ Calls(j)' = Calls(j)
    BY <1>7, <2>1
  <2>3. (\A q : NoThrow(j, q)' = NoThrow(j, q)) /\ (Behind(j, k)' <=> Behind(j, k))
    BY <1>1, <1>6 DEF NoThrow, Behind
  <2>4. NoThrow(j, Calls(j))' = NoThrow(j, Calls(j))
    BY <1>6, <2>2 DEF NoThrow
  <2> QED BY <2>1, <2>2, <2>3, <2>4 DEF BusInv, Queues, Ahead
<1>12. Registered' /\ Snapshots' /\ Bus!OnceOnly'
  BY <1>1, <1>4, <1>6, ListedKept
<1> QED BY <1>8, <1>10, <1>11, <1>12 DEF BusInv

------------------------------------------------------------------------------
LEMMA BusStep == Bus!BusAssumption /\ BusInv /\ [Bus!Next]_busVars => BusInv'
<1> SUFFICES ASSUME Bus!BusAssumption, BusInv, [Bus!Next]_busVars PROVE BusInv'
  OBVIOUS
<1>1. ASSUME NEW n \in EventNames, Bus!Emit(n) PROVE BusInv'
  BY <1>1, EmitInv
<1>2. ASSUME NEW n \in EventNames, NEW l \in Named, Bus!Subscribe(n, l) PROVE BusInv'
  BY <1>2, SubscribeInv
<1>3. ASSUME NEW l \in ForAll, Bus!SubscribeAll(l) PROVE BusInv'
  BY <1>3, SubscribeAllInv
<1>4. ASSUME NEW l \in Named \cup ForAll, Bus!Unsubscribe(l) PROVE BusInv'
  BY <1>4, UnsubscribeInv
<1>5. CASE Bus!Clear
  BY <1>5, ClearInv
<1>6. CASE Bus!Resume
  BY <1>6, ResumeInv
<1>7. ASSUME NEW i \in 1 .. Len(emits), Bus!Settles(i) PROVE BusInv'
  BY <1>7, SettlesInv
<1>8. ASSUME NEW i \in 1 .. Len(emits), Bus!Done(i) PROVE BusInv'
  BY <1>8, DoneInv
<1>9. ASSUME NEW i \in 1 .. Len(emits), NEW end \in Bus!Ends, Bus!Call(i, end) PROVE BusInv'
  BY <1>9, CallInv
<1>10. CASE UNCHANGED busVars
  <2>1. Elsewhere /\ Listed
    BY <1>10 DEF busVars, Elsewhere, Listed
  <2>2. Typed'
    BY <2>1 DEF BusInv, Typed, Elsewhere, Listed, Calls
  <2>3. Registered' /\ Snapshots' /\ Bus!OnceOnly'
    BY <2>1, ListedKept DEF Elsewhere
  <2> QED BY <2>1, <2>2, <2>3, ElsewhereKept DEF BusInv
<1> QED
  BY <1>1, <1>2, <1>3, <1>4, <1>5, <1>6, <1>7, <1>8, <1>9, <1>10 DEF Bus!Next

\* An emit without an asynchronous listener is overtaken by none whose
\* listeners do not throw.
LEMMA QueuesInOrder == BusInv => Bus!InOrder
<1> SUFFICES ASSUME BusInv,
                    NEW j \in 1 .. Len(emits), NEW i \in 1 .. j - 1,
                    NEW q \in 1 .. Len(emits[j].listeners),
                    NEW p \in 1 .. Len(emits[i].listeners),
                    p <= q, Bus!Overtakes(j, q, i, p),
                    "async" \notin Bus!Range(emits[i].calls)
             PROVE  \E k \in 1 .. q - 1 : emits[j].calls[k] = "throws"
  BY DEF Bus!InOrder
<1>1. Len(emits) \in Nat
  BY DEF BusInv, Typed
<1>2. i \in 1 .. Len(emits)
  BY <1>1
<1>3. /\ Calls(i) \in Nat /\ Calls(j) \in Nat
      /\ Len(emits[i].listeners) \in Nat /\ Len(emits[j].listeners) \in Nat
  BY <1>2, Fields DEF BusInv
<1>4. NoAsync(i)
  BY DEF NoAsync, Bus!Range
<1>5. Calls(j) >= q /\ Calls(i) < p
  BY DEF Bus!Overtakes, Calls
<1>6. Bus!HasNext(i)
  BY <1>3, <1>5 DEF Bus!HasNext, Calls
<1>7. q \in 1 .. Calls(j) /\ ~(Calls(i) >= q)
  BY <1>3, <1>5
<1>8. Ahead(i, j)
  BY DEF BusInv, Queues
<1>9. ~NoThrow(j, q - 1)
  BY <1>4, <1>6, <1>7, <1>8 DEF Ahead
<1> QED BY <1>9 DEF NoThrow

LEMMA BusInvKept == BusInv => Bus!EventsKept /\ Bus!TypeOK
  BY QueuesInOrder, TypedIsTypeOK DEF BusInv, Queued, Bus!EventsKept

------------------------------------------------------------------------------
(***************************************************************************)
(* SkillGate.  Toggles: what the file says of a skill is what was asked    *)
(* for last, unless its one request has not got past the listing, and then *)
(* the request says so.  Loaders: each is kept under the number of skills  *)
(* it hides, and the one built for a session was asked for as the session  *)
(* started.                                                                *)
(***************************************************************************)
Off == (SUBSET Skills) \cup {None}
LoaderRec == [key : Nat, hides : SUBSET Skills]
BuildRec == [key : Nat, hides : SUBSET Skills, old : BOOLEAN,
             for : Sessions \cup {None}]

SwitchesTyped ==
  /\ disabled \in SUBSET Skills /\ wanted \in SUBSET Skills
  /\ asks \in SUBSET Gate!Asks /\ memo \in [Tabs -> Off]
LoadersTyped ==
  /\ cache \in SUBSET LoaderRec /\ builds \in SUBSET BuildRec
  /\ hides \in [Sessions -> Off] /\ atStart \in [Sessions -> Off]

\* The request that will say so, and no other of its skill.
Asked(a) == a.has = None =>
  /\ a.skill \in Skills
  /\ a.off => a.skill \in wanted
  /\ ~a.off => a.skill \notin wanted
Settled(k) == (\A a \in asks : a.skill = k => a.has # None)
              => (k \in disabled <=> k \in wanted)
Switches ==
  /\ \A a \in asks : Asked(a)
  /\ \A a, b \in asks : a.skill = b.skill /\ a.skill \in Skills => a = b
  /\ \A k \in Skills : Settled(k)

\* As many as were off as session s was started.
AsMany(s, key) == atStart[s] \in SUBSET Skills /\ key = Gate!Key(atStart[s])
Keyed ==
  /\ \A e \in cache \cup builds : e.key = Gate!Key(e.hides)
  /\ \A b \in builds : b.for \in Sessions => AsMany(b.for, b.key)
  /\ \A s \in Sessions : hides[s] # None => AsMany(s, Gate!Key(hides[s]))

GateInv == SwitchesTyped /\ LoadersTyped /\ Switches /\ Keyed

\* The number of skills that are off is a number.
LEMMA KeyType ==
  ASSUME Gate!GateAssumption, NEW D \in SUBSET Skills
  PROVE  Gate!Key(D) \in Nat
<1>1. IsFiniteSet(Skills)
  BY DEF Gate!GateAssumption, Gate!IsFiniteSet, IsFiniteSet
<1>2. Cardinality(D) \in Nat
  BY <1>1, FS_Subset, FS_CardinalityType
<1>3. Gate!Cardinality(D) = Cardinality(D)
  BY DEF Gate!Cardinality, Cardinality
<1> QED BY <1>2, <1>3 DEF Gate!Key

LEMMA GateInit == ASSUME Gate!GateAssumption, Gate!Init PROVE GateInv
<1>1. SwitchesTyped /\ LoadersTyped
  BY DEF Gate!Init, Gate!GateAssumption, SwitchesTyped, LoadersTyped, Off
<1>2. Switches
  BY DEF Gate!Init, Switches, Settled
<1>3. Keyed
  BY DEF Gate!Init, Keyed
<1> QED BY <1>1, <1>2, <1>3 DEF GateInv

\* The switches' part of the state and the loaders' part keep to themselves.
LEMMA SwitchesAlone ==
  ASSUME GateInv, SwitchesTyped', Switches', UNCHANGED Gate!loaders
  PROVE  GateInv'
<1>1. /\ cache' = cache /\ builds' = builds
      /\ hides' = hides /\ atStart' = atStart
  BY DEF Gate!loaders
<1>2. LoadersTyped'
  BY <1>1 DEF GateInv, LoadersTyped
<1>3. Keyed'
  BY <1>1 DEF GateInv, Keyed, AsMany
<1> QED BY <1>2, <1>3 DEF GateInv

LEMMA LoadersAlone ==
  ASSUME GateInv, LoadersTyped', Keyed', UNCHANGED Gate!gate
  PROVE  GateInv'
<1>1. /\ disabled' = disabled /\ asks' = asks
      /\ memo' = memo /\ wanted' = wanted
  BY DEF Gate!gate
<1>2. SwitchesTyped'
  BY <1>1 DEF GateInv, SwitchesTyped
<1>3. Switches'
  BY <1>1 DEF GateInv, Switches, Asked, Settled
<1> QED BY <1>2, <1>3 DEF GateInv

\* Requests of the settings view.
LEMMA MountInv ==
  ASSUME Gate!GateAssumption, GateInv, NEW t \in Tabs, Gate!Mount(t)
  PROVE  GateInv'
<1> DEFINE a == [tab |-> t, skill |-> None, off |-> FALSE, has |-> disabled]
<1>1. asks' = asks \cup {a} /\ disabled' = disabled /\ memo' = memo /\ wanted' = wanted
  BY DEF Gate!Mount, Gate!Ask
<1>2. SwitchesTyped /\ Switches
  BY DEF GateInv
<1>3. a \in Gate!Asks
  BY <1>2 DEF SwitchesTyped, Gate!Asks
<1>4. a.skill = None /\ a.has # None /\ None \notin Skills
  BY <1>2 DEF Gate!GateAssumption, SwitchesTyped
<1> HIDE DEF a
<1>5. SwitchesTyped'
  BY <1>1, <1>2, <1>3 DEF SwitchesTyped
<1>6. Switches'
  <2>1. \A b \in asks' : Asked(b)'
    BY <1>1, <1>2, <1>4 DEF Switches, Asked
  <2>2. \A b, c \in asks' : b.skill = c.skill /\ b.skill \in Skills => b = c
    BY <1>1, <1>2, <1>4 DEF Switches
  <2>3. \A k \in Skills : Settled(k)'
    BY <1>1, <1>2, <1>4 DEF Switches, Settled
  <2> QED BY <2>1, <2>2, <2>3 DEF Switches
<1> QED BY <1>5, <1>6, SwitchesAlone DEF Gate!Mount

LEMMA ToggleInv ==
  ASSUME Gate!GateAssumption, GateInv, NEW t \in Tabs, NEW k \in Switched, Gate!Toggle(t, k)
  PROVE  GateInv'
<1> DEFINE a == [tab |-> t, skill |-> k, off |-> k \notin memo[t], has |-> None]
<1>1. asks' = asks \cup {a} /\ disabled' = disabled /\ memo' = memo
  BY DEF Gate!Toggle, Gate!Ask
<1>2. wanted' = IF k \in memo[t] THEN wanted \ {k} ELSE wanted \cup {k}
  BY DEF Gate!Toggle
<1>3. SwitchesTyped /\ Switches /\ k \in Skills
  BY DEF GateInv, Gate!GateAssumption
<1>4. a \in Gate!Asks
  BY <1>3 DEF SwitchesTyped, Gate!Asks
<1>5. /\ a.skill = k /\ a.has = None
      /\ a.off => k \in wanted'
      /\ ~a.off => k \notin wanted'
  BY <1>2
<1>6. \A b \in asks : b.skill # k
  BY DEF Gate!Toggle
<1>7. \A j \in Skills : j # k => (j \in wanted' <=> j \in wanted)
  BY <1>2
<1>8. wanted' \in SUBSET Skills
  BY <1>2, <1>3 DEF SwitchesTyped
<1> HIDE DEF a
<1>9. SwitchesTyped'
  BY <1>1, <1>3, <1>4, <1>8 DEF SwitchesTyped
<1>10. Switches'
  <2>1. \A b \in asks' : Asked(b)'
    BY <1>1, <1>3, <1>5, <1>6, <1>7 DEF Switches, Asked
  <2>2. \A b, c \in asks' : b.skill = c.skill /\ b.skill \in Skills => b = c
    BY <1>1, <1>3, <1>5, <1>6 DEF Switches
  <2>3. \A j \in Skills : Settled(j)'
    BY <1>1, <1>3, <1>5, <1>7 DEF Switches, Settled
  <2> QED BY <2>1, <2>2, <2>3 DEF Switches
<1> QED BY <1>9, <1>10, SwitchesAlone DEF Gate!Toggle

LEMMA SetEnabledInv ==
  ASSUME Gate!GateAssumption, GateInv, NEW a \in asks, Gate!SetEnabled(a)
  PROVE  GateInv'
<1> DEFINE b == [a EXCEPT !.has = disabled']
<1>1. asks' = (asks \ {a}) \cup {b} /\ memo' = memo /\ wanted' = wanted
  BY DEF Gate!SetEnabled
<1>2. disabled' = Skills \cap IF a.off THEN disabled \cup {a.skill}
                                       ELSE disabled \ {a.skill}
  BY DEF Gate!SetEnabled, Gate!Store
<1>3. SwitchesTyped /\ Switches /\ a.has = None /\ Asked(a)
  BY DEF GateInv, Gate!SetEnabled, Switches
<1>4. disabled' \in SUBSET Skills /\ disabled' # None
  BY <1>2 DEF Gate!GateAssumption
<1>5. b \in Gate!Asks /\ b.skill = a.skill /\ b.has # None
  BY <1>3, <1>4 DEF SwitchesTyped, Gate!Asks
<1>6. \A k \in Skills : k # a.skill => (k \in disabled' <=> k \in disabled)
  BY <1>2, <1>3 DEF SwitchesTyped
<1>7. a.skill \in Skills /\ (a.skill \in disabled' <=> a.skill \in wanted)
  BY <1>2, <1>3 DEF Asked
<1> HIDE DEF b
<1>8. SwitchesTyped'
  BY <1>1, <1>3, <1>4, <1>5 DEF SwitchesTyped
<1>9. Switches'
  <2>1. \A c \in asks' : Asked(c)'
    BY <1>1, <1>3, <1>5 DEF Switches, Asked
  <2>2. \A c, d \in asks' : c.skill = d.skill /\ c.skill \in Skills => c = d
    BY <1>1, <1>3, <1>5 DEF Switches
  <2>3. \A k \in Skills : Settled(k)'
    <3> SUFFICES ASSUME NEW k \in Skills, \A c \in asks' : c.skill = k => c.has # None
                 PROVE  k \in disabled' <=> k \in wanted
      BY <1>1 DEF Settled
    <3>1. CASE k = a.skill
      BY <3>1, <1>7
    <3>2. CASE k # a.skill
      <4>1. \A c \in asks : c.skill = k => c.has # None
        BY <3>2, <1>1
      <4> QED BY <4>1, <3>2, <1>3, <1>6 DEF Switches, Settled
    <3> QED BY <3>1, <3>2
  <2> QED BY <2>1, <2>2, <2>3 DEF Switches
<1> QED BY <1>8, <1>9, SwitchesAlone DEF Gate!SetEnabled

\* An answer, or its view is closed: the request goes.
LEMMA AnsweredInv ==
  ASSUME Gate!GateAssumption, GateInv, NEW a \in asks, Gate!Answer(a) \/ Gate!Ignored(a)
  PROVE  GateInv'
<1>1. asks' = asks \ {a} /\ disabled' = disabled /\ wanted' = wanted
  BY DEF Gate!Answer, Gate!Ignored
<1>2. SwitchesTyped /\ Switches /\ a \in Gate!Asks
  BY DEF GateInv, SwitchesTyped
<1>3. memo' \in [Tabs -> Off]
  BY <1>2 DEF Gate!Answer, Gate!Ignored, SwitchesTyped, Gate!Asks, Off
<1>4. a.has # None \/ a.skill \notin Skills
  BY DEF Gate!Answer, Gate!Ignored, Gate!GateAssumption
<1>5. SwitchesTyped'
  BY <1>1, <1>2, <1>3 DEF SwitchesTyped
<1>6. Switches'
  <2>1. \A b \in asks' : Asked(b)'
    BY <1>1, <1>2 DEF Switches, Asked
  <2>2. \A b, c \in asks' : b.skill = c.skill /\ b.skill \in Skills => b = c
    BY <1>1, <1>2 DEF Switches
  <2>3. \A k \in Skills : Settled(k)'
    BY <1>1, <1>2, <1>4 DEF Switches, Settled
  <2> QED BY <2>1, <2>2, <2>3 DEF Switches
<1> QED BY <1>5, <1>6, SwitchesAlone DEF Gate!Answer, Gate!Ignored

\* Loaders.
LEMMA PendingType ==
  ASSUME Gate!GateAssumption, GateInv, NEW s \in Sessions \cup {None}
  PROVE  /\ Gate!Pending(s) \in BuildRec
         /\ Gate!Pending(s).key = Gate!Key(disabled)
         /\ Gate!Pending(s).hides = disabled /\ Gate!Pending(s).for = s
<1>1. disabled \in SUBSET Skills
  BY DEF GateInv, SwitchesTyped
<1>2. Gate!Key(disabled) \in Nat
  BY <1>1, KeyType
<1> QED BY <1>1, <1>2 DEF Gate!Pending, BuildRec

LEMMA StartInv ==
  ASSUME Gate!GateAssumption, GateInv, NEW s \in Sessions, Gate!StartSession(s)
  PROVE  GateInv'
<1>1. /\ cache' = cache /\ atStart' = [atStart EXCEPT ![s] = disabled]
      /\ hides[s] = None /\ disabled' = disabled /\ \A b \in builds : b.for # s
  BY DEF Gate!StartSession, Gate!gate
<1>2. LoadersTyped /\ Keyed /\ disabled \in SUBSET Skills
  BY DEF GateInv, SwitchesTyped
<1>3. atStart' \in [Sessions -> Off] /\ AsMany(s, Gate!Key(disabled))'
  BY <1>1, <1>2 DEF LoadersTyped, Off, AsMany
<1>4. \A r \in Sessions : \A n : r # s /\ AsMany(r, n) => AsMany(r, n)'
  BY <1>1, <1>2 DEF LoadersTyped, AsMany
<1>5. ASSUME NEW h \in SUBSET Skills, Gate!Key(h) = Gate!Key(disabled),
             hides' = [hides EXCEPT ![s] = h], builds' = builds
      PROVE  LoadersTyped' /\ Keyed'
  <2>1. LoadersTyped'
    BY <1>1, <1>2, <1>3, <1>5 DEF LoadersTyped, Off
  <2>2. \A b \in builds' : b.for \in Sessions => AsMany(b.for, b.key)'
    BY <1>1, <1>2, <1>4, <1>5 DEF Keyed
  <2>3. ASSUME NEW r \in Sessions, hides'[r] # None
        PROVE  AsMany(r, Gate!Key(hides[r]))'
    <3>1. CASE r = s
      BY <3>1, <1>1, <1>2, <1>3, <1>5 DEF LoadersTyped, AsMany
    <3>2. CASE r # s
      BY <3>2, <2>3, <1>2, <1>4, <1>5 DEF LoadersTyped, Keyed
    <3> QED BY <3>1, <3>2
  <2> QED BY <1>1, <1>2, <1>5, <2>1, <2>2, <2>3 DEF Keyed
<1>6. ASSUME builds' = builds \cup {Gate!Pending(s)}, hides' = hides
      PROVE  LoadersTyped' /\ Keyed'
  <2>1. LoadersTyped'
    BY <1>1, <1>2, <1>3, <1>6, PendingType DEF LoadersTyped
  <2>2. \A b \in builds' : b.for \in Sessions => AsMany(b.for, b.key)'
    BY <1>1, <1>2, <1>3, <1>4, <1>6, PendingType DEF Keyed
  <2>3. \A r \in Sessions : hides'[r] # None => AsMany(r, Gate!Key(hides[r]))'
    BY <1>1, <1>2, <1>4, <1>6 DEF Keyed
  <2>4. \A e \in cache' \cup builds' : e.key = Gate!Key(e.hides)
    BY <1>1, <1>2, <1>6, PendingType DEF Keyed
  <2> QED BY <1>6, <2>1, <2>2, <2>3, <2>4 DEF Keyed
<1>7. LoadersTyped' /\ Keyed'
  <2>1. CASE \E e \in Gate!Cached(Gate!Key(disabled)) :
               hides' = [hides EXCEPT ![s] = e.hides] /\ UNCHANGED builds
    BY <2>1, <1>2, <1>5 DEF Gate!Cached, LoadersTyped, LoaderRec, Keyed
  <2>2. CASE /\ disabled = {} /\ hides' = [hides EXCEPT ![s] = {}]
             /\ UNCHANGED builds
    BY <2>2, <1>5
  <2>3. CASE builds' = builds \cup {Gate!Pending(s)} /\ UNCHANGED hides
    BY <2>3, <1>6
  <2> QED BY <2>1, <2>2, <2>3 DEF Gate!StartSession
<1> QED BY <1>7, LoadersAlone DEF Gate!StartSession

LEMMA PrewarmInv ==
  ASSUME Gate!GateAssumption, GateInv, Gate!Prewarm
  PROVE  GateInv'
<1> DEFINE p == Gate!Pending(None)
<1>1. /\ cache' = cache /\ hides' = hides /\ atStart' = atStart
      /\ builds' = builds \cup {p}
  BY DEF Gate!Prewarm
<1>2. LoadersTyped /\ Keyed
  BY DEF GateInv
<1>3. p \in BuildRec /\ p.key = Gate!Key(p.hides) /\ p.for \notin Sessions
  BY PendingType DEF Gate!GateAssumption
<1> HIDE DEF p
<1>4. LoadersTyped'
  BY <1>1, <1>2, <1>3 DEF LoadersTyped
<1>5. Keyed'
  BY <1>1, <1>2, <1>3 DEF Keyed, AsMany
<1> QED BY <1>4, <1>5, LoadersAlone DEF Gate!Prewarm

LEMMA BuiltInv ==
  ASSUME Gate!GateAssumption, GateInv, NEW b \in builds, Gate!Built(b)
  PROVE  GateInv'
<1>1. /\ atStart' = atStart /\ builds' = builds \ {b}
      /\ hides' = [s \in Sessions |-> IF s = b.for THEN b.hides ELSE hides[s]]
  BY DEF Gate!Built
<1>2. LoadersTyped /\ Keyed /\ b \in BuildRec
  BY DEF GateInv, LoadersTyped
<1>3. \A e \in cache' : e \in cache \/ e = [key |-> b.key, hides |-> b.hides]
  BY DEF Gate!Built
<1>4. \A e \in cache' : e \in LoaderRec /\ e.key = Gate!Key(e.hides)
  BY <1>2, <1>3 DEF LoadersTyped, LoaderRec, BuildRec, Keyed
<1>5. LoadersTyped'
  BY <1>1, <1>2, <1>4 DEF LoadersTyped, BuildRec, Off
<1>6. \A s \in Sessions : hides'[s] # None => AsMany(s, Gate!Key(hides'[s]))
  BY <1>1, <1>2 DEF Keyed
<1>7. Keyed'
  BY <1>1, <1>2, <1>4, <1>6 DEF Keyed, AsMany
<1> QED BY <1>5, <1>7, LoadersAlone DEF Gate!Built

LEMMA EditSettingsInv ==
  ASSUME Gate!GateAssumption, GateInv, Gate!EditSettings
  PROVE  GateInv'
<1> DEFINE Old(b) == [b EXCEPT !.old = TRUE]
<1>1. /\ cache' = {} /\ hides' = hides /\ atStart' = atStart
      /\ builds' = {Old(b) : b \in builds}
  BY DEF Gate!EditSettings
<1>2. LoadersTyped /\ Keyed
  BY DEF GateInv
<1>3. \A b \in BuildRec : /\ Old(b) \in BuildRec /\ Old(b).key = b.key
                          /\ Old(b).hides = b.hides /\ Old(b).for = b.for
  BY Zenon DEF BuildRec
<1> HIDE DEF Old
<1>4. LoadersTyped'
  BY <1>1, <1>2, <1>3 DEF LoadersTyped
<1>5. Keyed'
  BY <1>1, <1>2, <1>3 DEF LoadersTyped, Keyed, AsMany
<1> QED BY <1>4, <1>5, LoadersAlone DEF Gate!EditSettings

LEMMA DisposeInv ==
  ASSUME Gate!GateAssumption, GateInv, NEW s \in Sessions, Gate!Dispose(s)
  PROVE  GateInv'
<1>1. /\ cache' = cache /\ builds' = builds /\ atStart' = atStart
      /\ hides' = [hides EXCEPT ![s] = None]
  BY DEF Gate!Dispose
<1>2. LoadersTyped /\ Keyed
  BY DEF GateInv
<1>3. LoadersTyped'
  BY <1>1, <1>2 DEF LoadersTyped, Off
<1>4. Keyed'
  BY <1>1, <1>2 DEF LoadersTyped, Keyed, AsMany
<1> QED BY <1>3, <1>4, LoadersAlone DEF Gate!Dispose

LEMMA GateStep ==
  ASSUME Gate!GateAssumption, GateInv, [Gate!Next]_gateVars
  PROVE  GateInv'
<1>1. CASE UNCHANGED gateVars
  BY <1>1 DEF gateVars, GateInv, SwitchesTyped, LoadersTyped, Switches, Asked,
              Settled, Keyed, AsMany
<1>2. ASSUME NEW t \in Tabs, Gate!TabStep(t) PROVE GateInv'
  BY <1>2, MountInv, ToggleInv, SetEnabledInv, AnsweredInv DEF Gate!TabStep
<1>3. CASE Gate!LoaderStep
  BY <1>3, StartInv, DisposeInv, BuiltInv, PrewarmInv, EditSettingsInv
     DEF Gate!LoaderStep
<1> QED BY <1>1, <1>2, <1>3 DEF Gate!Next

LEMMA GateInvKept ==
  ASSUME GateInv
  PROVE  Gate!TypeOK /\ Gate!HiddenInNumber /\ Gate!TogglesKept
<1>1. Gate!TypeOK
  BY DEF GateInv, SwitchesTyped, LoadersTyped, LoaderRec, BuildRec, Off, Keyed, AsMany,
         Gate!TypeOK
<1>2. Gate!HiddenInNumber
  BY DEF GateInv, LoadersTyped, Keyed, AsMany, Gate!Key, Gate!HiddenInNumber
<1>3. Gate!TogglesKept
  <2> SUFFICES ASSUME \A a \in asks : a.has # None PROVE disabled = wanted
    BY DEF Gate!TogglesKept
  <2>1. \A k \in Skills : k \in disabled <=> k \in wanted
    BY DEF GateInv, Switches, Settled
  <2> QED BY <2>1 DEF GateInv, SwitchesTyped
<1> QED BY <1>1, <1>2, <1>3

------------------------------------------------------------------------------
(***************************************************************************)
(* Queues of calls: what they hold when one is taken and others are put    *)
(***************************************************************************)
In(q) == {q[i] : i \in DOMAIN q}

LEMMA InAppend ==
  ASSUME NEW C, NEW q \in Seq(C), NEW c \in C
  PROVE  Append(q, c) \in Seq(C) /\ In(Append(q, c)) = In(q) \cup {c}
<1>1. /\ Append(q, c) \in Seq(C) /\ Len(Append(q, c)) = Len(q) + 1
      /\ \A i \in 1 .. Len(q) : Append(q, c)[i] = q[i]
      /\ Append(q, c)[Len(q) + 1] = c
  OBVIOUS
<1>2. DOMAIN q = 1 .. Len(q) /\ DOMAIN Append(q, c) = 1 .. Len(q) + 1
      /\ Len(q) \in Nat
  BY <1>1
<1>3. 1 .. Len(q) + 1 = (1 .. Len(q)) \cup {Len(q) + 1}
  BY <1>2
<1> QED BY <1>1, <1>2, <1>3 DEF In

LEMMA InTail ==
  ASSUME NEW C, NEW q \in Seq(C), q # <<>>
  PROVE  /\ Head(q) \in In(q) /\ Head(q) \in C /\ Tail(q) \in Seq(C)
         /\ Tail(q) \o <<>> = Tail(q)
         /\ In(q) = In(Tail(q)) \cup {Head(q)}
<1>1. /\ Tail(q) \in Seq(C) /\ Len(Tail(q)) = Len(q) - 1 /\ Len(q) \in Nat \ {0}
      /\ \A i \in 1 .. Len(q) - 1 : Tail(q)[i] = q[i + 1]
      /\ Head(q) = q[1] /\ Head(q) \in C
  OBVIOUS
<1>2. DOMAIN q = 1 .. Len(q) /\ DOMAIN Tail(q) = 1 .. Len(q) - 1
  BY <1>1
<1>3. \A i \in 1 .. Len(q) :
        i = 1 \/ (i - 1 \in 1 .. Len(q) - 1 /\ (i - 1) + 1 = i)
  BY <1>1
<1>4. \A i \in 1 .. Len(q) - 1 : i + 1 \in 1 .. Len(q)
  BY <1>1
<1>5. 1 \in 1 .. Len(q)
  BY <1>1
<1>6. In(q) \subseteq In(Tail(q)) \cup {Head(q)}
  <2> SUFFICES ASSUME NEW i \in 1 .. Len(q), i # 1 PROVE q[i] \in In(Tail(q))
    BY <1>1, <1>2 DEF In
  <2>1. i - 1 \in DOMAIN Tail(q) /\ Tail(q)[i - 1] = q[i]
    BY <1>1, <1>2, <1>3
  <2> QED BY <2>1 DEF In
<1>7. In(Tail(q)) \subseteq In(q) /\ Head(q) \in In(q)
  BY <1>1, <1>2, <1>4, <1>5 DEF In
<1>8. Tail(q) \o <<>> = Tail(q)
  BY <1>1
<1> QED BY <1>1, <1>6, <1>7, <1>8

LEMMA InThen ==
  ASSUME NEW C, NEW q \in Seq(C), q # <<>>, NEW c \in C
  PROVE  /\ Tail(q) \o <<c>> \in Seq(C)
         /\ In(Tail(q) \o <<c>>) = In(Tail(q)) \cup {c}
<1> DEFINE t == Tail(q)
<1>1. t \in Seq(C) /\ t \o <<c>> = Append(t, c)
  OBVIOUS
<1> HIDE DEF t
<1>2. Append(t, c) \in Seq(C) /\ In(Append(t, c)) = In(t) \cup {c}
  BY <1>1, InAppend
<1> QED BY <1>1, <1>2 DEF t

LEMMA InEmpty == In(<<>>) = {} /\ \A c : In(<<c>>) = {c}
  BY DEF In

------------------------------------------------------------------------------
(***************************************************************************)
(* McpEditor.  Whenever the page lists of a server, or the sessions know   *)
(* of it, something else than mcp.json has, a call is under way that makes *)
(* up for it: a refresh, or a save that has stored the server already and  *)
(* will ask for one; or a save failed after it had stored the server.      *)
(***************************************************************************)
EditorRec == [adding : BOOLEAN, editing : BOOLEAN, removing : SUBSET McpNames]
PutOps == {"mcp.add", "mcp.update"}

McpTyped ==
  /\ mcpJson \in Mcp!Files /\ servers \in Mcp!Files /\ reloaded \in Mcp!Files
  /\ editor \in EditorRec /\ partial \in SUBSET McpNames
  /\ mcpCalls \in Seq(Mcp!Calls)

\* A call to put servers has one left, and says what each is.
Named1(c) == c.op \in PutOps => c.left # {} /\ c.left \subseteq DOMAIN c.with

\* What is known of server n is what file f has.
Sees(known, f, n) ==
  (n \in DOMAIN f <=> n \in DOMAIN known) /\ (n \in DOMAIN f => known[n] = f[n])
WillList(c, n) ==
  c.op = "mcp.list" \/ (c.op \in PutOps /\ n \in DOMAIN c.with \ c.left)
WillReload(c, n) == WillList(c, n) /\ (c.op = "mcp.list" => c.reload)
Owed ==
  /\ \A c \in In(mcpCalls) : Named1(c)
  /\ \A n \in McpNames \ partial :
       /\ Sees(servers, mcpJson, n) \/ \E c \in In(mcpCalls) : WillList(c, n)
       /\ Sees(reloaded, mcpJson, n) \/ \E c \in In(mcpCalls) : WillReload(c, n)

McpInv == McpTyped /\ Owed

LEMMA FileType ==
  /\ Mcp!Nothing \in Mcp!Files /\ DOMAIN Mcp!Nothing = {}
  /\ \A f \in Mcp!Files : /\ DOMAIN f \in SUBSET McpNames
                          /\ f \in [DOMAIN f -> Mcp!Configs]
                          /\ DOMAIN f = {} => f = Mcp!Nothing
  /\ \A N \in SUBSET McpNames : [N -> Mcp!Configs] \subseteq Mcp!Files
<1>1. \A f : f \in Mcp!Files <=> \E N \in SUBSET McpNames : f \in [N -> Mcp!Configs]
  BY DEF Mcp!Files
<1>2. DOMAIN Mcp!Nothing = {} /\ Mcp!Nothing \in [{} -> Mcp!Configs]
  BY DEF Mcp!Nothing
<1>3. \A f \in Mcp!Files : DOMAIN f = {} => f = Mcp!Nothing
  BY <1>1 DEF Mcp!Nothing
<1> QED BY <1>1, <1>2, <1>3

LEMMA CallType ==
  /\ \A r, x \in BOOLEAN : /\ Mcp!Refresh(r, x) \in Mcp!Calls
                           /\ Mcp!Refresh(r, x).op = "mcp.list"
                           /\ Mcp!Refresh(r, x).reload = r
  /\ \A n \in McpNames : [op |-> "mcp.remove", name |-> n] \in Mcp!Calls
  /\ \A o \in PutOps, f \in Mcp!Files, b \in BOOLEAN :
       /\ Mcp!Put(o, f, b) \in Mcp!Calls /\ Mcp!Put(o, f, b).op = o
       /\ Mcp!Put(o, f, b).left = DOMAIN f /\ Mcp!Put(o, f, b).with = f
  /\ \A c \in Mcp!Calls : c.op \in PutOps => c \in Mcp!Puts
  /\ \A c \in Mcp!Calls : c.op = "mcp.remove" => c.name \in McpNames
<1>1. \A r, x \in BOOLEAN : /\ Mcp!Refresh(r, x) \in Mcp!Calls
                            /\ Mcp!Refresh(r, x).op = "mcp.list"
                            /\ Mcp!Refresh(r, x).reload = r
  BY DEF Mcp!Refresh, Mcp!Calls
<1>2. \A n \in McpNames : [op |-> "mcp.remove", name |-> n] \in Mcp!Calls
  BY DEF Mcp!Calls
<1>3. \A o \in PutOps, f \in Mcp!Files, b \in BOOLEAN :
       /\ Mcp!Put(o, f, b) \in Mcp!Calls /\ Mcp!Put(o, f, b).op = o
       /\ Mcp!Put(o, f, b).left = DOMAIN f /\ Mcp!Put(o, f, b).with = f
  BY FileType DEF Mcp!Put, Mcp!Puts, Mcp!Calls, PutOps
<1>4. \A c \in Mcp!Calls : c.op \in PutOps => c \in Mcp!Puts
  BY DEF Mcp!Calls, PutOps
<1>5. \A c \in Mcp!Calls : c.op = "mcp.remove" => c.name \in McpNames
  BY DEF Mcp!Calls, Mcp!Puts
<1> QED BY <1>1, <1>2, <1>3, <1>4, <1>5

LEMMA McpInit == ASSUME Mcp!EditorAssumption, Mcp!Init PROVE McpInv
<1> DEFINE c == Mcp!Refresh(FALSE, FALSE)
<1>1. c \in Mcp!Calls /\ c.op = "mcp.list" /\ mcpCalls = <<c>>
  BY CallType DEF Mcp!Init
<1> HIDE DEF c
<1>2. mcpCalls \in Seq(Mcp!Calls) /\ In(mcpCalls) = {c}
  BY <1>1, InEmpty
<1>3. Mcp!Closed \in EditorRec
  BY DEF Mcp!Closed, EditorRec
<1>4. McpTyped
  BY <1>2, <1>3, FileType DEF Mcp!Init, McpTyped
<1>5. \A n : WillList(c, n) /\ Sees(reloaded, mcpJson, n)
  BY <1>1 DEF Mcp!Init, WillList, Sees
<1>6. Owed
  BY <1>1, <1>2, <1>5 DEF Owed, Named1, PutOps
<1> QED BY <1>4, <1>6 DEF McpInv

\* A click changes neither mcp.json nor what is known of it, and sends a
\* call or none.
LEMMA Clicked ==
  ASSUME McpInv, UNCHANGED <<mcpJson, servers, reloaded, partial>>,
         editor' \in EditorRec,
         \/ mcpCalls' = mcpCalls
         \/ \E c \in Mcp!Calls : Named1(c) /\ mcpCalls' = Append(mcpCalls, c)
  PROVE  McpInv'
<1>1. /\ mcpCalls' \in Seq(Mcp!Calls)
      /\ In(mcpCalls) \subseteq In(mcpCalls')
      /\ \A c \in In(mcpCalls') : c \in In(mcpCalls) \/ Named1(c)
  <2>1. mcpCalls \in Seq(Mcp!Calls)
    BY DEF McpInv, McpTyped
  <2>2. CASE mcpCalls' = mcpCalls
    BY <2>1, <2>2
  <2>3. ASSUME NEW c \in Mcp!Calls, Named1(c), mcpCalls' = Append(mcpCalls, c)
        PROVE  <1>1!:
    <3>1. Append(mcpCalls, c) \in Seq(Mcp!Calls)
          /\ In(Append(mcpCalls, c)) = In(mcpCalls) \cup {c}
      BY <2>1, InAppend
    <3> QED BY <2>3, <3>1
  <2> QED BY <2>2, <2>3
<1>2. \A c \in In(mcpCalls') : Named1(c)
  BY <1>1 DEF McpInv, Owed
<1>3. ASSUME NEW n \in McpNames \ partial
      PROVE  /\ Sees(servers, mcpJson, n) \/ \E c \in In(mcpCalls') : WillList(c, n)
             /\ Sees(reloaded, mcpJson, n) \/ \E c \in In(mcpCalls') : WillReload(c, n)
  BY <1>1 DEF McpInv, Owed
<1>4. Owed'
  BY <1>2, <1>3 DEF Owed, Named1, WillList, WillReload, In, Sees
<1> QED BY <1>1, <1>4 DEF McpInv, McpTyped

LEMMA ClickInv ==
  ASSUME Mcp!EditorAssumption, McpInv,
         \/ Mcp!NewServer \/ Mcp!CloseEditor
         \/ \E n \in McpNames : Mcp!StartEdit(n) \/ Mcp!RemoveServer(n)
  PROVE  McpInv'
<1>1. editor \in EditorRec
  BY DEF McpInv, McpTyped
<1>2. CASE Mcp!NewServer
  <2>1. editor' \in EditorRec
    BY <1>1, <1>2 DEF Mcp!NewServer, EditorRec
  <2> QED BY <1>2, <2>1, Clicked DEF Mcp!NewServer
<1>3. CASE Mcp!CloseEditor
  <2>1. editor' \in EditorRec
    BY <1>1, <1>3 DEF Mcp!CloseEditor, EditorRec
  <2> QED BY <1>3, <2>1, Clicked DEF Mcp!CloseEditor
<1>4. ASSUME NEW n \in McpNames, Mcp!StartEdit(n) PROVE McpInv'
  <2>1. editor' \in EditorRec
    BY <1>1, <1>4 DEF Mcp!StartEdit, EditorRec
  <2> QED BY <1>4, <2>1, Clicked DEF Mcp!StartEdit
<1>5. ASSUME NEW n \in McpNames, Mcp!RemoveServer(n) PROVE McpInv'
  <2> DEFINE c == [op |-> "mcp.remove", name |-> n]
  <2>1. editor' \in EditorRec
    BY <1>1, <1>5 DEF Mcp!RemoveServer, EditorRec
  <2>2. c \in Mcp!Calls /\ Named1(c)
    BY CallType DEF Named1, PutOps
  <2>3. mcpCalls' = Append(mcpCalls, c)
    BY <1>5 DEF Mcp!RemoveServer, Mcp!Send
  <2> HIDE DEF c
  <2> QED BY <1>5, <2>1, <2>2, <2>3, Clicked DEF Mcp!RemoveServer
<1> QED BY <1>2, <1>3, <1>4, <1>5

LEMMA SaveServerInv ==
  ASSUME Mcp!EditorAssumption, McpInv, Mcp!SaveServer
  PROVE  McpInv'
<1>1. editor' \in EditorRec
  BY DEF Mcp!SaveServer, McpInv, McpTyped
<1>2. Mcp!Method \in PutOps
  BY DEF Mcp!Method, PutOps
<1>3. ASSUME NEW f \in Mcp!Files, NEW b \in BOOLEAN, DOMAIN f # {},
             Mcp!Send(Mcp!Put(Mcp!Method, f, b))
      PROVE  McpInv'
  <2> PICK c : c = Mcp!Put(Mcp!Method, f, b)
    OBVIOUS
  <2>1. c \in Mcp!Calls /\ Named1(c) /\ mcpCalls' = Append(mcpCalls, c)
    BY <1>2, <1>3, CallType DEF Named1, Mcp!Send
  <2> QED BY <1>1, <2>1, Clicked DEF Mcp!SaveServer
<1>4. ASSUME NEW n \in McpNames, NEW t \in McpTexts,
             Mcp!Send(Mcp!Put(Mcp!Method, [m \in {n} |->
                        [text |-> t, extra |-> FALSE]], FALSE))
      PROVE  McpInv'
  <2> DEFINE f == [m \in {n} |-> [text |-> t, extra |-> FALSE]]
  <2>1. f \in [{n} -> Mcp!Configs] /\ {n} \in SUBSET McpNames
    BY DEF Mcp!Configs
  <2>2. f \in Mcp!Files /\ DOMAIN f # {}
    BY <2>1, FileType
  <2> HIDE DEF f
  <2> QED BY <1>3, <1>4, <2>2 DEF f
<1>5. ASSUME NEW f \in Mcp!Files \ {Mcp!Nothing}, Mcp!Send(Mcp!Put(Mcp!Method, f, TRUE))
      PROVE  McpInv'
  BY <1>3, <1>5, FileType
<1> QED BY <1>4, <1>5 DEF Mcp!SaveServer

\* What is left to be done after a call: nothing, or one call c.
LEMMA After ==
  ASSUME McpInv, mcpCalls # <<>>, NEW c \in Mcp!Calls
  PROVE  /\ Mcp!Call \in In(mcpCalls) /\ Mcp!Call \in Mcp!Calls /\ Named1(Mcp!Call)
         /\ In(mcpCalls) = In(Tail(mcpCalls)) \cup {Mcp!Call}
         /\ Mcp!Then(<<>>) => /\ mcpCalls' \in Seq(Mcp!Calls)
                              /\ In(mcpCalls') = In(Tail(mcpCalls))
         /\ Mcp!Then(<<c>>) => /\ mcpCalls' \in Seq(Mcp!Calls)
                               /\ In(mcpCalls') = In(Tail(mcpCalls)) \cup {c}
<1>1. mcpCalls \in Seq(Mcp!Calls)
  BY DEF McpInv, McpTyped
<1>2. /\ Head(mcpCalls) \in In(mcpCalls) /\ Head(mcpCalls) \in Mcp!Calls
      /\ Tail(mcpCalls) \in Seq(Mcp!Calls) /\ Tail(mcpCalls) \o <<>> = Tail(mcpCalls)
      /\ In(mcpCalls) = In(Tail(mcpCalls)) \cup {Head(mcpCalls)}
  BY <1>1, InTail
<1>3. /\ Tail(mcpCalls) \o <<c>> \in Seq(Mcp!Calls)
      /\ In(Tail(mcpCalls) \o <<c>>) = In(Tail(mcpCalls)) \cup {c}
  BY <1>1, InThen
<1> QED BY <1>2, <1>3 DEF Mcp!Call, Mcp!Then, McpInv, Owed

\* What an answer owes: the calls that are left, and those it is followed by.
LEMMA Answered ==
  ASSUME McpInv, McpTyped', NEW more,
         In(mcpCalls') = In(Tail(mcpCalls)) \cup more,
         In(mcpCalls) = In(Tail(mcpCalls)) \cup {Mcp!Call},
         \A c \in more : Named1(c),
         \A n \in McpNames \ partial' :
           /\ \/ Sees(servers', mcpJson', n)
              \/ \E c \in more : WillList(c, n)
              \/ /\ n \notin partial /\ ~WillList(Mcp!Call, n)
                 /\ Sees(servers, mcpJson, n) => Sees(servers', mcpJson', n)
           /\ \/ Sees(reloaded', mcpJson', n)
              \/ \E c \in more : WillReload(c, n)
              \/ /\ n \notin partial /\ ~WillReload(Mcp!Call, n)
                 /\ Sees(reloaded, mcpJson, n) => Sees(reloaded', mcpJson', n)
  PROVE  McpInv'
<1>1. \A c \in In(mcpCalls') : Named1(c)
  BY DEF McpInv, Owed
<1>2. ASSUME NEW n \in McpNames \ partial'
      PROVE  Sees(servers', mcpJson', n) \/ \E c \in In(mcpCalls') : WillList(c, n)
  BY DEF McpInv, Owed
<1>3. ASSUME NEW n \in McpNames \ partial'
      PROVE  Sees(reloaded', mcpJson', n) \/ \E c \in In(mcpCalls') : WillReload(c, n)
  BY DEF McpInv, Owed
<1>4. Owed'
  BY <1>1, <1>2, <1>3 DEF Owed, Named1, WillList, WillReload, In, Sees
<1> QED BY <1>4 DEF McpInv

LEMMA ListedInv ==
  ASSUME Mcp!EditorAssumption, McpInv, Mcp!Listed
  PROVE  McpInv'
<1>1. McpTyped /\ mcpCalls # <<>> /\ Mcp!Call.op = "mcp.list"
  BY DEF Mcp!Listed, McpInv
<1>2. Mcp!Refresh(FALSE, FALSE) \in Mcp!Calls
  BY CallType
<1> DEFINE more == {}
<1>3. /\ In(mcpCalls) = In(Tail(mcpCalls)) \cup {Mcp!Call}
      /\ mcpCalls' \in Seq(Mcp!Calls) /\ In(mcpCalls') = In(Tail(mcpCalls)) \cup more
  BY <1>1, <1>2, After DEF Mcp!Listed
<1>4. editor' \in EditorRec
  BY <1>1 DEF Mcp!Listed, EditorRec, McpTyped
<1>5. /\ mcpJson' = mcpJson /\ servers' = mcpJson
      /\ reloaded' = IF Mcp!Call.reload THEN mcpJson ELSE reloaded
      /\ partial' = IF Mcp!Call.reload THEN {} ELSE partial
  BY DEF Mcp!Listed
<1>6. McpTyped'
  BY <1>1, <1>3, <1>4, <1>5 DEF McpTyped
<1>7. \A n : ~Mcp!Call.reload => ~WillReload(Mcp!Call, n)
  BY <1>1 DEF WillReload
<1>8. \A n : Sees(mcpJson, mcpJson, n)
  BY DEF Sees
<1>9. \A c \in more : Named1(c)
  OBVIOUS
<1> HIDE DEF more
<1> QED BY <1>3, <1>5, <1>6, <1>7, <1>8, <1>9, Answered

LEMMA RemovedInv ==
  ASSUME Mcp!EditorAssumption, McpInv, Mcp!Removed
  PROVE  McpInv'
<1>1. /\ McpTyped /\ mcpCalls # <<>> /\ Mcp!Call.op = "mcp.remove"
      /\ servers' = servers /\ reloaded' = reloaded /\ partial' = partial
  BY DEF Mcp!Removed, McpInv
<1>2. \A n : ~WillList(Mcp!Call, n) /\ ~WillReload(Mcp!Call, n)
  BY <1>1 DEF WillList, WillReload, PutOps
<1> DEFINE c == Mcp!Refresh(TRUE, TRUE)
<1>3. c \in Mcp!Calls /\ c.op = "mcp.list" /\ c.reload = TRUE
      /\ Mcp!AfterSave(TRUE) = <<c>>
  BY CallType DEF Mcp!AfterSave
<1> HIDE DEF c
<1>4. CASE /\ mcpJson' = Mcp!Restrict(mcpJson, DOMAIN mcpJson \ {Mcp!Call.name})
           /\ Mcp!Then(Mcp!AfterSave(TRUE)) /\ UNCHANGED editor
  <2> DEFINE more == {c}
             N == DOMAIN mcpJson \ {Mcp!Call.name}
  <2>1. /\ In(mcpCalls) = In(Tail(mcpCalls)) \cup {Mcp!Call}
        /\ mcpCalls' \in Seq(Mcp!Calls) /\ In(mcpCalls') = In(Tail(mcpCalls)) \cup more
    BY <1>1, <1>3, <1>4, After
  <2>2. mcpJson \in [DOMAIN mcpJson -> Mcp!Configs] /\ DOMAIN mcpJson \in SUBSET McpNames
    BY <1>1, FileType DEF McpTyped
  <2>3. mcpJson' \in [N -> Mcp!Configs] /\ N \in SUBSET McpNames
    BY <1>4, <2>2 DEF Mcp!Restrict
  <2>4. mcpJson' \in Mcp!Files
    <3> HIDE DEF N
    <3> QED BY <2>3, FileType
  <2>5. McpTyped'
    BY <1>1, <1>4, <2>1, <2>4 DEF McpTyped
  <2>6. /\ \A d \in more : Named1(d)
        /\ \A n : \E d \in more : WillList(d, n) /\ WillReload(d, n)
    BY <1>3 DEF Named1, PutOps, WillList, WillReload
  <2> HIDE DEF more
  <2> QED BY <2>1, <2>5, <2>6, Answered
<1>5. CASE /\ Mcp!Then(<<>>) /\ UNCHANGED mcpJson
           /\ editor' = [editor EXCEPT !.removing = {}]
  <2> DEFINE more == {}
  <2>1. /\ In(mcpCalls) = In(Tail(mcpCalls)) \cup {Mcp!Call}
        /\ mcpCalls' \in Seq(Mcp!Calls) /\ In(mcpCalls') = In(Tail(mcpCalls)) \cup more
    BY <1>1, <1>3, <1>5, After
  <2>2. editor' \in EditorRec
    BY <1>1, <1>5 DEF EditorRec, McpTyped
  <2>3. McpTyped'
    BY <1>1, <1>5, <2>1, <2>2 DEF McpTyped
  <2>4. \A d \in more : Named1(d)
    OBVIOUS
  <2> HIDE DEF more
  <2> QED BY <1>1, <1>2, <1>5, <2>1, <2>3, <2>4, Answered
<1> QED BY <1>4, <1>5 DEF Mcp!Removed

LEMMA SavedInv ==
  ASSUME Mcp!EditorAssumption, McpInv, Mcp!Saved
  PROVE  McpInv'
<1>1. /\ McpTyped /\ mcpCalls # <<>> /\ Mcp!Call.op \in PutOps
      /\ servers' = servers /\ reloaded' = reloaded
  BY DEF Mcp!Saved, McpInv, PutOps
<1> DEFINE p == Mcp!Call
<1>2. p \in Mcp!Puts /\ p.left \in SUBSET DOMAIN p.with /\ p.with \in Mcp!Files
  BY <1>1, CallType, After DEF Named1, Mcp!Puts
<1>3. PICK n \in p.left : Mcp!Store(n) \/ Mcp!Refuse
  BY DEF Mcp!Saved
<1> DEFINE c == Mcp!Refresh(TRUE, FALSE)
<1>4. c \in Mcp!Calls /\ c.op = "mcp.list" /\ c.reload = TRUE
      /\ Mcp!AfterSave(FALSE) = <<c>>
  BY CallType DEF Mcp!AfterSave
<1> HIDE DEF c
<1>5. \A m : WillList(p, m) <=> m \in DOMAIN p.with \ p.left
  BY <1>1 DEF WillList, PutOps
<1>6. \A m : WillReload(p, m) <=> m \in DOMAIN p.with \ p.left
  BY <1>1, <1>5 DEF WillReload, PutOps
<1>7. ASSUME Mcp!Refuse PROVE McpInv'
  <2> DEFINE more == {}
  <2>1. /\ In(mcpCalls) = In(Tail(mcpCalls)) \cup {p}
        /\ mcpCalls' \in Seq(Mcp!Calls) /\ In(mcpCalls') = In(Tail(mcpCalls)) \cup more
    BY <1>1, <1>4, <1>7, After DEF Mcp!Refuse
  <2>2. /\ partial' = partial \cup (DOMAIN p.with \ p.left)
        /\ UNCHANGED <<mcpJson, editor>>
    BY <1>7 DEF Mcp!Refuse
  <2>3. DOMAIN p.with \in SUBSET McpNames
    BY <1>2, FileType
  <2>4. McpTyped'
    BY <1>1, <2>1, <2>2, <2>3 DEF McpTyped
  <2>5. \A d \in more : Named1(d)
    OBVIOUS
  <2> HIDE DEF more, p
  <2>6. \A m \in McpNames \ partial' :
          m \notin partial /\ ~WillList(p, m) /\ ~WillReload(p, m)
    BY <1>5, <1>6, <2>2
  <2> QED BY <1>1, <2>1, <2>2, <2>4, <2>5, <2>6, Answered DEF p
<1>8. ASSUME Mcp!Store(n) PROVE McpInv'
  <2>0. mcpJson' = Mcp!Stored(n, p.with[n]) /\ partial' = partial
    BY <1>8 DEF Mcp!Store
  <2>1. /\ mcpJson \in [DOMAIN mcpJson -> Mcp!Configs]
        /\ DOMAIN mcpJson \in SUBSET McpNames
    BY <1>1, FileType DEF McpTyped
  <2>2. n \in McpNames /\ p.with[n] \in Mcp!Configs
    BY <1>2, FileType
  <2>3. /\ mcpJson' \in [DOMAIN mcpJson \cup {n} -> Mcp!Configs]
        /\ \A m \in DOMAIN mcpJson : m # n => mcpJson'[m] = mcpJson[m]
    BY <2>0, <2>1, <2>2 DEF Mcp!Stored
  <2>4. DOMAIN mcpJson \cup {n} \in SUBSET McpNames
    BY <2>1, <2>2
  <2>5. mcpJson' \in Mcp!Files
    BY <2>3, <2>4, FileType
  <2>6. \A m : m # n => /\ Sees(servers, mcpJson, m) => Sees(servers, mcpJson', m)
                        /\ Sees(reloaded, mcpJson, m) => Sees(reloaded, mcpJson', m)
    BY <2>3 DEF Sees
  <2>7. CASE p.left # {n}
    <3>0. PICK q : q = [p EXCEPT !.left = @ \ {n}]
      OBVIOUS
    <3>1. /\ q \in Mcp!Puts /\ q.op = p.op /\ q.with = p.with
          /\ q.left = p.left \ {n}
      BY <1>2, <3>0 DEF Mcp!Puts
    <3>2. q \in Mcp!Calls /\ Named1(q)
      BY <1>2, <2>7, <3>1 DEF Mcp!Calls, Named1
    <3>3. Mcp!Then(<<q>>) /\ editor' = editor
      BY <1>8, <2>7, <3>0 DEF Mcp!Store
    <3> DEFINE more == {q}
    <3>4. /\ In(mcpCalls) = In(Tail(mcpCalls)) \cup {p}
          /\ mcpCalls' \in Seq(Mcp!Calls) /\ In(mcpCalls') = In(Tail(mcpCalls)) \cup more
      BY <1>1, <3>2, <3>3, After
    <3>5. McpTyped'
      BY <1>1, <2>0, <2>5, <3>3, <3>4 DEF McpTyped
    <3>6. \A m : WillList(q, m) <=> m \in DOMAIN p.with \ (p.left \ {n})
      BY <1>1, <3>1 DEF WillList, PutOps
    <3>7. \A m : WillReload(q, m) <=> WillList(q, m)
      BY <1>1, <3>1 DEF WillReload, PutOps
    <3>8. \A d \in more : Named1(d)
      BY <3>2
    <3>9. q \in more
      OBVIOUS
    <3> HIDE DEF more, p
    <3>10. ASSUME NEW m \in McpNames \ partial'
           PROVE  \/ WillList(q, m) /\ WillReload(q, m)
                  \/ /\ m \notin partial /\ ~WillList(p, m) /\ ~WillReload(p, m)
                     /\ Sees(servers, mcpJson, m) => Sees(servers, mcpJson', m)
                     /\ Sees(reloaded, mcpJson, m) => Sees(reloaded, mcpJson', m)
      BY <1>2, <1>5, <1>6, <2>0, <2>6, <3>6, <3>7
    <3> QED BY <1>1, <3>4, <3>5, <3>8, <3>9, <3>10, Answered DEF p
  <2>8. CASE p.left = {n}
    <3>1. /\ Mcp!Then(<<c>>)
          /\ editor' = [editor EXCEPT !.adding = FALSE, !.editing = FALSE]
      BY <1>4, <1>8, <2>8 DEF Mcp!Store
    <3> DEFINE more == {c}
    <3>2. /\ In(mcpCalls) = In(Tail(mcpCalls)) \cup {p}
          /\ mcpCalls' \in Seq(Mcp!Calls) /\ In(mcpCalls') = In(Tail(mcpCalls)) \cup more
      BY <1>1, <1>4, <3>1, After
    <3>3. editor' \in EditorRec
      BY <1>1, <3>1 DEF EditorRec, McpTyped
    <3>4. McpTyped'
      BY <1>1, <2>0, <2>5, <3>2, <3>3 DEF McpTyped
    <3>5. /\ \A d \in more : Named1(d)
          /\ \A m : \E d \in more : WillList(d, m) /\ WillReload(d, m)
      BY <1>4 DEF Named1, PutOps, WillList, WillReload
    <3> HIDE DEF more
    <3> QED BY <3>2, <3>4, <3>5, Answered
  <2> QED BY <2>7, <2>8
<1> QED BY <1>3, <1>7, <1>8

LEMMA McpStep ==
  ASSUME Mcp!EditorAssumption, McpInv, [Mcp!Next]_mcpVars
  PROVE  McpInv'
<1>1. CASE UNCHANGED mcpVars
  BY <1>1 DEF mcpVars, McpInv, McpTyped, Owed, Named1, WillList, WillReload, In, Sees
<1> QED BY <1>1, ClickInv, SaveServerInv, ListedInv, SavedInv, RemovedInv
        DEF Mcp!Next

LEMMA McpInvKept == ASSUME McpInv PROVE Mcp!TypeOK /\ Mcp!ListTrue
<1>1. Mcp!TypeOK
  BY DEF McpInv, McpTyped, EditorRec, Mcp!TypeOK
<1>2. Mcp!ListTrue
  BY InEmpty DEF McpInv, Owed, Sees, Mcp!ListTrue
<1> QED BY <1>1, <1>2

------------------------------------------------------------------------------
(***************************************************************************)
(* ModelsEditor.  The page shows the file whenever no call is under way.   *)
(* The wanted file is what a save leaves, of the one edit that may be      *)
(* under way: an edit made from the list the page shows, when it shows the *)
(* file, and sent alone.  Until it is written nothing is armed, and a      *)
(* second edit ends what is said of the wanted file.                       *)
(***************************************************************************)
TimerRec == [with : Providers!Files, detail : Providers!Details, sel : Ids]
ModalRec == [id : Models \cup {None}, probing : BOOLEAN]
Saves == [op : {"save"}, with : Providers!Files,
          rename : Ids \cup {None}, on : Ids \cup {None}]
CallRec == [op : {"config"}] \cup Saves
ConfigCall == [op |-> "config"]
ModelSets == UNION {[M -> Providers!Settings] : M \in SUBSET Models}

ModelsTyped ==
  /\ modelsJson \in Providers!Files /\ shown \in Providers!Files
  /\ want \in Providers!Files \cup {None}
  /\ page \in Providers!Pages /\ timer \in TimerRec \cup {None}
  /\ modal \in ModalRec \cup {None} /\ calls \in Seq(CallRec)

Shows == calls = <<>> => shown = modelsJson
Saving == calls # <<>> /\ Head(calls).op = "save"
LaterAsk == want # None => \A k \in 1 .. Len(calls) : k > 1 => calls[k].op = "config"
OneSave == want # None /\ Saving =>
  /\ want = Providers!MergeFlags(Head(calls).with, modelsJson, Head(calls).on)
  /\ timer = None /\ (Head(calls).rename # None => page.detail = page.sig)
NoSave == want # None /\ ~Saving => want = modelsJson
Armed == want # None /\ timer # None =>
  timer.with = want /\ timer.detail = page.detail

ModelsInv == ModelsTyped /\ Shows /\ LaterAsk /\ OneSave /\ NoSave /\ Armed

LEMMA PutType ==
  ASSUME NEW A, NEW B, NEW f \in UNION {[I -> B] : I \in SUBSET A},
         NEW a \in A, NEW b \in B
  PROVE  Providers!Put(f, a, b) \in UNION {[I -> B] : I \in SUBSET A}
<1>1. PICK I \in SUBSET A : f \in [I -> B]
  OBVIOUS
<1>2. Providers!Put(f, a, b) \in [I \cup {a} -> B] /\ I \cup {a} \in SUBSET A
  BY <1>1 DEF Providers!Put
<1> DEFINE J == I \cup {a}
<1>3. J \in SUBSET A /\ Providers!Put(f, a, b) \in [J -> B]
  BY <1>2
<1> HIDE DEF J
<1> QED BY <1>3

LEMMA WithoutType ==
  ASSUME NEW A, NEW B, NEW f \in UNION {[I -> B] : I \in SUBSET A}, NEW a
  PROVE  /\ Providers!Without(f, a) \in UNION {[I -> B] : I \in SUBSET A}
         /\ DOMAIN Providers!Without(f, a) \subseteq A
<1>1. PICK I \in SUBSET A : f \in [I -> B]
  OBVIOUS
<1> DEFINE J == I \ {a}
<1>2. Providers!Without(f, a) \in [J -> B] /\ J \in SUBSET A
  BY <1>1 DEF Providers!Without, Providers!Restrict
<1> HIDE DEF J
<1> QED BY <1>2

LEMMA FilesType ==
  /\ Providers!Files = UNION {[I -> Providers!Providers] : I \in SUBSET Ids}
  /\ \A f \in Providers!Files :
       /\ DOMAIN f \subseteq Ids
       /\ \A i \in DOMAIN f : /\ f[i] \in Providers!Providers
                              /\ f[i].url \in Urls /\ f[i].models \in ModelSets
  /\ \A f \in Providers!Files, i \in Ids, p \in Providers!Providers :
       Providers!Put(f, i, p) \in Providers!Files
  /\ \A f \in Providers!Files : \A i : Providers!Without(f, i) \in Providers!Files
<1>1. Providers!Files = UNION {[I -> Providers!Providers] : I \in SUBSET Ids}
  BY DEF Providers!Files
<1>2. \A f \in Providers!Files : DOMAIN f \subseteq Ids
                         /\ \A i \in DOMAIN f : f[i] \in Providers!Providers
  BY <1>1
<1>3. \A p \in Providers!Providers : p.url \in Urls /\ p.models \in ModelSets
  BY DEF Providers!Providers, ModelSets
<1>4. ASSUME NEW f \in Providers!Files, NEW i \in Ids, NEW p \in Providers!Providers
      PROVE  Providers!Put(f, i, p) \in Providers!Files
  BY <1>1, PutType
<1>5. ASSUME NEW f \in Providers!Files, NEW i
      PROVE  Providers!Without(f, i) \in Providers!Files
  BY <1>1, WithoutType
<1> QED BY <1>1, <1>2, <1>3, <1>4, <1>5

LEMMA ModelsType ==
  /\ \A s \in ModelSets : /\ DOMAIN s \subseteq Models
                          /\ \A m \in DOMAIN s : s[m] \in Providers!Settings
  /\ \A s \in ModelSets, m \in Models, x \in Providers!Settings :
       Providers!Put(s, m, x) \in ModelSets
  /\ \A s \in ModelSets : \A m : Providers!Without(s, m) \in ModelSets
  /\ \A s \in ModelSets, m \in Models, x \in Providers!Settings :
       [s EXCEPT ![m] = x] \in ModelSets
<1>1. \A s \in ModelSets : DOMAIN s \subseteq Models
                           /\ \A m \in DOMAIN s : s[m] \in Providers!Settings
  BY DEF ModelSets
<1>2. ASSUME NEW s \in ModelSets, NEW m \in Models, NEW x \in Providers!Settings
      PROVE  Providers!Put(s, m, x) \in ModelSets
  BY PutType DEF ModelSets
<1>3. ASSUME NEW s \in ModelSets, NEW m PROVE Providers!Without(s, m) \in ModelSets
  BY WithoutType DEF ModelSets
<1>4. ASSUME NEW s \in ModelSets, NEW m \in Models, NEW x \in Providers!Settings
      PROVE  [s EXCEPT ![m] = x] \in ModelSets
  <2>1. PICK M \in SUBSET Models : s \in [M -> Providers!Settings]
    BY DEF ModelSets
  <2>2. [s EXCEPT ![m] = x] \in [M -> Providers!Settings]
    BY <2>1
  <2> QED BY <2>1, <2>2 DEF ModelSets
<1> QED BY <1>1, <1>2, <1>3, <1>4

LEMMA MergedType ==
  ASSUME NEW W \in Providers!Files, NEW f \in Providers!Files, NEW on
  PROVE  Providers!MergeFlags(W, f, on) \in Providers!Files
<1>1. \A i \in DOMAIN W : W[i] \in Providers!Providers
  BY FilesType
<1>2. \A i \in DOMAIN f : f[i] \in Providers!Providers
  BY FilesType
<1>3. ASSUME NEW i \in DOMAIN W, NEW b \in BOOLEAN
      PROVE  [W[i] EXCEPT !.on = b] \in Providers!Providers
  BY <1>1 DEF Providers!Providers
<1>4. ASSUME NEW i \in DOMAIN W, i \in DOMAIN f
      PROVE  (W[i].on /\ f[i].on) \in BOOLEAN
  OBVIOUS
<1>5. ASSUME NEW i \in DOMAIN W
      PROVE  (IF i # on /\ i \in DOMAIN f
              THEN [W[i] EXCEPT !.on = @ /\ f[i].on] ELSE W[i]) \in Providers!Providers
  <2>1. CASE i \in DOMAIN f
    <3>1. [W[i] EXCEPT !.on = W[i].on /\ f[i].on] \in Providers!Providers
      BY <1>3, <1>4, <2>1
    <3> QED BY <1>1, <3>1
  <2>2. CASE i \notin DOMAIN f
    BY <1>1, <2>2
  <2> QED BY <2>1, <2>2
<1>6. Providers!MergeFlags(W, f, on) \in [DOMAIN W -> Providers!Providers]
  BY <1>5 DEF Providers!MergeFlags
<1>7. DOMAIN W \in SUBSET Ids
  BY FilesType
<1> QED BY <1>6, <1>7, FilesType

\* What the two effects of the page do: select the first provider, whose
\* inputs count as saved, and set the timer anew when the inputs changed.
LEMMA Showing ==
  ASSUME Providers!ModelsAssumption, shown' \in Providers!Files,
         page \in Providers!Pages, timer \in TimerRec \cup {None},
         NEW p \in Providers!Pages, Providers!Show(p)
  PROVE  /\ page' \in Providers!Pages /\ page'.delete = p.delete
         /\ timer' \in TimerRec \cup {None}
         /\ page' = p \/ page'.detail = page'.sig
         /\ \/ timer' = None
            \/ /\ timer' = timer
               /\ page'.detail = page.detail /\ page'.sel = page.sel
            \/ /\ timer' \in TimerRec /\ timer'.with = shown'
               /\ timer'.detail = page'.detail /\ page'.detail # page'.sig
               /\ page'.sel # None
               /\ page'.detail # page.detail \/ page'.sel # page.sel
<1>1. page' \in Providers!Pages /\ page'.delete = p.delete
      /\ (page' = p \/ page'.detail = page'.sig)
  <2>1. CASE page' = p
    BY <2>1
  <2>2. ASSUME NEW id \in DOMAIN shown', page' = Providers!Selected(p, id)
        PROVE  <1>1!:
    <3> DEFINE d == [id |-> id, url |-> shown'[id].url]
    <3>1. d \in Providers!Details /\ id \in Ids
      BY FilesType DEF Providers!Details
    <3>2. page' = [p EXCEPT !.sel = id, !.adding = FALSE, !.detail = d, !.sig = d]
      BY <2>2 DEF Providers!Selected
    <3> HIDE DEF d
    <3> QED BY <3>1, <3>2 DEF Providers!Pages
  <2> QED BY <2>1, <2>2 DEF Providers!Show, Providers!Settled
<1>2. \/ Providers!Armed(page') = None
      \/ /\ Providers!Armed(page') \in TimerRec
         /\ Providers!Armed(page').with = shown'
         /\ Providers!Armed(page').detail = page'.detail
         /\ page'.detail # page'.sig /\ page'.sel # None
  <2>1. page'.detail \in Providers!Details
    BY <1>1 DEF Providers!Pages
  <2> QED BY <2>1, FilesType DEF Providers!Armed, TimerRec, Providers!ModelsAssumption
<1>3. IF <<page'.detail, page'.sel>> # <<page.detail, page.sel>>
      THEN timer' = Providers!Armed(page') ELSE timer' = timer
  BY DEF Providers!Show
<1> QED BY <1>1, <1>2, <1>3

LEMMA ModelsFacts ==
  ASSUME ModelsInv
  PROVE  /\ ModelsTyped /\ page \in Providers!Pages /\ page.delete \in Ids \cup {None}
         /\ page.sel \in Ids \cup {None} /\ DOMAIN shown \subseteq Ids
         /\ Providers!Free => modal = None /\ page.delete = None
         /\ Providers!Active => page.sel \in DOMAIN shown
<1>1. ModelsTyped
  BY DEF ModelsInv
<1>2. page \in Providers!Pages /\ DOMAIN shown \subseteq Ids
  BY <1>1, FilesType DEF ModelsTyped
<1>3. page.delete \in Ids \cup {None} /\ page.sel \in Ids \cup {None}
  BY <1>2 DEF Providers!Pages
<1> QED BY <1>1, <1>2, <1>3 DEF Providers!Active, Providers!Free

\* A call at the end of the queue: the first is who it was, if there was one.
LEMMA Sent ==
  ASSUME calls \in Seq(CallRec), NEW c \in CallRec, Providers!Send(c)
  PROVE  /\ calls' = Append(calls, c) /\ calls' # <<>> /\ calls' \in Seq(CallRec)
         /\ calls = <<>> => Head(calls') = c /\ Len(calls') = 1
         /\ calls # <<>> => Head(calls') = Head(calls)
         /\ c.op = "config" => (LaterAsk /\ want' = want => LaterAsk')
<1>1. calls' = Append(calls, c) /\ calls' \in Seq(CallRec) /\ calls' # <<>>
  BY DEF Providers!Send
<1>2. calls = <<>> => Head(calls') = c /\ Len(calls') = 1
  BY <1>1
<1>3. calls # <<>> => Head(calls') = Head(calls)
  BY <1>1, EmptySeq
<1>4. c.op = "config" => (LaterAsk /\ want' = want => LaterAsk')
  BY <1>1 DEF LaterAsk
<1> QED BY <1>1, <1>2, <1>3, <1>4

\* An edit: the list it makes is sent; alone, it is what will be in the file.
LEMMA Edited ==
  ASSUME ModelsInv, NEW W \in Providers!Files,
         NEW r \in Ids \cup {None}, NEW on \in Ids \cup {None},
         Providers!Send([op |-> "save", with |-> W, rename |-> r, on |-> on]),
         modelsJson' = modelsJson, shown' = shown, timer' \in TimerRec \cup {None},
         modal' \in ModalRec \cup {None}, page' \in Providers!Pages,
         \/ want' = None
         \/ /\ calls = <<>> /\ timer' = None
            /\ want' = Providers!MergeFlags(W, modelsJson, on)
            /\ r # None => page'.detail = page'.sig
  PROVE  ModelsInv'
<1> PICK c : c = [op |-> "save", with |-> W, rename |-> r, on |-> on]
  OBVIOUS
<1>1. c \in CallRec /\ c.op = "save" /\ c.with = W /\ c.rename = r /\ c.on = on
  BY DEF CallRec, Saves
<1>2. ModelsTyped
  BY DEF ModelsInv
<1>3. /\ calls' # <<>> /\ calls' \in Seq(CallRec)
      /\ calls = <<>> => Head(calls') = c /\ Len(calls') = 1
  BY <1>1, <1>2, Sent DEF ModelsTyped
<1>4. want' \in Providers!Files \cup {None}
  BY <1>2, MergedType DEF ModelsTyped
<1>5. ModelsTyped' /\ Shows'
  BY <1>2, <1>3, <1>4 DEF ModelsTyped, Shows
<1>6. CASE want' = None
  BY <1>5, <1>6 DEF ModelsInv, LaterAsk, OneSave, NoSave, Armed
<1>7. CASE /\ calls = <<>> /\ timer' = None
           /\ want' = Providers!MergeFlags(W, modelsJson, on)
           /\ r # None => page'.detail = page'.sig
  <2>1. Head(calls') = c /\ Len(calls') = 1 /\ Saving'
    BY <1>1, <1>3, <1>7 DEF Saving
  <2>2. LaterAsk'
    BY <2>1 DEF LaterAsk
  <2>3. OneSave' /\ NoSave' /\ Armed'
    BY <1>1, <1>7, <2>1 DEF OneSave, NoSave, Armed
  <2> QED BY <1>5, <2>2, <2>3 DEF ModelsInv
<1> QED BY <1>6, <1>7

\* An edit of the list the page shows, made with nothing under way or not.
LEMMA EditedShown ==
  ASSUME ModelsInv, NEW W \in Providers!Files, NEW on \in Ids \cup {None},
         Providers!Send([op |-> "save", with |-> W, rename |-> None, on |-> on]),
         modelsJson' = modelsJson, shown' = shown, timer' \in TimerRec \cup {None},
         Providers!Quiet => timer' = None,
         modal' \in ModalRec \cup {None}, page' \in Providers!Pages,
         NEW X, want = shown => X = W,
         want' = IF Providers!Quiet /\ want # None
                 THEN Providers!MergeFlags(X, want, on) ELSE None
  PROVE  ModelsInv'
<1>1. CASE Providers!Quiet /\ want # None
  <2>1. want = modelsJson /\ want = shown /\ calls = <<>> /\ timer' = None
    BY <1>1 DEF Providers!Quiet, ModelsInv, NoSave, Shows, Saving
  <2>2. X = W /\ want' = Providers!MergeFlags(X, want, on)
    BY <1>1, <2>1
  <2>3. want' = Providers!MergeFlags(W, modelsJson, on)
    BY <2>1, <2>2
  <2> QED BY <2>1, <2>3, Edited
<1>2. CASE ~(Providers!Quiet /\ want # None)
  BY <1>2, Edited
<1> QED BY <1>1, <1>2

\* A click that sends nothing and leaves the page's list as it is.
LEMMA PageClicked ==
  ASSUME ModelsInv, UNCHANGED <<modelsJson, shown, want, calls>>,
         modal' \in ModalRec \cup {None}, page' \in Providers!Pages,
         timer' \in TimerRec \cup {None},
         timer = None /\ timer' # None => ~Saving,
         page.detail = page.sig => page'.detail = page'.sig \/ ~Saving,
         \/ timer' = None
         \/ timer' = timer /\ page'.detail = page.detail
         \/ timer'.with = shown /\ calls = <<>> /\ timer'.detail = page'.detail
  PROVE  ModelsInv'
<1>1. ModelsTyped' /\ Shows' /\ LaterAsk' /\ (Saving' <=> Saving)
  BY DEF ModelsInv, ModelsTyped, Shows, LaterAsk, Saving
<1>2. OneSave' /\ NoSave'
  BY <1>1 DEF ModelsInv, OneSave, NoSave
<1>3. Armed'
  <2>1. CASE timer'.with = shown /\ calls = <<>> /\ timer'.detail = page'.detail
    BY <2>1 DEF ModelsInv, Armed, Shows, NoSave, Saving
  <2>2. CASE timer' = None \/ (timer' = timer /\ page'.detail = page.detail)
    BY <2>2 DEF ModelsInv, Armed
  <2> QED BY <2>1, <2>2
<1> QED BY <1>1, <1>2, <1>3 DEF ModelsInv

LEMMA SelectInv ==
  ASSUME Providers!ModelsAssumption, ModelsInv,
         Providers!StartAdd \/ \E id \in Ids : Providers!SelectProvider(id)
  PROVE  ModelsInv'
<1>1. ASSUME NEW p \in Providers!Pages,
             UNCHANGED <<modelsJson, shown, modal, calls, want>>, Providers!Show(p),
             p.detail = p.sig \/ (p.sel = None /\ p.detail = page.detail
                                  /\ p.sig = page.sig)
      PROVE  ModelsInv'
  <2>1. ModelsTyped /\ shown' \in Providers!Files
    BY <1>1, ModelsFacts DEF ModelsTyped
  <2>2. /\ page' \in Providers!Pages /\ timer' \in TimerRec \cup {None}
        /\ page' = p \/ page'.detail = page'.sig
        /\ timer' = None \/ (timer' = timer /\ page'.detail = page.detail)
    BY <1>1, <2>1, Showing DEF ModelsTyped
  <2>3. page.detail = page.sig => page'.detail = page'.sig
    BY <1>1, <2>2
  <2> QED BY <1>1, <2>1, <2>2, <2>3, PageClicked DEF ModelsTyped
<1>2. CASE Providers!StartAdd
  <2> DEFINE p == [page EXCEPT !.adding = TRUE, !.sel = None]
  <2>1. p \in Providers!Pages /\ p.sel = None /\ p.detail = page.detail
        /\ p.sig = page.sig
    BY ModelsFacts DEF Providers!Pages
  <2>2. Providers!Show(p)
    BY <1>2 DEF Providers!StartAdd
  <2> HIDE DEF p
  <2> QED BY <1>1, <1>2, <2>1, <2>2 DEF Providers!StartAdd
<1>3. ASSUME NEW id \in Ids, Providers!SelectProvider(id) PROVE ModelsInv'
  <2> DEFINE d == [id |-> id, url |-> shown'[id].url]
  <2> PICK p : p = Providers!Selected(page, id)
    OBVIOUS
  <2>1. shown' = shown /\ id \in DOMAIN shown /\ Providers!Show(p)
    BY <1>3 DEF Providers!SelectProvider
  <2>2. d \in Providers!Details
    BY <2>1, ModelsFacts, FilesType DEF Providers!Details, ModelsTyped
  <2>3. p = [page EXCEPT !.sel = id, !.adding = FALSE, !.detail = d, !.sig = d]
    BY DEF Providers!Selected
  <2> HIDE DEF d
  <2>4. p \in Providers!Pages /\ p.detail = p.sig
    BY <2>2, <2>3, ModelsFacts DEF Providers!Pages
  <2> QED BY <1>1, <1>3, <2>1, <2>4 DEF Providers!SelectProvider
<1> QED BY <1>2, <1>3

\* A key while a call is under way ends what is said of the wanted file.
LEMMA TypeInv ==
  ASSUME Providers!ModelsAssumption, ModelsInv,
         \E d \in Providers!Details : Providers!Type(d)
  PROVE  ModelsInv'
<1> PICK d \in Providers!Details : Providers!Type(d)
  OBVIOUS
<1> DEFINE p == [page EXCEPT !.detail = d]
<1>1. /\ ModelsTyped /\ UNCHANGED <<modelsJson, shown, modal, calls>>
      /\ want' = IF calls = <<>> THEN want ELSE None
  BY ModelsFacts DEF Providers!Type
<1>2. p \in Providers!Pages
  BY ModelsFacts DEF Providers!Pages
<1>3. Providers!Show(p)
  BY DEF Providers!Type
<1> HIDE DEF p
<1>4. shown' \in Providers!Files
  BY <1>1 DEF ModelsTyped
<1>5. /\ page' \in Providers!Pages /\ timer' \in TimerRec \cup {None}
      /\ \/ timer' = None
         \/ timer' = timer /\ page'.detail = page.detail
         \/ timer'.with = shown /\ timer'.detail = page'.detail
  BY <1>1, <1>2, <1>3, <1>4, Showing DEF ModelsTyped
<1>6. CASE calls = <<>>
  BY <1>1, <1>5, <1>6, PageClicked DEF Saving, ModelsTyped
<1>7. CASE calls # <<>>
  BY <1>1, <1>5, <1>7 DEF ModelsInv, ModelsTyped, Shows, LaterAsk, OneSave, NoSave, Armed
<1> QED BY <1>6, <1>7

LEMMA AddProviderInv ==
  ASSUME Providers!ModelsAssumption, ModelsInv,
         \E id \in Ids : \E u \in Urls : Providers!AddProvider(id, u)
  PROVE  ModelsInv'
<1> PICK id \in Ids : \E u \in Urls : Providers!AddProvider(id, u)
  OBVIOUS
<1> PICK url \in Urls : Providers!AddProvider(id, url)
  OBVIOUS
<1> DEFINE new == [url |-> url, on |-> TRUE, models |-> [m \in {} |-> "plain"]]
           E(ps) == Providers!Put(ps, id, new)
           d == [id |-> id, url |-> url]
           p == [page EXCEPT !.adding = FALSE, !.sel = id, !.detail = d, !.sig = d]
<1>1. ModelsTyped
  BY ModelsFacts
<1>2. new \in Providers!Providers
  <2>1. [m \in {} |-> "plain"] \in [{} -> Providers!Settings]
    OBVIOUS
  <2>2. {} \in SUBSET Models
    OBVIOUS
  <2>3. [m \in {} |-> "plain"] \in UNION {[M -> Providers!Settings] : M \in SUBSET Models}
    BY <2>1, <2>2
  <2> QED BY <2>3 DEF Providers!Providers
<1>3. E(shown) \in Providers!Files
  <2> HIDE DEF new
  <2> QED BY <1>1, <1>2, FilesType DEF ModelsTyped
<1>4. /\ Providers!Send([op |-> "save", with |-> E(shown), rename |-> None, on |-> None])
      /\ want' = IF Providers!Quiet /\ want # None
                 THEN Providers!MergeFlags(E(want), want, None) ELSE None
  BY DEF Providers!AddProvider, Providers!Edits
<1>5. UNCHANGED <<modelsJson, shown, modal>> /\ Providers!Show(p)
  BY DEF Providers!AddProvider
<1>6. d \in Providers!Details
  BY DEF Providers!Details
<1> PICK W : W = E(shown)
  OBVIOUS
<1> PICK X : X = E(want)
  OBVIOUS
<1>9. want = shown => X = W
  OBVIOUS
<1> HIDE DEF new, E, d
<1>7. p \in Providers!Pages /\ p.detail = p.sig
  BY <1>6, ModelsFacts DEF Providers!Pages
<1> HIDE DEF p
<1>8. /\ page' \in Providers!Pages /\ timer' \in TimerRec \cup {None}
      /\ timer' = None \/ timer' = timer
  <2>1. shown' \in Providers!Files
    BY <1>1, <1>5 DEF ModelsTyped
  <2>2. page' = p \/ page'.detail = page'.sig
    BY <1>1, <1>5, <1>7, <2>1, Showing DEF ModelsTyped
  <2> QED BY <1>1, <1>5, <1>7, <2>1, <2>2, Showing DEF ModelsTyped
<1>10. /\ Providers!Send([op |-> "save", with |-> W, rename |-> None, on |-> None])
       /\ want' = IF Providers!Quiet /\ want # None
                  THEN Providers!MergeFlags(X, want, None) ELSE None
  BY <1>4
<1>11. W \in Providers!Files
  BY <1>3
<1>12. modal' \in ModalRec \cup {None} /\ (Providers!Quiet => timer' = None)
  BY <1>1, <1>5, <1>8 DEF ModelsTyped, Providers!Quiet
<1> QED BY <1>5, <1>8, <1>9, <1>10, <1>11, <1>12, EditedShown

LEMMA DeleteInv ==
  ASSUME Providers!ModelsAssumption, ModelsInv,
         Providers!AskDelete \/ Providers!AnswerDelete
  PROVE  ModelsInv'
<1>1. CASE Providers!AskDelete
  <2>1. ModelsTyped /\ page.sel \in Ids
    BY <1>1, ModelsFacts DEF Providers!AskDelete
  <2>2. page' \in Providers!Pages /\ page'.detail = page.detail /\ page'.sig = page.sig
    BY <1>1, <2>1 DEF Providers!AskDelete, ModelsTyped, Providers!Pages
  <2>3. /\ UNCHANGED <<modelsJson, shown, want, calls, modal, timer>>
    BY <1>1 DEF Providers!AskDelete
  <2> QED BY <2>1, <2>2, <2>3, PageClicked DEF ModelsTyped
<1>2. CASE Providers!AnswerDelete
  <2>1. ModelsTyped /\ UNCHANGED <<modelsJson, shown, modal>>
    BY <1>2, ModelsFacts DEF Providers!AnswerDelete
  <2>2. Providers!NoPage \in Providers!Pages
        /\ Providers!NoPage.detail = Providers!NoPage.sig
    BY DEF Providers!NoPage, Providers!Pages, Providers!NoDetail, Providers!Details
  <2> DEFINE q == [page EXCEPT !.delete = None]
             E(ps) == Providers!Without(ps, page.delete)
  <2>3. q \in Providers!Pages /\ q.detail = page.detail /\ q.sig = page.sig
        /\ q.sel = page.sel
    BY <2>1 DEF ModelsTyped, Providers!Pages
  <2>4. ASSUME NEW p \in {Providers!NoPage, q}, Providers!Show(p)
        PROVE  /\ page' \in Providers!Pages /\ timer' \in TimerRec \cup {None}
               /\ timer' = None \/ (timer' = timer /\ page'.detail = page.detail)
               /\ page.detail = page.sig => page'.detail = page'.sig
    <3> HIDE DEF q
    <3>1. p \in Providers!Pages /\ shown' \in Providers!Files
      BY <2>1, <2>2, <2>3 DEF ModelsTyped
    <3> QED BY <2>1, <2>2, <2>3, <2>4, <3>1, Showing DEF ModelsTyped
  <2>5. CASE /\ Providers!Edits(E, shown, None, None, Providers!Quiet)
             /\ Providers!Show(IF page.delete = page.sel THEN Providers!NoPage ELSE q)
    <3>1. E(shown) \in Providers!Files
      BY <2>1, FilesType DEF ModelsTyped
    <3>2. PICK p \in {Providers!NoPage, q} : Providers!Show(p)
      <4> HIDE DEF q
      <4> QED BY <2>5
    <3>3. /\ page' \in Providers!Pages /\ timer' \in TimerRec \cup {None}
          /\ timer' = None \/ timer' = timer
      <4> HIDE DEF q
      <4> QED BY <2>4, <3>2
    <3>4. /\ Providers!Send([op |-> "save", with |-> E(shown), rename |-> None,
                             on |-> None])
          /\ want' = IF Providers!Quiet /\ want # None
                     THEN Providers!MergeFlags(E(want), want, None) ELSE None
      BY <2>5 DEF Providers!Edits
    <3>5. PICK W : W = E(shown)
      OBVIOUS
    <3>6. PICK X : X = E(want)
      OBVIOUS
    <3>7. want = shown => X = W
      BY <3>5, <3>6
    <3> HIDE DEF E, q
    <3>8. /\ Providers!Send([op |-> "save", with |-> W, rename |-> None, on |-> None])
          /\ want' = IF Providers!Quiet /\ want # None
                     THEN Providers!MergeFlags(X, want, None) ELSE None
      BY <3>4, <3>5, <3>6
    <3>9. /\ W \in Providers!Files /\ modal' \in ModalRec \cup {None}
          /\ Providers!Quiet => timer' = None
      BY <2>1, <3>1, <3>3, <3>5 DEF ModelsTyped, Providers!Quiet
    <3> QED BY <2>1, <3>3, <3>7, <3>8, <3>9, EditedShown
  <2>6. CASE Providers!Show(q) /\ UNCHANGED <<calls, want>>
    <3> HIDE DEF q, E
    <3> QED BY <2>1, <2>4, <2>6, PageClicked DEF ModelsTyped
  <2> QED BY <1>2, <2>5, <2>6 DEF Providers!AnswerDelete
<1> QED BY <1>1, <1>2

\* The changes of the selected provider and of its models.
LEMMA Changed ==
  ASSUME ModelsInv, Providers!Active, NEW p \in Providers!Providers,
         NEW on \in Ids \cup {None},
         NEW W, W = Providers!Put(shown, page.sel, p),
         NEW X, want = shown => X = W,
         Providers!Send([op |-> "save", with |-> W, rename |-> None, on |-> on]),
         want' = IF Providers!Quiet /\ want # None
                 THEN Providers!MergeFlags(X, want, on) ELSE None,
         UNCHANGED <<modelsJson, shown, page, timer>>,
         modal' \in ModalRec \cup {None}
  PROVE  ModelsInv'
<1>1. ModelsTyped /\ page.sel \in Ids
  BY ModelsFacts DEF Providers!Active
<1>2. W \in Providers!Files
  BY <1>1, FilesType DEF ModelsTyped
<1>3. /\ timer' \in TimerRec \cup {None} /\ page' \in Providers!Pages
      /\ Providers!Quiet => timer' = None
  BY <1>1 DEF ModelsTyped, Providers!Quiet
<1> QED BY <1>2, <1>3, EditedShown

LEMMA ChangeInv ==
  ASSUME Providers!ModelsAssumption, ModelsInv,
         \/ Providers!ToggleEnabled
         \/ \E set \in Providers!Settings :
              \/ Providers!AddModel(set)
              \/ \E m \in Models : Providers!SaveModelEdit(m, set)
         \/ \E m \in Models : Providers!RemoveModel(m)
  PROVE  ModelsInv'
<1> DEFINE at == shown[page.sel]
<1>1. Providers!Active => /\ at \in Providers!Providers /\ at.models \in ModelSets
                          /\ page.sel \in Ids
  BY ModelsFacts, FilesType DEF ModelsTyped
<1>2. \A s \in ModelSets : Providers!Active =>
        [at EXCEPT !.models = s] \in Providers!Providers
  BY <1>1 DEF Providers!Providers, ModelSets
<1>3. ModelsTyped
  BY ModelsFacts
<1>4. CASE Providers!ToggleEnabled
  <2> DEFINE F(p) == [p EXCEPT !.on = ~@]
             on == IF shown[page.sel].on THEN None ELSE page.sel
  <2>1. Providers!Active /\ UNCHANGED <<modelsJson, shown, page, timer, modal>>
    BY <1>4 DEF Providers!ToggleEnabled
  <2>2. F(at) \in Providers!Providers
    BY <1>1, <2>1 DEF Providers!Providers
  <2>3. on \in Ids \cup {None}
    BY <1>1, <2>1
  <2> PICK p : p = F(at)
    OBVIOUS
  <2> PICK W : W = Providers!Put(shown, page.sel, p)
    OBVIOUS
  <2> PICK X : X = IF page.sel \in DOMAIN want
                   THEN Providers!Put(want, page.sel, F(want[page.sel])) ELSE want
    OBVIOUS
  <2>7. page.sel \in DOMAIN shown
    BY <2>1, ModelsFacts
  <2>8. want = shown => X = W
    BY <2>7
  <2>9. /\ Providers!Send([op |-> "save", with |-> W, rename |-> None, on |-> on])
        /\ want' = IF Providers!Quiet /\ want # None
                   THEN Providers!MergeFlags(X, want, on) ELSE None
    BY <1>4, <2>7 DEF Providers!ToggleEnabled, Providers!Change, Providers!Edits
  <2>10. p \in Providers!Providers
    BY <2>2
  <2>11. modal' \in ModalRec \cup {None}
    BY <1>3, <2>1 DEF ModelsTyped
  <2> HIDE DEF F, on
  <2> QED BY <2>1, <2>3, <2>8, <2>9, <2>10, <2>11, Changed
<1>5. ASSUME NEW set \in Providers!Settings, Providers!AddModel(set) PROVE ModelsInv'
  <2> DEFINE F(p) == [p EXCEPT !.models = Providers!Put(@, modal.id, set)]
  <2>1. /\ Providers!Active /\ UNCHANGED <<modelsJson, shown, page, timer>>
        /\ modal' = None /\ modal.id \in Models
    BY <1>3, <1>5 DEF Providers!AddModel, Providers!Dialog, ModelsTyped, ModalRec
  <2> PICK s : s = Providers!Put(at.models, modal.id, set)
    OBVIOUS
  <2>2. s \in ModelSets
    BY <1>1, <2>1, ModelsType
  <2>3. F(at) \in Providers!Providers
    BY <1>2, <2>1, <2>2
  <2> PICK p : p = F(at)
    OBVIOUS
  <2> PICK W : W = Providers!Put(shown, page.sel, p)
    OBVIOUS
  <2> PICK X : X = IF page.sel \in DOMAIN want
                   THEN Providers!Put(want, page.sel, F(want[page.sel])) ELSE want
    OBVIOUS
  <2>7. page.sel \in DOMAIN shown
    BY <2>1, ModelsFacts
  <2>8. want = shown => X = W
    BY <2>7
  <2>9. /\ Providers!Send([op |-> "save", with |-> W, rename |-> None, on |-> None])
        /\ want' = IF Providers!Quiet /\ want # None
                   THEN Providers!MergeFlags(X, want, None) ELSE None
    BY <1>5, <2>7 DEF Providers!AddModel, Providers!Change, Providers!Edits
  <2>10. p \in Providers!Providers
    BY <2>3
  <2> HIDE DEF F
  <2> QED BY <2>1, <2>8, <2>9, <2>10, Changed
<1>6. ASSUME NEW set \in Providers!Settings, NEW m \in Models,
             Providers!SaveModelEdit(m, set)
      PROVE  ModelsInv'
  <2> DEFINE F(p) == IF m \in DOMAIN p.models
                     THEN [p EXCEPT !.models[m] = set] ELSE p
  <2>1. Providers!Active /\ UNCHANGED <<modelsJson, shown, page, timer, modal>>
    BY <1>6 DEF Providers!SaveModelEdit, Providers!Row
  <2> PICK s : s = [at.models EXCEPT ![m] = set]
    OBVIOUS
  <2>2. s \in ModelSets
    BY <1>1, <2>1, ModelsType
  <2>3. [at EXCEPT !.models = s] \in Providers!Providers
    BY <1>2, <2>1, <2>2
  <2>4. F(at) \in {[at EXCEPT !.models = s], at}
    OBVIOUS
  <2>5. F(at) \in Providers!Providers
    <3> HIDE DEF F
    <3> QED BY <1>1, <2>1, <2>3, <2>4
  <2> PICK p : p = F(at)
    OBVIOUS
  <2> PICK W : W = Providers!Put(shown, page.sel, p)
    OBVIOUS
  <2> PICK X : X = IF page.sel \in DOMAIN want
                   THEN Providers!Put(want, page.sel, F(want[page.sel])) ELSE want
    OBVIOUS
  <2>7. page.sel \in DOMAIN shown
    BY <2>1, ModelsFacts
  <2>8. want = shown => X = W
    BY <2>7
  <2>9. /\ Providers!Send([op |-> "save", with |-> W, rename |-> None, on |-> None])
        /\ want' = IF Providers!Quiet /\ want # None
                   THEN Providers!MergeFlags(X, want, None) ELSE None
    BY <1>6, <2>7 DEF Providers!SaveModelEdit, Providers!Change, Providers!Edits
  <2>10. p \in Providers!Providers
    BY <2>5
  <2>11. modal' \in ModalRec \cup {None}
    BY <1>3, <2>1 DEF ModelsTyped
  <2> HIDE DEF F
  <2> QED BY <2>1, <2>8, <2>9, <2>10, <2>11, Changed
<1>7. ASSUME NEW m \in Models, Providers!RemoveModel(m) PROVE ModelsInv'
  <2> DEFINE F(p) == [p EXCEPT !.models = Providers!Without(@, m)]
  <2>1. Providers!Active /\ UNCHANGED <<modelsJson, shown, page, timer, modal>>
    BY <1>7 DEF Providers!RemoveModel, Providers!Row
  <2> PICK s : s = Providers!Without(at.models, m)
    OBVIOUS
  <2>2. s \in ModelSets
    BY <1>1, <2>1, ModelsType
  <2>3. F(at) \in Providers!Providers
    BY <1>2, <2>1, <2>2
  <2> PICK p : p = F(at)
    OBVIOUS
  <2> PICK W : W = Providers!Put(shown, page.sel, p)
    OBVIOUS
  <2> PICK X : X = IF page.sel \in DOMAIN want
                   THEN Providers!Put(want, page.sel, F(want[page.sel])) ELSE want
    OBVIOUS
  <2>7. page.sel \in DOMAIN shown
    BY <2>1, ModelsFacts
  <2>8. want = shown => X = W
    BY <2>7
  <2>9. /\ Providers!Send([op |-> "save", with |-> W, rename |-> None, on |-> None])
        /\ want' = IF Providers!Quiet /\ want # None
                   THEN Providers!MergeFlags(X, want, None) ELSE None
    BY <1>7, <2>7 DEF Providers!RemoveModel, Providers!Change, Providers!Edits
  <2>10. p \in Providers!Providers
    BY <2>3
  <2>11. modal' \in ModalRec \cup {None}
    BY <1>3, <2>1 DEF ModelsTyped
  <2> HIDE DEF F
  <2> QED BY <2>1, <2>8, <2>9, <2>10, <2>11, Changed
<1> QED BY <1>4, <1>5, <1>6, <1>7

\* The timer saves what its render had: the wanted file, if it fires alone.
LEMMA TimerInv ==
  ASSUME Providers!ModelsAssumption, ModelsInv, Providers!TimerFires
  PROVE  ModelsInv'
<1> DEFINE d == timer.detail
<1>1. /\ ModelsTyped /\ timer \in TimerRec /\ timer' = None
      /\ UNCHANGED <<modelsJson, shown, modal>>
  BY ModelsFacts DEF Providers!TimerFires, ModelsTyped
<1>2. /\ d \in Providers!Details /\ timer.sel \in Ids /\ d.id \in Ids \cup {None}
      /\ d.url \in Urls \cup {None} /\ timer.with \in Providers!Files
  BY <1>1 DEF TimerRec, Providers!Details
<1>3. CASE d.id = None /\ UNCHANGED <<page, calls, want>>
  BY <1>1, <1>3, PageClicked DEF ModelsTyped
<1>4. ASSUME NEW last \in BOOLEAN, d.id # None, page' = [page EXCEPT !.sig = d],
             Providers!Edits(LAMBDA ps : Providers!Renamed(ps, timer.sel, d, last),
                             timer.with,
                             IF d.id = timer.sel THEN None ELSE d.id,
                             None, calls = <<>>)
      PROVE  ModelsInv'
  <2> PICK with : with = timer.with
    OBVIOUS
  <2> PICK W : W = Providers!Renamed(with, timer.sel, d, last)
    OBVIOUS
  <2> PICK r : r = IF d.id = timer.sel THEN None ELSE d.id
    OBVIOUS
  <2>1. /\ Providers!Send([op |-> "save", with |-> W, rename |-> r, on |-> None])
        /\ want' = IF calls = <<>> /\ want # None
                   THEN Providers!MergeFlags(Providers!Renamed(want, timer.sel, d, last),
                                             want, None)
                   ELSE None
    BY <1>4 DEF Providers!Edits
  <2>2. d.id \in Ids /\ r \in Ids \cup {None} /\ with \in Providers!Files
    BY <1>1, <1>2, <1>4
  <2>3. page' \in Providers!Pages /\ page'.sig = d /\ page'.detail = page.detail
    BY <1>1, <1>2, <1>4 DEF ModelsTyped, Providers!Pages
  <2>4. W \in Providers!Files
    <3>1. CASE timer.sel \notin DOMAIN with
      BY <2>2, <3>1 DEF Providers!Renamed
    <3>2. CASE timer.sel \in DOMAIN with
      <4> DEFINE u == IF d.url = None THEN with[timer.sel].url ELSE d.url
      <4> PICK p : p = [with[timer.sel] EXCEPT !.url = IF d.url = None THEN @ ELSE d.url]
        OBVIOUS
      <4>1. with[timer.sel] \in Providers!Providers /\ u \in Urls
        BY <1>2, <2>2, <3>2, FilesType
      <4>2. p \in Providers!Providers
        <5> HIDE DEF u
        <5>1. p = [with[timer.sel] EXCEPT !.url = u]
          BY DEF u
        <5> QED BY <4>1, <5>1 DEF Providers!Providers
      <4> PICK rest : rest = Providers!Without(with, timer.sel)
        OBVIOUS
      <4>3. rest \in Providers!Files /\ Providers!Put(rest, d.id, p) \in Providers!Files
        BY <2>2, <4>2, FilesType
      <4>4. W \in {rest, Providers!Put(rest, d.id, p)}
        BY <3>2 DEF Providers!Renamed
      <4> QED BY <4>3, <4>4
    <3> QED BY <3>1, <3>2
  <2>5. CASE calls = <<>> /\ want # None
    <3>1. want = modelsJson /\ with = want /\ d = page.detail
      BY <1>1, <2>5 DEF ModelsInv, NoSave, Saving, Armed, Providers!ModelsAssumption,
         TimerRec, Providers!TimerFires
    <3>2. want' = Providers!MergeFlags(W, modelsJson, None)
      BY <2>1, <2>5, <3>1
    <3> QED BY <1>1, <2>1, <2>2, <2>3, <2>4, <2>5, <3>1, <3>2, Edited DEF ModelsTyped
  <2>6. CASE ~(calls = <<>> /\ want # None)
    BY <1>1, <2>1, <2>2, <2>3, <2>4, <2>6, Edited DEF ModelsTyped
  <2> QED BY <2>5, <2>6
<1> QED BY <1>3, <1>4 DEF Providers!TimerFires

\* The dialog of a new model, and its probe.
LEMMA FormInv ==
  ASSUME Providers!ModelsAssumption, ModelsInv,
         \/ Providers!OpenAddModel \/ Providers!CloseModal \/ Providers!ProbeAnswer
         \/ \E m \in Models \cup {None} : Providers!TypeModel(m)
  PROVE  ModelsInv'
<1>1. ModelsTyped /\ UNCHANGED <<modelsJson, shown, page, timer, calls, want>>
  BY ModelsFacts DEF Providers!OpenAddModel, Providers!CloseModal,
     Providers!ProbeAnswer, Providers!TypeModel
<1>2. CASE Providers!OpenAddModel \/ Providers!CloseModal
  <2>1. [id |-> None, probing |-> FALSE] \in ModalRec
    BY DEF ModalRec
  <2>2. modal' \in ModalRec \cup {None}
    BY <1>2, <2>1, Zenon DEF Providers!OpenAddModel, Providers!CloseModal
  <2> QED BY <1>1, <2>2, PageClicked DEF ModelsTyped
<1>3. CASE Providers!ProbeAnswer
  <2>1. modal' \in ModalRec
    BY <1>1, <1>3 DEF Providers!ProbeAnswer, ModelsTyped, ModalRec
  <2> QED BY <1>1, <2>1, PageClicked DEF ModelsTyped
<1>4. ASSUME NEW m \in Models \cup {None}, Providers!TypeModel(m) PROVE ModelsInv'
  <2>1. modal' \in ModalRec
    BY <1>4 DEF Providers!TypeModel, ModalRec
  <2> QED BY <1>1, <2>1, PageClicked DEF ModelsTyped
<1> QED BY <1>2, <1>3, <1>4

LEMMA RefreshInv ==
  ASSUME Providers!ModelsAssumption, ModelsInv, Providers!RefreshModels
  PROVE  ModelsInv'
<1>1. ModelsTyped /\ UNCHANGED <<modelsJson, shown, page, timer, modal, want>>
  BY ModelsFacts DEF Providers!RefreshModels
<1>2. ConfigCall \in CallRec /\ ConfigCall.op = "config"
  BY DEF ConfigCall, CallRec
<1>3. Providers!Send(ConfigCall)
  BY DEF Providers!RefreshModels, ConfigCall
<1>4. /\ calls' # <<>> /\ calls' \in Seq(CallRec)
      /\ calls = <<>> => Head(calls') = ConfigCall
      /\ calls # <<>> => Head(calls') = Head(calls)
      /\ LaterAsk'
  BY <1>1, <1>2, <1>3, Sent DEF ModelsInv, ModelsTyped
<1>5. (Saving' <=> Saving) /\ (Saving => Head(calls') = Head(calls))
  BY <1>2, <1>4 DEF Saving
<1>6. ModelsTyped' /\ Shows'
  BY <1>1, <1>4 DEF ModelsTyped, Shows
<1>7. OneSave' /\ NoSave' /\ Armed'
  BY <1>1, <1>5 DEF ModelsInv, OneSave, NoSave, Armed
<1> QED BY <1>4, <1>6, <1>7 DEF ModelsInv

LEMMA SavedProvidersInv ==
  ASSUME Providers!ModelsAssumption, ModelsInv, Providers!Saved
  PROVE  ModelsInv'
<1> DEFINE c == Head(calls)
           q == [page EXCEPT !.sel = c.rename]
<1>1. ModelsTyped /\ page \in Providers!Pages /\ calls # <<>> /\ c.op = "save"
      /\ UNCHANGED <<shown, modal, want>> /\ Saving
  BY ModelsFacts DEF Providers!Saved, Saving
<1>2. c \in CallRec /\ Tail(calls) \in Seq(CallRec) /\ Len(Tail(calls)) = Len(calls) - 1
      /\ \A k \in 1 .. Len(Tail(calls)) : Tail(calls)[k] = calls[k + 1]
  BY <1>1, EmptySeq DEF ModelsTyped
<1>3. c.with \in Providers!Files /\ c.rename \in Ids \cup {None}
  BY <1>1, <1>2 DEF CallRec, Saves
<1>4. /\ modelsJson' = Providers!MergeFlags(c.with, modelsJson, c.on)
      /\ calls' = Append(Tail(calls), ConfigCall)
      /\ Providers!Show(IF c.rename = None THEN page ELSE q)
  BY DEF Providers!Saved, Providers!Merged, ConfigCall
<1>5. q \in Providers!Pages /\ q.detail = page.detail /\ q.sig = page.sig
  BY <1>1, <1>3 DEF Providers!Pages
<1>6. ConfigCall \in CallRec /\ ConfigCall.op = "config"
  BY DEF ConfigCall, CallRec
<1> HIDE DEF c, q
<1>7. calls' \in Seq(CallRec) /\ In(calls') = In(Tail(calls)) \cup {ConfigCall}
  <2> DEFINE t == Tail(calls)
  <2>1. t \in Seq(CallRec)
    BY <1>2
  <2>2. calls' = Append(t, ConfigCall)
    BY <1>4
  <2>3. ConfigCall \in CallRec
    BY <1>6
  <2> HIDE DEF t
  <2>4. Append(t, ConfigCall) \in Seq(CallRec)
        /\ In(Append(t, ConfigCall)) = In(t) \cup {ConfigCall}
    BY <2>1, <2>3, InAppend
  <2> QED BY <2>2, <2>4 DEF t
<1>15. calls' # <<>> /\ calls'[1] \in In(calls') /\ Head(calls') = calls'[1]
  <2>1. calls' # <<>>
    BY <1>7, InEmpty
  <2>2. Len(calls') \in Nat \ {0} /\ DOMAIN calls' = 1 .. Len(calls')
    BY <1>7, <2>1, EmptySeq
  <2> QED BY <2>1, <2>2 DEF In
<1>8. PICK p \in Providers!Pages : /\ Providers!Show(p)
                                   /\ p.detail = page.detail /\ p.sig = page.sig
                                   /\ c.rename = None => p = page
  BY <1>1, <1>4, <1>5
<1>9. shown' \in Providers!Files /\ timer \in TimerRec \cup {None}
  BY <1>1 DEF ModelsTyped
<1>10. page' \in Providers!Pages /\ timer' \in TimerRec \cup {None}
  BY <1>1, <1>8, <1>9, Showing
<1>11. ModelsTyped' /\ Shows'
  BY <1>1, <1>3, <1>4, <1>7, <1>10, <1>15, MergedType DEF ModelsTyped, Shows
<1>12. ASSUME want # None
       PROVE  LaterAsk' /\ ~Saving' /\ NoSave' /\ timer' = None
  <2>1. \A e \in In(Tail(calls)) : e.op = "config"
    <3>1. LaterAsk /\ calls \in Seq(CallRec)
      BY <1>1 DEF ModelsInv, ModelsTyped
    <3>2. DOMAIN Tail(calls) = 1 .. Len(calls) - 1 /\ Len(calls) \in Nat
      BY <1>2, <3>1
    <3>3. ASSUME NEW k \in 1 .. Len(calls) - 1
          PROVE  Tail(calls)[k] = calls[k + 1] /\ calls[k + 1].op = "config"
      <4>1. k + 1 \in 1 .. Len(calls) /\ k + 1 > 1
        BY <3>2
      <4>2. calls[k + 1].op = "config"
        BY <1>12, <3>1, <4>1 DEF LaterAsk
      <4> QED BY <1>2, <4>2
    <3> QED BY <3>2, <3>3 DEF In
  <2>2. \A e \in In(calls') : e.op = "config"
    BY <1>6, <1>7, <2>1
  <2>3. LaterAsk' /\ ~Saving'
    <3>1. DOMAIN calls' = 1 .. Len(calls')
      BY <1>7
    <3>2. \A k \in 1 .. Len(calls') : calls'[k] \in In(calls')
      BY <3>1 DEF In
    <3> QED BY <1>15, <2>2, <3>2 DEF LaterAsk, Saving
  <2>4. want = modelsJson' /\ timer = None /\ (c.rename # None => page.detail = page.sig)
    BY <1>1, <1>4, <1>12 DEF ModelsInv, OneSave, c
  <2>5. timer' = None
    <3>1. CASE page' = page
      BY <1>8, <2>4, <3>1 DEF Providers!Show
    <3>2. CASE page'.detail = page'.sig
      BY <1>1, <1>8, <1>9, <2>4, <3>2, Showing
    <3>3. page' = p \/ page'.detail = page'.sig
      BY <1>1, <1>8, <1>9, Showing
    <3> QED BY <1>8, <2>4, <3>1, <3>2, <3>3
  <2> QED BY <1>1, <2>3, <2>4, <2>5 DEF NoSave
<1>13. CASE want # None
  BY <1>11, <1>12, <1>13 DEF ModelsInv, OneSave, Armed
<1>14. CASE want = None
  BY <1>1, <1>11, <1>14 DEF ModelsInv, LaterAsk, OneSave, NoSave, Armed
<1> QED BY <1>13, <1>14

LEMMA ConfiguredInv ==
  ASSUME Providers!ModelsAssumption, ModelsInv, Providers!Configured
  PROVE  ModelsInv'
<1>1. /\ ModelsTyped /\ page \in Providers!Pages /\ calls # <<>>
      /\ Head(calls).op = "config" /\ ~Saving
      /\ UNCHANGED <<modelsJson, modal, want>> /\ shown' = modelsJson
      /\ calls' = Tail(calls) /\ Providers!Show(page)
  BY ModelsFacts DEF Providers!Configured, Saving
<1>2. calls' \in Seq(CallRec) /\ Len(calls') = Len(calls) - 1
      /\ \A k \in 1 .. Len(calls') : calls'[k] = calls[k + 1]
  BY <1>1, EmptySeq DEF ModelsTyped
<1>3. shown' \in Providers!Files /\ timer \in TimerRec \cup {None}
  BY <1>1 DEF ModelsTyped
<1>4. /\ page' \in Providers!Pages /\ timer' \in TimerRec \cup {None}
      /\ timer' = None \/ (timer' = timer /\ page'.detail = page.detail)
  <2>1. /\ page' \in Providers!Pages /\ timer' \in TimerRec \cup {None}
        /\ page' = page \/ page'.detail = page'.sig
    BY <1>1, <1>3, Showing
  <2>2. CASE page' = page
    BY <1>1, <2>1, <2>2 DEF Providers!Show
  <2>3. CASE page'.detail = page'.sig
    BY <1>1, <1>3, <2>1, <2>3, Showing
  <2> QED BY <2>1, <2>2, <2>3
<1>5. ModelsTyped' /\ Shows'
  BY <1>1, <1>2, <1>3, <1>4 DEF ModelsTyped, Shows
<1>6. ASSUME want # None PROVE LaterAsk' /\ ~Saving'
  <2>1. \A k \in 1 .. Len(calls') : calls'[k].op = "config"
    BY <1>2, <1>6 DEF ModelsInv, ModelsTyped, LaterAsk
  <2>2. calls' # <<>> => Head(calls') = calls'[1] /\ 1 \in 1 .. Len(calls')
    BY <1>2, EmptySeq
  <2> QED BY <2>1, <2>2 DEF LaterAsk, Saving
<1>7. want = None => LaterAsk'
  BY <1>1 DEF LaterAsk
<1>8. OneSave' /\ NoSave' /\ Armed'
  BY <1>1, <1>4, <1>6 DEF ModelsInv, OneSave, NoSave, Armed
<1> QED BY <1>5, <1>6, <1>7, <1>8 DEF ModelsInv

LEMMA ModelsInit == ASSUME Providers!ModelsAssumption, Providers!Init PROVE ModelsInv
<1>1. shown \in Providers!Files
  <2>1. shown \in [{} -> Providers!Providers] /\ {} \in SUBSET Ids
    BY DEF Providers!Init
  <2> QED BY <2>1, FilesType
<1>2. Providers!NoPage \in Providers!Pages
  BY DEF Providers!NoPage, Providers!Pages, Providers!NoDetail, Providers!Details
<1>3. calls = <<ConfigCall>> /\ ConfigCall \in CallRec /\ ConfigCall.op = "config"
  BY DEF Providers!Init, ConfigCall, CallRec
<1>4. calls \in Seq(CallRec) /\ calls # <<>> /\ Len(calls) = 1 /\ Head(calls) = ConfigCall
  BY <1>3
<1>5. ModelsTyped
  BY <1>1, <1>2, <1>4 DEF Providers!Init, ModelsTyped
<1>6. Shows /\ LaterAsk /\ ~Saving
  BY <1>3, <1>4 DEF Shows, LaterAsk, Saving
<1> QED BY <1>5, <1>6 DEF Providers!Init, ModelsInv, OneSave, NoSave, Armed

LEMMA ModelsStep ==
  ASSUME Providers!ModelsAssumption, ModelsInv, [Providers!Next]_modelsVars
  PROVE  ModelsInv'
<1>1. CASE UNCHANGED modelsVars
  BY <1>1 DEF modelsVars, ModelsInv, ModelsTyped, Shows, LaterAsk, OneSave, NoSave,
     Armed, Saving
<1>2. CASE Providers!Next
  BY <1>2, SelectInv, TypeInv, AddProviderInv, DeleteInv, ChangeInv, TimerInv, FormInv,
     RefreshInv, SavedProvidersInv, ConfiguredInv
     DEF Providers!Next
<1> QED BY <1>1, <1>2

LEMMA ModelsInvKept ==
  ASSUME ModelsInv
  PROVE  Providers!TypeOK /\ Providers!EditsKept
<1>1. Providers!TypeOK
  BY DEF ModelsInv, ModelsTyped, TimerRec, ModalRec, CallRec, Saves, Providers!TypeOK
<1>2. Providers!EditsKept
  BY DEF ModelsInv, Shows, NoSave, Saving, Providers!EditsKept
<1> QED BY <1>1, <1>2

------------------------------------------------------------------------------
(***************************************************************************)
(* PluginList.  One job at a time: while there is one, the page waits for  *)
(* it and no other; a list that was made is of what is configured, and     *)
(* till a job has changed the settings the page and the cache show them.   *)
(***************************************************************************)
ViewRec == [open : BOOLEAN, loading : BOOLEAN, list : SUBSET Packages,
            error : BOOLEAN, installing : BOOLEAN, busy : Packages \cup {None}]
PluginsTyped ==
  /\ settings \in SUBSET Packages /\ kept \in (SUBSET Packages) \cup {None}
  /\ jobs \in SUBSET Plugins!Jobs /\ view \in ViewRec

Listing == view.list = settings /\ kept = settings
Waits(j) ==
  /\ j.mine = view.open /\ (j.op # "load" => j.source \in Packages)
  /\ view.loading => j.op = "load"
  /\ view.installing => j.op = "install"
  /\ view.busy # None => j.op = "uninstall"
  /\ j.at = "asked" => j.op # "load" /\ (view.open => Listing)
  /\ j.at = "listed" => j.list = settings
NoJob ==
  view.open => Listing /\ ~view.loading /\ ~view.installing /\ view.busy = None
OneJob ==
  /\ \A j, k \in jobs : j = k
  /\ \A j \in jobs : Waits(j)
  /\ jobs = {} => NoJob
  /\ ~view.open => view = Plugins!Blank

PluginsInv == PluginsTyped /\ OneJob

LEMMA BlankView == Plugins!Blank \in ViewRec /\ Plugins!Blank.open = FALSE
                   /\ ~Plugins!Blank.loading /\ ~Plugins!Blank.installing
                   /\ Plugins!Blank.busy = None
  BY DEF Plugins!Blank, ViewRec

\* After a step that leaves at most one job.
LEMMA JobLeft ==
  ASSUME PluginsTyped', NEW j, jobs' \subseteq {j},
         jobs' # {} => Waits(j)', jobs' = {} => NoJob',
         ~view'.open => view' = Plugins!Blank
  PROVE  PluginsInv'
<1>1. \A a, b \in jobs' : a = b
  OBVIOUS
<1>2. \A a \in jobs' : Waits(a)'
  BY DEF Waits, Listing
<1> QED BY <1>1, <1>2 DEF PluginsInv, OneJob, NoJob, Listing, Plugins!Blank

LEMMA OpenInv ==
  ASSUME Plugins!PluginAssumption, PluginsInv, Plugins!Open
  PROVE  PluginsInv'
<1> DEFINE j == Plugins!Job("load", None, "listing")
<1>1. jobs = {} /\ jobs' = {j} /\ settings' = settings /\ kept' = kept
  BY DEF Plugins!Open, Plugins!Start
<1>2. /\ j \in Plugins!Jobs /\ j.mine = TRUE /\ j.op = "load" /\ j.at = "listing"
  BY DEF Plugins!Job, Plugins!Jobs
<1>3. /\ view' = [Plugins!Blank EXCEPT !.open = TRUE, !.loading = kept = None,
                    !.list = IF kept = None THEN {} ELSE kept]
      /\ kept = None \/ kept \in SUBSET Packages
  BY DEF Plugins!Open, PluginsInv, PluginsTyped
<1>4. /\ view' \in ViewRec /\ view'.open = TRUE
      /\ ~view'.installing /\ view'.busy = None
  BY <1>3 DEF Plugins!Blank, ViewRec
<1> HIDE DEF j
<1>5. PluginsTyped'
  BY <1>1, <1>2, <1>4 DEF PluginsInv, PluginsTyped
<1>6. Waits(j)'
  BY <1>1, <1>2, <1>4 DEF Waits
<1> QED BY <1>1, <1>4, <1>5, <1>6, JobLeft

LEMMA CloseInv ==
  ASSUME Plugins!PluginAssumption, PluginsInv, Plugins!Close
  PROVE  PluginsInv'
<1> DEFINE Left(k) == [k EXCEPT !.mine = FALSE]
<1>1. /\ settings' = settings /\ kept' = kept /\ view' = Plugins!Blank
      /\ jobs' = {Left(k) : k \in {i \in jobs : i.op # "load"}}
  BY DEF Plugins!Close
<1>2. \A k \in Plugins!Jobs : Left(k) \in Plugins!Jobs /\ Left(k).mine = FALSE
        /\ Left(k).op = k.op /\ Left(k).at = k.at /\ Left(k).list = k.list
        /\ Left(k).source = k.source
  BY DEF Plugins!Jobs
<1> HIDE DEF Left
<1>3. PluginsTyped'
  BY <1>1, <1>2, BlankView DEF PluginsInv, PluginsTyped
<1>4. NoJob'
  BY <1>1, BlankView DEF NoJob
<1>5. CASE jobs' = {}
  BY <1>1, <1>3, <1>4, <1>5, JobLeft
<1>6. CASE jobs' # {}
  <2>1. PICK k \in jobs : k.op # "load" /\ Left(k) \in jobs'
    BY <1>1, <1>6
  <2>2. jobs' \subseteq {Left(k)} /\ k \in Plugins!Jobs /\ Waits(k)
    BY <1>1, <2>1 DEF PluginsInv, OneJob, PluginsTyped
  <2>3. Waits(Left(k))'
    BY <1>1, <1>2, <2>1, <2>2, BlankView DEF Waits
  <2> QED BY <1>1, <1>3, <1>6, <2>2, <2>3, JobLeft
<1> QED BY <1>5, <1>6

LEMMA InstallInv ==
  ASSUME Plugins!PluginAssumption, PluginsInv, NEW s \in Packages,
         Plugins!Install(s) \/ Plugins!Uninstall(s)
  PROVE  PluginsInv'
<1>1. PICK op \in {"install", "uninstall"} :
        /\ jobs = {} /\ jobs' = {Plugins!Job(op, s, "asked")}
        /\ view.open /\ settings' = settings /\ kept' = kept
        /\ view' = IF op = "install"
                   THEN [view EXCEPT !.installing = TRUE, !.error = FALSE]
                   ELSE [view EXCEPT !.busy = s, !.error = FALSE]
  <2>1. CASE Plugins!Install(s)
    BY <2>1 DEF Plugins!Install, Plugins!Start, Plugins!InstallBar
  <2>2. CASE Plugins!Uninstall(s)
    BY <2>2 DEF Plugins!Uninstall, Plugins!Start, Plugins!Row
  <2> QED BY <2>1, <2>2
<1> DEFINE j == Plugins!Job(op, s, "asked")
<1>2. /\ j \in Plugins!Jobs /\ j.mine = TRUE /\ j.op = op /\ j.at = "asked"
      /\ j.source = s
  BY DEF Plugins!Job, Plugins!Jobs
<1> HIDE DEF j
<1>3. view \in ViewRec /\ view.open = TRUE /\ NoJob
  BY <1>1 DEF PluginsInv, PluginsTyped, OneJob, ViewRec
<1>4. /\ view' \in ViewRec /\ view'.open = TRUE /\ view'.list = view.list
      /\ view'.loading = view.loading
      /\ view'.installing => view.installing \/ op = "install"
      /\ view'.busy # None => view.busy # None \/ op = "uninstall"
  BY <1>1, <1>3 DEF ViewRec
<1>5. PluginsTyped'
  BY <1>1, <1>2, <1>4 DEF PluginsInv, PluginsTyped, j
<1>6. Waits(j)'
  BY <1>1, <1>2, <1>3, <1>4 DEF Waits, NoJob, Listing
<1>7. jobs' = {j}
  BY <1>1 DEF j
<1> QED BY <1>4, <1>5, <1>6, <1>7, JobLeft

LEMMA PersistInv ==
  ASSUME Plugins!PluginAssumption, PluginsInv, NEW j \in jobs, Plugins!Persist(j)
  PROVE  PluginsInv'
<1>1. /\ j \in Plugins!Jobs /\ view \in ViewRec /\ jobs = {j} /\ Waits(j)
      /\ j.at = "asked" /\ kept' = kept
  BY DEF Plugins!Persist, PluginsInv, PluginsTyped, OneJob
<1>2. j.source \in Packages \cup {None} /\ j.mine \in BOOLEAN /\ j.op # "load"
  BY <1>1 DEF Plugins!Jobs, Waits
<1>3. CASE Plugins!Ends(j) /\ UNCHANGED settings
           /\ view' = [Plugins!Finished(j) EXCEPT !.error = j.mine \/ @]
  <2>1. CASE j.mine = FALSE
    <3>1. view.open = FALSE /\ view = Plugins!Blank
      BY <1>1, <2>1 DEF Waits, PluginsInv, OneJob
    <3>2. view' = [Plugins!Blank EXCEPT !.error = FALSE]
      BY <1>3, <2>1, <3>1 DEF Plugins!Finished, Plugins!Blank
    <3>3. view' = Plugins!Blank
      BY <3>2 DEF Plugins!Blank
    <3>4. PluginsTyped' /\ NoJob'
      BY <1>1, <1>3, <3>3, BlankView
         DEF PluginsInv, PluginsTyped, NoJob, Plugins!Ends
    <3> QED BY <1>1, <1>3, <3>3, <3>4, JobLeft DEF Plugins!Ends
  <2>2. CASE j.mine = TRUE
    <3>1. view.open = TRUE /\ view.list = settings /\ kept = settings /\ ~view.loading
          /\ j.op \in {"install", "uninstall"}
      BY <1>1, <1>2, <2>2 DEF Waits, Listing, Plugins!Jobs
    <3>2. /\ view' \in ViewRec /\ view'.open = TRUE /\ view'.list = view.list
          /\ ~view'.loading /\ ~view'.installing /\ view'.busy = None
      BY <1>1, <1>3, <2>2, <3>1 DEF Plugins!Finished, ViewRec, Waits
    <3>3. PluginsTyped'
      BY <1>1, <1>3, <3>2 DEF PluginsInv, PluginsTyped, Plugins!Ends
    <3>4. NoJob'
      BY <1>1, <1>3, <3>1, <3>2 DEF NoJob, Listing
    <3> QED BY <1>1, <1>3, <3>2, <3>3, <3>4, JobLeft DEF Plugins!Ends
  <2> QED BY <1>2, <2>1, <2>2
<1>4. CASE /\ j.op = "install" \/ j.source \in settings
           /\ settings' = IF j.op = "install" THEN settings \cup {j.source}
                          ELSE settings \ {j.source}
           /\ Plugins!Becomes(j, [j EXCEPT !.at = "listing"]) /\ UNCHANGED view
  <2> DEFINE k == [j EXCEPT !.at = "listing"]
  <2>1. /\ k \in Plugins!Jobs /\ k.at = "listing" /\ k.op = j.op /\ k.mine = j.mine
          /\ k.source = j.source
    BY <1>1 DEF Plugins!Jobs
  <2>2. jobs' = {k}
    BY <1>1, <1>4 DEF Plugins!Becomes
  <2> HIDE DEF k
  <2>3. settings' \in SUBSET Packages
    BY <1>1, <1>2, <1>4 DEF PluginsInv, PluginsTyped, Waits
  <2>4. PluginsTyped'
    BY <1>1, <1>4, <2>1, <2>2, <2>3 DEF PluginsInv, PluginsTyped
  <2>5. Waits(k)'
    BY <1>1, <1>4, <2>1 DEF Waits
  <2> QED BY <1>1, <1>4, <2>2, <2>4, <2>5, JobLeft DEF PluginsInv, OneJob
<1> QED BY <1>3, <1>4 DEF Plugins!Persist

LEMMA ListInv ==
  ASSUME Plugins!PluginAssumption, PluginsInv, NEW j \in jobs, Plugins!List(j)
  PROVE  PluginsInv'
<1>0. PICK k : k = [j EXCEPT !.at = "listed", !.list = settings]
  OBVIOUS
<1>1. /\ j \in Plugins!Jobs /\ jobs = {j} /\ Waits(j) /\ jobs' = {k}
      /\ settings' = settings /\ kept' = kept /\ view' = view
  BY <1>0 DEF Plugins!List, Plugins!Becomes, PluginsInv, PluginsTyped, OneJob
<1>2. /\ k \in Plugins!Jobs /\ k.at = "listed" /\ k.op = j.op /\ k.mine = j.mine
      /\ k.source = j.source /\ k.list = settings
  BY <1>0, <1>1 DEF Plugins!Jobs, Plugins!Lists, PluginsInv, PluginsTyped
<1>3. PluginsTyped'
  BY <1>1, <1>2 DEF PluginsInv, PluginsTyped
<1>4. Waits(k)'
  BY <1>1, <1>2 DEF Waits
<1> QED BY <1>1, <1>3, <1>4, JobLeft DEF PluginsInv, OneJob

LEMMA ApplyInv ==
  ASSUME Plugins!PluginAssumption, PluginsInv, NEW j \in jobs, Plugins!Apply(j)
  PROVE  PluginsInv'
<1>1. /\ j \in Plugins!Jobs /\ view \in ViewRec /\ jobs = {j} /\ Waits(j)
      /\ jobs' = {} /\ settings' = settings /\ kept' = settings /\ j.list = settings
  BY DEF Plugins!Apply, Plugins!Ends, PluginsInv, PluginsTyped, OneJob, Waits
<1>2. settings \in SUBSET Packages
  BY DEF PluginsInv, PluginsTyped
<1>3. CASE j.mine = FALSE
  <2>1. view.open = FALSE /\ view' = view /\ view = Plugins!Blank
    BY <1>1, <1>3 DEF Waits, PluginsInv, OneJob, Plugins!Apply
  <2>2. PluginsTyped' /\ NoJob'
    BY <1>1, <1>2, <2>1 DEF PluginsTyped, NoJob
  <2> QED BY <1>1, <2>1, <2>2, JobLeft
<1>4. CASE j.mine = TRUE
  <2>1. view' = [Plugins!Finished(j) EXCEPT !.list = settings, !.error = FALSE]
    BY <1>1, <1>4 DEF Plugins!Apply
  <2>2. /\ view' \in ViewRec /\ view'.open = TRUE /\ view'.list = settings
        /\ ~view'.loading /\ ~view'.installing /\ view'.busy = None
    BY <1>1, <1>2, <1>4, <2>1 DEF Plugins!Finished, ViewRec, Waits, Plugins!Jobs
  <2>3. PluginsTyped' /\ NoJob'
    BY <1>1, <1>2, <2>2 DEF PluginsTyped, NoJob, Listing
  <2> QED BY <1>1, <2>2, <2>3, JobLeft
<1> QED BY <1>1, <1>3, <1>4 DEF Plugins!Jobs

LEMMA PluginsInit ==
  ASSUME Plugins!PluginAssumption, Plugins!Init PROVE PluginsInv
<1>1. PluginsTyped
  BY BlankView DEF Plugins!Init, PluginsTyped, Plugins!Lists
<1>2. OneJob
  BY BlankView DEF Plugins!Init, OneJob, NoJob
<1> QED BY <1>1, <1>2 DEF PluginsInv

LEMMA PluginsStep ==
  ASSUME Plugins!PluginAssumption, PluginsInv, [Plugins!Next]_pluginsVars
  PROVE  PluginsInv'
<1>1. CASE UNCHANGED pluginsVars
  BY <1>1 DEF pluginsVars, PluginsInv, PluginsTyped, OneJob, Waits, NoJob, Listing
<1> QED BY <1>1, OpenInv, CloseInv, InstallInv, PersistInv, ListInv, ApplyInv
        DEF Plugins!Next

LEMMA PluginsInvKept == ASSUME PluginsInv PROVE Plugins!TypeOK /\ Plugins!ListTrue
<1>1. Plugins!TypeOK
  BY DEF PluginsInv, PluginsTyped, ViewRec, Plugins!TypeOK, Plugins!Lists
<1>2. Plugins!ListTrue
  BY DEF PluginsInv, OneJob, NoJob, Listing, Plugins!ListTrue
<1> QED BY <1>1, <1>2

------------------------------------------------------------------------------
(***************************************************************************)
(* The composition: a step of the daemon is a step of one service and      *)
(* leaves the state of the others alone.                                   *)
(***************************************************************************)
LEMMA Parts ==
  ASSUME Init
  PROVE  Pool!Init /\ Gate!Init /\ Mcp!Init /\ Providers!Init /\ Plugins!Init /\ Bus!Init
  BY DEF Init

LEMMA GateTurn ==
  ASSUME GateNext
  PROVE  Gate!Next
  BY DEF GateNext, Gate!Next

LEMMA Moves ==
  ASSUME [Next]_vars
  PROVE  /\ [Pool!Next]_poolVars /\ [Gate!Next]_gateVars /\ [Mcp!Next]_mcpVars
         /\ [Providers!Next]_modelsVars /\ [Plugins!Next]_pluginsVars
         /\ [Bus!Next]_busVars
<1>1. CASE UNCHANGED vars
  BY <1>1 DEF vars
<1>2. CASE PoolNext
  BY <1>2 DEF PoolNext
<1>3. CASE GateNext
  BY <1>3, GateTurn DEF GateNext
<1>4. CASE McpNext
  BY <1>4 DEF McpNext
<1>5. CASE ProvidersNext
  BY <1>5 DEF ProvidersNext
<1>6. CASE PluginsNext
  BY <1>6 DEF PluginsNext
<1>7. CASE BusNext
  BY <1>7 DEF BusNext
<1> QED BY <1>1, <1>2, <1>3, <1>4, <1>5, <1>6, <1>7 DEF Next

ServicesInv == PoolInv /\ GateInv /\ McpInv /\ ModelsInv /\ PluginsInv /\ BusInv

LEMMA Always == ASSUME ServicesAssumption PROVE Spec => []ServicesInv
<1>1. ASSUME Init PROVE ServicesInv
  BY <1>1, Parts, PoolInit, GateInit, McpInit, ModelsInit, PluginsInit, BusInit
     DEF ServicesAssumption, ServicesInv
<1>2. ASSUME ServicesInv, [Next]_vars PROVE ServicesInv'
  BY <1>2, Moves, PoolStep, GateStep, McpStep, ModelsStep, PluginsStep, BusStep
     DEF ServicesAssumption, ServicesInv
<1> QED BY <1>1, <1>2, PTL DEF Spec

\* Every service stays in its types: no answer that comes late, edit, toggle
\* or throw takes pool, switches, pages or listeners out of them.
THEOREM TypeCorrect == ASSUME ServicesAssumption PROVE Spec => []TypeOK
<1>1. ServicesInv => TypeOK
  BY GateInvKept, McpInvKept, ModelsInvKept, PluginsInvKept, BusInvKept
     DEF ServicesInv, PoolInv, TypeOK
<1> QED BY <1>1, Always, PTL

\* At most one client of each server is connected, the shared one, and after
\* "/mcp reconnect" none of an older configuration is in use (mcp.ts
\* connectServers, reconnect).
THEOREM PoolAlwaysSound == ASSUME ServicesAssumption PROVE Spec => []PoolSound
<1>1. ServicesInv => PoolSound
  BY PoolInvSound DEF ServicesInv, PoolSound
<1> QED BY <1>1, Always, PTL

\* A session's loader hides as many skills as were switched off when the
\* session was started (vagus-engine.ts getCachedLoader).
THEOREM HiddenAlwaysInNumber == ASSUME ServicesAssumption PROVE Spec => []HiddenInNumber
<1>1. ServicesInv => HiddenInNumber
  BY GateInvKept DEF ServicesInv, HiddenInNumber
<1> QED BY <1>1, Always, PTL

\* What the user set on the pages for skills, providers, MCP servers and
\* packages is what the daemon keeps once all is answered.
THEOREM SettingsAlwaysKept == ASSUME ServicesAssumption PROVE Spec => []SettingsKept
<1>1. ServicesInv => SettingsKept
  BY GateInvKept, ModelsInvKept, McpInvKept, PluginsInvKept
     DEF ServicesInv, SettingsKept
<1> QED BY <1>1, Always, PTL

\* The bus keeps its events in order, calls every listener of a snapshot
\* and a once-registration at most once (event-bus.ts emit, once).
THEOREM EventsAlwaysKept == ASSUME ServicesAssumption PROVE Spec => []EventsKept
<1>1. ServicesInv => EventsKept
  BY BusInvKept DEF ServicesInv, EventsKept
<1> QED BY <1>1, Always, PTL
===============================================================================
