------------------------------ MODULE Environments ------------------------------
(***************************************************************************)
(* Environments that Admins add and remove while QueueLens runs, on any    *)
(* number of replicas.  The settings store holds one row with all of them; *)
(* a replica keeps profiles made from it, and a bundle of services with an *)
(* AMQP connection for each (environment, vhost) that a request has used.  *)
(* The routes read the row, change it and write it back; the sync loop of  *)
(* each replica matches its profiles with the row every few seconds.       *)
(*                                                                         *)
(* A task is a request (a client) or the sync loop of a replica (the       *)
(* replica itself).  Its program counter stops where the coroutine awaits, *)
(* so what another task does there comes between.  The default environment *)
(* comes from the process environment; no Admin overrides it here.         *)
(***************************************************************************)
EXTENDS Naturals, FiniteSets

CONSTANTS
    Replicas,       \* processes that share the database
    Clients,        \* requests in progress
    Names,          \* environments besides the default one
    Vhosts,
    Brokers,        \* what the broker fields of a profile can name
    DefaultBroker,
    Configured,     \* Configured[n]: the profile of n in QUEUELENS_ENVIRONMENTS_JSON, or None
    StoredBefore,   \* the row as earlier lives of the replicas left it
    Bodies,         \* what Admins post: a name, vhosts, a broker or None for a blank one
    None,
    MaxBundles,     \* bound: bundles of one replica, besides the default one
    MaxChanges,     \* bound: requests that add or remove an environment
    MaxTroubles,    \* bound: failures
    Faults          \* "database", "broker", "crash"

Profile == [broker : Brokers, vhosts : SUBSET Vhosts]
Stored == [broker : Brokers \cup {None}, vhosts : SUBSET Vhosts]
Body == [name : Names, broker : Brokers \cup {None}, vhosts : SUBSET Vhosts]
Keys == Names \X Vhosts
Tasks == Clients \cup Replicas

ASSUME NamesAssumption ==
    /\ DefaultBroker \in Brokers /\ Bodies \subseteq Body
    /\ Configured \in [Names -> Profile \cup {None}]
    /\ StoredBefore \in [Names -> Stored \cup {None}]
ASSUME NoneAssumption ==
    /\ None \notin Clients \cup Replicas \cup Brokers \cup Profile \cup Stored \cup Body \cup Keys
    /\ None \notin Nat \cup [Names -> Stored \cup {None}]
ASSUME TasksAssumption == Clients \cap Replicas = {}
ASSUME BoundsAssumption ==
    /\ {MaxBundles, MaxChanges, MaxTroubles} \subseteq Nat
    /\ Faults \subseteq {"database", "broker", "crash"}

VARIABLES
    store,      \* the row custom_environments of the settings store
    phase,      \* phase[p]: the life of replica p
    profiles,   \* profiles[p]: _profiles, without the default environment
    custom,     \* custom[p]: _custom, the names that may be removed
    bundle,     \* bundle[p]: _bundles, the number of the bundle of each key
    made,       \* made[p][i]: the bundles p has made, in use or not; 0 is the default one
    starting,   \* starting[p]: the client that holds _starting
    task,       \* task[t]: where a request or a sync loop is, and its locals
    gone,       \* history: the names whose removal was reported and that nobody added since
    changes,    \* how many Admins' requests there have been
    troubles    \* how many failures there have been

vars == <<store, phase, profiles, custom, bundle, made, starting, task, gone, changes, troubles>>

(* What a bundle's connection is: whether close() was not called and its reconnect loop   *)
(* runs, its open sockets, and whether the last callback said that it is connected.  A   *)
(* bundle is cut when it was dropped while a request was still starting it.              *)
Bundles == [key : Keys \cup {None}, broker : Brokers \cup {None}, started : BOOLEAN,
            loop : BOOLEAN, sockets : 0..2, healthy : BOOLEAN, cut : BOOLEAN]
NewBundle(key, broker) ==
    [key |-> key, broker |-> broker, started |-> FALSE, loop |-> FALSE, sockets |-> 0,
     healthy |-> FALSE, cut |-> FALSE]
Unmade == NewBundle(None, None)
DefaultBundle == NewBundle(None, DefaultBroker)
Ids == 1..MaxBundles

States == [pc : {"idle", "waiting", "connecting", "removing", "deleting", "creating",
                 "applying", "syncing", "matching"},
           at : Replicas \cup {None}, key : Keys \cup {None}, body : Body \cup {None},
           seen : [Names -> Stored \cup {None}] \cup {None}, names : SUBSET Names,
           keys : SUBSET Keys, id : 0..MaxBundles \cup {None}]
Idle == [pc |-> "idle", at |-> None, key |-> None, body |-> None, seen |-> None,
         names |-> {}, keys |-> {}, id |-> None]

At(t) == IF t \in Replicas THEN t ELSE task[t].at
Known(dict) == {n \in Names : dict[n] # None}

TypeOK ==
    /\ store \in [Names -> Stored \cup {None}]
    /\ phase \in [Replicas -> {"down", "starting", "running"}]
    /\ profiles \in [Replicas -> [Names -> Profile \cup {None}]]
    /\ custom \in [Replicas -> SUBSET Names]
    /\ bundle \in [Replicas -> [Keys -> Ids \cup {None}]]
    /\ made \in [Replicas -> [0..MaxBundles -> Bundles]]
    /\ starting \in [Replicas -> Clients \cup {None}]
    /\ task \in [Tasks -> States]
    /\ gone \subseteq Names
    /\ changes \in 0..MaxChanges /\ troubles \in 0..MaxTroubles

Init ==
    /\ store = StoredBefore
    /\ phase = [p \in Replicas |-> "down"]
    /\ profiles = [p \in Replicas |-> Configured]
    /\ custom = [p \in Replicas |-> {}]
    /\ bundle = [p \in Replicas |-> [k \in Keys |-> None]]
    /\ made = [p \in Replicas |->
                 [i \in 0..MaxBundles |-> IF i = 0 THEN DefaultBundle ELSE Unmade]]
    /\ starting = [p \in Replicas |-> None]
    /\ task = [t \in Tasks |-> Idle]
    /\ gone = {} /\ changes = 0 /\ troubles = 0

Trouble(f) ==
    /\ f \in Faults /\ troubles < MaxTroubles
    /\ troubles' = troubles + 1

(*************************** Profiles and scopes ***************************)

(* A name and vhost that a request may use. *)
InScope(p, k) == profiles[p][k[1]] # None /\ k[2] \in profiles[p][k[1]].vhosts

(* Mutant: a new profile inherits nothing. *)
MergedBare(p, n, s) ==
    LET old == profiles[p][n]
        base == IF old = None THEN [broker |-> None, vhosts |-> {}] ELSE old
    IN  [broker |-> IF s.broker = None THEN base.broker ELSE s.broker,
         vhosts |-> base.vhosts \cup s.vhosts]

(* Fields that a stored environment leaves out are the default one's in a new profile, *)
(* and stay what they were in one that exists.                                         *)
Merged(p, n, s) ==
    LET old == profiles[p][n]
        base == IF old = None THEN [broker |-> DefaultBroker, vhosts |-> {}] ELSE old
    IN  [broker |-> IF s.broker = None THEN base.broker ELSE s.broker,
         vhosts |-> base.vhosts \cup s.vhosts]

ApplyCustom(p, dict) ==
    /\ profiles' = [profiles EXCEPT ![p] =
                      [n \in Names |-> IF dict[n] = None THEN @[n] ELSE Merged(p, n, dict[n])]]
    /\ custom' = [custom EXCEPT ![p] = @ \cup Known(dict)]

(************************* Bundles and connections *************************)

Spare(p) == {i \in Ids : made[p][i] = Unmade}
NextId(p) == CHOOSE i \in Spare(p) : \A j \in Spare(p) : i <= j

(* The key's bundle: the one there is, or one made from the profile of now. *)
Build(p, k) ==
    /\ Spare(p) # {}
    /\ bundle' = [bundle EXCEPT ![p][k] = NextId(p)]
    /\ made' = [made EXCEPT ![p][NextId(p)] = NewBundle(k, profiles[p][k[1]].broker)]

(* Monitoring makes a bundle for its Management client, and opens no connection. *)
QueueServiceFor(p, k) ==
    /\ phase[p] = "running" /\ InScope(p, k)
    /\ bundle[p][k] = None
    /\ Build(p, k)
    /\ UNCHANGED <<store, phase, profiles, custom, starting, task, gone, changes, troubles>>

(* A request names a scope.  One whose bundle is started goes on at once. *)
Resolve(c, p, k) ==
    /\ phase[p] = "running" /\ task[c].pc = "idle"
    /\ InScope(p, k)
    /\ ~(bundle[p][k] # None /\ made[p][bundle[p][k]].started)
    /\ task' = [task EXCEPT ![c] = [Idle EXCEPT !.pc = "waiting", !.at = p, !.key = k]]
    /\ UNCHANGED <<store, phase, profiles, custom, bundle, made, starting, gone, changes, troubles>>

(* Mutant: a first request does not wait for another one's start. *)
EnsureBundleAtOnce(c) ==
    /\ task[c].pc = "waiting"
    /\ LET p == At(c)
           k == task[c].key
           i == bundle[p][k]
       IN  \/ /\ i = None /\ profiles[p][k[1]] # None
              /\ Build(p, k)
              /\ task' = [task EXCEPT ![c].pc = "connecting", ![c].id = NextId(p)]
           \/ /\ i # None /\ ~made[p][i].started
              /\ task' = [task EXCEPT ![c].pc = "connecting", ![c].id = i]
              /\ UNCHANGED <<bundle, made>>
           \/ /\ \/ i = None /\ profiles[p][k[1]] = None
                 \/ i # None /\ made[p][i].started
              /\ task' = [task EXCEPT ![c] = Idle]
              /\ UNCHANGED <<bundle, made>>
    /\ UNCHANGED <<store, phase, profiles, custom, starting, gone, changes, troubles>>

(* With the lock: 404 when the environment was removed meanwhile, the bundle that another *)
(* request started, or the start of it: the vhost is created if need be, then connected.  *)
EnsureBundle(c) ==
    /\ task[c].pc = "waiting" /\ starting[At(c)] = None
    /\ LET p == At(c)
           k == task[c].key
           i == bundle[p][k]
       IN  \/ /\ i = None /\ profiles[p][k[1]] = None
              /\ task' = [task EXCEPT ![c] = Idle]
              /\ UNCHANGED <<bundle, made, starting>>
           \/ /\ i # None /\ made[p][i].started
              /\ task' = [task EXCEPT ![c] = Idle]
              /\ UNCHANGED <<bundle, made, starting>>
           \/ /\ i = None /\ profiles[p][k[1]] # None
              /\ Build(p, k)
              /\ task' = [task EXCEPT ![c].pc = "connecting", ![c].id = NextId(p)]
              /\ starting' = [starting EXCEPT ![p] = c]
           \/ /\ i # None /\ ~made[p][i].started
              /\ task' = [task EXCEPT ![c].pc = "connecting", ![c].id = i]
              /\ starting' = [starting EXCEPT ![p] = c]
              /\ UNCHANGED <<bundle, made>>
    /\ UNCHANGED <<store, phase, profiles, custom, gone, changes, troubles>>

(* Mutant: a bundle that could not connect gets no reconnect loop. *)
StartedLoopless(b, connected) ==
    [b EXCEPT !.started = TRUE, !.loop = connected,
              !.sockets = IF connected THEN @ + 1 ELSE @, !.healthy = connected]

(* start() returned: connected or not, the loop runs and the bundle counts as started. *)
Started(b, connected) ==
    [b EXCEPT !.started = TRUE, !.loop = TRUE,
              !.sockets = IF connected THEN @ + 1 ELSE @, !.healthy = connected]

(* Mutant: the lock is not released when the connection failed. *)
FinishStartHolding(t) ==
    /\ task[t].pc = "connecting"
    /\ \E connected \in BOOLEAN :
          /\ made' = [made EXCEPT ![At(t)][task[t].id] = Started(@, connected)]
          /\ IF connected THEN UNCHANGED troubles ELSE Trouble("broker")
          /\ starting' = IF t \in Replicas \/ ~connected THEN starting
                         ELSE [starting EXCEPT ![At(t)] = None]
    /\ phase' = IF t \in Replicas THEN [phase EXCEPT ![t] = "running"] ELSE phase
    /\ task' = [task EXCEPT ![t] = Idle]
    /\ UNCHANGED <<store, profiles, custom, bundle, gone, changes>>

(* The end of a start: of a client's bundle, or of the default one in the lifespan, after *)
(* which the replica is ready for requests.                                               *)
FinishStart(t) ==
    /\ task[t].pc = "connecting"
    /\ \E connected \in BOOLEAN :
          /\ made' = [made EXCEPT ![At(t)][task[t].id] = Started(@, connected)]
          /\ IF connected THEN UNCHANGED troubles ELSE Trouble("broker")
    /\ phase' = IF t \in Replicas THEN [phase EXCEPT ![t] = "running"] ELSE phase
    /\ starting' = IF t \in Replicas THEN starting ELSE [starting EXCEPT ![At(t)] = None]
    /\ task' = [task EXCEPT ![t] = Idle]
    /\ UNCHANGED <<store, profiles, custom, bundle, gone, changes>>

(* The reconnect loop tries again where the first attempt failed. *)
Reconnect(p, i) ==
    /\ made[p][i].loop /\ made[p][i].sockets = 0
    /\ made' = [made EXCEPT ![p][i].sockets = 1, ![p][i].healthy = TRUE]
    /\ UNCHANGED <<store, phase, profiles, custom, bundle, starting, task, gone, changes, troubles>>

(* A connection that is lost, and that aio_pika restores by itself. *)
Lose(p, i) ==
    /\ made[p][i].healthy
    /\ Trouble("broker")
    /\ made' = [made EXCEPT ![p][i].healthy = FALSE]
    /\ UNCHANGED <<store, phase, profiles, custom, bundle, starting, task, gone, changes>>
Restore(p, i) ==
    /\ made[p][i].sockets > 0 /\ ~made[p][i].healthy
    /\ made' = [made EXCEPT ![p][i].healthy = TRUE]
    /\ UNCHANGED <<store, phase, profiles, custom, bundle, starting, task, gone, changes, troubles>>

(***************************** Removing a name *****************************)

(* remove_custom up to its first await: the name goes, and the keys of its bundles are noted. *)
Drop(p, n) ==
    /\ custom' = [custom EXCEPT ![p] = @ \ {n}]
    /\ profiles' = [profiles EXCEPT ![p][n] = None]
KeysOf(p, n) == {k \in Keys : k[1] = n /\ bundle[p][k] # None}

BeingStarted(p, i) == \E c \in Clients : task[c].pc = "connecting" /\ At(c) = p /\ task[c].id = i

(* _stop: a bundle leaves the map; one that is started is closed, any other just dropped. *)
(* A key that another task has popped meanwhile ends the task with a KeyError.            *)
StopBundle(t) ==
    /\ task[t].keys # {} /\ task[t].id = None
    /\ \E k \in task[t].keys :
          LET p == At(t)
              i == bundle[p][k]
          IN  \/ /\ i = None
                 /\ task' = [task EXCEPT ![t] = Idle]
                 /\ UNCHANGED <<bundle, made>>
              \/ /\ i # None /\ made[p][i].started
                 /\ bundle' = [bundle EXCEPT ![p][k] = None]
                 /\ made' = [made EXCEPT ![p][i].loop = FALSE]
                 /\ task' = [task EXCEPT ![t].keys = @ \ {k}, ![t].id = i]
              \/ /\ i # None /\ ~made[p][i].started
                 /\ bundle' = [bundle EXCEPT ![p][k] = None]
                 /\ made' = [made EXCEPT ![p][i] =
                               IF BeingStarted(p, i) THEN [@ EXCEPT !.cut = TRUE] ELSE Unmade]
                 /\ task' = [task EXCEPT ![t].keys = @ \ {k}]
    /\ UNCHANGED <<store, phase, profiles, custom, starting, gone, changes, troubles>>

(* Mutant: close() stops the loop and leaves the connection open. *)
ClosedLoopOnly(b) == [b EXCEPT !.started = FALSE]

Closed(b) == IF b.sockets <= 1 THEN Unmade
             ELSE [b EXCEPT !.started = FALSE, !.sockets = @ - 1, !.healthy = FALSE]

(* The connection of the bundle that the task stops is closed. *)
CloseBundle(t) ==
    /\ task[t].id # None /\ task[t].pc \in {"removing", "matching"}
    /\ made' = [made EXCEPT ![At(t)][task[t].id] = Closed(@)]
    /\ task' = [task EXCEPT ![t].id = None]
    /\ UNCHANGED <<store, phase, profiles, custom, bundle, starting, gone, changes, troubles>>

Stopped(t) == task[t].keys = {} /\ task[t].id = None

(*************************** The Admins' requests **************************)

Change == changes < MaxChanges /\ changes' = changes + 1

(* DELETE /api/environments/{name}: this replica first, then the row. *)
Delete(c, p, n) ==
    /\ phase[p] = "running" /\ task[c].pc = "idle" /\ Change
    /\ n \in custom[p]
    /\ Drop(p, n)
    /\ task' = [task EXCEPT ![c] =
                  [Idle EXCEPT !.pc = "removing", !.at = p, !.keys = KeysOf(p, n),
                               !.body = [name |-> n, broker |-> None, vhosts |-> {}]]]
    /\ UNCHANGED <<store, phase, bundle, made, starting, gone, troubles>>

DeleteRead(c) ==
    /\ task[c].pc = "removing" /\ Stopped(c)
    /\ task' = [task EXCEPT ![c].pc = "deleting", ![c].seen = store]
    /\ UNCHANGED <<store, phase, profiles, custom, bundle, made, starting, gone, changes, troubles>>

Adding(n) == \E c \in Clients : task[c].pc \in {"creating", "applying"} /\ task[c].body.name = n

DeletePut(c) ==
    /\ task[c].pc = "deleting"
    /\ LET n == task[c].body.name
       IN  /\ store' = [task[c].seen EXCEPT ![n] = None]
           /\ gone' = IF Adding(n) THEN gone ELSE gone \cup {n}
    /\ task' = [task EXCEPT ![c] = Idle]
    /\ UNCHANGED <<phase, profiles, custom, bundle, made, starting, changes, troubles>>

(* POST /api/environments: the row is read, then written with the body merged into it, *)
(* then applied on this replica.                                                       *)
Create(c, p, b) ==
    /\ phase[p] = "running" /\ task[c].pc = "idle" /\ Change
    /\ task' = [task EXCEPT ![c] = [Idle EXCEPT !.pc = "creating", !.at = p, !.body = b,
                                                !.seen = store]]
    /\ gone' = gone \ {b.name}
    /\ UNCHANGED <<store, phase, profiles, custom, bundle, made, starting, troubles>>

WithBody(dict, b) ==
    LET old == IF dict[b.name] = None THEN [broker |-> None, vhosts |-> {}] ELSE dict[b.name]
    IN  [dict EXCEPT ![b.name] = [broker |-> IF b.broker = None THEN old.broker ELSE b.broker,
                                  vhosts |-> old.vhosts \cup b.vhosts]]

CreatePut(c) ==
    /\ task[c].pc = "creating"
    /\ store' = WithBody(task[c].seen, task[c].body)
    /\ task' = [task EXCEPT ![c].pc = "applying", ![c].seen = store']
    /\ UNCHANGED <<phase, profiles, custom, bundle, made, starting, gone, changes, troubles>>

CreateApply(c) ==
    /\ task[c].pc = "applying"
    /\ ApplyCustom(At(c), task[c].seen)
    /\ task' = [task EXCEPT ![c] = Idle]
    /\ UNCHANGED <<store, phase, bundle, made, starting, gone, changes, troubles>>

(* The database refuses the write, and the request fails. *)
PutFails(c) ==
    /\ task[c].pc \in {"deleting", "creating"}
    /\ Trouble("database")
    /\ task' = [task EXCEPT ![c] = Idle]
    /\ UNCHANGED <<store, phase, profiles, custom, bundle, made, starting, gone, changes>>

(**************************** The sync loop ********************************)

(* The row as it is read; by the time sync_custom begins it may be stale. *)
SyncRead(p) ==
    /\ phase[p] = "running" /\ task[p].pc = "idle"
    /\ task' = [task EXCEPT ![p].pc = "syncing", ![p].seen = store]
    /\ UNCHANGED <<store, phase, profiles, custom, bundle, made, starting, gone, changes, troubles>>

(* Mutant: only what is new is looked for. *)
DoomedNone(p) == task[p].names

(* The names a pass has to remove: found when it begins, those that are left afterwards. *)
Doomed(p) ==
    IF task[p].pc = "syncing" THEN (custom[p] \ Known(task[p].seen)) \ Known(Configured)
    ELSE task[p].names

(* A name that a request has removed meanwhile raises KeyError, and the pass ends. *)
SyncRemove(p) ==
    /\ task[p].pc \in {"syncing", "matching"} /\ Stopped(p)
    /\ \E n \in Doomed(p) :
          IF n \in custom[p]
          THEN /\ Drop(p, n)
               /\ task' = [task EXCEPT ![p].pc = "matching", ![p].names = Doomed(p) \ {n},
                                       ![p].keys = KeysOf(p, n)]
          ELSE /\ task' = [task EXCEPT ![p] = Idle]
               /\ UNCHANGED <<profiles, custom>>
    /\ UNCHANGED <<store, phase, bundle, made, starting, gone, changes, troubles>>

(* The end of a pass; the first one of a replica's life is followed by start_default. *)
SyncApply(p) ==
    /\ task[p].pc \in {"syncing", "matching"} /\ Stopped(p) /\ Doomed(p) = {}
    /\ ApplyCustom(p, task[p].seen)
    /\ task' = [task EXCEPT ![p] = IF phase[p] = "starting"
                                   THEN [Idle EXCEPT !.pc = "connecting", !.id = 0] ELSE Idle]
    /\ UNCHANGED <<store, phase, bundle, made, starting, gone, changes, troubles>>

(************************* The life of a replica ***************************)

(* A start reads the row before it connects; the default environment's bundle is made. *)
Boot(p) ==
    /\ phase[p] = "down"
    /\ phase' = [phase EXCEPT ![p] = "starting"]
    /\ task' = [task EXCEPT ![p].pc = "syncing", ![p].seen = store]
    /\ UNCHANGED <<store, profiles, custom, bundle, made, starting, gone, changes, troubles>>

(* The process ends, killed or shut down: whatever it kept in memory is lost with its *)
(* connections.                                                                       *)
Exit(p) ==
    /\ phase[p] # "down" /\ Trouble("crash")
    /\ phase' = [phase EXCEPT ![p] = "down"]
    /\ profiles' = [profiles EXCEPT ![p] = Configured]
    /\ custom' = [custom EXCEPT ![p] = {}]
    /\ bundle' = [bundle EXCEPT ![p] = [k \in Keys |-> None]]
    /\ made' = [made EXCEPT ![p] = [i \in 0..MaxBundles |-> IF i = 0 THEN DefaultBundle ELSE Unmade]]
    /\ starting' = [starting EXCEPT ![p] = None]
    /\ task' = [t \in Tasks |-> IF At(t) = p THEN Idle ELSE task[t]]
    /\ UNCHANGED <<store, gone, changes>>

ClientStep(c) ==
    \/ EnsureBundle(c) \/ FinishStart(c) \/ StopBundle(c) \/ CloseBundle(c)
    \/ DeleteRead(c) \/ DeletePut(c) \/ CreatePut(c) \/ CreateApply(c)

SyncStep(p) ==
    \/ SyncRead(p) \/ SyncRemove(p) \/ SyncApply(p)
    \/ StopBundle(p) \/ CloseBundle(p) \/ FinishStart(p)

Next ==
    \/ \E c \in Clients :
          \/ ClientStep(c) \/ PutFails(c)
          \/ \E p \in Replicas :
                \/ \E k \in Keys : Resolve(c, p, k)
                \/ \E n \in Names : Delete(c, p, n)
                \/ \E b \in Bodies : Create(c, p, b)
    \/ \E p \in Replicas :
          \/ SyncStep(p) \/ Boot(p) \/ Exit(p)
          \/ \E k \in Keys : QueueServiceFor(p, k)
          \/ \E i \in 0..MaxBundles : Reconnect(p, i) \/ Lose(p, i) \/ Restore(p, i)

Spec == Init /\ [][Next]_vars

(* The event loop goes on with what can go on, and connections come back; people, *)
(* monitors, failures and restarts are never fair.                               *)
Fairness ==
    /\ \A c \in Clients : WF_vars(ClientStep(c))
    /\ \A p \in Replicas :
          /\ WF_vars(SyncStep(p))
          /\ \A i \in 0..MaxBundles : WF_vars(Reconnect(p, i)) /\ WF_vars(Restore(p, i))

FairSpec == Spec /\ Fairness

(******************************* Properties ********************************)

Closing(p, i) == \E t \in Tasks : At(t) = p /\ task[t].id = i /\ task[t].pc \in {"removing", "matching"}
Mapped(p, i) == i = 0 \/ \E k \in Keys : bundle[p][k] = i

(* First requests of one scope that come together start one connection (environments.py:93). *)
(* Besides it a scope may only have connections of removed environments: one that is being   *)
(* closed, or one that a request was still starting when the environment went.               *)
OneConnectionPerScope ==
    \A p \in Replicas : \A k \in Keys \cup {None} :
       LET open == {i \in 0..MaxBundles : made[p][i].key = k /\ made[p][i].sockets > 0
                                             /\ ~made[p][i].cut /\ ~Closing(p, i)}
       IN  Cardinality(open) <= 1 /\ \A i \in open : made[p][i].sockets = 1

(* Removing an environment closes its connections and ends their reconnect loops, on each  *)
(* replica and however the removals of requests and sync loops overlap; the one exception  *)
(* is a bundle that a request was starting at that moment.                                 *)
ClosedWhenRemoved ==
    \A p \in Replicas : \A i \in Ids :
       (made[p][i] # Unmade /\ ~Mapped(p, i) /\ ~made[p][i].cut) => Closing(p, i)

(* Once Admins stop, a replica that runs has the environments that are stored and no other, *)
(* with the brokers and the vhosts that are stored, wherever they were added or removed and *)
(* however old the row was that a pass of its sync loop began with (OPERATIONS.md:14).      *)
Follows(p, n) ==
    /\ profiles[p][n] # None <=> store[n] # None
    /\ store[n] # None => /\ store[n].vhosts \subseteq profiles[p][n].vhosts
                          /\ store[n].broker \in {None, profiles[p][n].broker}
ReplicasFollowTheStore ==
    \A p \in Replicas : \A n \in Names :
       Configured[n] = None => <>[](phase[p] = "running" => Follows(p, n))

(* Every request is answered: the lock of first starts is released however its holder ends, *)
(* and no removal waits for a bundle that never closes (environments.py:93).                *)
RequestsEnd == \A c \in Clients : task[c].pc # "idle" ~> task[c].pc = "idle"

(* /ready: the replica runs and its default connection is up. *)
Ready(p) == phase[p] = "running" /\ made[p][0].sockets > 0 /\ made[p][0].healthy

(* A replica that has started becomes ready whatever its first attempt to connect gave, and *)
(* becomes ready again after the broker was away, unless the process ends (health.py:237).  *)
ReadyInTheEnd == \A p \in Replicas : phase[p] # "down" ~> (Ready(p) \/ phase[p] = "down")

(* "a removed environment stops working everywhere" (OPERATIONS.md:15): after its removal was *)
(* reported, and unless someone adds it again, no replica knows it in the end.                *)
RemovedStopsWorking ==
    \A n \in Names : <>[](n \in gone) => <>[](\A p \in Replicas : profiles[p][n] = None)
=================================================================================
