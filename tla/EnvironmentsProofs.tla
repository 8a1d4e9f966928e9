--------------------------- MODULE EnvironmentsProofs ---------------------------
(****************************************************************************)
(* The connections of a replica, however requests, removals, sync loops,    *)
(* failures and restarts come between each other: one for each scope, and   *)
(* none that is left over when an environment is removed.                   *)
(*                                                                          *)
(* Neither is inductive.  A bundle is open, closed, or in the hands of one  *)
(* task, and the invariant says which: the task that starts it holds the    *)
(* replica's lock and found it unstarted, the one task that closes it took  *)
(* it out of the map before.  A number is used again once its bundle is     *)
(* closed, so no task may still hold it then.                               *)
(****************************************************************************)
EXTENDS Environments, FiniteSetTheorems, WellFoundedInduction, TLAPS

StoreTypes ==
    /\ store \in [Names -> Stored \cup {None}]
    /\ profiles \in [Replicas -> [Names -> Profile \cup {None}]]
    /\ custom \in [Replicas -> SUBSET Names]
    /\ gone \subseteq Names
    /\ changes \in 0..MaxChanges /\ troubles \in 0..MaxTroubles

WorkTypes ==
    /\ phase \in [Replicas -> {"down", "starting", "running"}]
    /\ bundle \in [Replicas -> [Keys -> Ids \cup {None}]]
    /\ made \in [Replicas -> [0..MaxBundles -> Bundles]]
    /\ starting \in [Replicas -> Clients \cup {None}]
    /\ task \in [Tasks -> States]

(* What a task has in hand, by the place it is at. *)
Sound(t, s) ==
    /\ t \in Clients => s.pc \notin {"syncing", "matching"}
    /\ t \in Replicas => s.pc \in {"idle", "connecting", "syncing", "matching"}
    /\ (t \in Clients /\ s.pc # "idle") => s.at \in Replicas
    /\ s.pc = "idle" => s = Idle
    /\ s.pc = "waiting" => s.key \in Keys
    /\ s.pc \in {"removing", "deleting", "creating"} => s.body \in Body
    /\ s.pc \in {"deleting", "creating", "applying", "syncing", "matching"} => s.seen # None
    /\ s.keys # {} => s.pc \in {"removing", "matching"}
    /\ s.id # None => s.pc \in {"removing", "matching", "connecting"}

Holding == \A t \in Tasks : Sound(t, task[t])

(* Who connects holds the lock of first starts and found the bundle unstarted; a replica  *)
(* connects its default bundle, before it runs.                                           *)
Connecting ==
    \A t \in Tasks : task[t].pc = "connecting" =>
       /\ t \in Clients => /\ starting[task[t].at] = t /\ task[t].id \in Ids
                           /\ made[task[t].at][task[t].id].key # None
                           /\ ~made[task[t].at][task[t].id].started
       /\ t \in Replicas => task[t].id = 0 /\ phase[t] = "starting"

(* Before a replica runs its default bundle is as made, and one that is down does nothing. *)
Lives ==
    \A p \in Replicas : /\ phase[p] # "running" => made[p][0] = DefaultBundle
                        /\ phase[p] = "down" => task[p].pc = "idle"

(* Who closes a bundle is alone with it. *)
ClosesAlone ==
    \A t \in Tasks : (task[t].pc \in {"removing", "matching"} /\ task[t].id # None) =>
       /\ task[t].id \in Ids
       /\ made[At(t)][task[t].id].key # None
       /\ made[At(t)][task[t].id].started /\ ~made[At(t)][task[t].id].loop
       /\ ~made[At(t)][task[t].id].cut
       /\ \A k \in Keys : bundle[At(t)][k] # task[t].id
       /\ \A u \in Tasks : At(u) = At(t) /\ task[u].id = task[t].id => u = t

(* A bundle has no connection before its start, and at most one after. *)
Tidy(b) ==
    /\ ~b.started => ~b.loop /\ b.sockets = 0 /\ ~b.healthy
    /\ b.sockets <= 1
AllTidy ==
    \A p \in Replicas :
       /\ \A i \in 0..MaxBundles : Tidy(made[p][i])
       /\ \A i \in Ids : made[p][i].key = None => made[p][i] = Unmade
       /\ made[p][0].key = None /\ ~made[p][0].cut

(* The map leads to bundles of its keys. *)
MapIsTrue ==
    \A p \in Replicas : \A k \in Keys : bundle[p][k] # None =>
       made[p][bundle[p][k]].key = k /\ ~made[p][bundle[p][k]].cut

WorkInv ==
    /\ WorkTypes /\ Holding /\ Connecting /\ Lives /\ ClosesAlone /\ AllTidy /\ MapIsTrue
    /\ ClosedWhenRemoved

(******************************* Small lemmas *******************************)

(* Bundles as they are made. *)
LEMMA NewBundles ==
    /\ \A k \in Keys \cup {None}, br \in Brokers \cup {None} :
          /\ NewBundle(k, br) \in Bundles /\ Tidy(NewBundle(k, br))
          /\ NewBundle(k, br).key = k
          /\ ~NewBundle(k, br).started /\ ~NewBundle(k, br).cut
    /\ Unmade \in Bundles /\ Tidy(Unmade) /\ Unmade.key = None
    /\ DefaultBundle \in Bundles /\ Tidy(DefaultBundle) /\ DefaultBundle.key = None
    /\ ~DefaultBundle.started /\ ~DefaultBundle.cut
BY NamesAssumption DEF NewBundle, Bundles, Tidy, Unmade, DefaultBundle

(* A bundle whose start has ended has a connection at most. *)
LEMMA StartedBundles ==
    ASSUME NEW e \in Bundles, e.sockets = 0, NEW connected \in BOOLEAN
    PROVE  /\ Started(e, connected) \in Bundles
           /\ Started(e, connected).sockets <= 1 /\ Started(e, connected).started
           /\ Started(e, connected).key = e.key /\ Started(e, connected).cut = e.cut
<1>1. PICK n \in 0..1 : n = IF connected THEN e.sockets + 1 ELSE e.sockets
  OBVIOUS
<1>2. Started(e, connected) =
        [e EXCEPT !.started = TRUE, !.loop = TRUE, !.sockets = n, !.healthy = connected]
  BY <1>1 DEF Started, Bundles
<1>3. [e EXCEPT !.started = TRUE, !.loop = TRUE, !.sockets = n, !.healthy = connected] \in Bundles
  <2>1. n \in 0..2 /\ TRUE \in BOOLEAN
    OBVIOUS
  <2>2. \A x \in BOOLEAN : [e EXCEPT !.healthy = x] \in Bundles
    BY DEF Bundles
  <2>3. \A a \in Bundles, m \in 0..2 : [a EXCEPT !.sockets = m] \in Bundles
    BY DEF Bundles
  <2> QED
    BY <2>1, <2>2 DEF Bundles
<1> QED
  BY <1>2, <1>3 DEF Bundles

(* A task that has nothing to do is at no place that asks for anything. *)
LEMMA IdleIsSound ==
    ASSUME NEW t \in Tasks
    PROVE  /\ Idle \in States /\ Sound(t, Idle)
           /\ Idle.id = None /\ Idle.pc = "idle" /\ Idle.at = None /\ Idle.keys = {}
BY DEF Idle, States, Sound

(* No number of a bundle, no replica and no key is None. *)
LEMMA NoneIsNoNumber ==
    /\ MaxBundles \in Nat /\ Ids \subseteq 0..MaxBundles /\ 0 \in 0..MaxBundles /\ 0 \notin Ids
    /\ None \notin 0..MaxBundles /\ None \notin Ids
    /\ None \notin Replicas /\ None \notin Clients /\ None \notin Keys
    /\ Tasks = Clients \cup Replicas /\ Clients \cap Replicas = {}
BY BoundsAssumption, NoneAssumption, TasksAssumption DEF Ids, Tasks

(* The number of a new bundle is a spare one. *)
LEMMA NextIsSpare ==
    ASSUME NEW p \in Replicas, Spare(p) # {}
    PROVE  NextId(p) \in Ids /\ made[p][NextId(p)] = Unmade
<1>1. Spare(p) \subseteq Nat
  BY DEF Spare, Ids
<1>2. PICK i \in Spare(p) : \A j \in Spare(p) : ~(<<j, i>> \in OpToRel(<, Nat))
  BY <1>1, NatLessThanWellFounded, WFMin
<1>3. \A j \in Spare(p) : i <= j
  <2>1. \A j, k \in Nat : j < k => <<j, k>> \in OpToRel(<, Nat)
    BY DEF OpToRel
  <2>2. \A j \in Spare(p) : ~(j < i)
    BY <1>1, <1>2, <2>1
  <2> QED
    BY <1>1, <2>2
<1>4. NextId(p) \in Spare(p)
  BY <1>2, <1>3 DEF NextId
<1> QED
  BY <1>4 DEF Spare

(******************************** One task *********************************)

(* A task that holds no bundle may go to where it holds none, or a replica that starts to *)
(* the connection of its default bundle: the work stays sound.                            *)
LEMMA QuietStep ==
    ASSUME WorkInv, NEW t \in Tasks, NEW s \in States, Sound(t, s),
           task' = [task EXCEPT ![t] = s],
           task[t].id = None,
           s.pc = "connecting" => t \in Replicas /\ s.id = 0 /\ phase[t] = "starting",
           s.pc # "connecting" => s.id = None,
           \/ phase' = phase
           \/ t \in Replicas /\ phase[t] = "down" /\ phase' = [phase EXCEPT ![t] = "starting"],
           t \in Replicas => phase'[t] # "down" \/ s.pc = "idle",
           UNCHANGED <<bundle, made, starting>>
    PROVE  WorkInv'
<1> USE NoneIsNoNumber
<1>1. /\ task \in [Tasks -> States] /\ task' \in [Tasks -> States]
      /\ task'[t] = s /\ \A u \in Tasks : u # t => task'[u] = task[u]
  BY DEF WorkInv, WorkTypes
<1>2. \A u \in Tasks : u # t => At(u)' = At(u)
  BY <1>1 DEF At
<1>3. WorkTypes'
  BY <1>1 DEF WorkInv, WorkTypes
<1>4. Holding'
  BY <1>1 DEF WorkInv, Holding, Sound
<1>0. /\ phase \in [Replicas -> {"down", "starting", "running"}]
      /\ phase' \in [Replicas -> {"down", "starting", "running"}]
      /\ \A p \in Replicas : phase[p] # "down" \/ p # t => phase'[p] = phase[p]
      /\ \A p \in Replicas : phase[p] = "running" <=> phase'[p] = "running"
  BY <1>3 DEF WorkInv, WorkTypes
<1>5. Connecting'
  BY <1>0, <1>1 DEF WorkInv, Connecting
<1>6. Lives'
  <2> SUFFICES ASSUME NEW p \in Replicas
               PROVE  /\ phase'[p] # "running" => made[p][0] = DefaultBundle
                      /\ phase'[p] = "down" => task'[p].pc = "idle"
    BY DEF Lives
  <2>1. CASE p = t
    BY <2>1, <1>0, <1>1 DEF WorkInv, Lives
  <2>2. CASE p # t
    BY <2>2, <1>0, <1>1 DEF WorkInv, Lives
  <2> QED
    BY <2>1, <2>2
<1>7. ClosesAlone'
  <2> SUFFICES ASSUME NEW u \in Tasks, task'[u].pc \in {"removing", "matching"},
                      task'[u].id # None
               PROVE  /\ task'[u].id \in Ids
                      /\ made[At(u)'][task'[u].id].key # None
                      /\ made[At(u)'][task'[u].id].started /\ ~made[At(u)'][task'[u].id].loop
                      /\ ~made[At(u)'][task'[u].id].cut
                      /\ \A k \in Keys : bundle[At(u)'][k] # task'[u].id
                      /\ \A w \in Tasks : At(w)' = At(u)' /\ task'[w].id = task'[u].id => w = u
    BY DEF ClosesAlone
  <2>1. u # t /\ task'[u] = task[u] /\ At(u)' = At(u)
    BY <1>1, <1>2
  <2>2. \A w \in Tasks : At(w)' = At(u)' /\ task'[w].id = task'[u].id => w = u
    <3> TAKE w \in Tasks
    <3>1. CASE w = t
      <4>1. task[u].id \in Ids
        BY <2>1 DEF WorkInv, ClosesAlone
      <4>2. task'[w].id \notin Ids
        BY <3>1, <1>1
      <4> QED
        BY <4>1, <4>2, <2>1
    <3>2. CASE w # t
      BY <3>2, <2>1, <1>1, <1>2 DEF WorkInv, ClosesAlone
    <3> QED
      BY <3>1, <3>2
  <2> QED
    BY <2>1, <2>2 DEF WorkInv, ClosesAlone
<1>8. AllTidy' /\ MapIsTrue'
  BY DEF WorkInv, AllTidy, MapIsTrue
<1>9. ClosedWhenRemoved'
  <2>1. \A p, i : Closing(p, i) /\ i \in Ids => Closing(p, i)'
    <3> TAKE p, i
    <3> HAVE Closing(p, i) /\ i \in Ids
    <3>1. PICK u \in Tasks : At(u) = p /\ task[u].id = i /\ task[u].pc \in {"removing", "matching"}
      BY DEF Closing
    <3>2. u # t
      BY <3>1
    <3> QED
      BY <3>1, <3>2, <1>1, <1>2 DEF Closing
  <2> QED
    BY <2>1 DEF WorkInv, ClosedWhenRemoved, Mapped
<1> QED
  BY <1>3, <1>4, <1>5, <1>6, <1>7, <1>8, <1>9 DEF WorkInv

(******************************* One bundle ********************************)

(* A connection that is lost or comes back changes nothing else of its bundle. *)
LEMMA ConnectionStep ==
    ASSUME WorkInv, NEW p \in Replicas, NEW i \in 0..MaxBundles, NEW b \in Bundles,
           made' = [made EXCEPT ![p][i] = b],
           made[p][i].started, Tidy(b),
           b.key = made[p][i].key, b.started = made[p][i].started,
           b.loop = made[p][i].loop, b.cut = made[p][i].cut,
           UNCHANGED <<phase, bundle, starting, task>>
    PROVE  WorkInv'
<1> USE NoneIsNoNumber, NewBundles
<1>1. /\ made \in [Replicas -> [0..MaxBundles -> Bundles]]
      /\ made' \in [Replicas -> [0..MaxBundles -> Bundles]]
      /\ made'[p][i] = b
      /\ \A q \in Replicas, j \in 0..MaxBundles : q # p \/ j # i => made'[q][j] = made[q][j]
  BY DEF WorkInv, WorkTypes
<1>2. \A q \in Replicas, j \in 0..MaxBundles :
         /\ made'[q][j].key = made[q][j].key /\ made'[q][j].started = made[q][j].started
         /\ made'[q][j].loop = made[q][j].loop /\ made'[q][j].cut = made[q][j].cut
  <2> TAKE q \in Replicas, j \in 0..MaxBundles
  <2>1. CASE q = p /\ j = i
    BY <1>1, <2>1
  <2>2. CASE ~(q = p /\ j = i)
    BY <1>1, <2>2
  <2> QED
    BY <2>1, <2>2
<1>3. i \in Ids => made[p][i].key # None
  BY DEF WorkInv, AllTidy, Unmade, NewBundle
<1>4. made[p][i] # DefaultBundle
  BY DEF DefaultBundle, NewBundle
<1>5. WorkTypes' /\ Holding'
  BY <1>1 DEF WorkInv, WorkTypes, Holding, Sound
<1>6. Connecting'
  BY <1>2 DEF WorkInv, Connecting, WorkTypes, Holding, Sound
<1>7. Lives'
  BY <1>1, <1>4 DEF WorkInv, Lives
<1>8. \A u \in Tasks : At(u)' = At(u) /\ (task[u].id # None => At(u) \in Replicas)
  BY DEF At, WorkInv, Holding, Sound
<1>9. ClosesAlone'
  BY <1>2, <1>8 DEF WorkInv, ClosesAlone
<1>10. AllTidy'
  BY <1>1, <1>3 DEF WorkInv, AllTidy
<1>11. MapIsTrue'
  BY <1>2 DEF WorkInv, WorkTypes, MapIsTrue
<1>12. ClosedWhenRemoved'
  <2>1. \A q, j : Closing(q, j)' = Closing(q, j) /\ Mapped(q, j)' = Mapped(q, j)
    BY <1>8 DEF Closing, Mapped
  <2>2. \A q \in Replicas, j \in Ids : made'[q][j] # Unmade => made[q][j] # Unmade
    BY <1>1, <1>3
  <2> QED
    BY <1>2, <2>1, <2>2 DEF WorkInv, ClosedWhenRemoved
<1> QED
  BY <1>5, <1>6, <1>7, <1>9, <1>10, <1>11, <1>12 DEF WorkInv

(* A number that no bundle has is held by no task and by no key. *)
LEMMA SpareIsFree ==
    ASSUME WorkInv, NEW p \in Replicas, NEW i \in Ids, made[p][i] = Unmade
    PROVE  /\ \A u \in Tasks : At(u) = p => task[u].id # i
           /\ \A k \in Keys : bundle[p][k] # i
<1> USE NoneIsNoNumber, NewBundles
<1>1. ASSUME NEW u \in Tasks, At(u) = p, task[u].id = i PROVE FALSE
  <2>1. CASE task[u].pc = "connecting"
    BY <1>1, <2>1 DEF WorkInv, Connecting, At
  <2>2. CASE task[u].pc # "connecting"
    <3>1. task[u].pc \in {"removing", "matching"}
      BY <1>1, <2>2 DEF WorkInv, Holding, Sound
    <3> QED
      BY <1>1, <3>1 DEF WorkInv, ClosesAlone
  <2> QED
    BY <2>1, <2>2
<1>2. \A k \in Keys : bundle[p][k] # i
  BY DEF WorkInv, MapIsTrue
<1> QED
  BY <1>1, <1>2

(* A request that has the lock begins to start bundle i. *)
StartBegins(p, i) ==
    \E c \in Clients :
       /\ task[c].pc = "waiting" /\ At(c) = p /\ starting[p] = None
       /\ starting' = [starting EXCEPT ![p] = c]
       /\ task' = [task EXCEPT ![c].pc = "connecting", ![c].id = i]

(* An unstarted bundle that becomes a key's, or is so already, and whose start a request *)
(* begins that has the lock; or it is just made.                                         *)
LEMMA KeyGetsBundle ==
    ASSUME WorkInv, NEW p \in Replicas, NEW k \in Keys, NEW i \in Ids,
           made' \in [Replicas -> [0..MaxBundles -> Bundles]],
           bundle' \in [Replicas -> [Keys -> Ids \cup {None}]],
           made'[p][i].key = k, ~made'[p][i].started, ~made'[p][i].cut, Tidy(made'[p][i]),
           \A q \in Replicas, j \in 0..MaxBundles : q # p \/ j # i => made'[q][j] = made[q][j],
           bundle'[p][k] = i, bundle[p][k] \in {None, i},
           \A q \in Replicas, l \in Keys : q # p \/ l # k => bundle'[q][l] = bundle[q][l],
           \A u \in Tasks : At(u) = p => task[u].id # i,
           \A l \in Keys : l # k => bundle[p][l] # i,
           phase' = phase,
           (UNCHANGED <<task, starting>>) \/ StartBegins(p, i)
    PROVE  WorkInv'
<1> USE NoneIsNoNumber, NewBundles
<1> DEFINE Starts(c) == /\ task[c].pc = "waiting" /\ At(c) = p /\ starting[p] = None
                        /\ starting' = [starting EXCEPT ![p] = c]
                        /\ task' = [task EXCEPT ![c].pc = "connecting", ![c].id = i]
<1>1. ASSUME NEW c \in Clients, Starts(c)
      PROVE  /\ task' \in [Tasks -> States] /\ starting' \in [Replicas -> Clients \cup {None}]
             /\ starting'[p] = c /\ \A q \in Replicas : q # p => starting'[q] = starting[q]
             /\ task'[c].pc = "connecting" /\ task'[c].id = i
             /\ task'[c].at = p /\ task[c].at = p /\ task'[c].keys = task[c].keys
             /\ \A u \in Tasks : u # c => task'[u] = task[u]
             /\ \A u \in Tasks : At(u)' = At(u)
  <2>1. task \in [Tasks -> States] /\ starting \in [Replicas -> Clients \cup {None}]
    BY DEF WorkInv, WorkTypes
  <2>2. task' = [task EXCEPT ![c] = [task[c] EXCEPT !.pc = "connecting", !.id = i]]
    BY <1>1, <2>1 DEF States
  <2>3. [task[c] EXCEPT !.pc = "connecting", !.id = i] \in States
    <3>1. \A s \in States : [s EXCEPT !.pc = "connecting", !.id = i] \in States
      BY DEF States
    <3> QED
      BY <2>1, <3>1
  <2>4. task'[c].at = task[c].at /\ task'[c].keys = task[c].keys
        /\ task'[c].pc = "connecting" /\ task'[c].id = i
    BY <2>1, <2>2 DEF States
  <2>5. c \in Tasks /\ c \notin Replicas
    OBVIOUS
  <2>6. task' \in [Tasks -> States] /\ \A u \in Tasks : u # c => task'[u] = task[u]
    BY <2>1, <2>2, <2>3, <2>5
  <2>7. starting' \in [Replicas -> Clients \cup {None}]
        /\ starting'[p] = c /\ \A q \in Replicas : q # p => starting'[q] = starting[q]
    BY <1>1, <2>1
  <2>8. task[c].at = p
    BY <1>1, <2>5 DEF At
  <2>9. \A u \in Tasks : At(u)' = At(u)
    BY <2>4, <2>6 DEF At
  <2> QED
    BY <2>4, <2>6, <2>7, <2>8, <2>9
<1>4. AllTidy'
  <2>1. \A q \in Replicas, j \in 0..MaxBundles : Tidy(made'[q][j])
    BY DEF WorkInv, AllTidy
  <2>2. \A q \in Replicas, j \in Ids : made'[q][j].key = None => made'[q][j] = Unmade
    BY DEF WorkInv, AllTidy
  <2>3. \A q \in Replicas : made'[q][0] = made[q][0]
    OBVIOUS
  <2> QED
    BY <2>1, <2>2, <2>3 DEF WorkInv, AllTidy
<1>5. MapIsTrue'
  <2> SUFFICES ASSUME NEW q \in Replicas, NEW l \in Keys, bundle'[q][l] # None
               PROVE  made'[q][bundle'[q][l]].key = l /\ ~made'[q][bundle'[q][l]].cut
    BY DEF MapIsTrue
  <2>1. CASE q = p /\ l = k
    BY <2>1
  <2>2. CASE ~(q = p /\ l = k)
    <3>1. bundle'[q][l] = bundle[q][l] /\ bundle[q][l] \in Ids
      BY <2>2 DEF WorkInv, WorkTypes
    <3>2. made'[q][bundle[q][l]] = made[q][bundle[q][l]]
      <4>1. PICK m \in 0..MaxBundles : m = bundle[q][l]
        BY <3>1
      <4>2. q # p \/ m # i
        BY <2>2, <4>1
      <4> QED
        BY <4>1, <4>2
    <3> QED
      BY <3>1, <3>2 DEF WorkInv, MapIsTrue
  <2> QED
    BY <2>1, <2>2
<1>6. Mapped(p, i)' /\ \A q \in Replicas, j \in Ids : Mapped(q, j) => Mapped(q, j)'
  <2>1. Mapped(p, i)'
    BY DEF Mapped
  <2>2. ASSUME NEW q \in Replicas, NEW j \in Ids, NEW l \in Keys, bundle[q][l] = j
        PROVE  bundle'[q][l] = j
    BY <2>2
  <2> QED
    BY <2>1, <2>2 DEF Mapped
<1> HIDE DEF Starts
<1>2. CASE \E c \in Clients : Starts(c)
  <2>1. PICK c \in Clients : Starts(c)
    BY <1>2
  <2>0. c \in Tasks /\ c \notin Replicas /\ task[c].pc = "waiting" /\ starting[p] = None
    BY <2>1 DEF Starts
  <2> USE <1>1, <2>0, <2>1
  <2>2. WorkTypes'
    BY DEF WorkInv, WorkTypes
  <2>3. Holding'
    <3>1. Sound(c, task[c])
      BY DEF WorkInv, Holding
    <3>2. Sound(c, task'[c])
      BY <3>1 DEF Sound
    <3> QED
      BY <3>2 DEF WorkInv, Holding
  <2>4. Connecting'
    <3> SUFFICES ASSUME NEW u \in Tasks, task'[u].pc = "connecting"
                 PROVE  /\ u \in Clients => /\ starting'[task'[u].at] = u /\ task'[u].id \in Ids
                                            /\ made'[task'[u].at][task'[u].id].key # None
                                            /\ ~made'[task'[u].at][task'[u].id].started
                        /\ u \in Replicas => task'[u].id = 0 /\ phase'[u] = "starting"
      BY DEF Connecting
    <3>1. CASE u = c
      BY <3>1
    <3>2. CASE u # c
      <4>1. task'[u] = task[u] /\ At(u)' = At(u)
        BY <3>2
      <4>2. u \in Clients => task[u].at # p
        BY <4>1 DEF WorkInv, Connecting
      <4>3. u \in Clients => task[u].at \in Replicas
        BY <4>1 DEF WorkInv, Holding, Sound
      <4> QED
        BY <4>1, <4>2, <4>3 DEF WorkInv, Connecting
    <3> QED
      BY <3>1, <3>2
  <2>5. Lives'
    <3>1. \A q \in Replicas : made'[q][0] = made[q][0] /\ task'[q] = task[q]
      OBVIOUS
    <3> QED
      BY <3>1 DEF WorkInv, Lives
  <2>6. ClosesAlone'
    <3> SUFFICES ASSUME NEW u \in Tasks, task'[u].pc \in {"removing", "matching"},
                        task'[u].id # None
                 PROVE  /\ task'[u].id \in Ids
                        /\ made'[At(u)'][task'[u].id].key # None
                        /\ made'[At(u)'][task'[u].id].started
                        /\ ~made'[At(u)'][task'[u].id].loop
                        /\ ~made'[At(u)'][task'[u].id].cut
                        /\ \A l \in Keys : bundle'[At(u)'][l] # task'[u].id
                        /\ \A w \in Tasks : At(w)' = At(u)' /\ task'[w].id = task'[u].id => w = u
      BY DEF ClosesAlone
    <3>1. u # c /\ task'[u] = task[u] /\ At(u)' = At(u)
      OBVIOUS
    <3>2. At(u) \in Replicas
      BY <3>1 DEF WorkInv, Holding, Sound, At
    <3>3. At(u) = p => task[u].id # i
      OBVIOUS
    <3>4. \A w \in Tasks : At(w)' = At(u)' /\ task'[w].id = task'[u].id => w = u
      <4> TAKE w \in Tasks
      <4>1. CASE w = c
        <5>1. At(c) = p
          BY DEF Starts
        <5> QED
          BY <4>1, <5>1, <3>1, <3>3
      <4>2. CASE w # c
        BY <4>2, <3>1 DEF WorkInv, ClosesAlone
      <4> QED
        BY <4>1, <4>2
    <3> QED
      BY <3>1, <3>2, <3>3, <3>4 DEF WorkInv, ClosesAlone
  <2>8. ClosedWhenRemoved'
    <3>1. \A q, j : Closing(q, j) => Closing(q, j)'
      <4> TAKE q, j
      <4> HAVE Closing(q, j)
      <4>1. PICK u \in Tasks : /\ At(u) = q /\ task[u].id = j
                               /\ task[u].pc \in {"removing", "matching"}
        BY DEF Closing
      <4>2. u # c
        BY <4>1
      <4> QED
        BY <4>1, <4>2 DEF Closing
    <3> QED
      BY <1>6, <3>1 DEF WorkInv, ClosedWhenRemoved
  <2> QED
    BY <2>2, <2>3, <2>4, <2>5, <2>6, <2>8, <1>4, <1>5 DEF WorkInv
<1>3. CASE UNCHANGED <<task, starting>>
  <2>0. task' = task /\ starting' = starting
    BY <1>3
  <2>1. WorkTypes' /\ Lives'
    <3>1. WorkTypes'
      BY <2>0 DEF WorkInv, WorkTypes
    <3>2. \A q \in Replicas : made'[q][0] = made[q][0]
      OBVIOUS
    <3> QED
      BY <2>0, <3>1, <3>2 DEF WorkInv, Lives
  <2>5. Holding'
    BY <2>0 DEF WorkInv, Holding, Sound
  <2>2. \A u \in Tasks : /\ At(u)' = At(u)
                         /\ task[u].id # None => At(u) \in Replicas
                         /\ u \in Clients => task[u].at = At(u)
    BY <2>0 DEF At, WorkInv, Holding, Sound
  <2>3. Connecting'
    <3> SUFFICES ASSUME NEW u \in Tasks, task[u].pc = "connecting"
                 PROVE  /\ u \in Clients => /\ starting[task[u].at] = u /\ task[u].id \in Ids
                                            /\ made'[task[u].at][task[u].id].key # None
                                            /\ ~made'[task[u].at][task[u].id].started
                        /\ u \in Replicas => task[u].id = 0 /\ phase'[u] = "starting"
      BY <2>0 DEF Connecting
    <3>1. u \in Clients => task[u].at \in Replicas
      BY DEF WorkInv, Holding, Sound
    <3>2. u \in Clients => (task[u].at = p => task[u].id # i)
      BY <2>2
    <3> QED
      BY <3>1, <3>2 DEF WorkInv, Connecting
  <2>4. ClosesAlone'
    <3> SUFFICES ASSUME NEW u \in Tasks, task[u].pc \in {"removing", "matching"},
                        task[u].id # None
                 PROVE  /\ task[u].id \in Ids
                        /\ made'[At(u)][task[u].id].key # None
                        /\ made'[At(u)][task[u].id].started
                        /\ ~made'[At(u)][task[u].id].loop
                        /\ ~made'[At(u)][task[u].id].cut
                        /\ \A l \in Keys : bundle'[At(u)][l] # task[u].id
                        /\ \A w \in Tasks : At(w) = At(u) /\ task[w].id = task[u].id => w = u
      BY <2>0, <2>2 DEF ClosesAlone
    <3>1. At(u) \in Replicas /\ (At(u) = p => task[u].id # i)
      BY <2>2
    <3> QED
      BY <3>1 DEF WorkInv, ClosesAlone
  <2>6. ClosedWhenRemoved'
    <3>1. \A q, j : Closing(q, j)' = Closing(q, j)
      BY <2>0, <2>2 DEF Closing
    <3> QED
      BY <1>6, <3>1 DEF WorkInv, ClosedWhenRemoved
  <2> QED
    BY <2>1, <2>3, <2>4, <2>5, <2>6, <1>4, <1>5 DEF WorkInv
<1> QED
  BY <1>2, <1>3 DEF Starts, StartBegins

(* A bundle that a key has is in no task's hands but that of one who starts it. *)
LEMMA MappedIsFree ==
    ASSUME WorkInv, NEW p \in Replicas, NEW k \in Keys, bundle[p][k] # None
    PROVE  /\ bundle[p][k] \in Ids
           /\ made[p][bundle[p][k]] \in Bundles
           /\ made[p][bundle[p][k]].key = k /\ ~made[p][bundle[p][k]].cut
           /\ \A l \in Keys : bundle[p][l] = bundle[p][k] => l = k
           /\ \A u \in Tasks : (At(u) = p /\ task[u].id = bundle[p][k]) =>
                 u \in Clients /\ task[u].pc = "connecting" /\ ~made[p][bundle[p][k]].started
<1> USE NoneIsNoNumber
<1>1. bundle \in [Replicas -> [Keys -> Ids \cup {None}]]
      /\ made \in [Replicas -> [0..MaxBundles -> Bundles]]
  BY DEF WorkInv, WorkTypes
<1>2. bundle[p][k] \in Ids
  BY <1>1
<1>3. \A l \in Keys : bundle[p][l] = bundle[p][k] => l = k
  BY DEF WorkInv, MapIsTrue
<1>4. ASSUME NEW u \in Tasks, At(u) = p, task[u].id = bundle[p][k]
      PROVE  u \in Clients /\ task[u].pc = "connecting" /\ ~made[p][bundle[p][k]].started
  <2>1. task[u].pc \in {"removing", "matching", "connecting"}
    BY <1>4 DEF WorkInv, Holding, Sound
  <2>2. task[u].pc = "connecting"
    BY <1>4, <2>1 DEF WorkInv, ClosesAlone
  <2>3. u \in Clients
    BY <1>2, <1>4, <2>2 DEF WorkInv, Connecting
  <2> QED
    BY <1>4, <2>2, <2>3 DEF WorkInv, Connecting, At
<1> QED
  BY <1>1, <1>2, <1>3, <1>4 DEF WorkInv, MapIsTrue

(* The end of a start: the bundle is open or its reconnect loop runs, and the lock is free. *)
LEMMA FinishStartKeepsWork ==
    ASSUME WorkInv, NEW t \in Tasks, FinishStart(t)
    PROVE  WorkInv'
<1> USE NoneIsNoNumber, NewBundles
<1>1. PICK p : p = At(t)
  OBVIOUS
<1>2. PICK i : i = task[t].id
  OBVIOUS
<1>3. task[t].pc = "connecting" /\ task \in [Tasks -> States]
  BY DEF FinishStart, WorkInv, WorkTypes
<1>4. /\ t \in Clients => /\ p = task[t].at /\ p \in Replicas /\ i \in Ids /\ starting[p] = t
                          /\ made[p][i].key # None /\ ~made[p][i].started
      /\ t \in Replicas => p = t /\ i = 0 /\ phase[t] = "starting" /\ made[p][i] = DefaultBundle
  BY <1>1, <1>2, <1>3 DEF WorkInv, Holding, Sound, Connecting, Lives, At
<1>5. p \in Replicas /\ i \in 0..MaxBundles /\ ~made[p][i].started
  BY <1>4
<1>6. PICK connected \in BOOLEAN : made' = [made EXCEPT ![p][i] = Started(made[p][i], connected)]
  BY <1>1, <1>2, <1>5 DEF FinishStart, WorkInv, WorkTypes
<1>7. PICK b : b = Started(made[p][i], connected)
  OBVIOUS
<1>8. /\ b \in Bundles /\ Tidy(b) /\ b.started
      /\ b.key = made[p][i].key /\ b.cut = made[p][i].cut
  <2>1. made[p][i] \in Bundles /\ made[p][i].sockets = 0
    BY <1>5 DEF WorkInv, WorkTypes, AllTidy, Tidy
  <2> QED
    BY <1>6, <1>7, <2>1, StartedBundles DEF Tidy
<1>9. /\ made' \in [Replicas -> [0..MaxBundles -> Bundles]]
      /\ made'[p][i] = b
      /\ \A q \in Replicas, j \in 0..MaxBundles : q # p \/ j # i => made'[q][j] = made[q][j]
  BY <1>5, <1>6, <1>7, <1>8 DEF WorkInv, WorkTypes
<1>10. /\ task'[t] = Idle /\ \A u \in Tasks : u # t => task'[u] = task[u] /\ At(u)' = At(u)
       /\ task' \in [Tasks -> States] /\ bundle' = bundle
  BY <1>3, IdleIsSound DEF FinishStart, At
<1>11. /\ starting' \in [Replicas -> Clients \cup {None}]
       /\ \A q \in Replicas : q # p => starting'[q] = starting[q]
       /\ t \in Replicas => starting' = starting
       /\ phase' \in [Replicas -> {"down", "starting", "running"}]
       /\ \A q \in Replicas : (q # t => phase'[q] = phase[q]) /\ (q = t => phase'[q] = "running")
  BY <1>1, <1>5 DEF FinishStart, WorkInv, WorkTypes
<1> USE <1>9, <1>10, <1>11
<1>12. WorkTypes'
  BY DEF WorkInv, WorkTypes
<1>13. Holding'
  BY IdleIsSound DEF WorkInv, Holding
<1>14. Connecting'
  <2> SUFFICES ASSUME NEW u \in Tasks, u # t, task[u].pc = "connecting"
               PROVE  /\ u \in Clients => /\ starting'[task[u].at] = u /\ task[u].id \in Ids
                                          /\ made'[task[u].at][task[u].id].key # None
                                          /\ ~made'[task[u].at][task[u].id].started
                      /\ u \in Replicas => task[u].id = 0 /\ phase'[u] = "starting"
    BY IdleIsSound DEF Connecting
  <2>1. u \in Clients => /\ task[u].at \in Replicas /\ starting[task[u].at] = u
                         /\ task[u].id \in Ids
    BY DEF WorkInv, Holding, Sound, Connecting
  <2>2. u \in Clients => task[u].at # p \/ task[u].id # i
    BY <1>4, <2>1
  <2>3. u \in Clients => starting'[task[u].at] = u
    BY <1>4, <2>1
  <2>4. ASSUME u \in Clients
        PROVE  made'[task[u].at][task[u].id] = made[task[u].at][task[u].id]
    <3>1. task[u].at \in Replicas /\ task[u].id \in 0..MaxBundles
      BY <2>1, <2>4
    <3> QED
      BY <2>2, <2>4, <3>1
  <2>5. u \in Replicas => task[u].id = 0 /\ phase[u] = "starting"
    BY DEF WorkInv, Connecting
  <2>6. u \in Clients => made[task[u].at][task[u].id].key # None
                         /\ ~made[task[u].at][task[u].id].started
    BY DEF WorkInv, Connecting
  <2> QED
    BY <2>1, <2>3, <2>4, <2>5, <2>6
<1>15. Lives'
  <2>1. \A q \in Replicas : q # t => made'[q][0] = made[q][0] /\ task'[q] = task[q]
    BY <1>4
  <2> QED
    BY <2>1 DEF WorkInv, Lives
<1>16. ClosesAlone'
  <2> SUFFICES ASSUME NEW u \in Tasks, u # t, task[u].pc \in {"removing", "matching"},
                      task[u].id # None
               PROVE  /\ task[u].id \in Ids
                      /\ made'[At(u)][task[u].id].key # None
                      /\ made'[At(u)][task[u].id].started
                      /\ ~made'[At(u)][task[u].id].loop
                      /\ ~made'[At(u)][task[u].id].cut
                      /\ \A k \in Keys : bundle[At(u)][k] # task[u].id
                      /\ \A w \in Tasks : At(w)' = At(u) /\ task'[w].id = task[u].id => w = u
    BY IdleIsSound DEF ClosesAlone
  <2>1. At(u) \in Replicas
    BY DEF WorkInv, Holding, Sound, At
  <2>2. At(u) # p \/ task[u].id # i
    BY <1>5 DEF WorkInv, ClosesAlone
  <2>3. \A w \in Tasks : At(w)' = At(u) /\ task'[w].id = task[u].id => w = u
    BY IdleIsSound DEF WorkInv, ClosesAlone
  <2>4. task[u].id \in Ids
    BY DEF WorkInv, ClosesAlone
  <2>5. made'[At(u)][task[u].id] = made[At(u)][task[u].id]
    <3>1. PICK q \in Replicas, m \in 0..MaxBundles : q = At(u) /\ m = task[u].id
      BY <2>1, <2>4
    <3>2. made'[q][m] = made[q][m]
      BY <2>2, <3>1
    <3> QED
      BY <3>1, <3>2
  <2> QED
    BY <2>3, <2>4, <2>5 DEF WorkInv, ClosesAlone
<1>17. AllTidy'
  <2>1. \A q \in Replicas, j \in 0..MaxBundles : Tidy(made'[q][j])
    BY <1>8 DEF WorkInv, AllTidy
  <2>2. \A q \in Replicas, j \in Ids : made'[q][j].key = None => made'[q][j] = Unmade
    BY <1>4, <1>8 DEF WorkInv, AllTidy
  <2>3. \A q \in Replicas : made'[q][0].key = None /\ ~made'[q][0].cut
    BY <1>8 DEF WorkInv, AllTidy
  <2> QED
    BY <2>1, <2>2, <2>3 DEF AllTidy
<1>18. MapIsTrue'
  <2>1. \A q \in Replicas, j \in 0..MaxBundles :
           made'[q][j].key = made[q][j].key /\ made'[q][j].cut = made[q][j].cut
    BY <1>8
  <2>2. \A q \in Replicas, k \in Keys : bundle[q][k] # None => bundle[q][k] \in 0..MaxBundles
    BY MappedIsFree
  <2>3. ASSUME NEW q \in Replicas, NEW k \in Keys, bundle[q][k] # None
        PROVE  made'[q][bundle[q][k]].key = k /\ ~made'[q][bundle[q][k]].cut
    <3>1. made[q][bundle[q][k]].key = k /\ ~made[q][bundle[q][k]].cut
      BY <2>3 DEF WorkInv, MapIsTrue
    <3> QED
      BY <3>1, <2>1, <2>2, <2>3
  <2> QED
    BY <2>3 DEF MapIsTrue
<1>19. ClosedWhenRemoved'
  <2>1. \A q, j : Closing(q, j) => Closing(q, j)'
    BY <1>3 DEF Closing
  <2>2. \A q \in Replicas, j \in Ids : made'[q][j] # Unmade => made[q][j] # Unmade
    BY <1>4
  <2>3. \A q \in Replicas, j \in Ids : made'[q][j].cut = made[q][j].cut
    BY <1>8
  <2> QED
    BY <2>1, <2>2, <2>3 DEF WorkInv, ClosedWhenRemoved, Mapped
<1> QED
  BY <1>12, <1>13, <1>14, <1>15, <1>16, <1>17, <1>18, <1>19 DEF WorkInv

(* A task takes bundle i of key k out of p's map. *)
Removes(t, k, p, i) ==
    /\ bundle' = [bundle EXCEPT ![p][k] = None]
    /\ \/ /\ made[p][i].started
          /\ made' = [made EXCEPT ![p][i].loop = FALSE]
          /\ task' = [task EXCEPT ![t].keys = @ \ {k}, ![t].id = i]
       \/ /\ ~made[p][i].started
          /\ made' = [made EXCEPT ![p][i] =
                        IF BeingStarted(p, i) THEN [@ EXCEPT !.cut = TRUE] ELSE Unmade]
          /\ task' = [task EXCEPT ![t].keys = @ \ {k}]

(* The next bundle that a task removes leaves the map: a started one is the task's to close, *)
(* one that a request is starting is cut, any other is gone.                                 *)
LEMMA StopKeepsWork ==
    ASSUME WorkInv, NEW t \in Tasks, NEW k \in task[t].keys, NEW p, p = At(t),
           NEW i, i = bundle[p][k], i # None, task[t].id = None,
           Removes(t, k, p, i),
           UNCHANGED <<phase, starting>>
    PROVE  WorkInv'
<1> USE NoneIsNoNumber, NewBundles
<1>1. /\ bundle \in [Replicas -> [Keys -> Ids \cup {None}]]
      /\ made \in [Replicas -> [0..MaxBundles -> Bundles]]
      /\ task \in [Tasks -> States]
  BY DEF WorkInv, WorkTypes
<1>2. task[t] \in States /\ k \in Keys
  BY <1>1 DEF States
<1>3. task[t].pc \in {"removing", "matching"}
  BY DEF WorkInv, Holding, Sound
<1>4. p \in Replicas
  BY <1>3 DEF At, WorkInv, Holding, Sound
<1>5. /\ i \in Ids /\ made[p][i].key = k /\ ~made[p][i].cut
      /\ \A l \in Keys : bundle[p][l] = i => l = k
      /\ \A u \in Tasks : (At(u) = p /\ task[u].id = i) =>
            u \in Clients /\ task[u].pc = "connecting" /\ ~made[p][i].started
  <2>1. bundle[p][k] # None /\ i = bundle[p][k]
    OBVIOUS
  <2> QED
    BY <1>2, <1>4, <2>1, MappedIsFree
<1>6. PICK b : b = made'[p][i]
  OBVIOUS
<1>7. PICK j : j = IF made[p][i].started THEN i ELSE None
  OBVIOUS
<1>8. /\ b \in Bundles /\ Tidy(b)
      /\ b.key \in {k, None} /\ (b.key = None => b = Unmade)
      /\ j = i => b.started /\ ~b.loop /\ ~b.cut /\ b.key = k
      /\ j = None => ~b.started /\ (b = Unmade \/ b.cut)
      /\ (j = None /\ BeingStarted(p, i)) => b.key = k
      /\ made' = [made EXCEPT ![p][i] = b]
      /\ task' = [task EXCEPT ![t] = [task[t] EXCEPT !.keys = @ \ {k}, !.id = j]]
  <2>1. made[p] \in [0..MaxBundles -> Bundles] /\ made[p][i] \in Bundles /\ Tidy(made[p][i])
    BY <1>1, <1>4, <1>5 DEF WorkInv, AllTidy
  <2>2. PICK e \in Bundles : e = made[p][i]
    BY <2>1
  <2>3. CASE made[p][i].started
    <3>1. made' = [made EXCEPT ![p][i] = [e EXCEPT !.loop = FALSE]]
      BY <1>1, <1>4, <1>5, <2>1, <2>2, <2>3 DEF Bundles, Removes
    <3>2. task' = [task EXCEPT ![t] = [task[t] EXCEPT !.keys = @ \ {k}, !.id = i]]
      BY <1>1, <1>2, <2>3 DEF States, Removes
    <3>3. b = [e EXCEPT !.loop = FALSE]
      BY <1>1, <1>4, <1>5, <1>6, <3>1
    <3>4. b \in Bundles /\ b.started = e.started /\ ~b.loop /\ b.cut = e.cut /\ b.key = e.key
          /\ b.sockets = e.sockets
      BY <3>3 DEF Bundles
    <3>5. Tidy(b)
      BY <2>1, <2>2, <2>3, <3>4 DEF Tidy
    <3>6. made' = [made EXCEPT ![p][i] = b]
      BY <3>1, <3>3
    <3>7. j = i
      BY <1>7, <2>3
    <3> QED
      BY <1>2, <1>5, <2>2, <2>3, <3>2, <3>4, <3>5, <3>6, <3>7
  <2>4. CASE ~made[p][i].started
    <3>1. b = IF BeingStarted(p, i) THEN [e EXCEPT !.cut = TRUE] ELSE Unmade
      BY <1>1, <1>4, <1>5, <1>6, <2>1, <2>2, <2>4 DEF Removes
    <3>2. made' = [made EXCEPT ![p][i] = b]
      BY <1>1, <1>4, <1>5, <2>1, <2>2, <2>4, <3>1 DEF Removes
    <3>3. [task[t] EXCEPT !.keys = @ \ {k}, !.id = None] = [task[t] EXCEPT !.keys = @ \ {k}]
      BY <1>2 DEF States
    <3>4. task' = [task EXCEPT ![t] = [task[t] EXCEPT !.keys = @ \ {k}, !.id = None]]
      BY <1>1, <1>2, <2>4, <3>3 DEF States, Removes
    <3>5. j = None /\ i # None
      BY <1>5, <1>7, <2>4
    <3>6. CASE BeingStarted(p, i)
      <4>1. b \in Bundles /\ b.started = e.started /\ b.loop = e.loop /\ b.cut /\ b.key = e.key
            /\ b.sockets = e.sockets /\ b.healthy = e.healthy
        BY <3>1, <3>6 DEF Bundles
      <4>2. Tidy(b)
        BY <2>1, <2>2, <2>4, <4>1 DEF Tidy
      <4> QED
        BY <1>2, <1>5, <2>2, <2>4, <3>2, <3>4, <3>5, <4>1, <4>2
    <3>7. CASE ~BeingStarted(p, i)
      <4>1. b = Unmade /\ ~Unmade.started
        BY <3>1, <3>7 DEF Unmade, NewBundle
      <4> QED
        BY <1>5, <3>2, <3>4, <3>5, <3>7, <4>1
    <3> QED
      BY <3>6, <3>7
  <2> QED
    BY <2>3, <2>4
<1>9. /\ made' \in [Replicas -> [0..MaxBundles -> Bundles]]
      /\ \A q \in Replicas, m \in 0..MaxBundles : q # p \/ m # i => made'[q][m] = made[q][m]
  BY <1>1, <1>4, <1>5, <1>8
<1>10. /\ bundle' \in [Replicas -> [Keys -> Ids \cup {None}]]
       /\ bundle'[p][k] = None
       /\ \A q \in Replicas, l \in Keys : q # p \/ l # k => bundle'[q][l] = bundle[q][l]
  BY <1>1, <1>2, <1>4 DEF Removes
<1>11. /\ task' \in [Tasks -> States]
       /\ task'[t].id = j /\ task'[t].pc = task[t].pc /\ task'[t].at = task[t].at
       /\ task'[t].body = task[t].body /\ task'[t].seen = task[t].seen
       /\ \A u \in Tasks : u # t => task'[u] = task[u]
  <2>1. [task[t] EXCEPT !.keys = @ \ {k}, !.id = j] \in States
    BY <1>2, <1>5, <1>7 DEF States
  <2> QED
    BY <1>1, <1>2, <1>8, <2>1 DEF States
<1>12. \A u \in Tasks : At(u)' = At(u)
  BY <1>11 DEF At
<1>21. (j = None /\ BeingStarted(p, i)) => made'[p][i].key # None /\ ~made'[p][i].started
  BY <1>2, <1>6, <1>8
<1>22. j = i => /\ made'[p][i].key # None /\ made'[p][i].started /\ ~made'[p][i].loop
                /\ ~made'[p][i].cut
  BY <1>2, <1>6, <1>8
<1> USE <1>8, <1>9, <1>10, <1>11, <1>12
<1>13. WorkTypes'
  BY DEF WorkInv, WorkTypes
<1>14. Holding'
  <2>1. Sound(t, task'[t])
    BY <1>3 DEF WorkInv, Holding, Sound
  <2> QED
    BY <2>1 DEF WorkInv, Holding
<1>15. Connecting'
  <2> SUFFICES ASSUME NEW u \in Tasks, u # t, task[u].pc = "connecting"
               PROVE  /\ u \in Clients => /\ starting'[task[u].at] = u /\ task[u].id \in Ids
                                          /\ made'[task[u].at][task[u].id].key # None
                                          /\ ~made'[task[u].at][task[u].id].started
                      /\ u \in Replicas => task[u].id = 0 /\ phase'[u] = "starting"
    <3>1. task'[t].pc # "connecting"
      BY <1>3
    <3> QED
      BY <3>1 DEF Connecting
  <2>1. CASE u \in Replicas
    BY <2>1 DEF WorkInv, Connecting
  <2>2. CASE u \in Clients
    <3>1. /\ task[u].at \in Replicas /\ starting[task[u].at] = u /\ task[u].id \in Ids
          /\ made[task[u].at][task[u].id].key # None
          /\ ~made[task[u].at][task[u].id].started
      BY <2>2 DEF WorkInv, Holding, Sound, Connecting
    <3>2. CASE task[u].at = p /\ task[u].id = i
      <4>1. BeingStarted(p, i)
        BY <2>2, <3>2 DEF BeingStarted, At
      <4>2. j = None
        BY <1>7, <3>1, <3>2
      <4>4. made'[p][i].key # None /\ ~made'[p][i].started
        BY <1>21, <4>1, <4>2
      <4> QED
        BY <2>2, <3>1, <3>2, <4>4
    <3>3. CASE ~(task[u].at = p /\ task[u].id = i)
      <4>1. made'[task[u].at][task[u].id] = made[task[u].at][task[u].id]
        BY <3>1, <3>3
      <4> QED
        BY <2>2, <3>1, <4>1
    <3> QED
      BY <3>2, <3>3
  <2> QED
    BY <2>1, <2>2
<1>16. Lives'
  <2>1. \A q \in Replicas : made'[q][0] = made[q][0] /\ task'[q].pc = task[q].pc
    BY <1>5
  <2> QED
    BY <2>1 DEF WorkInv, Lives
<1>17. ClosesAlone'
  <2> SUFFICES ASSUME NEW u \in Tasks, task'[u].pc \in {"removing", "matching"},
                      task'[u].id # None
               PROVE  /\ task'[u].id \in Ids
                      /\ made'[At(u)'][task'[u].id].key # None
                      /\ made'[At(u)'][task'[u].id].started
                      /\ ~made'[At(u)'][task'[u].id].loop
                      /\ ~made'[At(u)'][task'[u].id].cut
                      /\ \A l \in Keys : bundle'[At(u)'][l] # task'[u].id
                      /\ \A w \in Tasks : At(w)' = At(u)' /\ task'[w].id = task'[u].id => w = u
    BY DEF ClosesAlone
  <2>1. CASE u = t
    <3>1. task'[u].id = i /\ j = i /\ made[p][i].started
      BY <1>7, <2>1
    <3>2. \A l \in Keys : bundle'[p][l] # i
      BY <1>4, <1>5
    <3>3. \A w \in Tasks : At(w) = p /\ task'[w].id = i => w = t
      BY <1>5, <3>1
    <3>4. At(u)' = p
      BY <2>1
    <3> QED
      BY <1>5, <1>22, <2>1, <3>1, <3>2, <3>3, <3>4
  <2>2. CASE u # t
    <3>1. /\ task'[u] = task[u] /\ At(u) \in Replicas /\ task[u].id \in Ids
      <4>1. task'[u] = task[u] /\ task[u].pc \in {"removing", "matching"} /\ task[u].id # None
        BY <2>2
      <4>2. At(u) \in Replicas
        BY <4>1 DEF At, WorkInv, Holding, Sound
      <4>3. task[u].id \in Ids
        BY <4>1 DEF WorkInv, ClosesAlone
      <4> QED
        BY <4>1, <4>2, <4>3
    <3>2. At(u) # p \/ task[u].id # i
      BY <1>5, <3>1
    <3>3. made'[At(u)][task[u].id] = made[At(u)][task[u].id]
      BY <3>1, <3>2
    <3>4. \A w \in Tasks : At(w) = At(u) /\ task'[w].id = task[u].id => w = u
      <4> SUFFICES ASSUME NEW w \in Tasks, At(w) = At(u), task'[w].id = task[u].id
                   PROVE  w = u
        OBVIOUS
      <4>1. w # t
        BY <1>7, <3>1, <3>2
      <4> QED
        BY <3>1, <4>1 DEF WorkInv, ClosesAlone
    <3>5. \A l \in Keys : bundle'[At(u)][l] # task[u].id
      BY <1>4, <3>1 DEF WorkInv, ClosesAlone
    <3> QED
      BY <3>1, <3>3, <3>4, <3>5 DEF WorkInv, ClosesAlone
  <2> QED
    BY <2>1, <2>2
<1>18. AllTidy'
  <2>1. \A q \in Replicas, m \in 0..MaxBundles : Tidy(made'[q][m])
    BY <1>6 DEF WorkInv, AllTidy
  <2>2. \A q \in Replicas, m \in Ids : made'[q][m].key = None => made'[q][m] = Unmade
    BY <1>6 DEF WorkInv, AllTidy
  <2>3. \A q \in Replicas : made'[q][0] = made[q][0]
    BY <1>5
  <2> QED
    BY <2>1, <2>2, <2>3 DEF WorkInv, AllTidy
<1>19. MapIsTrue'
  <2> SUFFICES ASSUME NEW q \in Replicas, NEW l \in Keys, bundle'[q][l] # None
               PROVE  made'[q][bundle'[q][l]].key = l /\ ~made'[q][bundle'[q][l]].cut
    BY DEF MapIsTrue
  <2>1. bundle'[q][l] = bundle[q][l] /\ bundle[q][l] \in Ids /\ ~(q = p /\ l = k)
    BY <1>1
  <2>2. made'[q][bundle[q][l]] = made[q][bundle[q][l]]
    BY <1>5, <2>1
  <2> QED
    BY <2>1, <2>2 DEF WorkInv, MapIsTrue
<1>20. ClosedWhenRemoved'
  <2> SUFFICES ASSUME NEW q \in Replicas, NEW m \in Ids,
                      made'[q][m] # Unmade, ~Mapped(q, m)', ~made'[q][m].cut
               PROVE  Closing(q, m)'
    BY DEF ClosedWhenRemoved
  <2>1. CASE q = p /\ m = i
    <3>1. j = i
      BY <1>6, <1>7, <2>1
    <3> QED
      BY <1>3, <2>1, <3>1 DEF Closing
  <2>2. CASE ~(q = p /\ m = i)
    <3>1. made'[q][m] = made[q][m]
      BY <2>2
    <3>2. ~Mapped(q, m)
      BY <2>2 DEF Mapped
    <3>3. PICK u \in Tasks : At(u) = q /\ task[u].id = m /\ task[u].pc \in {"removing", "matching"}
      BY <3>1, <3>2 DEF WorkInv, ClosedWhenRemoved, Closing
    <3>4. u # t
      BY <3>3
    <3> QED
      BY <3>3, <3>4 DEF Closing
  <2> QED
    BY <2>1, <2>2
<1> QED
  BY <1>13, <1>14, <1>15, <1>16, <1>17, <1>18, <1>19, <1>20 DEF WorkInv

(* A bundle that is closed is as if it had never been made. *)
LEMMA CloseKeepsWork ==
    ASSUME WorkInv, NEW t \in Tasks, CloseBundle(t)
    PROVE  WorkInv'
<1> USE NoneIsNoNumber, NewBundles
<1>1. /\ made \in [Replicas -> [0..MaxBundles -> Bundles]] /\ task \in [Tasks -> States]
  BY DEF WorkInv, WorkTypes
<1>2. PICK p, i : p = At(t) /\ i = task[t].id
  OBVIOUS
<1>3. task[t].pc \in {"removing", "matching"} /\ i # None
  BY <1>2 DEF CloseBundle
<1>4. p \in Replicas
  BY <1>2, <1>3 DEF At, WorkInv, Holding, Sound
<1>5. /\ i \in Ids
      /\ \A k \in Keys : bundle[p][k] # i
      /\ \A u \in Tasks : At(u) = p /\ task[u].id = i => u = t
  BY <1>2, <1>3 DEF WorkInv, ClosesAlone
<1>6. made' = [made EXCEPT ![p][i] = Unmade]
  <2>1. Closed(made[p][i]) = Unmade
    BY <1>4, <1>5 DEF Closed, WorkInv, AllTidy, Tidy
  <2> QED
    BY <1>1, <1>2, <1>4, <1>5, <2>1 DEF CloseBundle
<1>7. /\ made' \in [Replicas -> [0..MaxBundles -> Bundles]] /\ made'[p][i] = Unmade
      /\ \A q \in Replicas, m \in 0..MaxBundles : q # p \/ m # i => made'[q][m] = made[q][m]
  BY <1>1, <1>4, <1>5, <1>6
<1>8. /\ task' \in [Tasks -> States]
      /\ task'[t].id = None /\ task'[t].pc = task[t].pc /\ task'[t].at = task[t].at
      /\ task'[t].body = task[t].body /\ task'[t].seen = task[t].seen
      /\ task'[t].keys = task[t].keys
      /\ \A u \in Tasks : u # t => task'[u] = task[u]
  <2>1. task[t] \in States /\ task' = [task EXCEPT ![t] = [task[t] EXCEPT !.id = None]]
    BY <1>1 DEF CloseBundle, States
  <2>2. [task[t] EXCEPT !.id = None] \in States
    BY <2>1 DEF States
  <2> QED
    BY <1>1, <2>1, <2>2 DEF States
<1>9. \A u \in Tasks : At(u)' = At(u)
  BY <1>8 DEF At
<1>10. UNCHANGED <<phase, bundle, starting>>
  BY DEF CloseBundle
<1> USE <1>7, <1>8, <1>9, <1>10
<1>11. WorkTypes'
  BY DEF WorkInv, WorkTypes
<1>12. Holding'
  <2>1. Sound(t, task'[t])
    BY <1>3 DEF WorkInv, Holding, Sound
  <2> QED
    BY <2>1 DEF WorkInv, Holding
<1>13. Connecting'
  <2> SUFFICES ASSUME NEW u \in Tasks, u # t, task[u].pc = "connecting"
               PROVE  /\ u \in Clients => /\ starting'[task[u].at] = u /\ task[u].id \in Ids
                                          /\ made'[task[u].at][task[u].id].key # None
                                          /\ ~made'[task[u].at][task[u].id].started
                      /\ u \in Replicas => task[u].id = 0 /\ phase'[u] = "starting"
    <3>1. task'[t].pc # "connecting"
      BY <1>3
    <3> QED
      BY <3>1 DEF Connecting
  <2>1. CASE u \in Replicas
    BY <2>1 DEF WorkInv, Connecting
  <2>2. CASE u \in Clients
    <3>1. /\ task[u].at \in Replicas /\ starting[task[u].at] = u /\ task[u].id \in Ids
          /\ made[task[u].at][task[u].id].key # None
          /\ ~made[task[u].at][task[u].id].started
      BY <2>2 DEF WorkInv, Holding, Sound, Connecting
    <3>2. ~(task[u].at = p /\ task[u].id = i)
      BY <1>5, <2>2 DEF At
    <3>3. made'[task[u].at][task[u].id] = made[task[u].at][task[u].id]
      <4>1. PICK q \in Replicas, m \in 0..MaxBundles : q = task[u].at /\ m = task[u].id
        BY <3>1
      <4>2. made'[q][m] = made[q][m]
        BY <3>2, <4>1
      <4> QED
        BY <4>1, <4>2
    <3> QED
      BY <2>2, <3>1, <3>3
  <2> QED
    BY <2>1, <2>2
<1>14. Lives'
  <2>1. \A q \in Replicas : made'[q][0] = made[q][0] /\ task'[q].pc = task[q].pc
    BY <1>5
  <2> QED
    BY <2>1 DEF WorkInv, Lives
<1>15. ClosesAlone'
  <2> SUFFICES ASSUME NEW u \in Tasks, u # t, task[u].pc \in {"removing", "matching"},
                      task[u].id # None
               PROVE  /\ task[u].id \in Ids
                      /\ made'[At(u)][task[u].id].key # None
                      /\ made'[At(u)][task[u].id].started
                      /\ ~made'[At(u)][task[u].id].loop
                      /\ ~made'[At(u)][task[u].id].cut
                      /\ \A l \in Keys : bundle[At(u)][l] # task[u].id
                      /\ \A w \in Tasks : At(w) = At(u) /\ task'[w].id = task[u].id => w = u
    BY DEF ClosesAlone
  <2>1. At(u) \in Replicas /\ task[u].id \in Ids
    <3>1. At(u) \in Replicas
      BY DEF At, WorkInv, Holding, Sound
    <3> QED
      BY <3>1 DEF WorkInv, ClosesAlone
  <2>2. made'[At(u)][task[u].id] = made[At(u)][task[u].id]
    <3>1. PICK q \in Replicas, m \in 0..MaxBundles : q = At(u) /\ m = task[u].id
      BY <2>1
    <3>2. made'[q][m] = made[q][m]
      BY <1>5, <3>1
    <3> QED
      BY <3>1, <3>2
  <2>3. \A w \in Tasks : At(w) = At(u) /\ task'[w].id = task[u].id => w = u
    BY <2>1 DEF WorkInv, ClosesAlone
  <2> QED
    BY <2>1, <2>2, <2>3 DEF WorkInv, ClosesAlone
<1>16. AllTidy'
  <2>1. \A q \in Replicas, m \in 0..MaxBundles : Tidy(made'[q][m])
    BY DEF WorkInv, AllTidy
  <2>2. \A q \in Replicas, m \in Ids : made'[q][m].key = None => made'[q][m] = Unmade
    BY DEF WorkInv, AllTidy
  <2>3. \A q \in Replicas : made'[q][0] = made[q][0]
    BY <1>5
  <2> QED
    BY <2>1, <2>2, <2>3 DEF WorkInv, AllTidy
<1>17. MapIsTrue'
  <2> SUFFICES ASSUME NEW q \in Replicas, NEW l \in Keys, bundle[q][l] # None
               PROVE  made'[q][bundle[q][l]].key = l /\ ~made'[q][bundle[q][l]].cut
    BY DEF MapIsTrue
  <2>1. bundle[q][l] \in Ids
    BY DEF WorkInv, WorkTypes
  <2>2. made'[q][bundle[q][l]] = made[q][bundle[q][l]]
    <3>1. PICK m \in 0..MaxBundles : m = bundle[q][l]
      BY <2>1
    <3>2. made'[q][m] = made[q][m]
      BY <1>5, <3>1
    <3> QED
      BY <3>1, <3>2
  <2> QED
    BY <2>2 DEF WorkInv, MapIsTrue
<1>18. ClosedWhenRemoved'
  <2> SUFFICES ASSUME NEW q \in Replicas, NEW m \in Ids,
                      made'[q][m] # Unmade, ~Mapped(q, m)', ~made'[q][m].cut
               PROVE  Closing(q, m)'
    BY DEF ClosedWhenRemoved
  <2>1. ~(q = p /\ m = i)
    OBVIOUS
  <2>2. made'[q][m] = made[q][m] /\ ~Mapped(q, m)
    BY <2>1 DEF Mapped
  <2>3. PICK u \in Tasks : At(u) = q /\ task[u].id = m /\ task[u].pc \in {"removing", "matching"}
    BY <2>2 DEF WorkInv, ClosedWhenRemoved, Closing
  <2>4. u # t
    BY <1>2, <2>1, <2>3
  <2> QED
    BY <2>3, <2>4 DEF Closing
<1> QED
  BY <1>11, <1>12, <1>13, <1>14, <1>15, <1>16, <1>17, <1>18 DEF WorkInv

(* What a process kept in memory goes with it: its work begins anew, and the other replicas' *)
(* work goes on.                                                                             *)
LEMMA ExitKeepsWork ==
    ASSUME WorkInv, NEW p \in Replicas, Exit(p)
    PROVE  WorkInv'
<1> USE NoneIsNoNumber, NewBundles
<1>1. /\ phase' \in [Replicas -> {"down", "starting", "running"}] /\ phase'[p] = "down"
      /\ \A q \in Replicas : q # p => phase'[q] = phase[q]
  BY DEF Exit, WorkInv, WorkTypes
<1>2. /\ bundle' \in [Replicas -> [Keys -> Ids \cup {None}]]
      /\ \A k \in Keys : bundle'[p][k] = None
      /\ \A q \in Replicas : q # p => bundle'[q] = bundle[q]
  BY DEF Exit, WorkInv, WorkTypes
<1>3. PICK fresh : fresh = [i \in 0..MaxBundles |-> IF i = 0 THEN DefaultBundle ELSE Unmade]
  OBVIOUS
<1>4. /\ fresh \in [0..MaxBundles -> Bundles] /\ fresh[0] = DefaultBundle
      /\ \A i \in Ids : fresh[i] = Unmade
  <2>1. \A i \in 0..MaxBundles : (IF i = 0 THEN DefaultBundle ELSE Unmade) \in Bundles
    OBVIOUS
  <2> QED
    BY <1>3, <2>1
<1>5. /\ made' \in [Replicas -> [0..MaxBundles -> Bundles]] /\ made'[p] = fresh
      /\ \A q \in Replicas : q # p => made'[q] = made[q]
  BY <1>3, <1>4 DEF Exit, WorkInv, WorkTypes
<1>6. /\ starting' \in [Replicas -> Clients \cup {None}]
      /\ \A q \in Replicas : q # p => starting'[q] = starting[q]
  BY DEF Exit, WorkInv, WorkTypes
<1>7. /\ \A u \in Tasks : At(u) = p => task'[u] = Idle
      /\ \A u \in Tasks : At(u) # p => task'[u] = task[u]
      /\ task' \in [Tasks -> States]
  <2>1. \A u \in Tasks : task[u] \in States /\ Idle \in States
    BY IdleIsSound DEF WorkInv, WorkTypes
  <2>2. task' = [u \in Tasks |-> IF At(u) = p THEN Idle ELSE task[u]]
    BY DEF Exit
  <2>3. \A u \in Tasks : (IF At(u) = p THEN Idle ELSE task[u]) \in States
    BY <2>1
  <2> HIDE DEF At
  <2>4. task' \in [Tasks -> States]
    BY <2>2, <2>3
  <2> QED
    BY <2>2, <2>4
<1>8. Idle.pc = "idle" /\ Idle.id = None /\ Idle.at = None
  BY DEF Idle
<1>9. ASSUME NEW u \in Tasks, task'[u].id # None \/ task'[u].pc # "idle"
      PROVE  At(u) # p /\ task'[u] = task[u] /\ At(u)' = At(u) /\ At(u) \in Replicas
  <2>1. At(u) # p /\ task'[u] = task[u]
    BY <1>7, <1>8, <1>9
  <2>2. task[u].pc # "idle"
    BY <1>8, <1>9, <2>1 DEF WorkInv, Holding, Sound
  <2> QED
    BY <2>1, <2>2 DEF At, WorkInv, Holding, Sound
<1> USE <1>1, <1>2, <1>4, <1>5, <1>6, <1>7
<1>10. WorkTypes'
  BY DEF WorkTypes
<1>11. Holding'
  BY IdleIsSound DEF WorkInv, Holding
<1>12. Connecting'
  <2> SUFFICES ASSUME NEW u \in Tasks, task'[u].pc = "connecting"
               PROVE  /\ u \in Clients => /\ starting'[task'[u].at] = u /\ task'[u].id \in Ids
                                          /\ made'[task'[u].at][task'[u].id].key # None
                                          /\ ~made'[task'[u].at][task'[u].id].started
                      /\ u \in Replicas => task'[u].id = 0 /\ phase'[u] = "starting"
    BY DEF Connecting
  <2>1. At(u) # p /\ task'[u] = task[u] /\ At(u) \in Replicas
    BY <1>9
  <2>2. u \in Clients => task[u].at # p /\ task[u].at \in Replicas
    BY <2>1 DEF At
  <2>3. u \in Replicas => u # p
    BY <2>1 DEF At
  <2> QED
    BY <2>1, <2>2, <2>3 DEF WorkInv, Connecting
<1>13. Lives'
  <2> SUFFICES ASSUME NEW q \in Replicas
               PROVE  /\ phase'[q] # "running" => made'[q][0] = DefaultBundle
                      /\ phase'[q] = "down" => task'[q].pc = "idle"
    BY DEF Lives
  <2>1. CASE q = p
    BY <1>8, <2>1 DEF At
  <2>2. CASE q # p
    BY <2>2 DEF At, WorkInv, Lives
  <2> QED
    BY <2>1, <2>2
<1>14. ClosesAlone'
  <2> SUFFICES ASSUME NEW u \in Tasks, task'[u].pc \in {"removing", "matching"},
                      task'[u].id # None
               PROVE  /\ task'[u].id \in Ids
                      /\ made'[At(u)'][task'[u].id].key # None
                      /\ made'[At(u)'][task'[u].id].started
                      /\ ~made'[At(u)'][task'[u].id].loop
                      /\ ~made'[At(u)'][task'[u].id].cut
                      /\ \A l \in Keys : bundle'[At(u)'][l] # task'[u].id
                      /\ \A w \in Tasks : At(w)' = At(u)' /\ task'[w].id = task'[u].id => w = u
    BY DEF ClosesAlone
  <2>1. At(u) # p /\ task'[u] = task[u] /\ At(u)' = At(u) /\ At(u) \in Replicas
    BY <1>9
  <2>2. \A w \in Tasks : At(w)' = At(u)' /\ task'[w].id = task'[u].id => w = u
    <3> SUFFICES ASSUME NEW w \in Tasks, At(w)' = At(u)', task'[w].id = task'[u].id
                 PROVE  w = u
      OBVIOUS
    <3>1. At(w) = At(u) /\ task[w].id = task[u].id
      BY <1>9, <2>1
    <3> QED
      BY <2>1, <3>1 DEF WorkInv, ClosesAlone
  <2>3. made'[At(u)'] = made[At(u)] /\ bundle'[At(u)'] = bundle[At(u)]
    BY <2>1
  <2> QED
    BY <2>1, <2>2, <2>3 DEF WorkInv, ClosesAlone
<1>15. AllTidy'
  <2> SUFFICES ASSUME NEW q \in Replicas
               PROVE  /\ \A i \in 0..MaxBundles : Tidy(made'[q][i])
                      /\ \A i \in Ids : made'[q][i].key = None => made'[q][i] = Unmade
                      /\ made'[q][0].key = None /\ ~made'[q][0].cut
    BY DEF AllTidy
  <2>1. CASE q = p
    <3>1. \A i \in 0..MaxBundles : i = 0 \/ i \in Ids
      BY DEF Ids
    <3> QED
      BY <2>1, <3>1
  <2>2. CASE q # p
    BY <2>2 DEF WorkInv, AllTidy
  <2> QED
    BY <2>1, <2>2
<1>16. MapIsTrue'
  <2> SUFFICES ASSUME NEW q \in Replicas, NEW l \in Keys, bundle'[q][l] # None
               PROVE  made'[q][bundle'[q][l]].key = l /\ ~made'[q][bundle'[q][l]].cut
    BY DEF MapIsTrue
  <2>1. q # p /\ bundle'[q] = bundle[q] /\ made'[q] = made[q]
    OBVIOUS
  <2> QED
    BY <2>1 DEF WorkInv, MapIsTrue
<1>17. ClosedWhenRemoved'
  <2> SUFFICES ASSUME NEW q \in Replicas, NEW m \in Ids,
                      made'[q][m] # Unmade, ~Mapped(q, m)', ~made'[q][m].cut
               PROVE  Closing(q, m)'
    BY DEF ClosedWhenRemoved
  <2>1. q # p
    OBVIOUS
  <2>2. made[q][m] # Unmade /\ ~Mapped(q, m) /\ ~made[q][m].cut
    BY <2>1 DEF Mapped
  <2>3. PICK u \in Tasks : At(u) = q /\ task[u].id = m /\ task[u].pc \in {"removing", "matching"}
    BY <2>2 DEF WorkInv, ClosedWhenRemoved, Closing
  <2>4. task'[u] = task[u] /\ At(u)' = At(u)
    BY <2>1, <2>3, <1>7, <1>9
  <2> QED
    BY <2>3, <2>4 DEF Closing
<1> QED
  BY <1>10, <1>11, <1>12, <1>13, <1>14, <1>15, <1>16, <1>17 DEF WorkInv

(******************************* The stores ********************************)

(* What is stored is applied to whole profiles, and merged into whole rows. *)
LEMMA MergeTypes ==
    /\ \A p \in Replicas, n \in Names, s \in Stored :
          profiles[p][n] \in Profile \cup {None} => Merged(p, n, s) \in Profile
    /\ \A d \in [Names -> Stored \cup {None}], b \in Body :
          WithBody(d, b) \in [Names -> Stored \cup {None}]
<1> USE NoneAssumption
<1>1. ASSUME NEW p \in Replicas, NEW n \in Names, NEW s \in Stored,
             profiles[p][n] \in Profile \cup {None}
      PROVE  Merged(p, n, s) \in Profile
  <2>1. PICK base \in Profile : base = IF profiles[p][n] = None
                                       THEN [broker |-> DefaultBroker, vhosts |-> {}]
                                       ELSE profiles[p][n]
    BY <1>1, NamesAssumption DEF Profile
  <2>2. PICK br \in Brokers : br = IF s.broker = None THEN base.broker ELSE s.broker
    BY DEF Profile, Stored
  <2>3. base.vhosts \cup s.vhosts \in SUBSET Vhosts
    BY DEF Profile, Stored
  <2>4. Merged(p, n, s) = [broker |-> br, vhosts |-> base.vhosts \cup s.vhosts]
    BY <2>1, <2>2 DEF Merged
  <2> QED
    BY <2>3, <2>4 DEF Profile
<1>2. ASSUME NEW d \in [Names -> Stored \cup {None}], NEW b \in Body
      PROVE  WithBody(d, b) \in [Names -> Stored \cup {None}]
  <2>1. b.name \in Names /\ b.broker \in Brokers \cup {None} /\ b.vhosts \in SUBSET Vhosts
    BY DEF Body
  <2>2. PICK old \in Stored : old = IF d[b.name] = None THEN [broker |-> None, vhosts |-> {}]
                                    ELSE d[b.name]
    <3>1. [broker |-> None, vhosts |-> {}] \in Stored
      BY DEF Stored
    <3> QED
      BY <2>1, <3>1
  <2>3. PICK br \in Brokers \cup {None} : br = IF b.broker = None THEN old.broker ELSE b.broker
    BY <2>1 DEF Stored
  <2>4. [broker |-> br, vhosts |-> old.vhosts \cup b.vhosts] \in Stored
    BY <2>1 DEF Stored
  <2>5. WithBody(d, b) = [d EXCEPT ![b.name] = [broker |-> br, vhosts |-> old.vhosts \cup b.vhosts]]
    BY <2>2, <2>3 DEF WithBody
  <2> QED
    BY <2>1, <2>4, <2>5
<1> QED
  BY <1>1, <1>2

(* Profiles and the names that may be removed follow a row that is applied. *)
LEMMA ApplyTypes ==
    ASSUME StoreTypes, NEW p \in Replicas, NEW d \in [Names -> Stored \cup {None}],
           ApplyCustom(p, d)
    PROVE  /\ profiles' \in [Replicas -> [Names -> Profile \cup {None}]]
           /\ custom' \in [Replicas -> SUBSET Names]
<1>1. /\ profiles \in [Replicas -> [Names -> Profile \cup {None}]]
      /\ custom \in [Replicas -> SUBSET Names]
  BY DEF StoreTypes
<1>2. PICK q : q = [n \in Names |-> IF d[n] = None THEN profiles[p][n] ELSE Merged(p, n, d[n])]
  OBVIOUS
<1>3. \A n \in Names : (IF d[n] = None THEN profiles[p][n] ELSE Merged(p, n, d[n]))
                         \in Profile \cup {None}
  BY <1>1, MergeTypes
<1>4. q \in [Names -> Profile \cup {None}]
  BY <1>2, <1>3
<1>5. profiles' = [profiles EXCEPT ![p] = q]
  BY <1>1, <1>2 DEF ApplyCustom
<1>6. custom' = [custom EXCEPT ![p] = @ \cup Known(d)] /\ Known(d) \subseteq Names
  BY DEF ApplyCustom, Known
<1> QED
  BY <1>1, <1>4, <1>5, <1>6

(* A name that goes leaves the profiles and the names that may be removed. *)
LEMMA DropTypes ==
    ASSUME StoreTypes, NEW p \in Replicas, NEW n \in Names, Drop(p, n)
    PROVE  /\ profiles' \in [Replicas -> [Names -> Profile \cup {None}]]
           /\ custom' \in [Replicas -> SUBSET Names]
BY DEF StoreTypes, Drop

(* Counts of failures and of requests stay within their bounds. *)
LEMMA CountTypes ==
    ASSUME StoreTypes
    PROVE  /\ \A f : Trouble(f) => troubles' \in 0..MaxTroubles
           /\ Change => changes' \in 0..MaxChanges
BY BoundsAssumption DEF StoreTypes, Trouble, Change

(* What is stored, and what each replica made of it, keeps its type. *)
LEMMA StoreKeepsTypes ==
    ASSUME StoreTypes, WorkInv, [Next]_vars
    PROVE  StoreTypes'
<1> USE NoneIsNoNumber, CountTypes
<1>1. task \in [Tasks -> States]
  BY DEF WorkInv, WorkTypes
<1>2. \A t \in Tasks : task[t].seen \in [Names -> Stored \cup {None}] \cup {None}
  BY <1>1 DEF States
<1>3. \A t \in Tasks : task[t].pc # "idle" => At(t) \in Replicas
  BY DEF WorkInv, Holding, Sound, At
<1>4. ASSUME NEW c \in Clients, DeletePut(c) PROVE StoreTypes'
  <2>1. task[c].body \in Body /\ task[c].seen \in [Names -> Stored \cup {None}]
    BY <1>2, <1>4 DEF DeletePut, WorkInv, Holding, Sound
  <2>2. task[c].body.name \in Names
    BY <2>1 DEF Body
  <2>3. store' \in [Names -> Stored \cup {None}]
    BY <1>4, <2>1, <2>2 DEF DeletePut
  <2>4. gone' \subseteq Names
    BY <1>4, <2>2 DEF DeletePut, StoreTypes
  <2> QED
    BY <1>4, <2>3, <2>4 DEF DeletePut, StoreTypes
<1>5. ASSUME NEW c \in Clients, CreatePut(c) PROVE StoreTypes'
  <2>1. task[c].body \in Body /\ task[c].seen \in [Names -> Stored \cup {None}]
    BY <1>2, <1>5 DEF CreatePut, WorkInv, Holding, Sound
  <2>2. store' \in [Names -> Stored \cup {None}]
    BY <1>5, <2>1, MergeTypes DEF CreatePut
  <2> QED
    BY <1>5, <2>2 DEF CreatePut, StoreTypes
<1>6. ASSUME NEW c \in Clients, CreateApply(c) PROVE StoreTypes'
  <2>1. task[c].seen \in [Names -> Stored \cup {None}] /\ At(c) \in Replicas
    BY <1>2, <1>3, <1>6 DEF CreateApply, WorkInv, Holding, Sound
  <2> QED
    BY <1>6, <2>1, ApplyTypes DEF CreateApply, StoreTypes
<1>7. ASSUME NEW p \in Replicas, SyncApply(p) PROVE StoreTypes'
  <2>1. task[p].seen \in [Names -> Stored \cup {None}]
    BY <1>2, <1>7 DEF SyncApply, WorkInv, Holding, Sound
  <2> QED
    BY <1>7, <2>1, ApplyTypes DEF SyncApply, StoreTypes
<1>8. ASSUME NEW p \in Replicas, SyncRemove(p) PROVE StoreTypes'
  <2>1. PICK m \in Doomed(p) : \/ m \in custom[p] /\ Drop(p, m)
                               \/ UNCHANGED <<profiles, custom>>
    BY <1>8 DEF SyncRemove
  <2>2. \A n \in custom[p] : n \in Names
    BY DEF StoreTypes
  <2>3. UNCHANGED <<store, gone, changes, troubles>>
    BY <1>8 DEF SyncRemove
  <2>4. /\ profiles' \in [Replicas -> [Names -> Profile \cup {None}]]
        /\ custom' \in [Replicas -> SUBSET Names]
    BY <2>1, <2>2, DropTypes DEF StoreTypes
  <2> QED
    BY <2>3, <2>4 DEF StoreTypes
<1>9. ASSUME NEW c \in Clients, NEW p \in Replicas, NEW n \in Names, Delete(c, p, n)
      PROVE  StoreTypes'
  BY <1>9, DropTypes DEF Delete, StoreTypes
<1>10. ASSUME NEW c \in Clients, NEW p \in Replicas, NEW b \in Bodies, Create(c, p, b)
       PROVE  StoreTypes'
  BY <1>10 DEF Create, StoreTypes
<1>11. ASSUME NEW p \in Replicas, Exit(p) PROVE StoreTypes'
  BY <1>11, NamesAssumption DEF Exit, StoreTypes
<1>12. ASSUME NEW t \in Tasks, FinishStart(t) PROVE StoreTypes'
  BY <1>12 DEF FinishStart, StoreTypes
<1>13. ASSUME NEW c \in Clients, PutFails(c) PROVE StoreTypes'
  BY <1>13 DEF PutFails, StoreTypes
<1>14. ASSUME NEW p \in Replicas, NEW i \in 0..MaxBundles, Lose(p, i) PROVE StoreTypes'
  BY <1>14 DEF Lose, StoreTypes
<1>15. ASSUME UNCHANGED <<store, profiles, custom, gone, changes, troubles>> PROVE StoreTypes'
  BY <1>15 DEF StoreTypes
<1>16. ASSUME NEW c \in Clients, ClientStep(c) PROVE StoreTypes'
  BY <1>4, <1>5, <1>6, <1>12, <1>15, <1>16
     DEF ClientStep, EnsureBundle, StopBundle, CloseBundle, DeleteRead
<1>17. ASSUME NEW p \in Replicas, SyncStep(p) PROVE StoreTypes'
  BY <1>7, <1>8, <1>12, <1>15, <1>17 DEF SyncStep, SyncRead, StopBundle, CloseBundle
<1>18. ASSUME NEW c \in Clients, NEW p \in Replicas, NEW k \in Keys, Resolve(c, p, k)
       PROVE  StoreTypes'
  BY <1>15, <1>18 DEF Resolve
<1>19. ASSUME NEW p \in Replicas, NEW k \in Keys, QueueServiceFor(p, k) PROVE StoreTypes'
  BY <1>15, <1>19 DEF QueueServiceFor
<1>20. ASSUME NEW p \in Replicas, NEW i \in 0..MaxBundles, Reconnect(p, i) \/ Restore(p, i)
       PROVE  StoreTypes'
  BY <1>15, <1>20 DEF Reconnect, Restore
<1>21. ASSUME NEW p \in Replicas, Boot(p) PROVE StoreTypes'
  BY <1>15, <1>21 DEF Boot
<1>22. CASE UNCHANGED vars
  BY <1>15, <1>22 DEF vars
<1> QED
  BY <1>9, <1>10, <1>11, <1>13, <1>14, <1>16, <1>17, <1>18, <1>19, <1>20, <1>21, <1>22 DEF Next

(******************************** Every step *******************************)

(* Requests that wait for nothing but the row, or for the lock of first starts. *)
LEMMA RequestKeepsWork ==
    ASSUME WorkInv, StoreTypes, StoreTypes', NEW c \in Clients,
           \/ \E p \in Replicas, k \in Keys : Resolve(c, p, k)
           \/ \E p \in Replicas, n \in Names : Delete(c, p, n)
           \/ \E p \in Replicas, b \in Bodies : Create(c, p, b)
           \/ DeleteRead(c) \/ DeletePut(c) \/ CreatePut(c) \/ CreateApply(c) \/ PutFails(c)
    PROVE  WorkInv'
<1> USE NoneIsNoNumber, IdleIsSound
<1>1. /\ task \in [Tasks -> States] /\ task[c] \in States /\ Sound(c, task[c])
      /\ c \in Tasks /\ c \notin Replicas
  BY DEF WorkInv, WorkTypes, Holding
<1>2. store \in [Names -> Stored \cup {None}] /\ store' \in [Names -> Stored \cup {None}]
  BY DEF StoreTypes
<1>3. store # None /\ store' # None
  BY <1>2, NoneAssumption
<1>4. task[c].pc \in {"idle", "deleting", "creating", "applying"} => task[c].id = None
  BY <1>1 DEF Sound
<1>5. ASSUME NEW p \in Replicas, NEW k \in Keys, Resolve(c, p, k) PROVE WorkInv'
  <2>1. PICK s : s = [Idle EXCEPT !.pc = "waiting", !.at = p, !.key = k]
    OBVIOUS
  <2>2. s \in States /\ Sound(c, s) /\ s.id = None /\ s.pc = "waiting"
    BY <1>1, <2>1 DEF Idle, States, Sound
  <2> QED
    BY <1>1, <1>4, <1>5, <2>1, <2>2, QuietStep DEF Resolve
<1>6. ASSUME NEW p \in Replicas, NEW n \in Names, Delete(c, p, n) PROVE WorkInv'
  <2>1. PICK b \in Body : b = [name |-> n, broker |-> None, vhosts |-> {}]
    BY DEF Body
  <2>2. KeysOf(p, n) \in SUBSET Keys
    BY DEF KeysOf
  <2>3. PICK s : s = [Idle EXCEPT !.pc = "removing", !.at = p, !.keys = KeysOf(p, n), !.body = b]
    OBVIOUS
  <2>4. s \in States /\ Sound(c, s) /\ s.id = None /\ s.pc = "removing"
    BY <1>1, <2>2, <2>3 DEF Idle, States, Sound
  <2> QED
    BY <1>1, <1>4, <1>6, <2>1, <2>3, <2>4, QuietStep DEF Delete
<1>7. ASSUME NEW p \in Replicas, NEW b \in Bodies, Create(c, p, b) PROVE WorkInv'
  <2>1. b \in Body
    BY NamesAssumption
  <2>2. PICK s : s = [Idle EXCEPT !.pc = "creating", !.at = p, !.body = b, !.seen = store]
    OBVIOUS
  <2>3. s \in States /\ Sound(c, s) /\ s.id = None /\ s.pc = "creating"
    BY <1>1, <1>2, <1>3, <2>1, <2>2 DEF Idle, States, Sound
  <2> QED
    BY <1>1, <1>4, <1>7, <2>2, <2>3, QuietStep DEF Create
<1>8. CASE DeleteRead(c)
  <2>1. task[c].pc = "removing" /\ task[c].keys = {} /\ task[c].id = None
    BY <1>8 DEF DeleteRead, Stopped
  <2>2. PICK s : s = [task[c] EXCEPT !.pc = "deleting", !.seen = store]
    OBVIOUS
  <2>3. s \in States /\ Sound(c, s) /\ s.id = None /\ s.pc = "deleting"
    BY <1>1, <1>2, <1>3, <2>1, <2>2 DEF States, Sound
  <2>4. task' = [task EXCEPT ![c] = s] /\ UNCHANGED <<phase, bundle, made, starting>>
    BY <1>1, <1>8, <2>2 DEF DeleteRead, States
  <2> QED
    BY <1>1, <2>1, <2>3, <2>4, QuietStep
<1>9. CASE CreatePut(c)
  <2>1. task[c].pc = "creating" /\ task[c].id = None /\ task[c].keys = {}
    BY <1>1, <1>4, <1>9 DEF CreatePut, Sound
  <2>2. PICK s : s = [task[c] EXCEPT !.pc = "applying", !.seen = store']
    OBVIOUS
  <2>3. s \in States /\ Sound(c, s) /\ s.id = None /\ s.pc = "applying"
    BY <1>1, <1>2, <1>3, <2>1, <2>2 DEF States, Sound
  <2>4. task' = [task EXCEPT ![c] = s] /\ UNCHANGED <<phase, bundle, made, starting>>
    BY <1>1, <1>9, <2>2 DEF CreatePut, States
  <2> QED
    BY <1>1, <2>1, <2>3, <2>4, QuietStep
<1>10. CASE DeletePut(c) \/ CreateApply(c) \/ PutFails(c)
  <2>1. task[c].pc \in {"deleting", "creating", "applying"} /\ task' = [task EXCEPT ![c] = Idle]
        /\ UNCHANGED <<phase, bundle, made, starting>>
    BY <1>10 DEF DeletePut, CreateApply, PutFails
  <2> QED
    BY <1>1, <1>4, <2>1, QuietStep
<1> QED
  BY <1>5, <1>6, <1>7, <1>8, <1>9, <1>10

(* A request that waited for the lock. *)
LEMMA EnsureBundleKeepsWork ==
    ASSUME WorkInv, StoreTypes, NEW c \in Clients, EnsureBundle(c)
    PROVE  WorkInv'
<1> USE NoneIsNoNumber, IdleIsSound
<1>1. /\ task \in [Tasks -> States] /\ task[c] \in States /\ Sound(c, task[c])
      /\ c \in Tasks /\ c \notin Replicas
      /\ bundle \in [Replicas -> [Keys -> Ids \cup {None}]]
      /\ made \in [Replicas -> [0..MaxBundles -> Bundles]]
  BY DEF WorkInv, WorkTypes, Holding
<1>2. PICK p, k : p = At(c) /\ k = task[c].key
  OBVIOUS
<1>3. /\ task[c].pc = "waiting" /\ task[c].id = None /\ p \in Replicas /\ k \in Keys
      /\ starting[p] = None /\ phase' = phase
  BY <1>1, <1>2 DEF EnsureBundle, Sound, At
<1>4. CASE task' = [task EXCEPT ![c] = Idle] /\ UNCHANGED <<bundle, made, starting>>
  BY <1>1, <1>3, <1>4, QuietStep
<1>5. CASE /\ bundle[p][k] = None /\ profiles[p][k[1]] # None /\ Build(p, k)
           /\ task' = [task EXCEPT ![c].pc = "connecting", ![c].id = NextId(p)]
           /\ starting' = [starting EXCEPT ![p] = c]
  <2>1. PICK i \in Ids : i = NextId(p) /\ made[p][i] = Unmade
    BY <1>3, <1>5, NextIsSpare DEF Build
  <2>2. k[1] \in Names
    BY <1>3 DEF Keys
  <2>3. profiles[p][k[1]].broker \in Brokers
    BY <1>3, <1>5, <2>2 DEF StoreTypes, Profile
  <2>4. PICK b : b = NewBundle(k, profiles[p][k[1]].broker)
    OBVIOUS
  <2>5. b \in Bundles /\ Tidy(b) /\ b.key = k /\ ~b.started /\ ~b.cut
    BY <1>3, <2>3, <2>4, NewBundles
  <2>6. made' = [made EXCEPT ![p][i] = b] /\ bundle' = [bundle EXCEPT ![p][k] = i]
    BY <1>5, <2>1, <2>4 DEF Build
  <2>7. /\ made' \in [Replicas -> [0..MaxBundles -> Bundles]] /\ made'[p][i] = b
        /\ \A q \in Replicas, j \in 0..MaxBundles : q # p \/ j # i => made'[q][j] = made[q][j]
    BY <1>1, <1>3, <2>1, <2>5, <2>6
  <2>8. /\ bundle' \in [Replicas -> [Keys -> Ids \cup {None}]] /\ bundle'[p][k] = i
        /\ \A q \in Replicas, l \in Keys : q # p \/ l # k => bundle'[q][l] = bundle[q][l]
    BY <1>1, <1>3, <2>1, <2>6
  <2>9. /\ \A u \in Tasks : At(u) = p => task[u].id # i
        /\ \A l \in Keys : bundle[p][l] # i
    BY <1>3, <2>1, SpareIsFree
  <2>10. task' = [task EXCEPT ![c].pc = "connecting", ![c].id = i]
    BY <1>5, <2>1
  <2> QED
    <3>1. StartBegins(p, i)
      BY <1>2, <1>3, <1>5, <2>10 DEF StartBegins
    <3>2. /\ p \in Replicas /\ k \in Keys /\ phase' = phase /\ bundle[p][k] \in {None, i}
          /\ made'[p][i].key = k /\ ~made'[p][i].started /\ ~made'[p][i].cut /\ Tidy(made'[p][i])
      BY <1>3, <1>5, <2>5, <2>7
    <3> QED
      BY <2>7, <2>8, <2>9, <3>1, <3>2, KeyGetsBundle
<1>6. CASE /\ bundle[p][k] # None /\ ~made[p][bundle[p][k]].started
           /\ task' = [task EXCEPT ![c].pc = "connecting", ![c].id = bundle[p][k]]
           /\ starting' = [starting EXCEPT ![p] = c]
           /\ UNCHANGED <<bundle, made>>
  <2>1. PICK i \in Ids : i = bundle[p][k]
    BY <1>3, <1>6, MappedIsFree
  <2>2. /\ made[p][i].key = k /\ ~made[p][i].cut
        /\ \A l \in Keys : bundle[p][l] = i => l = k
        /\ \A u \in Tasks : (At(u) = p /\ task[u].id = i) =>
              u \in Clients /\ task[u].pc = "connecting"
    BY <1>3, <1>6, <2>1, MappedIsFree
  <2>3. \A u \in Tasks : At(u) = p => task[u].id # i
    BY <1>3, <2>2 DEF WorkInv, Connecting, At
  <2>4. Tidy(made[p][i])
    BY <1>3 DEF WorkInv, AllTidy
  <2>5. made' = made /\ bundle' = bundle
    BY <1>6
  <2>6. task' = [task EXCEPT ![c].pc = "connecting", ![c].id = i]
    BY <1>6, <2>1
  <2> QED
    <3>1. StartBegins(p, i)
      BY <1>2, <1>3, <1>6, <2>6 DEF StartBegins
    <3>2. /\ p \in Replicas /\ k \in Keys /\ phase' = phase /\ bundle[p][k] \in {None, i}
          /\ made'[p][i].key = k /\ ~made'[p][i].started /\ ~made'[p][i].cut /\ Tidy(made'[p][i])
          /\ bundle'[p][k] = i
      BY <1>3, <1>6, <2>1, <2>2, <2>4, <2>5
    <3>3. /\ made' \in [Replicas -> [0..MaxBundles -> Bundles]]
          /\ bundle' \in [Replicas -> [Keys -> Ids \cup {None}]]
          /\ \A q \in Replicas, j \in 0..MaxBundles : q # p \/ j # i => made'[q][j] = made[q][j]
          /\ \A q \in Replicas, l \in Keys : q # p \/ l # k => bundle'[q][l] = bundle[q][l]
          /\ \A l \in Keys : l # k => bundle[p][l] # i
      BY <1>1, <2>2, <2>5
    <3> QED
      BY <2>3, <3>1, <3>2, <3>3, KeyGetsBundle
<1> QED
  BY <1>2, <1>4, <1>5, <1>6 DEF EnsureBundle

(* Monitoring makes a bundle and starts none. *)
LEMMA QueueServiceKeepsWork ==
    ASSUME WorkInv, StoreTypes, NEW p \in Replicas, NEW k \in Keys, QueueServiceFor(p, k)
    PROVE  WorkInv'
<1> USE NoneIsNoNumber
<1>1. /\ bundle \in [Replicas -> [Keys -> Ids \cup {None}]]
      /\ made \in [Replicas -> [0..MaxBundles -> Bundles]]
  BY DEF WorkInv, WorkTypes
<1>2. PICK i \in Ids : i = NextId(p) /\ made[p][i] = Unmade
  BY NextIsSpare DEF QueueServiceFor, Build
<1>3. k[1] \in Names
  BY DEF Keys
<1>4. profiles[p][k[1]].broker \in Brokers
  BY <1>3 DEF QueueServiceFor, InScope, StoreTypes, Profile
<1>5. PICK b : b = NewBundle(k, profiles[p][k[1]].broker)
  OBVIOUS
<1>6. b \in Bundles /\ Tidy(b) /\ b.key = k /\ ~b.started /\ ~b.cut
  BY <1>4, <1>5, NewBundles
<1>7. made' = [made EXCEPT ![p][i] = b] /\ bundle' = [bundle EXCEPT ![p][k] = i]
  BY <1>2, <1>5 DEF QueueServiceFor, Build
<1>8. /\ made' \in [Replicas -> [0..MaxBundles -> Bundles]] /\ made'[p][i] = b
      /\ \A q \in Replicas, j \in 0..MaxBundles : q # p \/ j # i => made'[q][j] = made[q][j]
  BY <1>1, <1>6, <1>7
<1>9. /\ bundle' \in [Replicas -> [Keys -> Ids \cup {None}]] /\ bundle'[p][k] = i
      /\ \A q \in Replicas, l \in Keys : q # p \/ l # k => bundle'[q][l] = bundle[q][l]
  BY <1>1, <1>7
<1>10. /\ \A u \in Tasks : At(u) = p => task[u].id # i
       /\ \A l \in Keys : bundle[p][l] # i
  BY <1>2, SpareIsFree
<1>11. bundle[p][k] = None /\ UNCHANGED <<phase, task, starting>>
  BY DEF QueueServiceFor
<1> QED
  BY <1>2, <1>6, <1>8, <1>9, <1>10, <1>11, KeyGetsBundle

(* The sync loop's own steps, and the first ones of a replica's life. *)
LEMMA LoopKeepsWork ==
    ASSUME WorkInv, StoreTypes, NEW p \in Replicas,
           SyncRead(p) \/ SyncRemove(p) \/ SyncApply(p) \/ Boot(p)
    PROVE  WorkInv'
<1> USE NoneIsNoNumber, IdleIsSound
<1>1. /\ task \in [Tasks -> States] /\ task[p] \in States /\ Sound(p, task[p])
      /\ p \in Tasks /\ p \notin Clients
  BY DEF WorkInv, WorkTypes, Holding
<1>2. store \in [Names -> Stored \cup {None}] /\ store # None
  BY NoneAssumption DEF StoreTypes
<1>3. task[p].pc # "idle" => phase[p] # "down"
  BY DEF WorkInv, Lives
<1>4. CASE SyncRead(p)
  <2>1. PICK s : s = [task[p] EXCEPT !.pc = "syncing", !.seen = store]
    OBVIOUS
  <2>2. task[p] = Idle /\ phase[p] = "running"
    BY <1>1, <1>4 DEF SyncRead, Sound
  <2>3. s \in States /\ Sound(p, s) /\ s.id = None /\ s.pc = "syncing"
    BY <1>1, <1>2, <2>1, <2>2 DEF Idle, States, Sound
  <2>4. task' = [task EXCEPT ![p] = s] /\ UNCHANGED <<phase, bundle, made, starting>>
    BY <1>1, <1>4, <2>1 DEF SyncRead, States
  <2> QED
    BY <1>1, <2>2, <2>3, <2>4, QuietStep
<1>5. CASE Boot(p)
  <2>1. PICK s : s = [task[p] EXCEPT !.pc = "syncing", !.seen = store]
    OBVIOUS
  <2>2. phase[p] = "down" /\ task[p] = Idle
    BY <1>1, <1>5 DEF Boot, Sound, WorkInv, Lives
  <2>3. s \in States /\ Sound(p, s) /\ s.id = None /\ s.pc = "syncing"
    BY <1>1, <1>2, <2>1, <2>2 DEF Idle, States, Sound
  <2>4. /\ task' = [task EXCEPT ![p] = s] /\ UNCHANGED <<bundle, made, starting>>
        /\ phase' = [phase EXCEPT ![p] = "starting"]
    BY <1>1, <1>5, <2>1 DEF Boot, States
  <2>5. phase'[p] # "down"
    BY <2>4 DEF WorkInv, WorkTypes
  <2> QED
    BY <1>1, <2>2, <2>3, <2>4, <2>5, QuietStep
<1>6. CASE SyncRemove(p)
  <2>1. /\ task[p].pc \in {"syncing", "matching"} /\ task[p].id = None
        /\ UNCHANGED <<phase, bundle, made, starting>>
    BY <1>6 DEF SyncRemove, Stopped
  <2>2. PICK n : n \in Doomed(p) /\ IF n \in custom[p]
                 THEN task' = [task EXCEPT ![p].pc = "matching", ![p].names = Doomed(p) \ {n},
                                           ![p].keys = KeysOf(p, n)]
                 ELSE task' = [task EXCEPT ![p] = Idle]
    BY <1>6 DEF SyncRemove
  <2>3. CASE n \in custom[p]
    <3>1. Doomed(p) \subseteq Names
      BY <1>1 DEF Doomed, StoreTypes, States
    <3>2. Doomed(p) \ {n} \in SUBSET Names /\ KeysOf(p, n) \in SUBSET Keys
      BY <3>1 DEF KeysOf
    <3>7. PICK names \in SUBSET Names, keys \in SUBSET Keys :
             names = Doomed(p) \ {n} /\ keys = KeysOf(p, n)
      BY <3>2
    <3>3. PICK s : s = [task[p] EXCEPT !.pc = "matching", !.names = names, !.keys = keys]
      OBVIOUS
    <3>8. /\ [task[p] EXCEPT !.names = names, !.keys = keys] \in States
          /\ \A a \in States : [a EXCEPT !.pc = "matching"] \in States
      BY <1>1 DEF States
    <3>9. s = [[task[p] EXCEPT !.names = names, !.keys = keys] EXCEPT !.pc = "matching"]
      BY <1>1, <3>3 DEF States
    <3>10. s.id = None /\ s.pc = "matching" /\ s.seen = task[p].seen /\ s.at = task[p].at
      BY <1>1, <2>1, <3>3 DEF States
    <3>4. /\ s \in States /\ s.id = None /\ s.pc = "matching"
          /\ s.seen = task[p].seen /\ s.at = task[p].at
      BY <3>8, <3>9, <3>10
    <3>6. Sound(p, s)
      BY <1>1, <2>1, <3>4 DEF Sound
    <3>5. task' = [task EXCEPT ![p] = s]
      BY <1>1, <2>2, <2>3, <3>3, <3>7 DEF States
    <3> QED
      BY <1>1, <1>3, <2>1, <3>4, <3>5, <3>6, QuietStep
  <2>4. CASE n \notin custom[p]
    BY <1>1, <1>3, <2>1, <2>2, <2>4, QuietStep
  <2> QED
    BY <2>3, <2>4
<1>7. CASE SyncApply(p)
  <2>1. /\ task[p].pc \in {"syncing", "matching"} /\ task[p].id = None
        /\ UNCHANGED <<phase, bundle, made, starting>>
    BY <1>7 DEF SyncApply, Stopped
  <2>2. PICK s : s = IF phase[p] = "starting" THEN [Idle EXCEPT !.pc = "connecting", !.id = 0]
                                              ELSE Idle
    OBVIOUS
  <2>3. task' = [task EXCEPT ![p] = s]
    BY <1>7, <2>2 DEF SyncApply
  <2>4. CASE phase[p] = "starting"
    <3>1. s \in States /\ Sound(p, s) /\ s.id = 0 /\ s.pc = "connecting"
      BY <1>1, <2>2, <2>4 DEF Idle, States, Sound
    <3> QED
      BY <1>1, <2>1, <2>3, <2>4, <3>1, QuietStep
  <2>5. CASE phase[p] # "starting"
    BY <1>1, <1>3, <2>1, <2>2, <2>3, <2>5, QuietStep
  <2> QED
    BY <2>4, <2>5
<1> QED
  BY <1>4, <1>5, <1>6, <1>7

(* Connections are lost, and come back. *)
LEMMA BrokerKeepsWork ==
    ASSUME WorkInv, NEW p \in Replicas, NEW i \in 0..MaxBundles,
           Reconnect(p, i) \/ Lose(p, i) \/ Restore(p, i)
    PROVE  WorkInv'
<1> USE NoneIsNoNumber
<1>1. /\ made \in [Replicas -> [0..MaxBundles -> Bundles]]
      /\ made[p] \in [0..MaxBundles -> Bundles]
  BY DEF WorkInv, WorkTypes
<1>2. PICK e \in Bundles : e = made[p][i]
  BY <1>1
<1>3. Tidy(e)
  BY <1>2 DEF WorkInv, AllTidy
<1>4. UNCHANGED <<phase, bundle, starting, task>>
  BY DEF Reconnect, Lose, Restore
<1>5. CASE Reconnect(p, i)
  <2>1. PICK b : b = [e EXCEPT !.sockets = 1, !.healthy = TRUE]
    OBVIOUS
  <2>2. made' = [made EXCEPT ![p][i] = b]
    BY <1>1, <1>2, <1>5, <2>1 DEF Reconnect, Bundles
  <2>3. /\ b \in Bundles /\ b.key = e.key /\ b.started = e.started /\ b.loop = e.loop
        /\ b.cut = e.cut /\ b.sockets = 1
    <3>1. PICK n \in 0..2 : n = 1
      OBVIOUS
    <3>2. [e EXCEPT !.sockets = n, !.healthy = TRUE] \in Bundles
      BY DEF Bundles
    <3> QED
      BY <2>1, <3>1, <3>2 DEF Bundles
  <2>4. e.started
    BY <1>2, <1>3, <1>5 DEF Reconnect, Tidy
  <2>5. Tidy(b)
    BY <2>3, <2>4 DEF Tidy
  <2> QED
    BY <1>2, <1>4, <2>2, <2>3, <2>4, <2>5, ConnectionStep
<1>6. ASSUME NEW h \in BOOLEAN, made' = [made EXCEPT ![p][i].healthy = h], e.started
      PROVE  WorkInv'
  <2>1. PICK b : b = [e EXCEPT !.healthy = h]
    OBVIOUS
  <2>2. made' = [made EXCEPT ![p][i] = b]
    BY <1>1, <1>2, <1>6, <2>1 DEF Bundles
  <2>3. /\ b \in Bundles /\ b.key = e.key /\ b.started = e.started /\ b.loop = e.loop
        /\ b.cut = e.cut /\ b.sockets = e.sockets
    BY <2>1 DEF Bundles
  <2>4. Tidy(b)
    BY <1>3, <1>6, <2>3 DEF Tidy
  <2> QED
    BY <1>2, <1>4, <1>6, <2>2, <2>3, <2>4, ConnectionStep
<1>7. CASE Lose(p, i)
  <2>1. made' = [made EXCEPT ![p][i].healthy = FALSE] /\ e.started
    BY <1>2, <1>3, <1>7 DEF Lose, Tidy
  <2> QED
    BY <1>6, <2>1
<1>8. CASE Restore(p, i)
  <2>1. made' = [made EXCEPT ![p][i].healthy = TRUE] /\ e.started
    BY <1>2, <1>3, <1>8 DEF Restore, Tidy
  <2> QED
    BY <1>6, <2>1
<1> QED
  BY <1>5, <1>7, <1>8

(* A removal goes on to its next bundle, or ends because someone else took it. *)
LEMMA StopBundleKeepsWork ==
    ASSUME WorkInv, NEW t \in Tasks, StopBundle(t)
    PROVE  WorkInv'
<1> USE NoneIsNoNumber, IdleIsSound
<1>1. PICK k \in task[t].keys :
        \/ /\ bundle[At(t)][k] = None
           /\ task' = [task EXCEPT ![t] = Idle]
           /\ UNCHANGED <<bundle, made>>
        \/ /\ bundle[At(t)][k] # None /\ made[At(t)][bundle[At(t)][k]].started
           /\ bundle' = [bundle EXCEPT ![At(t)][k] = None]
           /\ made' = [made EXCEPT ![At(t)][bundle[At(t)][k]].loop = FALSE]
           /\ task' = [task EXCEPT ![t].keys = @ \ {k}, ![t].id = bundle[At(t)][k]]
        \/ /\ bundle[At(t)][k] # None /\ ~made[At(t)][bundle[At(t)][k]].started
           /\ bundle' = [bundle EXCEPT ![At(t)][k] = None]
           /\ made' = [made EXCEPT ![At(t)][bundle[At(t)][k]] =
                         IF BeingStarted(At(t), bundle[At(t)][k]) THEN [@ EXCEPT !.cut = TRUE]
                                                                  ELSE Unmade]
           /\ task' = [task EXCEPT ![t].keys = @ \ {k}]
  BY DEF StopBundle
<1>2. PICK p, i : p = At(t) /\ i = bundle[p][k]
  OBVIOUS
<1>3. task[t].id = None /\ UNCHANGED <<phase, starting>>
  BY DEF StopBundle
<1>4. CASE i = None
  <2>1. task' = [task EXCEPT ![t] = Idle] /\ UNCHANGED <<bundle, made>>
    BY <1>1, <1>2, <1>4
  <2> QED
    BY <1>3, <2>1, QuietStep
<1>5. CASE i # None
  <2>1. Removes(t, k, p, i)
    BY <1>1, <1>2, <1>5 DEF Removes
  <2> QED
    BY <1>2, <1>3, <1>5, <2>1, StopKeepsWork
<1> QED
  BY <1>4, <1>5

(* The work stays sound in every step. *)
LEMMA NextKeepsWork ==
    ASSUME WorkInv, StoreTypes, StoreTypes', [Next]_vars
    PROVE  WorkInv'
<1> USE NoneIsNoNumber
<1>1. ASSUME NEW c \in Clients, ClientStep(c) PROVE WorkInv'
  BY <1>1, EnsureBundleKeepsWork, FinishStartKeepsWork, StopBundleKeepsWork, CloseKeepsWork,
     RequestKeepsWork DEF ClientStep
<1>2. ASSUME NEW c \in Clients, NEW p \in Replicas,
             \/ \E k \in Keys : Resolve(c, p, k)
             \/ \E n \in Names : Delete(c, p, n)
             \/ \E b \in Bodies : Create(c, p, b)
      PROVE  WorkInv'
  BY <1>2, RequestKeepsWork
<1>3. ASSUME NEW c \in Clients, PutFails(c) PROVE WorkInv'
  BY <1>3, RequestKeepsWork
<1>4. ASSUME NEW p \in Replicas, SyncStep(p) PROVE WorkInv'
  BY <1>4, LoopKeepsWork, StopBundleKeepsWork, CloseKeepsWork, FinishStartKeepsWork DEF SyncStep
<1>5. ASSUME NEW p \in Replicas, Boot(p) \/ Exit(p) PROVE WorkInv'
  BY <1>5, LoopKeepsWork, ExitKeepsWork
<1>6. ASSUME NEW p \in Replicas, NEW k \in Keys, QueueServiceFor(p, k) PROVE WorkInv'
  BY <1>6, QueueServiceKeepsWork
<1>7. ASSUME NEW p \in Replicas, NEW i \in 0..MaxBundles,
             Reconnect(p, i) \/ Lose(p, i) \/ Restore(p, i)
      PROVE  WorkInv'
  BY <1>7, BrokerKeepsWork
<1>8. CASE UNCHANGED vars
  <2>1. UNCHANGED <<phase, bundle, made, starting, task>>
    BY <1>8 DEF vars
  <2>2. WorkTypes' /\ Holding' /\ Lives'
    BY <2>1 DEF WorkInv, WorkTypes, Holding, Sound, Lives
  <2>3. Connecting' /\ ClosesAlone'
    BY <2>1 DEF WorkInv, Connecting, ClosesAlone, At
  <2>4. AllTidy' /\ MapIsTrue'
    BY <2>1 DEF WorkInv, AllTidy, MapIsTrue
  <2>5. ClosedWhenRemoved'
    BY <2>1 DEF WorkInv, ClosedWhenRemoved, Mapped, Closing, At
  <2> QED
    BY <2>2, <2>3, <2>4, <2>5 DEF WorkInv
<1> QED
  BY <1>1, <1>2, <1>3, <1>4, <1>5, <1>6, <1>7, <1>8 DEF Next

(* At the start every replica is down and nothing is made but the default bundles. *)
LEMMA InitIsSound == Init => StoreTypes /\ WorkInv
<1> SUFFICES ASSUME Init PROVE StoreTypes /\ WorkInv
  OBVIOUS
<1> USE NoneIsNoNumber, NewBundles
<1>1. StoreTypes
  BY NamesAssumption, BoundsAssumption DEF Init, StoreTypes
<1>2. /\ phase = [p \in Replicas |-> "down"] /\ bundle = [p \in Replicas |-> [k \in Keys |-> None]]
      /\ starting = [p \in Replicas |-> None] /\ task = [t \in Tasks |-> Idle]
  BY DEF Init
<1>3. PICK fresh : fresh = [i \in 0..MaxBundles |-> IF i = 0 THEN DefaultBundle ELSE Unmade]
  OBVIOUS
<1>4. fresh[0] = DefaultBundle /\ \A i \in Ids : fresh[i] = Unmade
  BY <1>3
<1>5. fresh \in [0..MaxBundles -> Bundles]
  <2>1. \A i \in 0..MaxBundles : (IF i = 0 THEN DefaultBundle ELSE Unmade) \in Bundles
    OBVIOUS
  <2> QED
    BY <1>3, <2>1
<1>6. made = [p \in Replicas |-> fresh]
  BY <1>3 DEF Init
<1>7. \A t \in Tasks : task[t] = Idle /\ Sound(t, Idle) /\ Idle \in States
  BY <1>2, IdleIsSound
<1>8. Idle.pc = "idle" /\ Idle.id = None
  BY DEF Idle
<1>9. WorkTypes
  BY <1>2, <1>5, <1>6, <1>7 DEF WorkTypes
<1>10. Holding /\ Connecting /\ Lives /\ ClosesAlone
  <2>1. Holding
    BY <1>7 DEF Holding
  <2>2. Connecting /\ ClosesAlone
    BY <1>7, <1>8 DEF Connecting, ClosesAlone
  <2>3. Lives
    BY <1>4, <1>6, <1>7, <1>8 DEF Lives
  <2> QED
    BY <2>1, <2>2, <2>3
<1>11. AllTidy
  <2>1. \A i \in 0..MaxBundles : Tidy(fresh[i])
    <3>1. \A i \in 0..MaxBundles : i = 0 \/ i \in Ids
      BY DEF Ids
    <3> QED
      BY <1>4, <3>1
  <2> QED
    BY <1>4, <1>6, <2>1 DEF AllTidy
<1>12. MapIsTrue /\ ClosedWhenRemoved
  BY <1>2, <1>4, <1>6 DEF MapIsTrue, ClosedWhenRemoved
<1> QED
  BY <1>1, <1>9, <1>10, <1>11, <1>12 DEF WorkInv

(******************************** Theorems *********************************)

(* The parts of the type invariant come together. *)
LEMMA TypesTogether == StoreTypes /\ WorkInv => TypeOK
BY DEF StoreTypes, WorkInv, WorkTypes, TypeOK

(* Every variable keeps its type, whatever requests, loops and failures do. *)
THEOREM EnvironmentsTyped == Spec => []TypeOK
<1>1. Init => StoreTypes /\ WorkInv
  BY InitIsSound
<1>2. StoreTypes /\ WorkInv /\ [Next]_vars => (StoreTypes /\ WorkInv)'
  BY StoreKeepsTypes, NextKeepsWork
<1>3. StoreTypes /\ WorkInv => TypeOK
  BY TypesTogether
<1> QED
  BY <1>1, <1>2, <1>3, PTL DEF Spec

(* Removing an environment closes its connections and ends their reconnect loops on each     *)
(* replica, but for a bundle that a request was starting at that moment (environments.py:259). *)
THEOREM RemovedAreClosed == Spec => []ClosedWhenRemoved
<1>1. Init => StoreTypes /\ WorkInv
  BY InitIsSound
<1>2. StoreTypes /\ WorkInv /\ [Next]_vars => (StoreTypes /\ WorkInv)'
  BY StoreKeepsTypes, NextKeepsWork
<1>3. StoreTypes /\ WorkInv => ClosedWhenRemoved
  BY DEF WorkInv
<1> QED
  BY <1>1, <1>2, <1>3, PTL DEF Spec

(* A set whose members are all the same has one at most. *)
LEMMA AtMostOne ==
    ASSUME NEW S, \A i, j \in S : i = j
    PROVE  Cardinality(S) <= 1
<1>1. CASE S = {}
  <2>1. Cardinality(S) = 0
    BY <1>1, FS_EmptySet
  <2> QED
    BY <2>1
<1>2. CASE S # {}
  <2>1. PICK i : S = {i}
    BY <1>2
  <2>2. Cardinality(S) = 1
    BY <2>1, FS_Singleton, Zenon
  <2> QED
    BY <2>2
<1> QED
  BY <1>1, <1>2

(* A scope's open bundles are one at most, for they are all its key's bundle in the map. *)
LEMMA OpenIsMapped == WorkInv => OneConnectionPerScope
<1> USE NoneIsNoNumber, NewBundles
<1> SUFFICES ASSUME WorkInv, NEW p \in Replicas, NEW k \in Keys \cup {None},
                    NEW open, open = {i \in 0..MaxBundles :
                                        made[p][i].key = k /\ made[p][i].sockets > 0
                                          /\ ~made[p][i].cut /\ ~Closing(p, i)}
             PROVE  Cardinality(open) <= 1 /\ \A i \in open : made[p][i].sockets = 1
  BY DEF OneConnectionPerScope
<1>1. made \in [Replicas -> [0..MaxBundles -> Bundles]]
  BY DEF WorkInv, WorkTypes
<1>2. \A i \in open : made[p][i].sockets = 1
  <2> SUFFICES ASSUME NEW i \in open PROVE made[p][i].sockets = 1
    OBVIOUS
  <2>1. made[p][i] \in Bundles /\ Tidy(made[p][i])
    BY <1>1 DEF WorkInv, AllTidy
  <2> QED
    BY <2>1 DEF Bundles, Tidy
<1>3. \A i \in open : i # 0 => k \in Keys /\ bundle[p][k] = i
  <2> SUFFICES ASSUME NEW i \in open, i # 0 PROVE k \in Keys /\ bundle[p][k] = i
    OBVIOUS
  <2>1. i \in Ids
    BY DEF Ids
  <2>2. made[p][i] # Unmade
    BY <1>2 DEF Unmade, NewBundle
  <2>3. PICK l \in Keys : bundle[p][l] = i
    BY <2>1, <2>2 DEF WorkInv, ClosedWhenRemoved, Mapped
  <2>4. made[p][i].key = l
    BY <2>1, <2>3 DEF WorkInv, MapIsTrue
  <2> QED
    BY <2>3, <2>4
<1>4. 0 \in open => k = None
  BY DEF WorkInv, AllTidy
<1>5. \A i, j \in open : i = j
  BY <1>3, <1>4
<1>6. Cardinality(open) <= 1
  BY <1>5, AtMostOne
<1> QED
  BY <1>2, <1>6

(* First requests of one scope that come together start one connection (environments.py:93), *)
(* and no scope has a second one that is neither being closed nor of a removed environment.  *)
THEOREM OneConnection == Spec => []OneConnectionPerScope
<1>1. Init => StoreTypes /\ WorkInv
  BY InitIsSound
<1>2. StoreTypes /\ WorkInv /\ [Next]_vars => (StoreTypes /\ WorkInv)'
  BY StoreKeepsTypes, NextKeepsWork
<1>3. StoreTypes /\ WorkInv => OneConnectionPerScope
  BY OpenIsMapped
<1> QED
  BY <1>1, <1>2, <1>3, PTL DEF Spec
===============================================================================
