-------------------------------- MODULE Browsing --------------------------------
(***************************************************************************)
(* One queue as people browse it and act on what they saw: the guard that   *)
(* refuses queues on which reading is destructive, the snapshots that pages *)
(* are served from, how deep an action scans for a message that was picked  *)
(* from a snapshot, the audited routes around an action and the composer.   *)
(*                                                                         *)
(* Messages are numbered in the order of the queue; a classic queue puts a  *)
(* returned message back in its place.  A scan and the operation on what it *)
(* found are one step: they hold the queue's lock, and MessageOperator has  *)
(* the steps in between.                                                    *)
(***************************************************************************)
EXTENDS Integers, FiniteSets, SequencesExt

CONSTANTS
    Clients,        \* requests in progress
    Prints,         \* fingerprints; copies of a message share one
    None,
    Window,         \* refetch_window_size, as effective_limit gives it
    Depth,          \* max_browse_depth, likewise
    MaxSnapshots,   \* MAX_SNAPSHOTS
    DefaultLimit,   \* the delivery limit of RabbitMQ 4.x where none is configured
    Limits,         \* delivery limits that people configure
    Kinds,          \* "classic", "quorum": what the queue may be
    MaxReturns,     \* bound: returns are counted up to here, one more is one more than this
    MaxMessages,    \* bound: messages that were ever published
    MaxScans,       \* bound: snapshots that were ever taken
    MaxActs         \* bound: actions and compositions that were ever asked for

ASSUME LimitsAssumption ==
    /\ {Window, Depth, MaxSnapshots} \subseteq Nat \ {0}
    /\ DefaultLimit \in Nat /\ Limits \subseteq Int
    /\ {MaxReturns, MaxMessages, MaxScans, MaxActs} \subseteq Nat
    /\ \A v \in Limits \cup {DefaultLimit} : v <= MaxReturns
    /\ Kinds \subseteq {"classic", "quorum"}
ASSUME NoneAssumption == None \notin Prints \cup Int \cup {"success"}
ASSUME ClientsAssumption == IsFiniteSet(Clients)

VARIABLES
    queue,      \* what the broker keeps of the queue
    messages,   \* print of each message, the ready ones, the ones a consumer holds
    returns,    \* returns[i]: how often message i came back to a quorum queue
    dropped,    \* the messages that the broker dropped for it
    known,      \* _rabbitmq_version of the queue service
    shots,      \* _snapshots, the least recently used first
    issued,     \* how many snapshots were taken: the last one's id
    task,       \* task[c]: where a request is, and its locals
    rows,       \* how many audit rows say "started" and "success"; "failed" ones do not count
    acted       \* how many operations published or removed a message

vars == <<queue, messages, returns, dropped, known, shots, issued, task, rows, acted>>

Ids == 1..MaxMessages
Values == Limits \cup {None}
Shot == [id : 1..MaxScans, seen : Seq(Ids)]
Jobs == {"head", "snapshot", "copy", "remove", "publish"}
Task == [pc : {"idle", "starting", "guarding", "scanning", "publishing", "recording"},
         job : Jobs \cup {None}, print : Prints \cup {None}, seen : Seq(Ids),
         scan : 0..Depth \cup {Window}, judged : Values \X {3, 4} \cup {None},
         outcome : {"success", "not_found", "ambiguous", "failed", None}]
Idle == [pc |-> "idle", job |-> None, print |-> None, seen |-> <<>>, scan |-> 0,
         judged |-> None, outcome |-> None]

TypeOK ==
    /\ queue \in [kind : Kinds, version : {3, 4}, argument : Values, policy : Values,
                  emitted : BOOLEAN]
    /\ messages \in [print : [Ids -> Prints \cup {None}], ready : SUBSET Ids, held : SUBSET Ids]
    /\ messages.ready \cap messages.held = {}
    /\ returns \in [Ids -> 0..MaxReturns] /\ dropped \subseteq Ids \ messages.ready
    /\ known \in {3, 4, None}
    /\ shots \in Seq(Shot) /\ Len(shots) <= MaxSnapshots
    /\ \A s, t \in DOMAIN shots : shots[s].id = shots[t].id => s = t
    /\ issued \in 0..MaxScans
    /\ task \in [Clients -> Task]
    /\ rows \in [{"started", "success"} -> Nat] /\ acted \in Nat

Init ==
    /\ queue \in [kind : Kinds, version : {3, 4}, argument : Values, policy : Values,
                  emitted : BOOLEAN]
    /\ queue.kind = "classic" => queue.argument = None /\ queue.policy = None /\ queue.emitted
    /\ messages = [print |-> [i \in Ids |-> None], ready |-> {}, held |-> {}]
    /\ returns = [i \in Ids |-> 0] /\ dropped = {}
    /\ known = None /\ shots = <<>> /\ issued = 0
    /\ task = [c \in Clients |-> Idle]
    /\ rows = [r \in {"started", "success"} |-> 0] /\ acted = 0

(******************************* The broker ********************************)

Configured(policy) == {queue.argument, policy} \ {None}

(* Whether the n-th return of a message is one too many: on 3.x for whatever is     *)
(* configured, on 4.x for what is not negative, and for the default where nothing is. *)
TooMany(n) ==
    LET values == Configured(queue.policy)
    IN  IF queue.version = 3 THEN \E v \in values : n > v
        ELSE \/ \E v \in values : v >= 0 /\ n > v
             \/ values = {} /\ n > DefaultLimit

(* `read` goes back to the queue, but for what was taken for good. *)
Return(read, taken) ==
    LET back == IF queue.kind = "quorum" THEN read \ taken ELSE {}
        over == {i \in back : TooMany(returns[i] + 1)}
    IN  /\ returns' = [i \in Ids |-> IF i \in back /\ returns[i] < MaxReturns
                                       THEN returns[i] + 1 ELSE returns[i]]
        /\ dropped' = dropped \cup over
        /\ messages' = [messages EXCEPT !.ready = (@ \ taken) \ over]

Next1 == Cardinality({i \in Ids : messages.print[i] # None}) + 1
Arrive(f) == messages' = [messages EXCEPT !.print[Next1] = f, !.ready = @ \cup {Next1}]

Rank(i) == Cardinality({j \in messages.ready : j <= i})
First(n) == {i \in messages.ready : Rank(i) <= n}

(* Producers publish; consumers of a classic queue take from the front, and keep it or *)
(* give it back; people set policies, brokers are upgraded and report late.            *)
Produce(f) ==
    /\ Next1 \in Ids /\ Arrive(f)
    /\ UNCHANGED <<queue, returns, dropped, known, shots, issued, task, rows, acted>>
Consume ==
    /\ queue.kind = "classic"
    /\ \E i \in Ids :
          \/ /\ i \in First(1)
             /\ messages' = [messages EXCEPT !.ready = @ \ {i}, !.held = @ \cup {i}]
          \/ /\ i \in messages.held
             /\ messages' = [messages EXCEPT !.ready = @ \cup {i}, !.held = @ \ {i}]
          \/ /\ i \in messages.held
             /\ messages' = [messages EXCEPT !.held = @ \ {i}]
    /\ UNCHANGED <<queue, returns, dropped, known, shots, issued, task, rows, acted>>
Administer ==
    /\ queue.kind = "quorum"
    /\ \/ \E v \in Values : queue' = [queue EXCEPT !.policy = v]
       \/ queue' = [queue EXCEPT !.emitted = TRUE]
       \/ queue' = [queue EXCEPT !.version = 4]
    /\ UNCHANGED <<messages, returns, dropped, known, shots, issued, task, rows, acted>>

(******************************** The guard ********************************)

Least(values) == CHOOSE v \in values : \A w \in values : v <= w

(* Mutant: -1 is no limit on any version. *)
DeliveryLimitOfFour(values, version) ==
    LET limits == {v \in values : v >= 0}
    IN  IF limits # {} THEN Least(limits)
        ELSE IF values = {} /\ version = 4 THEN DefaultLimit ELSE None

DeliveryLimit(values, version) ==
    LET limits == {v \in values : v >= 0}
    IN  IF version = 3
        THEN IF values = {} THEN None ELSE IF limits = values THEN Least(values) ELSE 0
        ELSE IF limits # {} THEN Least(limits)
        ELSE IF values = {} THEN DefaultLimit ELSE None

(* assert_browsable: the queue as the Management API shows it, judged by the version that *)
(* was read first.  No statistics, no judgement: a policy would not show yet.             *)
Browsable(version) ==
    queue.kind = "quorum" => /\ queue.emitted
                             /\ DeliveryLimit(Configured(queue.policy), version) = None

(* With the guard's word the request goes on to the queue's lock. *)
Guard(c) ==
    /\ task[c].pc = "guarding"
    /\ \E version \in IF known = None THEN {queue.version} ELSE {known} :
          /\ known' = version
          /\ task' = [task EXCEPT ![c] =
               IF Browsable(version)
               THEN [task[c] EXCEPT !.pc = "scanning", !.judged = <<queue.policy, queue.version>>,
                                    !.scan = IF queue.kind = "quorum" THEN Depth ELSE @]
               ELSE IF task[c].job \in {"head", "snapshot"} THEN Idle
               ELSE [task[c] EXCEPT !.pc = "recording", !.outcome = "failed"]]
    /\ UNCHANGED <<queue, messages, returns, dropped, shots, issued, rows, acted>>

(* A list of the queues asks for the version as well, and keeps the first one it was told. *)
ListQueues ==
    /\ known = None /\ known' = queue.version
    /\ UNCHANGED <<queue, messages, returns, dropped, shots, issued, task, rows, acted>>

(* A Management API that does not answer refuses as well. *)
GuardFails(c) ==
    /\ task[c].pc = "guarding"
    /\ task' = [task EXCEPT ![c] = IF @.job \in {"head", "snapshot"} THEN Idle
                                   ELSE [@ EXCEPT !.pc = "recording", !.outcome = "failed"]]
    /\ UNCHANGED <<queue, messages, returns, dropped, known, shots, issued, rows, acted>>

(* What a scan reads: the front of a classic queue, all of a quorum queue or nothing. *)
Scanned(c) ==
    IF queue.kind = "quorum" /\ Cardinality(messages.ready) > task[c].scan THEN {}
    ELSE First(task[c].scan)

(******************************** Browsing *********************************)

(* The head of the queue, a message looked up in it, or a new snapshot. *)
Read(c, job) ==
    /\ task[c].pc = "idle"
    /\ job = "snapshot" => issued < MaxScans
    /\ task' = [task EXCEPT ![c] = [Idle EXCEPT !.pc = "guarding", !.job = job,
                                     !.scan = IF job = "head" THEN Window ELSE Depth]]
    /\ UNCHANGED <<queue, messages, returns, dropped, known, shots, issued, rows, acted>>

Ordered(read) ==
    [p \in 1..Cardinality(read) |-> CHOOSE i \in read : Cardinality({j \in read : j <= i}) = p]
Refused(c) == queue.kind = "quorum" /\ Cardinality(messages.ready) > task[c].scan

(* Mutant: one too many is kept. *)
AddOneMore(seen) ==
    LET all == Append(shots, [id |-> issued + 1, seen |-> seen])
    IN  /\ issued' = issued + 1
        /\ shots' = IF Len(all) > MaxSnapshots + 1 THEN Tail(all) ELSE all

(* SnapshotStore.add: the least recently used one goes when there are too many. *)
Add(seen) ==
    LET all == Append(shots, [id |-> issued + 1, seen |-> seen])
    IN  /\ issued' = issued + 1
        /\ shots' = IF Len(all) > MaxSnapshots THEN Tail(all) ELSE all

Scan(c) ==
    /\ task[c].pc = "scanning" /\ task[c].job \in {"head", "snapshot"}
    /\ Return(Scanned(c), {})
    /\ IF task[c].job = "snapshot" /\ ~Refused(c) /\ issued < MaxScans
       THEN Add(Ordered(Scanned(c))) ELSE UNCHANGED <<shots, issued>>
    /\ task' = [task EXCEPT ![c] = Idle]
    /\ UNCHANGED <<queue, known, rows, acted>>

(* SnapshotStore.get: a snapshot that is found becomes the most recently used one. *)
Found(id) == \E s \in DOMAIN shots : shots[s].id = id
At(id) == CHOOSE s \in DOMAIN shots : shots[s].id = id
Shown(id) == IF Found(id) THEN shots[At(id)].seen ELSE <<>>
Touch(id) ==
    shots' = IF Found(id) THEN Append(RemoveAt(shots, At(id)), shots[At(id)]) ELSE shots

(* A page, an export or one message of a snapshot: nothing is read from the broker. *)
Page(id) ==
    /\ Found(id) /\ Touch(id)
    /\ UNCHANGED <<queue, messages, returns, dropped, known, issued, task, rows, acted>>

(* The oldest snapshot is five minutes old. *)
Expire ==
    /\ shots # <<>>
    /\ LET oldest == Least({shots[s].id : s \in DOMAIN shots})
       IN  shots' = RemoveAt(shots, At(oldest))
    /\ UNCHANGED <<queue, messages, returns, dropped, known, issued, task, rows, acted>>

(************************ Actions and the composer *************************)

AtOf(seen, f) == {p \in DOMAIN seen : messages.print[seen[p]] = f}

(* Mutant: the first copy decides how far to scan. *)
DeepestFirst(seen, f) == IF AtOf(seen, f) = {} THEN 0 ELSE Least(AtOf(seen, f))

(* Copies share a fingerprint: the deepest one decides. *)
Deepest(seen, f) ==
    IF AtOf(seen, f) = {} THEN 0 ELSE CHOOSE p \in AtOf(seen, f) : \A r \in AtOf(seen, f) : r <= p

(* Mutant: no slack for what consumers give back. *)
ScanDepthExact(found, deepest) ==
    LET wanted == IF deepest > Window THEN deepest ELSE Window
    IN  IF ~found THEN Window ELSE IF wanted < Depth THEN wanted ELSE Depth

(* The window; down to the message and a window more when it was picked from a snapshot. *)
ScanDepth(found, deepest) ==
    LET wanted == deepest + Window
    IN  IF ~found THEN Window ELSE IF wanted < Depth THEN wanted ELSE Depth

Asked == rows["started"] + Cardinality({c \in Clients : task[c].pc = "starting"})

(* A confirmed replay, park or delete of a message, picked from a snapshot or not. *)
Act(c, job, f, id) ==
    /\ task[c].pc = "idle" /\ Asked < MaxActs
    /\ Touch(id)
    /\ task' = [task EXCEPT ![c] = [Idle EXCEPT !.pc = "starting", !.job = job, !.print = f,
                  !.seen = Shown(id), !.scan = ScanDepth(Found(id), Deepest(Shown(id), f))]]
    /\ UNCHANGED <<queue, messages, returns, dropped, known, issued, rows, acted>>

Compose(c, f) ==
    /\ task[c].pc = "idle" /\ Asked < MaxActs
    /\ task' = [task EXCEPT ![c] = [Idle EXCEPT !.pc = "starting", !.job = "publish", !.print = f]]
    /\ UNCHANGED <<queue, messages, returns, dropped, known, shots, issued, rows, acted>>

Row(result) == rows' = [rows EXCEPT ![result] = @ + 1]

(* Mutant: an audit trail that cannot be written is no reason to stop. *)
StartLoosely(c) ==
    /\ task[c].pc = "starting"
    /\ Row("started") \/ UNCHANGED rows
    /\ task' = [task EXCEPT ![c].pc = IF task[c].job = "publish" THEN "publishing"
                                       ELSE "guarding"]
    /\ UNCHANGED <<queue, messages, returns, dropped, known, shots, issued, acted>>

(* The row "started" first; without it nothing happens. *)
Start(c) ==
    /\ task[c].pc = "starting"
    /\ \/ /\ Row("started")
          /\ task' = [task EXCEPT ![c].pc = IF task[c].job = "publish" THEN "publishing"
                                            ELSE "guarding"]
       \/ /\ task' = [task EXCEPT ![c] = Idle]
          /\ UNCHANGED rows
    /\ UNCHANGED <<queue, messages, returns, dropped, known, shots, issued, acted>>

End(c, outcome) ==
    task' = [task EXCEPT ![c].pc = "recording", ![c].outcome = outcome]

(* operate: only a message that is found once is published, and removed unless copied.  *)
(* A connection that breaks leaves it where it was, published or not.                   *)
Operate(c) ==
    /\ task[c].pc = "scanning" /\ task[c].job \in {"copy", "remove"}
    /\ LET read == Scanned(c)
           matches == {i \in read : messages.print[i] = task[c].print}
       IN  \/ /\ matches = {}
              /\ Return(read, {})
              /\ End(c, IF Refused(c) THEN "failed" ELSE "not_found")
              /\ UNCHANGED acted
           \/ /\ Cardinality(matches) > 1
              /\ Return(read, {})
              /\ End(c, "ambiguous")
              /\ UNCHANGED acted
           \/ /\ Cardinality(matches) = 1
              /\ Return(read, IF task[c].job = "remove" THEN matches ELSE {})
              /\ End(c, "success")
              /\ acted' = acted + 1
           \/ /\ Return(read, {})
              /\ End(c, "failed")
              /\ acted' \in IF Cardinality(matches) = 1 THEN {acted, acted + 1} ELSE {acted}
    /\ UNCHANGED <<queue, known, shots, issued, rows>>

Publish(c) ==
    /\ task[c].pc = "publishing"
    /\ \/ /\ Next1 \in Ids /\ Arrive(task[c].print)
          /\ acted' = acted + 1
          /\ End(c, "success") \/ End(c, "failed")
       \/ /\ End(c, "failed")
          /\ UNCHANGED <<messages, acted>>
    /\ UNCHANGED <<queue, returns, dropped, known, shots, issued, rows>>

(* The row of the outcome, unless the database refuses it; then the answer. *)
Record(c) ==
    /\ task[c].pc = "recording"
    /\ \/ task[c].outcome = "success" /\ Row("success")
       \/ UNCHANGED rows
    /\ task' = [task EXCEPT ![c] = Idle]
    /\ UNCHANGED <<queue, messages, returns, dropped, known, shots, issued, acted>>

(* The process ends: snapshots, the broker's version and requests are lost. *)
Restart ==
    /\ known' = None /\ shots' = <<>> /\ task' = [c \in Clients |-> Idle]
    /\ UNCHANGED <<queue, messages, returns, dropped, issued, rows, acted>>

Next ==
    \/ \E c \in Clients :
          \/ Guard(c) \/ GuardFails(c) \/ Scan(c) \/ Start(c) \/ Operate(c) \/ Publish(c)
          \/ Record(c)
          \/ \E job \in {"head", "snapshot"} : Read(c, job)
          \/ \E f \in Prints :
                \/ Compose(c, f)
                \/ \E job \in {"copy", "remove"}, id \in 0..issued : Act(c, job, f, id)
    \/ \E id \in 1..issued : Page(id)
    \/ \E f \in Prints : Produce(f)
    \/ Expire \/ ListQueues \/ Consume \/ Administer \/ Restart

Spec == Init /\ [][Next]_vars

(******************************* Properties ********************************)

(* How many messages stand before the p-th one shown that were not shown before it. *)
GivenBack(seen, p) ==
    Cardinality({j \in messages.ready : j < seen[p] /\ j \notin ToSet(SubSeq(seen, 1, p))})

(* A message that the snapshot of c's action showed, that is still in the queue, and that  *)
(* sank by no more than the window, nor below the browse depth.                            *)
InReach(c, p) ==
    LET seen == task[c].seen
    IN  /\ p \in AtOf(seen, task[c].print) /\ seen[p] \in messages.ready
        /\ GivenBack(seen, p) <= Window /\ p + GivenBack(seen, p) <= Depth

Ends(c) == task[c].pc = "scanning" /\ task'[c].pc = "recording"

(* "anything a snapshot showed can be acted on" (messages.py:53), however the queue moved   *)
(* meanwhile, within the slack: an action on it never says that the message is not there.   *)
ShownIsFound ==
    [][\A c \in Clients :
          (Ends(c) /\ queue.kind = "classic" /\ \E p \in DOMAIN task[c].seen : InReach(c, p))
             => task'[c].outcome # "not_found"]_vars

(* Of a message that a snapshot showed twice, neither copy is acted on while both are in    *)
(* reach: the scan goes down to the deepest (snapshots.py:37).                              *)
CopiesAreRefused ==
    [][\A c \in Clients :
          (Ends(c) /\ queue.kind = "classic"
             /\ \E p, r \in DOMAIN task[c].seen : p < r /\ InReach(c, r)
                   /\ messages.print[task[c].seen[p]] = task[c].print
                   /\ task[c].seen[p] \in messages.ready)
             => acted' = acted]_vars

(* Browsing and acting lose no message of a quorum queue (queue_service.py:53): one is only *)
(* dropped for a return when its limit or its broker changed after the guard had judged it, *)
(* or when the broker was upgraded since the process asked for its version.                 *)
DropsOnlyWhenOvertaken ==
    [][dropped' # dropped =>
          \E c \in Clients : /\ task[c].pc = "scanning" /\ task'[c].pc # "scanning"
                             /\ \/ task[c].judged # <<queue.policy, queue.version>>
                                \/ known # queue.version]_vars

(* "no audit trail -> no publish" (actions.py:333), and none without action: an operation   *)
(* has its row "started" although it, its outcome's row or the process fail, and no row     *)
(* claims a success that was none.                                                          *)
ActedIsOnRecord ==
    /\ acted + Cardinality({c \in Clients : task[c].pc \in {"guarding", "scanning", "publishing"}
                              /\ task[c].job \in {"copy", "remove", "publish"}}) <= rows["started"]
    /\ rows["success"] + Cardinality({c \in Clients : task[c].outcome = "success"}) <= acted
=================================================================================
