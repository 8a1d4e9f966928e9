---------------------------- MODULE MessageOperator ----------------------------
(***************************************************************************)
(* One RabbitMQ queue and the requests that browse it and act on it:       *)
(* MessageOperator.operate and operate_bulk, MessageBrowser.scan, the      *)
(* fetch and requeue they share, the queue lock around them, and the       *)
(* channel each opens for the time it holds the lock.                      *)
(*                                                                         *)
(* A client is one request.  Its program counter stops wherever the        *)
(* coroutine awaits: there, other requests, the broker and failures run.   *)
(* Acknowledgements are written and not answered, so they wait in wire[c]  *)
(* until the broker processes them; declare, publish (confirms are on) and *)
(* close are answered, so on an open channel they come after the broker    *)
(* has processed everything written before.                                *)
(*                                                                         *)
(* The two ends notice a lost connection on their own: the client at once  *)
(* (ConnectionLoss), the broker at BrokerCleanup, when it returns what the *)
(* channel still held.  In between it may still process frames it had      *)
(* already received.                                                       *)
(***************************************************************************)
EXTENDS Integers, Sequences, FiniteSets

CONSTANTS
    N,          \* messages are numbered in the order producers send them
    B,          \* the first B of them are in the queue at the start
    Fps,        \* fingerprints
    Fp,         \* Fp[m]: the fingerprint of message m
    Clients,    \* requests
    Replicas,   \* QueueLens processes
    ReplicaOf,  \* ReplicaOf[c]: the process that serves request c
    Shared,     \* TRUE on PostgreSQL: the queue lock spans the replicas
    Jobs,       \* what a request may ask for
    Quorum,     \* TRUE when the queue is a quorum queue, scanned whole
    MaxScan,    \* the scan's limit: the action's window or the browse depth
    Faults,     \* which failures may happen
    None        \* no client, no message

Msgs == 1..N
Backlog == 1..B
Kinds == {"scan", "single", "bulk"}
Publishing == {"copy", "move", "park"}
Removing == {"move", "park", "delete"}
Actions == Publishing \cup Removing \cup {"none"}
AllFaults == {"target", "unroutable", "refused", "connection", "crash", "database"}

ASSUME SizesAssumption == N \in Nat /\ B \in 0..N /\ MaxScan \in Nat \ {0}
ASSUME FpAssumption == Fp \in [Msgs -> Fps]
ASSUME ReplicaAssumption == ReplicaOf \in [Clients -> Replicas]
ASSUME JobsAssumption ==
    /\ Jobs \subseteq [kind : Kinds, action : Actions, fps : SUBSET Fps]
    /\ \A j \in Jobs : /\ j.kind = "scan" <=> j.action = "none"
                       /\ j.kind = "scan" => j.fps = {}
ASSUME SwitchesAssumption ==
    Shared \in BOOLEAN /\ Quorum \in BOOLEAN /\ Faults \subseteq AllFaults
ASSUME NoneAssumption == None \notin Clients /\ None \notin Msgs

VARIABLES
    place,   \* place[m]: "absent", "ready", "unacked" or "gone"
    rank,    \* ready messages are delivered in this order, smallest first
    owner,   \* the request whose channel holds m, or whose ack removed it
    copies,  \* copies[c][m]: copies of m the request's target has stored
    wire,    \* wire[c]: acks and nacks written and not yet processed
    local,   \* local[r]: holder of replica r's asyncio lock on the queue
    pg,      \* holder of the PostgreSQL advisory lock on the queue
    req      \* req[c]: the coroutine's own state

queueVars == <<place, rank, owner>>
brokerVars == <<queueVars, copies, wire>>
lockVars == <<local, pg>>
vars == <<brokerVars, lockVars, req>>

Locations == {"idle", "lock", "shared", "open", "fetch", "match", "target", "next",
              "publish", "settle", "undeliver", "giveback", "close", "release",
              "done", "crashed"}
Statuses == {"none", "success", "failed", "not_found", "skipped_duplicate", "not_attempted"}
Frames == [kind : {"ack", "nack"}, msg : Msgs]
NoJob == [kind |-> "scan", action |-> "none", fps |-> {}]

Requests ==
    [pc : Locations,
     job : Jobs \cup {NoJob},
     chan : {"none", "open", "dead"},   \* the channel, as the client sees it
     scanned : Seq(Msgs),               \* the messages read, in read order
     processed : SUBSET Msgs,           \* those whose ack or nack was written
     todo : SUBSET Fps,                 \* bulk: fingerprints still to be taken
     current : Msgs \cup {None},        \* the message being acted on
     results : [Fps -> Statuses],       \* what is recorded for a fingerprint
     outcome : {"none", "returned", "raised"}]

NewRequest ==
    [pc |-> "idle", job |-> NoJob, chan |-> "none", scanned |-> <<>>, processed |-> {},
     todo |-> {}, current |-> None, results |-> [f \in Fps |-> "none"], outcome |-> "none"]

TypeOK ==
    /\ place \in [Msgs -> {"absent", "ready", "unacked", "gone"}]
    /\ rank \in [Msgs -> Int]
    /\ owner \in [Msgs -> Clients \cup {None}]
    /\ copies \in [Clients -> [Msgs -> Nat]]
    /\ wire \in [Clients -> Seq(Frames)]
    /\ local \in [Replicas -> Clients \cup {None}]
    /\ pg \in Clients \cup {None}
    /\ req \in [Clients -> Requests]

Init ==
    /\ place = [m \in Msgs |-> IF m \in Backlog THEN "ready" ELSE "absent"]
    /\ rank = [m \in Msgs |-> m]
    /\ owner = [m \in Msgs |-> None]
    /\ copies = [c \in Clients |-> [m \in Msgs |-> 0]]
    /\ wire = [c \in Clients |-> <<>>]
    /\ local = [r \in Replicas |-> None]
    /\ pg = None
    /\ req = [c \in Clients |-> NewRequest]

-------------------------------------------------------------------------------
(* The broker's queue. *)

Ready == {m \in Msgs : place[m] = "ready"}
HeldBy(c) == {m \in Msgs : place[m] = "unacked" /\ owner[m] = c}
IsHead(m) == m \in Ready /\ \A x \in Ready : rank[m] <= rank[x]
Behind(S, m) == Cardinality({x \in S : rank[x] < rank[m]})

(* The ranks once the messages of S, in their order, went to the back. *)
MovedToBack(S) ==
    [m \in Msgs |-> IF m \in S THEN N - Cardinality(S) + Behind(S, m) + 1
                               ELSE rank[m] - Behind(S, m)]

(* Returned messages go back where they were, on a quorum queue to the back. *)
Requeue(S) ==
    /\ place' = [m \in Msgs |-> IF m \in S THEN "ready" ELSE place[m]]
    /\ owner' = [m \in Msgs |-> IF m \in S THEN None ELSE owner[m]]
    /\ rank' = IF Quorum THEN MovedToBack(S) ELSE rank

Deliver(c, m) ==
    /\ IsHead(m)
    /\ place' = [place EXCEPT ![m] = "unacked"]
    /\ owner' = [owner EXCEPT ![m] = c]
    /\ UNCHANGED rank

Store(c) == copies' = [copies EXCEPT ![c][req[c].current] = @ + 1]

-------------------------------------------------------------------------------
(* The coroutine's state, and what its steps make of it. *)

At(c, location) == req[c].pc = location
IsBulk(c) == req[c].job.kind = "bulk"
Publishes(c) == req[c].job.action \in Publishing
Read(c) == {req[c].scanned[i] : i \in DOMAIN req[c].scanned}
Matches(c, f) == {m \in Read(c) : Fp[m] = f}

(* An answered method is processed after the frames written before it. *)
CanCall(c) == req[c].chan = "open" /\ wire[c] = <<>>

(* Mutant: the messages are given back in no particular order. *)
AnyUnprocessed(c, m) == m \in Read(c) \ req[c].processed

FirstUnprocessed(c, m) ==
    \E i \in DOMAIN req[c].scanned :
        /\ req[c].scanned[i] = m
        /\ m \notin req[c].processed
        /\ \A j \in 1..(i - 1) : req[c].scanned[j] \in req[c].processed

Goto(r, location) == [r EXCEPT !.pc = location]
Finish(r) == [r EXCEPT !.outcome = "returned", !.pc = "giveback"]
Raise(r) == [r EXCEPT !.outcome = "raised", !.pc = "giveback"]
Fail(r) == [r EXCEPT !.outcome = "raised", !.pc = "release"]
Lose(r) == [r EXCEPT !.chan = "dead"]
Record(r, f, status) == [r EXCEPT !.results[f] = status]
Process(r, m) == [r EXCEPT !.processed = @ \cup {m}]

(* Mutant: a copy that was not confirmed is reported as a success. *)
HaltOptimistic(r, published) ==
    [r EXCEPT !.results = [f \in Fps |->
        IF f = Fp[r.current]
        THEN IF r.job.action = "copy" THEN "success" ELSE "failed"
        ELSE IF f \in r.todo THEN "not_attempted" ELSE r.results[f]]]

(* _halted, and not_attempted for the rest: a confirmed copy is a success,   *)
(* for the original goes back by itself.                                     *)
Halt(r, published) ==
    [r EXCEPT !.results = [f \in Fps |->
        IF f = Fp[r.current]
        THEN IF published /\ r.job.action = "copy" THEN "success" ELSE "failed"
        ELSE IF f \in r.todo THEN "not_attempted" ELSE r.results[f]]]

(* An exception other than DeliveryError between publish and settle. *)
Broken(r, published) ==
    IF r.job.kind = "bulk" THEN Finish(Halt(r, published)) ELSE Raise(r)

Become(c, r) == req' = [req EXCEPT ![c] = r]
Continue(c, r) == Become(c, r) /\ UNCHANGED <<brokerVars, lockVars>>

Write(c, kind, m) ==
    /\ wire' = [wire EXCEPT ![c] = Append(@, [kind |-> kind, msg |-> m])]
    /\ UNCHANGED <<queueVars, copies, lockVars>>

-------------------------------------------------------------------------------
(* A producer sends m. *)
Arrive(m) ==
    /\ place[m] = "absent"
    /\ place' = [place EXCEPT ![m] = "ready"]
    /\ rank' = MovedToBack({m})
    /\ UNCHANGED <<owner, copies, wire, lockVars, req>>

(* A request comes in: a preview or snapshot, a single or a bulk action. *)
Start(c, j) ==
    /\ At(c, "idle")
    /\ Continue(c, [req[c] EXCEPT !.job = j, !.todo = j.fps, !.pc = "lock"])

(* Mutant: the queue lock stays in the process although the database is shared. *)
AcquireLocalOnly(c) ==
    /\ At(c, "lock")
    /\ local[ReplicaOf[c]] = None
    /\ local' = [local EXCEPT ![ReplicaOf[c]] = c]
    /\ Become(c, Goto(req[c], "open"))
    /\ UNCHANGED <<brokerVars, pg>>

(* async with Coordinator.lock: the replica's own lock first, so that its    *)
(* waiters do not each hold a database connection, then the advisory lock.   *)
AcquireLocal(c) ==
    /\ At(c, "lock")
    /\ local[ReplicaOf[c]] = None
    /\ local' = [local EXCEPT ![ReplicaOf[c]] = c]
    /\ Become(c, Goto(req[c], IF Shared THEN "shared" ELSE "open"))
    /\ UNCHANGED <<brokerVars, pg>>

(* Mutant: the advisory lock is asked for and its answer ignored. *)
AcquireUnchecked(c) ==
    /\ At(c, "shared")
    /\ pg' = c
    /\ Become(c, Goto(req[c], "open"))
    /\ UNCHANGED <<brokerVars, local>>

AcquireShared(c) ==
    /\ At(c, "shared")
    /\ pg = None
    /\ pg' = c
    /\ Become(c, Goto(req[c], "open"))
    /\ UNCHANGED <<brokerVars, local>>

AcquireFails(c) ==
    /\ "database" \in Faults
    /\ At(c, "shared")
    /\ Continue(c, Fail(req[c]))

(* The database session that holds the advisory lock ends.  The coroutine    *)
(* does not look at it again before the end of its async with.               *)
LoseSharedLock(c) ==
    /\ "database" \in Faults
    /\ pg = c
    /\ pg' = None
    /\ UNCHANGED <<brokerVars, local, req>>

(* RabbitMQConnection.channel and the passive declare; a queue that must be  *)
(* read whole is refused when it holds more than the limit.                  *)
OpenChannel(c) ==
    /\ At(c, "open")
    /\ LET opened == [req[c] EXCEPT !.chan = "open"]
       IN Continue(c, IF Quorum /\ Cardinality(Ready) > MaxScan
                      THEN Raise(opened) ELSE Goto(opened, "fetch"))

OpenFails(c) ==
    /\ "connection" \in Faults
    /\ At(c, "open")
    /\ Continue(c, Fail(req[c]))

-------------------------------------------------------------------------------
(* fetch: basic.get until the queue is empty or the limit is reached. *)

Get(c, m) ==
    /\ At(c, "fetch")
    /\ CanCall(c)
    /\ Deliver(c, m)
    /\ UNCHANGED <<copies, wire, lockVars>>

Taken(c, m) == [req[c] EXCEPT !.scanned = Append(@, m)]

FetchMore(c, m) ==
    /\ Len(req[c].scanned) + 1 < MaxScan \/ (Quorum /\ Len(req[c].scanned) + 1 = MaxScan)
    /\ Get(c, m)
    /\ Become(c, Taken(c, m))

(* The limit or, for a snapshot, the memory budget is reached. *)
FetchStops(c, m) ==
    /\ ~Quorum
    /\ Len(req[c].scanned) + 1 = MaxScan \/ req[c].job.kind = "scan"
    /\ Get(c, m)
    /\ Become(c, Goto(Taken(c, m), "match"))

(* A queue that must be read whole grew past the limit while it was read. *)
FetchTooDeep(c, m) ==
    /\ Quorum
    /\ Len(req[c].scanned) + 1 > MaxScan
    /\ Get(c, m)
    /\ Become(c, Raise(Taken(c, m)))

(* Mutant: the empty answer of the last basic.get is appended like a message. *)
FetchEndsWithNone(c) ==
    /\ At(c, "fetch")
    /\ CanCall(c)
    /\ Ready = {}
    /\ Continue(c, Goto(Taken(c, None), "match"))

FetchEnds(c) ==
    /\ At(c, "fetch")
    /\ CanCall(c)
    /\ Ready = {}
    /\ Continue(c, Goto(req[c], "match"))

(* The broker delivers m, but the connection is lost before the answer. *)
FetchLost(c, m) ==
    /\ "connection" \in Faults
    /\ Get(c, m)
    /\ Become(c, Raise(Lose(req[c])))

(* A get or a declare on a channel that is gone raises. *)
CallRaises(c) ==
    /\ At(c, "fetch") \/ At(c, "target")
    /\ req[c].chan = "dead"
    /\ Continue(c, Raise(req[c]))

-------------------------------------------------------------------------------
(* What the scan is for: a preview has all it wants; operate acts on exactly *)
(* one match or raises LookupError; operate_bulk goes through its list.      *)

MatchScan(c) ==
    /\ At(c, "match")
    /\ req[c].job.kind = "scan"
    /\ Continue(c, Finish(req[c]))

(* Mutant: the first of several matches is taken. *)
MatchAny(c, f, m) ==
    /\ At(c, "match")
    /\ req[c].job.kind = "single"
    /\ f \in req[c].job.fps
    /\ m \in Matches(c, f)
    /\ Continue(c, [req[c] EXCEPT !.current = m,
                                  !.pc = IF Publishes(c) THEN "target" ELSE "settle"])

MatchSingle(c, f, m) ==
    /\ At(c, "match")
    /\ req[c].job.kind = "single"
    /\ f \in req[c].job.fps
    /\ Matches(c, f) = {m}
    /\ Continue(c, [req[c] EXCEPT !.current = m,
                                  !.pc = IF Publishes(c) THEN "target" ELSE "settle"])

MatchFails(c, f) ==
    /\ At(c, "match")
    /\ req[c].job.kind = "single"
    /\ f \in req[c].job.fps
    /\ Cardinality(Matches(c, f)) # 1
    /\ Continue(c, Raise(req[c]))

MatchBulk(c) ==
    /\ At(c, "match")
    /\ IsBulk(c)
    /\ Continue(c, Goto(req[c], IF Publishes(c) THEN "target" ELSE "next"))

(* _ensure_target. *)
EnsureTarget(c) ==
    /\ At(c, "target")
    /\ CanCall(c)
    /\ Continue(c, Goto(req[c], IF IsBulk(c) THEN "next" ELSE "publish"))

(* Mutant: the target is validated after the publish. *)
TargetInvalidLate(c) ==
    /\ "target" \in Faults
    /\ At(c, "settle")
    /\ Continue(c, Raise(req[c]))

TargetInvalid(c) ==
    /\ "target" \in Faults
    /\ At(c, "target")
    /\ Continue(c, Raise(req[c]))

(* The broker has no such target, or refuses it: it closes the channel and   *)
(* returns what it held.                                                     *)
TargetMissing(c) ==
    /\ "target" \in Faults
    /\ At(c, "target")
    /\ CanCall(c)
    /\ Requeue(HeldBy(c))
    /\ Become(c, Raise(Lose(req[c])))
    /\ UNCHANGED <<copies, wire, lockVars>>

-------------------------------------------------------------------------------
(* operate_bulk's loop.  The approved fingerprints are taken in the order of *)
(* their digests: any order.                                                 *)

Skip(c, f, status) ==
    Continue(c, Record([req[c] EXCEPT !.todo = @ \ {f}], f, status))

NextAbsent(c, f) ==
    /\ At(c, "next")
    /\ f \in req[c].todo
    /\ Matches(c, f) = {}
    /\ Skip(c, f, "not_found")

NextDuplicated(c, f) ==
    /\ At(c, "next")
    /\ f \in req[c].todo
    /\ Cardinality(Matches(c, f)) > 1
    /\ Skip(c, f, "skipped_duplicate")

NextMessage(c, f, m) ==
    /\ At(c, "next")
    /\ f \in req[c].todo
    /\ Matches(c, f) = {m}
    /\ Continue(c, [req[c] EXCEPT !.todo = @ \ {f}, !.current = m,
                                  !.pc = IF Publishes(c) THEN "publish" ELSE "settle"])

BatchEnds(c) ==
    /\ At(c, "next")
    /\ req[c].todo = {}
    /\ Continue(c, Finish(req[c]))

-------------------------------------------------------------------------------
(* _publish, with publisher confirms. *)

PublishConfirmed(c) ==
    /\ At(c, "publish")
    /\ CanCall(c)
    /\ Store(c)
    /\ Become(c, Goto(req[c], "settle"))
    /\ UNCHANGED <<queueVars, wire, lockVars>>

(* Mutant: a returned publish does not raise (no on_return_raises). *)
PublishUnnoticed(c) ==
    /\ "unroutable" \in Faults
    /\ At(c, "publish")
    /\ CanCall(c)
    /\ Continue(c, Goto(req[c], "settle"))

(* DeliveryError: the message was returned as unroutable, or nacked. *)
PublishUnroutable(c) ==
    /\ "unroutable" \in Faults
    /\ At(c, "publish")
    /\ CanCall(c)
    /\ Continue(c, IF IsBulk(c) THEN Goto(req[c], "undeliver") ELSE Raise(req[c]))

(* The broker refuses the publish (user_id, permissions). *)
PublishRefused(c) ==
    /\ "refused" \in Faults
    /\ At(c, "publish")
    /\ CanCall(c)
    /\ Requeue(HeldBy(c))
    /\ Become(c, Broken(Lose(req[c]), FALSE))
    /\ UNCHANGED <<copies, wire, lockVars>>

(* The target stores the copy, but the connection is lost before the confirm. *)
PublishLost(c) ==
    /\ "connection" \in Faults
    /\ At(c, "publish")
    /\ CanCall(c)
    /\ Store(c)
    /\ Become(c, Broken(Lose(req[c]), FALSE))
    /\ UNCHANGED <<queueVars, wire, lockVars>>

PublishRaises(c) ==
    /\ At(c, "publish")
    /\ req[c].chan = "dead"
    /\ Continue(c, Broken(req[c], FALSE))

(* ack, or nack(requeue=True) for a copy: written, not answered. *)
Settle(c) ==
    /\ At(c, "settle")
    /\ req[c].chan = "open"
    /\ Write(c, IF req[c].job.action \in Removing THEN "ack" ELSE "nack", req[c].current)
    /\ LET settled == Record(Process(req[c], req[c].current), Fp[req[c].current], "success")
       IN Become(c, IF IsBulk(c) THEN Goto(settled, "next") ELSE Finish(settled))

SettleRaises(c) ==
    /\ At(c, "settle")
    /\ req[c].chan = "dead"
    /\ Continue(c, Broken(req[c], Publishes(c)))

(* operate_bulk's except DeliveryError: this message goes back, the batch    *)
(* goes on.  The handler's own nack is outside the try.                      *)
Undeliver(c) ==
    /\ At(c, "undeliver")
    /\ req[c].chan = "open"
    /\ Write(c, "nack", req[c].current)
    /\ Become(c, Goto(Record(Process(req[c], req[c].current), Fp[req[c].current], "failed"),
                      "next"))

UndeliverRaises(c) ==
    /\ At(c, "undeliver")
    /\ req[c].chan = "dead"
    /\ Continue(c, Raise(req[c]))

-------------------------------------------------------------------------------
(* requeue and _requeue_unprocessed, then the end of the async with. *)

(* Mutant: what was only read is acked. *)
GiveBackAcked(c, m) ==
    /\ At(c, "giveback")
    /\ req[c].chan = "open"
    /\ FirstUnprocessed(c, m)
    /\ Write(c, "ack", m)
    /\ Become(c, Process(req[c], m))

GiveBack(c, m) ==
    /\ At(c, "giveback")
    /\ req[c].chan = "open"
    /\ FirstUnprocessed(c, m)
    /\ Write(c, "nack", m)
    /\ Become(c, Process(req[c], m))

(* The channel is gone: a batch keeps its report (_requeue_unprocessed       *)
(* returns), a single action or a scan raises (requeue does not catch it).   *)
GiveBackRaises(c) ==
    /\ At(c, "giveback")
    /\ req[c].chan = "dead"
    /\ ~(Read(c) \subseteq req[c].processed)
    /\ Continue(c, Goto(IF IsBulk(c) THEN req[c] ELSE Raise(req[c]), "close"))

(* Mutant: the coroutine ends without giving back and without its finally. *)
GiveBackForgotten(c) ==
    /\ At(c, "giveback")
    /\ Continue(c, Goto(req[c], "done"))

GiveBackEnds(c) ==
    /\ At(c, "giveback")
    /\ Read(c) \subseteq req[c].processed
    /\ Continue(c, Goto(req[c], "close"))

CloseChannel(c) ==
    /\ At(c, "close")
    /\ CanCall(c)
    /\ Requeue(HeldBy(c))
    /\ Become(c, [req[c] EXCEPT !.chan = "none", !.pc = "release"])
    /\ UNCHANGED <<copies, wire, lockVars>>

CloseDead(c) ==
    /\ At(c, "close")
    /\ req[c].chan = "dead"
    /\ Continue(c, Goto(req[c], "release"))

(* Mutant: the locks are not released when the operation raised. *)
ReleaseUnlessRaised(c) ==
    /\ At(c, "release")
    /\ IF req[c].outcome = "raised" THEN UNCHANGED lockVars
       ELSE /\ local' = [local EXCEPT ![ReplicaOf[c]] = None]
            /\ pg' = IF pg = c THEN None ELSE pg
    /\ Become(c, Goto(req[c], "done"))
    /\ UNCHANGED brokerVars

(* Committing the lock's transaction raises when its session is gone. *)
Release(c) ==
    /\ At(c, "release")
    /\ local' = [local EXCEPT ![ReplicaOf[c]] = None]
    /\ pg' = IF pg = c THEN None ELSE pg
    /\ Become(c, Goto(IF Shared /\ pg # c THEN Raise(req[c]) ELSE req[c], "done"))
    /\ UNCHANGED brokerVars

-------------------------------------------------------------------------------
(* The broker, the network and the processes. *)

(* The broker processes the next frame of c's channel. *)
BrokerSettle(c) ==
    /\ wire[c] # <<>>
    /\ IF Head(wire[c]).kind = "ack"
       THEN /\ place' = [place EXCEPT ![Head(wire[c]).msg] = "gone"]
            /\ UNCHANGED <<rank, owner>>
       ELSE Requeue({Head(wire[c]).msg})
    /\ wire' = [wire EXCEPT ![c] = Tail(@)]
    /\ UNCHANGED <<copies, lockVars, req>>

ConnectionLoss(c) ==
    /\ "connection" \in Faults
    /\ req[c].chan = "open"
    /\ Continue(c, Lose(req[c]))

(* The broker notices that c's channel is gone. *)
BrokerCleanup(c) ==
    /\ req[c].chan = "dead"
    /\ wire[c] # <<>> \/ HeldBy(c) # {}
    /\ Requeue(HeldBy(c))
    /\ wire' = [wire EXCEPT ![c] = <<>>]
    /\ UNCHANGED <<copies, lockVars, req>>

Active(c) == req[c].pc \notin {"idle", "done", "crashed"}

(* A replica dies, and its requests with it; it may be started again. *)
Crash(r) ==
    /\ "crash" \in Faults
    /\ \E c \in Clients : ReplicaOf[c] = r /\ Active(c)
    /\ req' = [c \in Clients |->
                 IF ReplicaOf[c] = r /\ Active(c)
                 THEN [req[c] EXCEPT !.pc = "crashed",
                                     !.chan = IF @ = "open" THEN "dead" ELSE @]
                 ELSE req[c]]
    /\ local' = [local EXCEPT ![r] = None]
    /\ UNCHANGED <<brokerVars, pg>>

(* PostgreSQL notices that the process which held the lock is gone. *)
PgCleanup(c) ==
    /\ At(c, "crashed")
    /\ pg = c
    /\ pg' = None
    /\ UNCHANGED <<brokerVars, local, req>>

-------------------------------------------------------------------------------
Lock(c) == AcquireLocal(c) \/ AcquireShared(c)
Open(c) == OpenChannel(c) \/ OpenFails(c)
Fetch(c) ==
    \/ \E m \in Msgs : \/ FetchMore(c, m) \/ FetchStops(c, m)
                       \/ FetchTooDeep(c, m) \/ FetchLost(c, m)
    \/ FetchEnds(c) \/ CallRaises(c)
Match(c) ==
    \/ MatchScan(c) \/ MatchBulk(c)
    \/ \E f \in Fps : MatchFails(c, f) \/ \E m \in Msgs : MatchSingle(c, f, m)
PrepareTarget(c) == EnsureTarget(c) \/ TargetInvalid(c) \/ TargetMissing(c)
Take(c) ==
    \/ BatchEnds(c)
    \/ \E f \in Fps : \/ NextAbsent(c, f) \/ NextDuplicated(c, f)
                      \/ \E m \in Msgs : NextMessage(c, f, m)
Publish(c) ==
    \/ PublishConfirmed(c) \/ PublishUnroutable(c) \/ PublishRefused(c)
    \/ PublishLost(c) \/ PublishRaises(c)
SettleOne(c) == Settle(c) \/ SettleRaises(c) \/ Undeliver(c) \/ UndeliverRaises(c)
Return(c) ==
    \/ \E m \in Msgs : GiveBack(c, m)
    \/ GiveBackRaises(c) \/ GiveBackEnds(c) \/ CloseChannel(c) \/ CloseDead(c) \/ Release(c)

(* One step of the request's coroutine. *)
Step(c) ==
    \/ Lock(c) \/ Open(c) \/ Fetch(c) \/ Match(c) \/ PrepareTarget(c) \/ Take(c)
    \/ Publish(c) \/ SettleOne(c) \/ Return(c)

Broker(c) == BrokerSettle(c) \/ BrokerCleanup(c)

Terminated ==
    /\ \A m \in Msgs : place[m] \in {"ready", "gone"}
    /\ \A c \in Clients : req[c].pc \in {"done", "crashed"} /\ wire[c] = <<>> /\ pg # c
    /\ UNCHANGED vars

Next ==
    \/ \E m \in Msgs : Arrive(m)
    \/ \E c \in Clients :
        \/ \E j \in Jobs : Start(c, j)
        \/ Step(c) \/ Broker(c) \/ PgCleanup(c)
        \/ AcquireFails(c) \/ LoseSharedLock(c) \/ ConnectionLoss(c)
    \/ \E r \in Replicas : Crash(r)
    \/ Terminated

Spec == Init /\ [][Next]_vars

(* The event loop runs every coroutine that can go on, and the broker and     *)
(* PostgreSQL do their part; requests, messages and failures may never come.  *)
Fairness == \A c \in Clients : WF_vars(Step(c)) /\ WF_vars(Broker(c)) /\ WF_vars(PgCleanup(c))

FairSpec == Spec /\ Fairness

-------------------------------------------------------------------------------
(* Properties. *)

(* A removal of m by c is justified: c was approved to take m out, and, if it  *)
(* replays or parks rather than deletes, its target has stored the copy.       *)
Justified(c, m) ==
    /\ Fp[m] \in req[c].job.fps
    /\ req[c].job.action \in Removing
    /\ Publishes(c) => copies[c][m] > 0

(* Publish before ack: whatever fails and whenever, a message leaves the queue *)
(* only by the ack of a request approved to remove it, after its copy is safe. *)
NoLoss ==
    \A m \in Msgs : place[m] = "gone" => owner[m] \in Clients /\ Justified(owner[m], m)

(* The custody of a message, as MessageCustody tells it. *)
Purpose(c) == CASE req[c].job.action = "none" -> "nothing"
                [] req[c].job.action = "copy" -> "copy"
                [] req[c].job.action = "delete" -> "destroy"
                [] OTHER -> "replace"
Where == [m \in Msgs |-> IF place[m] \in {"ready", "unacked"} THEN "queued" ELSE place[m]]
Asked == [c \in Clients |-> {m \in Msgs : Fp[m] \in req[c].job.fps}]
Purposes == [c \in Clients |-> Purpose(c)]
Custody == INSTANCE MessageCustody WITH
    where <- Where, asked <- Asked, purpose <- Purposes, stored <- copies

(* The requests, the broker and all failures together implement the promise    *)
(* of MessageCustody; no request copies a message twice.                       *)
CustodySpec == Custody!Spec

(* c's ack for m was processed, or may still be. *)
Acked(c, m) ==
    \/ place[m] = "gone" /\ owner[m] = c
    \/ \E i \in DOMAIN wire[c] : wire[c][i] = [kind |-> "ack", msg |-> m]

(* What a report says of a fingerprint is so: a success of a publishing action *)
(* has its copy at the target; a failure has not removed the message; and a    *)
(* fingerprint that was not acted on was neither copied nor removed.           *)
ReportIsTrue ==
    \A c \in Clients, m \in Msgs :
        LET status == req[c].results[Fp[m]]
        IN /\ status = "success" /\ Publishes(c) =>
                  \E x \in Msgs : Fp[x] = Fp[m] /\ copies[c][x] = 1
           /\ status \notin {"none", "success"} => ~Acked(c, m)
           /\ status \in {"not_found", "skipped_duplicate", "not_attempted"} =>
                  copies[c][m] = 0

(* Previews and actions on one queue never interleave: at any time the unacked *)
(* messages of the queue are all held by one request.                          *)
OneReader ==
    \A x, y \in Msgs : place[x] = "unacked" /\ place[y] = "unacked" => owner[x] = owner[y]

(* Ambiguity blocks mutation: of two messages that share a fingerprint from    *)
(* the start, neither is ever copied or removed.                               *)
DuplicatesUntouched ==
    \A x, y \in Backlog :
        x # y /\ Fp[x] = Fp[y] => place[x] # "gone" /\ \A c \in Clients : copies[c][x] = 0

(* A batch that reports not_found for a fingerprint is right: a message that   *)
(* had it from the start has been removed by another request.                  *)
NotFoundIsTrue ==
    \A c \in Clients, m \in Backlog :
        req[c].results[Fp[m]] = "not_found" => place[m] = "gone"

(* A single action that raises has changed nothing: no copy, nothing removed.  *)
RefusalChangesNothing ==
    \A c \in Clients, m \in Msgs :
        req[c].job.kind = "single" /\ req[c].outcome = "raised" =>
            copies[c][m] = 0 /\ ~Acked(c, m)

(* A quorum queue is left in the order it had, once everything is given back.  *)
QuorumOrderKept ==
    (\A m \in Msgs : place[m] # "unacked") =>
        \A x, y \in Backlog :
            x < y /\ place[x] = "ready" /\ place[y] = "ready" => rank[x] < rank[y]

(* A batch that raises has moved nothing: the messages that did move are       *)
(* reported one by one.                                                        *)
BatchReportsWhatMoved ==
    \A c \in Clients :
        IsBulk(c) /\ req[c].outcome = "raised" => \A m \in Msgs : ~Acked(c, m)

(* Every request that came in ends, unless its replica dies. *)
EveryRequestEnds ==
    \A c \in Clients : At(c, "lock") ~> (At(c, "done") \/ At(c, "crashed"))

(* No message stays unacked: it is removed or returned to the queue, even when *)
(* the request that read it, or its replica, is gone.                          *)
NothingStaysUnacked == \A m \in Msgs : place[m] = "unacked" ~> place[m] # "unacked"

-------------------------------------------------------------------------------
(* The inductive invariant behind NoLoss. *)

OnWire(c, m) == \E i \in DOMAIN wire[c] : wire[c][i].msg = m
Holds(c, m) == place[m] = "unacked" /\ owner[m] = c

(* A frame on c's wire settles a message its channel still holds, once, and an *)
(* ack that the broker may yet process is justified.                           *)
WireSafe(c) ==
    \A i \in DOMAIN wire[c] :
        /\ Holds(c, wire[c][i].msg)
        /\ wire[c][i].kind = "ack" => Justified(c, wire[c][i].msg)
        /\ \A k \in DOMAIN wire[c] : k # i => wire[c][k].msg # wire[c][i].msg

(* On an open channel, what was read and not yet settled is held, unsettled.   *)
UnsettledHeld(c) ==
    req[c].chan = "open" =>
        \A m \in Read(c) \ req[c].processed : Holds(c, m) /\ ~OnWire(c, m)

BeforeOpen == {"idle", "lock", "shared", "open"}
BeforeLoop == BeforeOpen \cup {"fetch", "match", "target"}
InLoop == {"next", "publish", "settle", "undeliver"}
HasCurrent(c) == req[c].pc \in InLoop \ {"next"} \/ (At(c, "target") /\ ~IsBulk(c))

(* Where the coroutine is, and what it has done by then. *)
Progress(c) ==
    /\ At(c, "idle") => req[c].job = NoJob
    /\ req[c].todo \subseteq req[c].job.fps
    /\ req[c].pc \in BeforeOpen => req[c].scanned = <<>>
    /\ req[c].pc \in BeforeLoop => req[c].processed = {}
    /\ At(c, "next") \/ At(c, "undeliver") => IsBulk(c)
    /\ req[c].pc \in InLoop /\ IsBulk(c) =>
           \A m \in req[c].processed : Fp[m] \notin req[c].todo
    /\ HasCurrent(c) =>
           /\ req[c].current \in Read(c) \ req[c].processed
           /\ Fp[req[c].current] \in req[c].job.fps
           /\ IsBulk(c) => Fp[req[c].current] \notin req[c].todo
    /\ At(c, "settle") /\ Publishes(c) => copies[c][req[c].current] > 0

ClientInv(c) == WireSafe(c) /\ UnsettledHeld(c) /\ Progress(c)
IInv == TypeOK /\ NoLoss /\ \A c \in Clients : ClientInv(c)
===============================================================================
