-------------------------- MODULE MessageReadersProofs --------------------------
(***************************************************************************)
(* What MessageOperator promises while connections and database sessions   *)
(* hold: a single action that raises changed nothing; and, while replicas  *)
(* live too, requests on one queue never interleave, ambiguous messages    *)
(* are left alone, a not_found is right, and a quorum queue keeps its      *)
(* order.  For any queue, requests and replicas, and with targets that are *)
(* missing, refuse or do not route.                                        *)
(*                                                                         *)
(* Four invariants add to CustodyInv.  RefusalInv follows the channel and  *)
(* the outcome of a request.  ReaderInv says that the locks are held from  *)
(* before the channel is open until it is closed, so that an open channel, *)
(* which alone holds messages, is the only one.  WholeInv adds what the    *)
(* reader of a quorum queue knows: it read to the end, so what it did not  *)
(* find is gone, and what it found once has no double.                     *)
(* OrderInv orders what it gave back, what is on its way to the broker,    *)
(* what it still holds and what it has not read.                           *)
(***************************************************************************)
EXTENDS MessageCustodyProofs

(* Neither a connection, nor a replica, nor a database session is lost. *)
Calm == Faults \cap {"connection", "crash", "database"} = {}

(* No connection is lost, and no database session: a replica may die. *)
Connected == Faults \cap {"connection", "database"} = {}

(* The database is shared, or there is one replica: who holds the locks of its *)
(* replica and, if there is one, of the database, is alone.                    *)
OneLock == Shared \/ \A c, d \in Clients : ReplicaOf[c] = ReplicaOf[d]

Afterwards == {"giveback", "close", "release", "done", "crashed"}
Locked == {"open", "fetch", "match", "target", "giveback", "close", "release"} \cup InLoop
IsSingle(c) == req[c].job.kind = "single"

(* The advisory lock is held to the end. *)
KeepsPg(c) == Shared /\ req[c].pc \in Locked => pg = c

(* A single action that raised changed nothing, and none lost its channel on the way. *)
Refused(c) ==
    /\ req[c].chan = "dead" =>
          /\ req[c].pc \in Afterwards
          /\ IsSingle(c) /\ ~At(c, "crashed") => req[c].outcome = "raised"
    /\ req[c].outcome = "raised" => req[c].pc \in Afterwards
    /\ IsSingle(c) /\ (req[c].outcome = "raised" \/ req[c].pc \in InLoop) =>
          \A m \in Msgs : ~Acked(c, m)
    /\ IsSingle(c) /\ req[c].outcome = "raised" => \A m \in Msgs : copies[c][m] = 0

RefusalInv == CustodyInv /\ \A c \in Clients : KeepsPg(c) /\ Refused(c)

(* The locks are held from before the channel is open until it is closed. *)
Exclusive(c) ==
    /\ req[c].pc \in Locked \cup {"shared"} => local[ReplicaOf[c]] = c
    /\ KeepsPg(c)
    /\ ~At(c, "crashed")
    /\ req[c].chan = "open" => req[c].pc \in Locked \ {"open", "release"}

(* What is unacked is held by an open channel, which did read it. *)
HeldByReader(m) ==
    place[m] = "unacked" => owner[m] \in Clients /\ req[owner[m]].chan = "open"

ReaderInv ==
    /\ CustodyInv
    /\ \A c \in Clients : Exclusive(c)
    /\ \A m \in Msgs : HeldByReader(m)

(* A queue that was read whole. *)
Duplicated(x) == x \in Backlog /\ \E y \in Backlog : y # x /\ Fp[y] = Fp[x]
ReadWhole(c) ==
    /\ req[c].pc \in {"match", "target"} \cup InLoop =>
          \A m \in Backlog : place[m] = "gone" \/ m \in Read(c)
    /\ HasCurrent(c) => Matches(c, Fp[req[c].current]) = {req[c].current}
    /\ \A m \in Msgs : Holds(c, m) => m \in Read(c)
    /\ \A m \in Backlog : req[c].results[Fp[m]] = "not_found" => place[m] = "gone"
    /\ \A x \in Msgs : Duplicated(x) => copies[c][x] = 0 /\ ~Acked(c, x)

WholeInv ==
    /\ ReaderInv
    /\ \A c \in Clients : ReadWhole(c)
    /\ \A m \in Backlog : place[m] # "absent"

-------------------------------------------------------------------------------
(* A single action that raises. *)

(* What a step of a request may do to its state. *)
Allowed(c, r) ==
    /\ r.job = req[c].job \/ At(c, "idle")
    /\ r.chan = "dead" => r.pc \in Afterwards /\ (r.job.kind = "single" /\ r.pc # "crashed" => r.outcome = "raised")
    /\ r.outcome = "raised" =>
          /\ r.pc \in Afterwards
          /\ \/ req[c].outcome = "raised" \/ req[c].pc \in BeforeLoop \cup {"publish"}
             \/ r.job.kind # "single"
    /\ r.pc \in InLoop => req[c].pc \in BeforeLoop \cup InLoop

(* Before the publish nothing is copied and nothing is acked. *)
LEMMA CleanBefore ==
    ASSUME RefusalInv, NEW c \in Clients, IsSingle(c), req[c].pc \in BeforeLoop \cup {"publish"}
    PROVE  \A m \in Msgs : copies[c][m] = 0 /\ ~Acked(c, m)
<1>1. Told(c) /\ Refused(c)
  BY DEF RefusalInv, CustodyInv
<1>2. \A m \in Msgs : copies[c][m] = 0
  BY <1>1 DEF Told, Copied, At, IsBulk, IsSingle
<1>3. CASE req[c].pc \in BeforeLoop
  <2>1. \A m \in Msgs : req[c].results[Fp[m]] = "none"
    BY <1>1, <1>3, FpAssumption DEF Told, Recorded
  <2> QED
    BY <1>1, <1>2, <2>1 DEF Told
<1>4. CASE req[c].pc = "publish"
  BY <1>1, <1>2, <1>4 DEF Refused, InLoop
<1> QED
  BY <1>3, <1>4

LEMMA RefusedStep ==
    ASSUME RefusalInv, CustodyInv', NEW c \in Clients, NEW r, Become(c, r), Allowed(c, r),
           copies' = copies, \A x \in Clients : NoNewAck(x),
           \A x \in Clients : x # c /\ pg = x => pg' = x,
           Shared /\ r.pc \in Locked => pg' = c
    PROVE  RefusalInv'
<1> USE DEF RefusalInv
<1>1. req'[c] = r /\ \A x \in Clients : x # c => req'[x] = req[x]
  BY BecomeOnly DEF CustodyInv
<1>2. \A x \in Clients : x # c => KeepsPg(x)'
  BY <1>1 DEF KeepsPg
<1>3. \A x \in Clients : x # c => Refused(x)'
  BY <1>1 DEF Refused, IsSingle, At, NoNewAck
<1>4. KeepsPg(c)'
  BY <1>1 DEF KeepsPg
<1>5. At(c, "idle") => req[c].pc \in BeforeLoop /\ ~IsSingle(c)
  BY DEF At, BeforeLoop, BeforeOpen, CustodyInv, IInv, ClientInv, Progress, IsSingle, NoJob
<1>6. req[c].pc \in BeforeLoop => \A m \in Msgs : copies[c][m] = 0 /\ ~Acked(c, m)
  <2>1. Told(c)
    BY DEF CustodyInv
  <2>2. req[c].pc \in BeforeLoop => \A m \in Msgs : req[c].results[Fp[m]] = "none"
    BY <2>1, FpAssumption DEF Told, Recorded
  <2> QED
    BY <2>1, <2>2 DEF Told, Copied
<1>7. ASSUME IsSingle(c)', req'[c].outcome = "raised"
      PROVE  \A m \in Msgs : copies[c][m] = 0 /\ ~Acked(c, m)
  <2>1. \/ req[c].pc \in BeforeLoop
        \/ req[c].job = r.job /\ req[c].outcome = "raised"
        \/ req[c].job = r.job /\ req[c].pc = "publish"
    BY <1>1, <1>5, <1>7 DEF Allowed, IsSingle
  <2>2. CASE req[c].job = r.job /\ req[c].outcome = "raised"
    BY <1>1, <1>7, <2>2 DEF Refused, IsSingle
  <2>3. CASE req[c].job = r.job /\ req[c].pc = "publish"
    BY <1>1, <1>7, <2>3, CleanBefore DEF IsSingle
  <2> QED
    BY <1>6, <2>1, <2>2, <2>3
<1>8. ASSUME IsSingle(c)', req'[c].pc \in InLoop
      PROVE  \A m \in Msgs : ~Acked(c, m)
  BY <1>1, <1>5, <1>6, <1>8 DEF Allowed, Refused, IsSingle, At
<1>9. Refused(c)'
  BY <1>1, <1>7, <1>8 DEF Allowed, Refused, IsSingle, At, NoNewAck
<1> QED
  BY <1>2, <1>3, <1>4, <1>9

(* The same, when the locks stay as they are. *)
LEMMA RefusedInPlace ==
    ASSUME RefusalInv, CustodyInv', NEW c \in Clients, NEW r, Become(c, r), Allowed(c, r),
           UNCHANGED <<copies, pg>>,
           \/ UNCHANGED <<place, owner, wire>>
           \/ Requeue(HeldBy(c)) /\ wire' = wire
           \/ \E m \in Msgs : Deliver(c, m) /\ wire' = wire,
           r.pc \in Locked => req[c].pc \in Locked
    PROVE  RefusalInv'
<1>1. \A x \in Clients : NoNewAck(x)
  BY QueueStepsAckNothing DEF RefusalInv, CustodyInv
<1>2. Shared /\ r.pc \in Locked => pg' = c
  BY DEF RefusalInv, KeepsPg
<1> QED
  BY <1>1, <1>2, RefusedStep

(* The requests' own steps: those before the loop, *)
LEMMA RefusedEarly ==
    ASSUME Connected, RefusalInv, CustodyInv', NEW c \in Clients,
           Lock(c) \/ Open(c) \/ (\E j \in Jobs : Start(c, j))
    PROVE  RefusalInv'
<1>1. req[c] \in Requests /\ Refused(c) /\ KeepsPg(c)
  BY DEF RefusalInv, CustodyInv, IInv, TypeOK
<1> USE DEF Connected, Requests, Allowed, Afterwards, Locked, BeforeLoop, BeforeOpen, InLoop, At
<1>2. CASE AcquireLocal(c)
  <2>1. PICK r : r = Goto(req[c], IF Shared THEN "shared" ELSE "open")
    OBVIOUS
  <2>2. Allowed(c, r) /\ (Shared => r.pc = "shared")
    BY <1>1, <1>2, <2>1 DEF AcquireLocal, Goto, Refused, IsSingle
  <2>3. Become(c, r) /\ UNCHANGED <<brokerVars, pg>>
    BY <1>2, <2>1 DEF AcquireLocal
  <2>4. copies' = copies /\ \A x \in Clients : NoNewAck(x)
    BY <2>3, QueueStepsAckNothing DEF brokerVars, queueVars, RefusalInv, CustodyInv
  <2> QED
    BY <2>2, <2>3, <2>4, RefusedStep
<1>3. CASE AcquireShared(c)
  <2>1. PICK r : r = Goto(req[c], "open")
    OBVIOUS
  <2>2. Allowed(c, r)
    BY <1>1, <1>3, <2>1 DEF AcquireShared, Goto, Refused, IsSingle
  <2>3. Become(c, r) /\ UNCHANGED brokerVars /\ pg = None /\ pg' = c
    BY <1>3, <2>1 DEF AcquireShared
  <2>4. copies' = copies /\ \A x \in Clients : NoNewAck(x)
    BY <2>3, QueueStepsAckNothing DEF brokerVars, queueVars, RefusalInv, CustodyInv
  <2>5. \A x \in Clients : x # None
    BY NoneAssumption
  <2> QED
    BY <2>2, <2>3, <2>4, <2>5, RefusedStep
<1>4. CASE OpenChannel(c)
  <2>1. ASSUME NEW opened, opened = [req[c] EXCEPT !.chan = "open"],
               NEW r, r = Raise(opened) \/ r = Goto(opened, "fetch"), Continue(c, r), At(c, "open")
        PROVE  RefusalInv'
    <3>1. Allowed(c, r)
      BY <1>1, <2>1 DEF Raise, Goto, Refused, IsSingle
    <3> QED
      BY <2>1, <3>1, RefusedInPlace DEF Continue, brokerVars, queueVars, lockVars
  <2> QED
    BY <1>4, <2>1 DEF OpenChannel
<1>5. ASSUME NEW j \in Jobs, Start(c, j) PROVE RefusalInv'
  <2>1. PICK r : r = [req[c] EXCEPT !.job = j, !.todo = j.fps, !.pc = "lock"]
    OBVIOUS
  <2>2. Allowed(c, r) /\ r.pc = "lock"
    BY <1>1, <1>5, <2>1 DEF Start, Refused, IsSingle
  <2> QED
    BY <1>5, <2>1, <2>2, RefusedInPlace DEF Start, Continue, brokerVars, queueVars, lockVars
<1>6. ~OpenFails(c)
  BY DEF OpenFails
<1> QED
  BY <1>2, <1>3, <1>4, <1>5, <1>6 DEF Lock, Open

(* those that read the queue and choose, *)
LEMMA RefusedReading ==
    ASSUME Connected, RefusalInv, CustodyInv', NEW c \in Clients,
           Fetch(c) \/ Match(c) \/ PrepareTarget(c)
    PROVE  RefusalInv'
<1>1. req[c] \in Requests /\ Refused(c)
  BY DEF RefusalInv, CustodyInv, IInv, TypeOK
<1>2. ASSUME NEW r, Become(c, r), Allowed(c, r), req[c].pc \in Locked, UNCHANGED <<copies, pg>>,
             \/ UNCHANGED <<place, owner, wire>>
             \/ Requeue(HeldBy(c)) /\ wire' = wire
             \/ \E m \in Msgs : Deliver(c, m) /\ wire' = wire
      PROVE  RefusalInv'
  BY <1>2, RefusedInPlace
<1>3. ASSUME NEW r, r \in Requests, r.job = req[c].job, req[c].pc \in {"fetch", "match", "target"},
             r.chan = "dead" => r.pc = "giveback" /\ r.outcome = "raised",
             \/ r.pc = "giveback"
             \/ r.pc \in {"fetch", "match", "target"} \cup InLoop /\ r.outcome = req[c].outcome
      PROVE  Allowed(c, r) /\ req[c].pc \in Locked
  BY <1>1, <1>3 DEF Allowed, Refused, Afterwards, Locked, BeforeLoop, InLoop
<1>4. req[c].pc \in {"fetch", "match", "target"} => req[c].chan # "dead"
  BY <1>1 DEF Refused, Afterwards
<1> USE <1>1, <1>2, <1>3, <1>4 DEF Requests, Statuses, Locations, At, Continue, brokerVars, queueVars, lockVars
<1>5. ASSUME NEW m \in Msgs, NEW r, r = Taken(c, m)
      PROVE  /\ r \in Requests /\ r.job = req[c].job /\ r.chan = req[c].chan
             /\ r.pc = req[c].pc /\ r.outcome = req[c].outcome
  <2>1. Append(req[c].scanned, m) \in Seq(Msgs)
    OBVIOUS
  <2> QED
    BY <1>5, <2>1 DEF Taken
<1>6. ASSUME NEW m \in Msgs, FetchMore(c, m) \/ FetchStops(c, m) \/ FetchTooDeep(c, m)
      PROVE  RefusalInv'
  <2>1. PICK taken \in Requests : taken = Taken(c, m)
    BY <1>5
  <2>2. PICK r \in {taken, Goto(taken, "match"), Raise(taken)} : Become(c, r) /\ Get(c, m)
    BY <1>6, <2>1 DEF FetchMore, FetchStops, FetchTooDeep
  <2>3. /\ r \in Requests /\ r.job = req[c].job /\ r.chan = req[c].chan
        /\ \/ r.pc = "giveback"
           \/ r.pc \in {"fetch", "match"} /\ r.outcome = req[c].outcome
    <3>1. /\ taken \in Requests /\ taken.job = req[c].job /\ taken.chan = req[c].chan
          /\ taken.pc = "fetch" /\ taken.outcome = req[c].outcome
      BY <1>5, <2>1, <2>2 DEF Get
    <3>2. CASE r = taken
      BY <3>1, <3>2
    <3>3. CASE r = Goto(taken, "match")
      BY <3>1, <3>3 DEF Goto
    <3>4. CASE r = Raise(taken)
      BY <3>1, <3>4 DEF Raise
    <3> QED
      BY <2>2, <3>2, <3>3, <3>4
  <2>4. At(c, "fetch") /\ Deliver(c, m) /\ UNCHANGED <<copies, pg>> /\ wire' = wire
    BY <2>2 DEF Get
  <2>5. Allowed(c, r) /\ req[c].pc \in Locked
    BY <2>3, <2>4
  <2> QED
    BY <2>2, <2>4, <2>5
<1>7. CASE FetchEnds(c)
  BY <1>7 DEF FetchEnds, Goto
<1>8. CASE CallRaises(c)
  BY <1>8 DEF CallRaises, Raise
<1>9. CASE MatchScan(c)
  BY <1>9 DEF MatchScan, Finish
<1>10. CASE MatchBulk(c)
  BY <1>10 DEF MatchBulk, Goto, InLoop
<1>11. ASSUME NEW f \in Fps, MatchFails(c, f) PROVE RefusalInv'
  BY <1>11 DEF MatchFails, Raise
<1>12. ASSUME NEW f \in Fps, NEW m \in Msgs, MatchSingle(c, f, m) PROVE RefusalInv'
  BY <1>12 DEF MatchSingle, InLoop
<1>13. CASE EnsureTarget(c)
  BY <1>13 DEF EnsureTarget, Goto, InLoop
<1>14. CASE TargetInvalid(c)
  BY <1>14 DEF TargetInvalid, Raise
<1>15. CASE TargetMissing(c)
  BY <1>15 DEF TargetMissing, Raise, Lose
<1>16. \A m \in Msgs : ~FetchLost(c, m)
  BY DEF FetchLost, Connected
<1> QED
  BY <1>6, <1>7, <1>8, <1>9, <1>10, <1>11, <1>12, <1>13, <1>14, <1>15, <1>16
     DEF Fetch, Match, PrepareTarget

(* the loop of a batch, *)
LEMMA RefusedTaking ==
    ASSUME Connected, RefusalInv, CustodyInv', NEW c \in Clients,
           Take(c) \/ UndeliverRaises(c) \/ SettleRaises(c) \/ PublishRaises(c)
    PROVE  RefusalInv'
<1>1. req[c] \in Requests /\ Refused(c)
  BY DEF RefusalInv, CustodyInv, IInv, TypeOK
<1>2. req[c].pc \in InLoop => req[c].chan # "dead" /\ req[c].outcome # "raised" /\ req[c].pc \in Locked
  BY <1>1 DEF Refused, Afterwards, InLoop, Locked
<1>3. ~UndeliverRaises(c) /\ ~SettleRaises(c) /\ ~PublishRaises(c)
  BY <1>2 DEF UndeliverRaises, SettleRaises, PublishRaises, At, InLoop
<1>4. ASSUME NEW r, Continue(c, r), At(c, "next"), r.job = req[c].job, r.chan = req[c].chan,
             r.outcome # "raised"
      PROVE  RefusalInv'
  <2>1. Allowed(c, r) /\ req[c].pc \in Locked
    BY <1>2, <1>4 DEF Allowed, At, InLoop
  <2> QED
    BY <1>4, <2>1, RefusedInPlace DEF Continue, brokerVars, queueVars, lockVars
<1> USE <1>1, <1>2, <1>4 DEF Requests, Statuses, At, InLoop
<1>5. ASSUME NEW f \in Fps, NEW status \in {"not_found", "skipped_duplicate"}, Skip(c, f, status), At(c, "next")
      PROVE  RefusalInv'
  <2>1. PICK r : r = Record([req[c] EXCEPT !.todo = @ \ {f}], f, status)
    OBVIOUS
  <2>2. r.job = req[c].job /\ r.chan = req[c].chan /\ r.outcome = req[c].outcome
    BY <2>1 DEF Record
  <2> QED
    BY <1>5, <2>1, <2>2 DEF Skip
<1>6. ASSUME NEW f \in Fps, NEW m \in Msgs, NextMessage(c, f, m) PROVE RefusalInv'
  <2>1. PICK r : r = [req[c] EXCEPT !.todo = @ \ {f}, !.current = m,
                                    !.pc = IF Publishes(c) THEN "publish" ELSE "settle"]
    OBVIOUS
  <2>2. r.job = req[c].job /\ r.chan = req[c].chan /\ r.outcome = req[c].outcome
    BY <2>1
  <2> QED
    BY <1>6, <2>1, <2>2 DEF NextMessage
<1>7. CASE BatchEnds(c)
  BY <1>7 DEF BatchEnds, Finish
<1> QED
  BY <1>3, <1>5, <1>6, <1>7 DEF Take, NextAbsent, NextDuplicated

(* the publish and the settle, *)
LEMMA RefusedAlone ==
    ASSUME RefusalInv, CustodyInv', NEW c \in Clients, Refused(c)', pg' = pg,
           req'[c].pc \in Locked => req[c].pc \in Locked,
           \A x \in Clients : x # c => req'[x] = req[x] /\ copies'[x] = copies[x] /\ NoNewAck(x)
    PROVE  RefusalInv'
<1> USE DEF RefusalInv
<1>1. \A x \in Clients : KeepsPg(x)'
  BY DEF KeepsPg
<1>2. \A x \in Clients : x # c => Refused(x)'
  BY DEF Refused, IsSingle, At, NoNewAck
<1> QED
  BY <1>1, <1>2

(* A broken turn: a batch returns, a single action raises. *)
LEMMA BrokenOutcome ==
    ASSUME NEW r, r \in Requests, NEW published \in BOOLEAN
    PROVE  LET b == Broken(r, published)
           IN  /\ b.job = r.job /\ b.pc = "giveback" /\ b.chan = r.chan
               /\ b.outcome = IF r.job.kind = "bulk" THEN "returned" ELSE "raised"
<1>1. CASE r.job.kind # "bulk"
  BY <1>1 DEF Broken, Raise, Requests
<1>2. CASE r.job.kind = "bulk"
  <2>1. PICK results : results = [f \in Fps |->
            IF f = Fp[r.current]
            THEN IF published /\ r.job.action = "copy" THEN "success" ELSE "failed"
            ELSE IF f \in r.todo THEN "not_attempted" ELSE r.results[f]]
    OBVIOUS
  <2>2. Halt(r, published) = [r EXCEPT !.results = results]
    BY <2>1 DEF Halt
  <2> QED
    BY <1>2, <2>2 DEF Broken, Finish, Requests
<1> QED
  BY <1>1, <1>2

LEMMA RefusedPublish ==
    ASSUME Connected, RefusalInv, CustodyInv', NEW c \in Clients, Publish(c)
    PROVE  RefusalInv'
<1> USE DEF RefusalInv
<1>1. req[c] \in Requests /\ Refused(c)
  BY DEF CustodyInv, IInv, TypeOK
<1>2. At(c, "publish")
  BY DEF Publish, PublishConfirmed, PublishUnroutable, PublishRefused, PublishLost, PublishRaises
<1>3. req[c].pc \in InLoop /\ req[c].pc \in Locked /\ req[c].chan # "dead" /\ req[c].outcome # "raised"
  BY <1>1, <1>2 DEF Refused, Afterwards, InLoop, Locked, At
<1>4. CASE PublishConfirmed(c)
  <2>1. Store(c) /\ UNCHANGED <<place, owner, wire>> /\ pg' = pg
    BY <1>4 DEF PublishConfirmed, queueVars, lockVars
  <2>2. \A x \in Clients : NoNewAck(x)
    BY <2>1, QueueStepsAckNothing DEF CustodyInv
  <2>3. req'[c] = Goto(req[c], "settle") /\ \A x \in Clients : x # c => req'[x] = req[x]
    BY <1>4, BecomeOnly DEF CustodyInv, PublishConfirmed
  <2>4. /\ req'[c].job = req[c].job /\ req'[c].chan = req[c].chan
        /\ req'[c].outcome = req[c].outcome /\ req'[c].pc = "settle"
    BY <1>1, <2>3 DEF Goto, Requests
  <2>5. Refused(c)'
    BY <1>1, <1>3, <2>2, <2>4 DEF Refused, IsSingle, NoNewAck
  <2>6. \A x \in Clients : x # c => copies'[x] = copies[x]
    BY <1>2, <2>1, StoreIs
  <2> QED
    BY <1>3, <2>1, <2>2, <2>3, <2>5, <2>6, RefusedAlone
<1>5. CASE PublishUnroutable(c)
  <2>1. PICK r : r = IF IsBulk(c) THEN Goto(req[c], "undeliver") ELSE Raise(req[c])
    OBVIOUS
  <2>2. Allowed(c, r)
    BY <1>1, <1>2, <1>3, <2>1
       DEF Goto, Raise, Requests, Allowed, Afterwards, BeforeLoop, InLoop, IsBulk, At
  <2>3. Continue(c, r)
    BY <1>5, <2>1 DEF PublishUnroutable
  <2> QED
    BY <1>3, <2>2, <2>3, RefusedInPlace DEF Continue, brokerVars, queueVars, lockVars
<1>6. CASE PublishRefused(c)
  <2>1. PICK lost : lost = Lose(req[c])
    OBVIOUS
  <2>2. lost \in Requests /\ lost.job = req[c].job /\ lost.chan = "dead"
    BY <1>1, <2>1 DEF Lose, Requests
  <2>3. PICK r : r = Broken(lost, FALSE)
    OBVIOUS
  <2>4. /\ r.job = req[c].job /\ r.pc = "giveback"
        /\ r.outcome = IF IsBulk(c) THEN "returned" ELSE "raised"
    BY <2>2, <2>3, BrokenOutcome DEF IsBulk
  <2>5. Allowed(c, r)
    BY <1>2, <2>4 DEF Allowed, Afterwards, InLoop, IsBulk, At
  <2>6. Become(c, r) /\ Requeue(HeldBy(c)) /\ wire' = wire /\ UNCHANGED <<copies, pg>>
    BY <1>6, <2>1, <2>3 DEF PublishRefused, lockVars
  <2> QED
    BY <1>3, <2>5, <2>6, RefusedInPlace
<1>7. CASE PublishRaises(c)
  BY <1>7, RefusedTaking
<1>8. ~PublishLost(c)
  BY DEF PublishLost, Connected
<1> QED
  BY <1>4, <1>5, <1>6, <1>7, <1>8 DEF Publish

LEMMA RefusedSettle ==
    ASSUME Connected, RefusalInv, CustodyInv', NEW c \in Clients, Settle(c) \/ Undeliver(c)
    PROVE  RefusalInv'
<1> USE DEF RefusalInv
<1>1. req[c].pc \in InLoop /\ req[c].pc \in Locked
  BY DEF Settle, Undeliver, At, InLoop, Locked
<1>2. /\ req[c] \in Requests /\ Refused(c) /\ Progress(c) /\ req[c].current \in Msgs
      /\ req[c].outcome # "raised" /\ req[c].chan # "dead"
  <2>1. HasCurrent(c)
    BY DEF HasCurrent, Settle, Undeliver, At, InLoop
  <2> QED
    BY <1>1, <2>1, InTheLoop DEF Refused, Afterwards, InLoop
<1>3. PICK kind \in {"ack", "nack"} : Write(c, kind, req[c].current)
  BY DEF Settle, Undeliver
<1>4. \A x \in Clients : x # c => NoNewAck(x)
  BY <1>2, <1>3, WriteAcks DEF CustodyInv
<1>5. ASSUME NEW r, Become(c, r), r.job = req[c].job, r.chan = req[c].chan, r.outcome # "raised",
             r.pc \notin InLoop \/ ~IsSingle(c)
      PROVE  RefusalInv'
  <2>1. req'[c] = r /\ \A x \in Clients : x # c => req'[x] = req[x]
    BY <1>5, BecomeOnly DEF CustodyInv
  <2>2. Refused(c)'
    BY <1>2, <1>5, <2>1 DEF Refused, IsSingle
  <2> QED
    BY <1>1, <1>3, <1>4, <2>1, <2>2, RefusedAlone DEF Write, lockVars
<1>6. PICK f \in Fps : f = Fp[req[c].current]
  BY <1>2, FpAssumption
<1>7. ASSUME NEW status \in Statuses, NEW settled, settled = Record(Process(req[c], req[c].current), f, status)
      PROVE  /\ settled \in Requests /\ settled.job = req[c].job
             /\ settled.chan = req[c].chan /\ settled.outcome = req[c].outcome
  BY <1>2, <1>7 DEF Record, Process, Requests
<1>8. CASE Settle(c)
  <2>1. PICK settled : settled = Record(Process(req[c], req[c].current), f, "success")
    OBVIOUS
  <2>2. /\ settled \in Requests /\ settled.job = req[c].job
        /\ settled.chan = req[c].chan /\ settled.outcome = req[c].outcome
    BY <1>7, <2>1 DEF Statuses
  <2>3. PICK r : r = IF IsBulk(c) THEN Goto(settled, "next") ELSE Finish(settled)
    OBVIOUS
  <2>4. Become(c, r)
    BY <1>6, <1>8, <2>1, <2>3 DEF Settle
  <2>5. /\ r.job = req[c].job /\ r.chan = req[c].chan /\ r.outcome # "raised"
        /\ r.pc \notin InLoop \/ ~IsSingle(c)
    BY <1>2, <2>2, <2>3 DEF Goto, Finish, Requests, IsBulk, IsSingle, InLoop
  <2> QED
    BY <1>5, <2>4, <2>5
<1>9. CASE Undeliver(c)
  <2>1. PICK settled : settled = Record(Process(req[c], req[c].current), f, "failed")
    OBVIOUS
  <2>2. /\ settled \in Requests /\ settled.job = req[c].job
        /\ settled.chan = req[c].chan /\ settled.outcome = req[c].outcome
    BY <1>7, <2>1 DEF Statuses
  <2>3. PICK r : r = Goto(settled, "next")
    OBVIOUS
  <2>4. Become(c, r)
    BY <1>6, <1>9, <2>1, <2>3 DEF Undeliver
  <2>5. r.job = req[c].job /\ r.chan = req[c].chan /\ r.outcome # "raised" /\ ~IsSingle(c)
    BY <1>2, <1>9, <2>2, <2>3 DEF Goto, Requests, Undeliver, Progress, IsBulk, IsSingle
  <2> QED
    BY <1>5, <2>4, <2>5
<1> QED
  BY <1>8, <1>9

(* and the return. *)
LEMMA RefusedReturn ==
    ASSUME RefusalInv, CustodyInv', NEW c \in Clients, Return(c)
    PROVE  RefusalInv'
<1> USE DEF RefusalInv
<1>1. req[c] \in Requests /\ Refused(c) /\ KeepsPg(c)
  BY DEF CustodyInv, IInv, TypeOK
<1>2. ASSUME NEW r, Become(c, r), UNCHANGED <<copies, pg>>, req[c].pc \in {"giveback", "close"},
             r.job = req[c].job, r.pc \in Afterwards \ {"crashed"},
             r.outcome = "raised" => req[c].outcome = "raised" \/ r.job.kind # "single",
             req[c].outcome = "raised" /\ IsSingle(c) => r.outcome = "raised",
             r.chan = "dead" => req[c].chan = "dead",
             \/ UNCHANGED <<place, owner, wire>>
             \/ Requeue(HeldBy(c)) /\ wire' = wire
      PROVE  RefusalInv'
  <2>1. Allowed(c, r) /\ req[c].pc \in Locked
    BY <1>1, <1>2 DEF Allowed, Refused, Afterwards, Locked, InLoop, IsSingle, At
  <2> QED
    BY <1>2, <2>1, RefusedInPlace
<1>3. ASSUME NEW m \in Msgs, GiveBack(c, m) PROVE RefusalInv'
  <2>1. Write(c, "nack", m) /\ Become(c, Process(req[c], m)) /\ At(c, "giveback") /\ UNCHANGED <<copies, pg>>
    BY <1>3 DEF GiveBack, Write, lockVars
  <2>2. \A x \in Clients : NoNewAck(x)
    BY <2>1, WriteAcks DEF NoNewAck, CustodyInv
  <2>3. req'[c] = Process(req[c], m) /\ \A x \in Clients : x # c => req'[x] = req[x]
    BY <2>1, BecomeOnly DEF CustodyInv
  <2>4. /\ req'[c].job = req[c].job /\ req'[c].chan = req[c].chan
        /\ req'[c].outcome = req[c].outcome /\ req'[c].pc = req[c].pc
    BY <1>1, <2>3 DEF Process, Requests
  <2>5. Refused(c)'
    BY <1>1, <2>1, <2>2, <2>4 DEF Refused, IsSingle, NoNewAck, At
  <2> QED
    BY <2>1, <2>2, <2>3, <2>4, <2>5, RefusedAlone
<1> USE <1>1, <1>2 DEF Requests, At, Afterwards, Continue, brokerVars, queueVars, lockVars, IsBulk, IsSingle
<1>4. CASE GiveBackRaises(c)
  <2>1. PICK r : r = Goto(IF IsBulk(c) THEN req[c] ELSE Raise(req[c]), "close")
    OBVIOUS
  <2>2. /\ r.job = req[c].job /\ r.chan = req[c].chan /\ r.pc = "close"
        /\ r.outcome = IF IsBulk(c) THEN req[c].outcome ELSE "raised"
    BY <2>1 DEF Goto, Raise
  <2>3. IsSingle(c) => req[c].outcome = "raised"
    BY <1>4 DEF GiveBackRaises, Refused
  <2> QED
    BY <1>4, <2>1, <2>2, <2>3 DEF GiveBackRaises
<1>5. CASE GiveBackEnds(c)
  BY <1>5 DEF GiveBackEnds, Goto
<1>6. CASE CloseChannel(c)
  BY <1>6 DEF CloseChannel
<1>7. CASE CloseDead(c)
  BY <1>7 DEF CloseDead, Goto
<1>8. CASE Release(c)
  <2>1. Become(c, Goto(req[c], "done")) /\ UNCHANGED brokerVars /\ pg' = (IF pg = c THEN None ELSE pg)
    BY <1>8 DEF Release, KeepsPg, Locked
  <2>2. PICK r : r = Goto(req[c], "done")
    OBVIOUS
  <2>3. Allowed(c, r) /\ r.pc \notin Locked
    BY <1>8, <2>2 DEF Release, Goto, Allowed, Refused, Locked, InLoop
  <2>4. copies' = copies /\ \A x \in Clients : NoNewAck(x)
    BY <2>1, QueueStepsAckNothing DEF CustodyInv
  <2> QED
    BY <2>1, <2>2, <2>3, <2>4, RefusedStep
<1> QED
  BY <1>3, <1>4, <1>5, <1>6, <1>7, <1>8 DEF Return

(* The broker, the processes, and the database that outlives them. *)
LEMMA RefusedOthers ==
    ASSUME Connected, RefusalInv, CustodyInv',
           \/ \E m \in Msgs : Arrive(m)
           \/ \E c \in Clients : Broker(c) \/ PgCleanup(c)
           \/ \E r \in Replicas : Crash(r)
           \/ UNCHANGED vars
    PROVE  RefusalInv'
<1> USE DEF RefusalInv
<1>1. ASSUME UNCHANGED <<copies, req>>, \A x \in Clients : NoNewAck(x),
             \A x \in Clients : pg = x => pg' = x \/ At(x, "crashed")
      PROVE  RefusalInv'
  <2>1. \A x \in Clients : KeepsPg(x)'
    BY <1>1 DEF KeepsPg, Locked, InLoop, At
  <2>2. \A x \in Clients : Refused(x)'
    BY <1>1 DEF Refused, IsSingle, At, NoNewAck
  <2> QED
    BY <2>1, <2>2
<1>2. ASSUME NEW m \in Msgs, Arrive(m) PROVE RefusalInv'
  BY <1>1, <1>2, QueueStepsAckNothing DEF Arrive, CustodyInv, lockVars
<1>3. ASSUME NEW c \in Clients, BrokerSettle(c) PROVE RefusalInv'
  BY <1>1, <1>3, BrokerAcksNothing DEF BrokerSettle, CustodyInv, lockVars
<1>4. ASSUME NEW c \in Clients, BrokerCleanup(c) PROVE RefusalInv'
  BY <1>1, <1>4, QueueStepsAckNothing DEF BrokerCleanup, CustodyInv, lockVars
<1>5. ASSUME NEW c \in Clients, PgCleanup(c) PROVE RefusalInv'
  BY <1>1, <1>5, QueueStepsAckNothing DEF PgCleanup, CustodyInv, brokerVars, queueVars
<1>6. CASE UNCHANGED vars
  BY <1>1, <1>6, QueueStepsAckNothing DEF CustodyInv, vars, brokerVars, queueVars, lockVars
<1>7. ASSUME NEW r \in Replicas, Crash(r) PROVE RefusalInv'
  <2>1. UNCHANGED <<copies, pg>> /\ \A x \in Clients : NoNewAck(x)
    BY <1>7, QueueStepsAckNothing DEF CustodyInv, Crash, brokerVars, queueVars
  <2>2. ASSUME NEW x \in Clients PROVE KeepsPg(x)' /\ Refused(x)'
    <3>1. CASE ReplicaOf[x] = r /\ Active(x)
      <4>1. req[x] \in Requests
        BY DEF CustodyInv, IInv, TypeOK
      <4>2. req'[x] = [req[x] EXCEPT !.pc = "crashed", !.chan = IF @ = "open" THEN "dead" ELSE @]
        BY <1>7, <3>1 DEF Crash
      <4>3. req'[x].job = req[x].job /\ req'[x].pc = "crashed" /\ req'[x].outcome = req[x].outcome
        BY <4>1, <4>2 DEF Requests
      <4> QED
        BY <2>1, <4>3 DEF KeepsPg, Locked, Refused, Afterwards, InLoop, IsSingle, At, NoNewAck
    <3>2. CASE ~(ReplicaOf[x] = r /\ Active(x))
      <4>1. req'[x] = req[x]
        BY <1>7, <3>2 DEF Crash
      <4> QED
        BY <2>1, <4>1 DEF KeepsPg, Refused, IsSingle, At, NoNewAck
    <3> QED
      BY <3>1, <3>2
  <2> QED
    BY <2>2
<1> QED
  BY <1>2, <1>3, <1>4, <1>5, <1>6, <1>7 DEF Broker

LEMMA InitIsRefused == Init => RefusalInv
<1> SUFFICES ASSUME Init PROVE RefusalInv
  OBVIOUS
<1>1. ASSUME NEW c \in Clients PROVE KeepsPg(c) /\ Refused(c)
  <2>1. /\ req[c].pc = "idle" /\ req[c].chan = "none" /\ req[c].outcome = "none"
        /\ \A m \in Msgs : copies[c][m] = 0 /\ ~Acked(c, m)
    BY DEF Init, NewRequest, Acked
  <2> QED
    BY <2>1 DEF KeepsPg, Refused, Locked, InLoop
<1> QED
  BY <1>1, InitIsTold DEF RefusalInv

LEMMA NextIsRefused == Connected /\ RefusalInv /\ [Next]_vars => RefusalInv'
<1> SUFFICES ASSUME Connected, RefusalInv, [Next]_vars PROVE RefusalInv'
  OBVIOUS
<1>1. CustodyInv'
  BY NextIsTold DEF RefusalInv
<1>2. ASSUME NEW c \in Clients, Step(c) PROVE RefusalInv'
  BY <1>1, <1>2, RefusedEarly, RefusedReading, RefusedTaking, RefusedPublish, RefusedSettle, RefusedReturn
     DEF Step, SettleOne
<1>3. \A c \in Clients : ~AcquireFails(c) /\ ~LoseSharedLock(c) /\ ~ConnectionLoss(c)
  BY DEF Connected, AcquireFails, LoseSharedLock, ConnectionLoss
<1> QED
  BY <1>1, <1>2, <1>3, RefusedEarly, RefusedOthers DEF Next, Terminated

(* While connections and database sessions hold, a single action that raises  *)
(* has changed nothing, whatever its target answers: operate publishes after  *)
(* every check, acks after the publish, and a refused or returned publish     *)
(* stores no copy.  A replica may die.                                        *)
THEOREM RefusalsAreClean == Connected => (Spec => []RefusalChangesNothing)
<1> SUFFICES ASSUME Connected PROVE Spec => []RefusalChangesNothing
  OBVIOUS
<1>1. RefusalInv => RefusalChangesNothing
  BY DEF RefusalInv, Refused, RefusalChangesNothing, IsSingle
<1>2. RefusalInv /\ [Next]_vars => RefusalInv'
  BY NextIsRefused
<1> QED
  BY <1>1, <1>2, InitIsRefused, PTL DEF Spec

-------------------------------------------------------------------------------
(* One reader at a time. *)

(* Where a request holds its replica's lock. *)
InLock == Locked \cup {"shared"}
Reading == Locked \ {"open", "release"}

(* The parts of the invariant after a step of c. *)
LEMMA ReaderStep ==
    ASSUME ReaderInv, CustodyInv', NEW c \in Clients, NEW r, Become(c, r),
           r.pc \in InLock => local'[ReplicaOf[c]] = c,
           Shared /\ r.pc \in Locked => pg' = c,
           r.pc # "crashed", r.chan = "open" => r.pc \in Reading,
           \A x \in Clients : x # c => /\ local[ReplicaOf[x]] = x => local'[ReplicaOf[x]] = x
                                       /\ pg = x => pg' = x,
           \/ UNCHANGED <<place, owner>> /\ (req[c].chan = "open" => r.chan = "open")
           \/ Requeue(HeldBy(c))
           \/ r.chan = "open" /\ \E m \in Msgs : Deliver(c, m)
    PROVE  ReaderInv'
<1> USE DEF ReaderInv
<1>1. req'[c] = r /\ \A x \in Clients : x # c => req'[x] = req[x]
  BY BecomeOnly DEF CustodyInv
<1>2. \A x \in Clients : x # c => Exclusive(x)'
  BY <1>1 DEF Exclusive, KeepsPg, At
<1>3. Exclusive(c)'
  BY <1>1 DEF Exclusive, KeepsPg, At, InLock, Reading
<1>4. ASSUME NEW m \in Msgs PROVE HeldByReader(m)'
  <2>1. CASE UNCHANGED <<place, owner>> /\ (req[c].chan = "open" => r.chan = "open")
    BY <1>1, <2>1 DEF HeldByReader
  <2>2. CASE Requeue(HeldBy(c))
    BY <1>1, <2>2 DEF HeldByReader, Requeue, HeldBy
  <2>3. CASE r.chan = "open" /\ \E y \in Msgs : Deliver(c, y)
    <3>1. PICK y \in Msgs : Deliver(c, y)
      BY <2>3
    <3>2. CASE m = y
      BY <1>1, <2>3, <3>1, <3>2 DEF HeldByReader, Deliver, CustodyInv, IInv, TypeOK
    <3>3. CASE m # y
      BY <1>1, <2>3, <3>1, <3>3 DEF HeldByReader, Deliver, CustodyInv, IInv, TypeOK
    <3> QED
      BY <3>2, <3>3
  <2> QED
    BY <2>1, <2>2, <2>3
<1> QED
  BY <1>2, <1>3, <1>4

(* The same, when the locks stay as they are. *)
LEMMA ReaderInPlace ==
    ASSUME ReaderInv, CustodyInv', NEW c \in Clients, NEW r, Become(c, r), UNCHANGED lockVars,
           r.pc \in InLock => req[c].pc \in InLock,
           r.pc \in Locked => req[c].pc \in Locked,
           r.pc # "crashed", r.chan = "open" => r.pc \in Reading,
           \/ UNCHANGED <<place, owner>> /\ (req[c].chan = "open" => r.chan = "open")
           \/ Requeue(HeldBy(c))
           \/ r.chan = "open" /\ \E m \in Msgs : Deliver(c, m)
    PROVE  ReaderInv'
<1>1. /\ r.pc \in InLock => local'[ReplicaOf[c]] = c
      /\ Shared /\ r.pc \in Locked => pg' = c
  BY DEF ReaderInv, Exclusive, KeepsPg, InLock, lockVars
<1> QED
  BY <1>1, ReaderStep DEF lockVars

(* Taking and releasing the locks. *)
LEMMA ReaderLocks ==
    ASSUME ReaderInv, CustodyInv', NEW c \in Clients, Lock(c) \/ Release(c)
    PROVE  ReaderInv'
<1> USE DEF ReaderInv
<1>1. /\ req[c] \in Requests /\ local \in [Replicas -> Clients \cup {None}]
      /\ \A x \in Clients : ReplicaOf[x] \in Replicas /\ x # None /\ Exclusive(x)
  BY ReplicaAssumption, NoneAssumption DEF CustodyInv, IInv, TypeOK
<1> USE <1>1 DEF Requests, At, Locked, InLoop, InLock, Reading, Exclusive, KeepsPg, brokerVars, queueVars
<1>2. CASE AcquireLocal(c)
  <2>1. PICK r : r = Goto(req[c], IF Shared THEN "shared" ELSE "open")
    OBVIOUS
  <2>2. r.pc = (IF Shared THEN "shared" ELSE "open") /\ r.chan = req[c].chan /\ r.chan # "open"
    BY <1>2, <2>1 DEF AcquireLocal, Goto
  <2>3. /\ local'[ReplicaOf[c]] = c /\ UNCHANGED <<place, owner, pg>> /\ Become(c, r)
        /\ \A x \in Clients : x # c /\ local[ReplicaOf[x]] = x => local'[ReplicaOf[x]] = x
    BY <1>2, <2>1 DEF AcquireLocal
  <2> QED
    BY <2>2, <2>3, ReaderStep
<1>3. CASE AcquireShared(c)
  <2>1. PICK r : r = Goto(req[c], "open")
    OBVIOUS
  <2>2. r.pc = "open" /\ r.chan = req[c].chan /\ r.chan # "open"
    BY <1>3, <2>1 DEF AcquireShared, Goto
  <2>3. UNCHANGED <<place, owner, local>> /\ Become(c, r) /\ pg = None /\ pg' = c /\ local[ReplicaOf[c]] = c
    BY <1>3, <2>1 DEF AcquireShared
  <2> QED
    BY <2>2, <2>3, ReaderStep
<1>4. CASE Release(c)
  <2>1. PICK r : r = Goto(IF Shared /\ pg # c THEN Raise(req[c]) ELSE req[c], "done")
    OBVIOUS
  <2>2. r.pc = "done" /\ r.chan = req[c].chan /\ r.chan # "open"
    BY <1>4, <2>1 DEF Release, Goto, Raise
  <2>3. /\ local[ReplicaOf[c]] = c
        /\ local' = [local EXCEPT ![ReplicaOf[c]] = None] /\ pg' = (IF pg = c THEN None ELSE pg)
        /\ UNCHANGED <<place, owner>> /\ Become(c, r)
    BY <1>4, <2>1 DEF Release
  <2> QED
    BY <2>2, <2>3, ReaderStep
<1> QED
  BY <1>2, <1>3, <1>4 DEF Lock

(* Opening the channel and reading. *)
LEMMA ReaderReads ==
    ASSUME Calm, ReaderInv, CustodyInv', NEW c \in Clients,
           Open(c) \/ Fetch(c) \/ (\E j \in Jobs : Start(c, j))
    PROVE  ReaderInv'
<1>1. req[c] \in Requests /\ Exclusive(c)
  BY DEF ReaderInv, CustodyInv, IInv, TypeOK
<1> USE <1>1, ReaderInPlace
        DEF Requests, At, Locked, InLoop, InLock, Reading, Continue, brokerVars, queueVars
<1>2. CASE OpenChannel(c)
  <2>1. ASSUME NEW opened, opened = [req[c] EXCEPT !.chan = "open"],
               NEW r, r = Raise(opened) \/ r = Goto(opened, "fetch"), Continue(c, r), At(c, "open")
        PROVE  ReaderInv'
    <3>1. r.pc \in {"giveback", "fetch"} /\ r.chan = "open"
      BY <2>1 DEF Raise, Goto
    <3> QED
      BY <2>1, <3>1
  <2> QED
    BY <1>2, <2>1 DEF OpenChannel
<1>3. ASSUME NEW j \in Jobs, Start(c, j) PROVE ReaderInv'
  BY <1>3 DEF Start, Exclusive
<1>4. ASSUME NEW m \in Msgs, FetchMore(c, m) \/ FetchStops(c, m) \/ FetchTooDeep(c, m)
      PROVE  ReaderInv'
  <2>1. PICK taken : taken = Taken(c, m)
    OBVIOUS
  <2>2. /\ At(c, "fetch") /\ req[c].chan = "open" /\ Deliver(c, m) /\ UNCHANGED lockVars
        /\ \/ Become(c, taken) \/ Become(c, Goto(taken, "match")) \/ Become(c, Raise(taken))
    BY <1>4, <2>1 DEF FetchMore, FetchStops, FetchTooDeep, Get, CanCall
  <2>3. taken.pc = "fetch" /\ taken.chan = "open" /\ DOMAIN taken = DOMAIN req[c]
    BY <2>1, <2>2 DEF Taken
  <2>4. ASSUME NEW r, r \in {taken, Goto(taken, "match"), Raise(taken)}
        PROVE  r.pc \in {"fetch", "match", "giveback"} /\ r.chan = "open"
    BY <2>3, <2>4 DEF Goto, Raise, Taken
  <2>5. PICK r \in {taken, Goto(taken, "match"), Raise(taken)} : Become(c, r)
    BY <2>2
  <2> QED
    BY <2>2, <2>4, <2>5
<1>5. CASE FetchEnds(c)
  BY <1>5 DEF FetchEnds, Goto
<1>6. CASE CallRaises(c)
  BY <1>6 DEF CallRaises, Raise
<1>7. ~OpenFails(c) /\ \A m \in Msgs : ~FetchLost(c, m)
  BY DEF OpenFails, FetchLost, Calm
<1> QED
  BY <1>2, <1>3, <1>4, <1>5, <1>6, <1>7 DEF Open, Fetch

(* Choosing, and acting on what was chosen. *)
LEMMA ReaderActs ==
    ASSUME Calm, ReaderInv, CustodyInv', NEW c \in Clients,
           Match(c) \/ PrepareTarget(c) \/ Take(c) \/ Publish(c) \/ SettleOne(c)
    PROVE  ReaderInv'
<1>1. req[c] \in Requests /\ Exclusive(c)
  BY DEF ReaderInv, CustodyInv, IInv, TypeOK
<1>2. ASSUME NEW r, Become(c, r), UNCHANGED lockVars, req[c].pc \in Reading,
             r.pc \in {"target", "giveback"} \cup InLoop,
             \/ UNCHANGED <<place, owner>> /\ r.chan = req[c].chan
             \/ Requeue(HeldBy(c))
      PROVE  ReaderInv'
  BY <1>2, ReaderInPlace DEF Locked, InLoop, InLock, Reading
<1> USE <1>1, <1>2 DEF Requests, At, Locked, InLoop, InLock, Reading, Continue, brokerVars, queueVars
<1>3. CASE MatchScan(c) \/ MatchBulk(c)
  BY <1>3 DEF MatchScan, MatchBulk, Finish, Goto
<1>4. ASSUME NEW f \in Fps, MatchFails(c, f) \/ \E m \in Msgs : MatchSingle(c, f, m)
      PROVE  ReaderInv'
  BY <1>4 DEF MatchFails, MatchSingle, Raise
<1>5. CASE EnsureTarget(c) \/ TargetInvalid(c)
  BY <1>5 DEF EnsureTarget, TargetInvalid, Goto, Raise
<1>6. CASE TargetMissing(c)
  BY <1>6 DEF TargetMissing, Raise, Lose
<1>7. ASSUME NEW f \in Fps, NEW status \in {"not_found", "skipped_duplicate"}, Skip(c, f, status), At(c, "next")
      PROVE  ReaderInv'
  <2>1. PICK r : r = Record([req[c] EXCEPT !.todo = @ \ {f}], f, status)
    OBVIOUS
  <2>2. r.pc = req[c].pc /\ r.chan = req[c].chan
    BY <2>1 DEF Record
  <2> QED
    BY <1>7, <2>1, <2>2 DEF Skip
<1>8. ASSUME NEW f \in Fps, NEW m \in Msgs, NextMessage(c, f, m) PROVE ReaderInv'
  BY <1>8 DEF NextMessage
<1>9. CASE BatchEnds(c) \/ UndeliverRaises(c)
  BY <1>9 DEF BatchEnds, UndeliverRaises, Finish, Raise
<1>10. CASE PublishConfirmed(c)
  BY <1>10 DEF PublishConfirmed, Goto
<1>11. CASE PublishUnroutable(c)
  BY <1>11 DEF PublishUnroutable, Goto, Raise
<1>12. ASSUME NEW r \in Requests, NEW published \in BOOLEAN
       PROVE  Broken(r, published).pc = "giveback" /\ Broken(r, published).chan = r.chan
  BY BrokenOutcome
<1>13. CASE PublishRefused(c)
  <2>1. Lose(req[c]) \in Requests
    BY DEF Lose
  <2> QED
    BY <1>12, <1>13, <2>1 DEF PublishRefused
<1>14. CASE PublishRaises(c)
  BY <1>12, <1>14 DEF PublishRaises
<1>15. CASE SettleRaises(c)
  <2>0. Publishes(c) \in BOOLEAN
    BY DEF Publishes
  <2>1. PICK published \in BOOLEAN : published = Publishes(c)
    BY <2>0, Zenon
  <2> QED
    BY <1>12, <1>15, <2>1 DEF SettleRaises
<1>16. ~PublishLost(c)
  BY DEF PublishLost, Calm
<1>17. ASSUME NEW f, NEW status, NEW settled, settled = Record(Process(req[c], req[c].current), f, status)
       PROVE  settled.chan = req[c].chan /\ Finish(settled).chan = req[c].chan /\ Goto(settled, "next").chan = req[c].chan
              /\ Finish(settled).pc = "giveback" /\ Goto(settled, "next").pc = "next"
  BY <1>17 DEF Record, Process, Finish, Goto
<1>18. CASE Settle(c)
  BY <1>17, <1>18 DEF Settle, Write
<1>19. CASE Undeliver(c)
  BY <1>17, <1>19 DEF Undeliver, Write
<1> QED
  BY <1>3, <1>4, <1>5, <1>6, <1>7, <1>8, <1>9, <1>10, <1>11, <1>13, <1>14, <1>15, <1>16, <1>18, <1>19
     DEF Match, PrepareTarget, Take, NextAbsent, NextDuplicated, Publish, SettleOne

(* Giving back and closing. *)
LEMMA ReaderReturns ==
    ASSUME ReaderInv, CustodyInv', NEW c \in Clients, Return(c)
    PROVE  ReaderInv'
<1>1. req[c] \in Requests /\ Exclusive(c)
  BY DEF ReaderInv, CustodyInv, IInv, TypeOK
<1> USE <1>1, ReaderInPlace
        DEF Requests, At, Locked, InLoop, InLock, Reading, Continue, brokerVars, queueVars
<1>2. ASSUME NEW m \in Msgs, GiveBack(c, m) PROVE ReaderInv'
  <2>1. PICK r : r = Process(req[c], m)
    OBVIOUS
  <2>2. r.pc = "giveback" /\ r.chan = req[c].chan
    BY <1>2, <2>1 DEF Process, GiveBack
  <2> QED
    BY <1>2, <2>1, <2>2 DEF GiveBack, Write
<1>3. CASE GiveBackRaises(c)
  <2>1. PICK r : r = Goto(IF IsBulk(c) THEN req[c] ELSE Raise(req[c]), "close")
    OBVIOUS
  <2>2. r.pc = "close" /\ r.chan = req[c].chan
    BY <2>1 DEF Goto, Raise
  <2> QED
    BY <1>3, <2>1, <2>2 DEF GiveBackRaises
<1>4. CASE GiveBackEnds(c)
  BY <1>4 DEF GiveBackEnds, Goto
<1>5. CASE CloseChannel(c)
  BY <1>5 DEF CloseChannel
<1>6. CASE CloseDead(c)
  BY <1>6 DEF CloseDead, Goto
<1> QED
  BY <1>2, <1>3, <1>4, <1>5, <1>6, ReaderLocks DEF Return

(* The broker, and messages that come in. *)
LEMMA ReaderOthers ==
    ASSUME ReaderInv, CustodyInv',
           \/ \E m \in Msgs : Arrive(m)
           \/ \E c \in Clients : Broker(c) \/ PgCleanup(c)
           \/ UNCHANGED vars
    PROVE  ReaderInv'
<1> USE DEF ReaderInv
<1>1. ASSUME UNCHANGED <<lockVars, req>>, \A m \in Msgs : place'[m] = "unacked" => place[m] = "unacked" /\ owner'[m] = owner[m]
      PROVE  ReaderInv'
  BY <1>1 DEF Exclusive, KeepsPg, HeldByReader, At, lockVars
<1>2. ASSUME NEW m \in Msgs, Arrive(m) PROVE ReaderInv'
  BY <1>1, <1>2 DEF Arrive, CustodyInv, IInv, TypeOK
<1>3. ASSUME NEW S, Requeue(S), UNCHANGED <<lockVars, req>> PROVE ReaderInv'
  BY <1>1, <1>3 DEF Requeue
<1>4. ASSUME NEW c \in Clients, BrokerSettle(c) PROVE ReaderInv'
  <2>1. CASE Head(wire[c]).kind = "ack"
    BY <1>1, <1>4, <2>1 DEF BrokerSettle, CustodyInv, IInv, TypeOK
  <2>2. CASE Head(wire[c]).kind # "ack"
    BY <1>3, <1>4, <2>2 DEF BrokerSettle
  <2> QED
    BY <2>1, <2>2
<1>5. ASSUME NEW c \in Clients, BrokerCleanup(c) PROVE ReaderInv'
  BY <1>3, <1>5 DEF BrokerCleanup
<1>6. \A c \in Clients : ~PgCleanup(c)
  BY DEF PgCleanup, Exclusive
<1>7. CASE UNCHANGED vars
  BY <1>1, <1>7 DEF vars, brokerVars, queueVars
<1> QED
  BY <1>2, <1>4, <1>5, <1>6, <1>7 DEF Broker

LEMMA InitIsReader == Init => ReaderInv
<1> SUFFICES ASSUME Init PROVE ReaderInv
  OBVIOUS
<1>1. ASSUME NEW c \in Clients PROVE Exclusive(c)
  BY DEF Init, NewRequest, Exclusive, KeepsPg, Locked, InLoop, At
<1>2. \A m \in Msgs : HeldByReader(m)
  BY DEF Init, HeldByReader
<1> QED
  BY <1>1, <1>2, InitIsTold DEF ReaderInv

LEMMA NextIsReader == Calm /\ ReaderInv /\ [Next]_vars => ReaderInv'
<1> SUFFICES ASSUME Calm, ReaderInv, [Next]_vars PROVE ReaderInv'
  OBVIOUS
<1>1. CustodyInv'
  BY NextIsTold DEF ReaderInv
<1>2. ASSUME NEW c \in Clients, Step(c) PROVE ReaderInv'
  BY <1>1, <1>2, ReaderLocks, ReaderReads, ReaderActs, ReaderReturns DEF Step
<1>3. /\ \A c \in Clients : ~AcquireFails(c) /\ ~LoseSharedLock(c) /\ ~ConnectionLoss(c)
      /\ \A r \in Replicas : ~Crash(r)
  BY DEF Calm, AcquireFails, LoseSharedLock, ConnectionLoss, Crash
<1> QED
  BY <1>1, <1>2, <1>3, ReaderReads, ReaderOthers DEF Next, Terminated

(* While connections, replicas and database sessions hold, and the replicas    *)
(* share the database if there are several, previews and actions on one queue  *)
(* never interleave: whatever is unacked is held by one request.               *)
THEOREM OneReaderAtATime == Calm /\ OneLock => (Spec => []OneReader)
<1> SUFFICES ASSUME Calm, OneLock PROVE Spec => []OneReader
  OBVIOUS
<1>1. ASSUME ReaderInv PROVE OneReader
  <2>1. ASSUME NEW x \in Msgs, NEW y \in Msgs, place[x] = "unacked", place[y] = "unacked"
        PROVE  owner[x] = owner[y]
    <3>1. /\ owner[x] \in Clients /\ req[owner[x]].pc \in Locked
          /\ owner[y] \in Clients /\ req[owner[y]].pc \in Locked
      BY <1>1, <2>1 DEF ReaderInv, HeldByReader, Exclusive
    <3> QED
      BY <1>1, <3>1 DEF ReaderInv, Exclusive, KeepsPg, OneLock
  <2> QED
    BY <2>1 DEF OneReader
<1>2. ReaderInv /\ [Next]_vars => ReaderInv'
  BY NextIsReader
<1> QED
  BY <1>1, <1>2, InitIsReader, PTL DEF Spec

-------------------------------------------------------------------------------
(* A quorum queue is read whole. *)

(* A message once in the queue never leaves it but for good; c holds nothing new. *)
QueueKeeps == \A m \in Msgs : /\ place[m] = "gone" => place'[m] = "gone"
                              /\ place[m] # "absent" => place'[m] # "absent"
HoldsNoMore(c) == \A m \in Msgs : Holds(c, m)' => Holds(c, m)

LEMMA QueueStepsKeep ==
    ASSUME IInv,
           \/ UNCHANGED <<place, owner>>
           \/ \E c \in Clients : Requeue(HeldBy(c)) \/ BrokerSettle(c)
           \/ \E m \in Msgs : Arrive(m)
    PROVE  QueueKeeps /\ \A x \in Clients : HoldsNoMore(x)
<1> USE DEF QueueKeeps, HoldsNoMore, Holds
<1>1. CASE UNCHANGED <<place, owner>>
  BY <1>1
<1>2. ASSUME NEW S, Requeue(S), \A m \in S : place[m] = "unacked"
      PROVE  QueueKeeps /\ \A x \in Clients : HoldsNoMore(x)
  BY <1>2 DEF Requeue
<1>3. ASSUME NEW c \in Clients, BrokerSettle(c)
      PROVE  QueueKeeps /\ \A x \in Clients : HoldsNoMore(x)
  <2>1. wire[c] \in Seq(Frames) /\ wire[c] # <<>>
    BY <1>3 DEF BrokerSettle, IInv, TypeOK
  <2>2. Head(wire[c]) = wire[c][1] /\ 1 \in DOMAIN wire[c]
    BY <2>1
  <2>3. place[Head(wire[c]).msg] = "unacked"
    BY <2>2 DEF IInv, ClientInv, WireSafe
  <2>4. CASE Head(wire[c]).kind = "ack"
    BY <1>3, <2>3, <2>4 DEF BrokerSettle, IInv, TypeOK
  <2>5. CASE Head(wire[c]).kind # "ack"
    BY <1>2, <1>3, <2>3, <2>5 DEF BrokerSettle
  <2> QED
    BY <2>4, <2>5
<1>4. ASSUME NEW c \in Clients, Requeue(HeldBy(c))
      PROVE  QueueKeeps /\ \A x \in Clients : HoldsNoMore(x)
  BY <1>2, <1>4 DEF HeldBy
<1>5. ASSUME NEW m \in Msgs, Arrive(m)
      PROVE  QueueKeeps /\ \A x \in Clients : HoldsNoMore(x)
  BY <1>5 DEF Arrive, IInv, TypeOK
<1> QED
  BY <1>1, <1>3, <1>4, <1>5

LEMMA DeliveryKeeps ==
    ASSUME IInv, NEW c \in Clients, NEW m \in Msgs, Deliver(c, m)
    PROVE  /\ QueueKeeps
           /\ \A x \in Clients : x # c => HoldsNoMore(x)
           /\ \A y \in Msgs : Holds(c, y)' => Holds(c, y) \/ y = m
BY DEF QueueKeeps, HoldsNoMore, Holds, Deliver, IsHead, Ready, IInv, TypeOK

(* What a step of another request leaves of ReadWhole. *)
LEMMA WholeFrame ==
    ASSUME WholeInv, ReaderInv', QueueKeeps, NEW x \in Clients, req'[x] = req[x],
           copies'[x] = copies[x], NoNewAck(x), HoldsNoMore(x)
    PROVE  ReadWhole(x)'
<1>1. ReadWhole(x)
  BY DEF WholeInv
<1>2. \A m \in Backlog : m \in Msgs
  BY SizesAssumption DEF Backlog, Msgs
<1> QED
  BY <1>1, <1>2 DEF ReadWhole, HasCurrent, At, IsBulk, Matches, Read, Duplicated, QueueKeeps, NoNewAck, HoldsNoMore

LEMMA WholeStep ==
    ASSUME WholeInv, ReaderInv', QueueKeeps, NEW c \in Clients, ReadWhole(c)',
           \A x \in Clients : x # c => /\ req'[x] = req[x] /\ copies'[x] = copies[x]
                                       /\ NoNewAck(x) /\ HoldsNoMore(x)
    PROVE  WholeInv'
<1>1. \A m \in Backlog : m \in Msgs
  BY SizesAssumption DEF Backlog, Msgs
<1> QED
  BY <1>1, WholeFrame DEF WholeInv, QueueKeeps

(* A step of c after which it has read what it had read. *)
Chosen == {"match", "target"} \cup InLoop
Onward(c, r) ==
    /\ r.scanned = req[c].scanned
    /\ \A f \in Fps : r.results[f] = "not_found" => req[c].results[f] = "not_found"
    /\ r.pc \in Chosen => req[c].pc \in Chosen
    /\ r.pc \in InLoop \ {"next"} \/ (r.pc = "target" /\ r.job.kind # "bulk") =>
          Matches(c, Fp[r.current]) = {r.current}

LEMMA WholeOnward ==
    ASSUME WholeInv, ReaderInv', NEW c \in Clients, NEW r, Become(c, r), Onward(c, r),
           QueueKeeps, \A x \in Clients : HoldsNoMore(x),
           \A x \in Clients : x # c => copies'[x] = copies[x] /\ NoNewAck(x),
           \A x \in Msgs : Duplicated(x) => copies'[c][x] = 0 /\ ~Acked(c, x)'
    PROVE  WholeInv'
<1>1. ReadWhole(c) /\ IInv
  BY DEF WholeInv, ReaderInv, CustodyInv
<1>2. \A m \in Backlog : m \in Msgs /\ Fp[m] \in Fps
  BY SizesAssumption, FpAssumption DEF Backlog, Msgs
<1>3. req'[c] = r /\ \A x \in Clients : x # c => req'[x] = req[x]
  BY <1>1, BecomeOnly
<1>4. Read(c)' = Read(c) /\ \A f : Matches(c, f)' = Matches(c, f)
  BY <1>3 DEF Onward, Read, Matches
<1>5. req'[c].pc \in {"match", "target"} \cup InLoop =>
         \A m \in Backlog : place'[m] = "gone" \/ m \in Read(c)'
  BY <1>1, <1>2, <1>3, <1>4 DEF ReadWhole, Onward, Chosen, QueueKeeps
<1>6. HasCurrent(c)' => Matches(c, Fp[req[c].current])' = {req'[c].current}
  BY <1>3, <1>4 DEF HasCurrent, Onward, At, IsBulk
<1>7. \A m \in Msgs : Holds(c, m)' => m \in Read(c)'
  BY <1>1, <1>4 DEF ReadWhole, HoldsNoMore
<1>8. \A m \in Backlog : req'[c].results[Fp[m]] = "not_found" => place'[m] = "gone"
  BY <1>1, <1>2, <1>3 DEF ReadWhole, Onward, QueueKeeps
<1>9. ReadWhole(c)'
  BY <1>5, <1>6, <1>7, <1>8 DEF ReadWhole, Duplicated
<1> QED
  BY <1>3, <1>9, WholeStep

(* The same, for a step that copies and acks nothing. *)
LEMMA WholeQuiet ==
    ASSUME WholeInv, ReaderInv', NEW c \in Clients, NEW r, Become(c, r), Onward(c, r), copies' = copies,
           \/ UNCHANGED <<place, owner, wire>>
           \/ Requeue(HeldBy(c)) /\ wire' = wire
    PROVE  WholeInv'
<1>1. IInv /\ ReadWhole(c)
  BY DEF WholeInv, ReaderInv, CustodyInv
<1>2. \A x \in Clients : NoNewAck(x)
  BY <1>1, QueueStepsAckNothing
<1>3. QueueKeeps /\ \A x \in Clients : HoldsNoMore(x)
  BY <1>1, QueueStepsKeep
<1>4. \A x \in Msgs : Duplicated(x) => copies'[c][x] = 0 /\ ~Acked(c, x)'
  BY <1>1, <1>2 DEF ReadWhole, NoNewAck
<1> QED
  BY <1>2, <1>3, <1>4, WholeOnward

(* Two requests that hold the locks are one. *)
LEMMA LocksExclude ==
    ASSUME OneLock, ReaderInv, NEW c \in Clients, NEW d \in Clients,
           req[c].pc \in Locked, req[d].pc \in Locked
    PROVE  c = d
BY DEF ReaderInv, Exclusive, KeepsPg, OneLock

(* The message a request acts on has no double. *)
LEMMA CurrentIsSingle ==
    ASSUME WholeInv, NEW c \in Clients, HasCurrent(c)
    PROVE  ~Duplicated(req[c].current)
<1>1. ReadWhole(c) /\ req[c].pc \in {"match", "target"} \cup InLoop
  BY DEF WholeInv, HasCurrent, At
<1>2. ASSUME Duplicated(req[c].current) PROVE FALSE
  <2>1. PICK y \in Backlog : y # req[c].current /\ Fp[y] = Fp[req[c].current]
    BY <1>2 DEF Duplicated
  <2>2. y \in Msgs /\ Duplicated(y)
    BY <1>2, <2>1, SizesAssumption DEF Duplicated, Backlog, Msgs
  <2>3. y \notin Matches(c, Fp[req[c].current])
    BY <1>1, <2>1 DEF ReadWhole
  <2>4. place[y] = "gone"
    BY <1>1, <2>1, <2>3 DEF ReadWhole, Matches
  <2>5. owner[y] \in Clients /\ Acked(owner[y], y)
    BY <2>2, <2>4 DEF WholeInv, ReaderInv, CustodyInv, IInv, NoLoss, Acked
  <2> QED
    BY <2>2, <2>5 DEF WholeInv, ReadWhole
<1> QED
  BY <1>2

(* The steps of a request: before and after it reads and acts, *)
LEMMA WholeAround ==
    ASSUME Calm, WholeInv, ReaderInv', NEW c \in Clients,
           Lock(c) \/ Open(c) \/ Return(c) \/ (\E j \in Jobs : Start(c, j))
    PROVE  WholeInv'
<1>1. req[c] \in Requests /\ IInv /\ ReadWhole(c)
  BY DEF WholeInv, ReaderInv, CustodyInv, IInv, TypeOK
<1>2. ASSUME NEW r, Become(c, r), copies' = copies, r.scanned = req[c].scanned,
             r.results = req[c].results, r.pc \notin Chosen,
             \/ UNCHANGED <<place, owner, wire>>
             \/ Requeue(HeldBy(c)) /\ wire' = wire
      PROVE  WholeInv'
  <2>1. Onward(c, r)
    BY <1>2 DEF Onward, Chosen
  <2> QED
    BY <1>2, <2>1, WholeQuiet
<1>3. ASSUME NEW m \in Msgs, GiveBack(c, m) PROVE WholeInv'
  <2>1. Write(c, "nack", m) /\ At(c, "giveback") /\ UNCHANGED <<copies, place, owner>>
    BY <1>3 DEF GiveBack, Write, queueVars
  <2>2. PICK r : r = Process(req[c], m)
    OBVIOUS
  <2>3. Become(c, r) /\ Onward(c, r)
    BY <1>1, <1>3, <2>1, <2>2 DEF GiveBack, Process, Requests, Onward, Chosen, InLoop, At
  <2>4. \A x \in Clients : NoNewAck(x)
    BY <1>1, <2>1, WriteAcks DEF NoNewAck
  <2>5. QueueKeeps /\ \A x \in Clients : HoldsNoMore(x)
    BY <1>1, <2>1, QueueStepsKeep
  <2>6. \A x \in Msgs : Duplicated(x) => copies'[c][x] = 0 /\ ~Acked(c, x)'
    BY <1>1, <2>1, <2>4 DEF ReadWhole, NoNewAck
  <2> QED
    BY <2>1, <2>3, <2>4, <2>5, <2>6, WholeOnward
<1> USE <1>1, <1>2 DEF Requests, At, Chosen, InLoop, Continue, brokerVars, queueVars, Goto, Raise
<1>4. CASE AcquireLocal(c) \/ AcquireShared(c)
  BY <1>4 DEF AcquireLocal, AcquireShared
<1>5. CASE OpenChannel(c)
  BY <1>5 DEF OpenChannel
<1>6. ASSUME NEW j \in Jobs, Start(c, j) PROVE WholeInv'
  BY <1>6 DEF Start
<1>7. CASE GiveBackRaises(c)
  BY <1>7 DEF GiveBackRaises
<1>8. CASE GiveBackEnds(c) \/ CloseDead(c)
  BY <1>8 DEF GiveBackEnds, CloseDead
<1>9. CASE CloseChannel(c)
  BY <1>9 DEF CloseChannel
<1>10. CASE Release(c)
  BY <1>10 DEF Release
<1>11. ~OpenFails(c)
  BY DEF OpenFails, Calm
<1> QED
  BY <1>3, <1>4, <1>5, <1>6, <1>7, <1>8, <1>9, <1>10, <1>11 DEF Lock, Open, Return

(* the reading, which ends when nothing is left to read, *)
LEMMA WholeFetch ==
    ASSUME Calm, OneLock, Quorum, WholeInv, ReaderInv', NEW c \in Clients, Fetch(c)
    PROVE  WholeInv'
<1>1. req[c] \in Requests /\ IInv /\ ReadWhole(c) /\ ReaderInv
  BY DEF WholeInv, ReaderInv, CustodyInv, IInv, TypeOK
<1>2. ASSUME NEW m \in Msgs, NEW r, Get(c, m), Become(c, r), r.results = req[c].results,
             r.scanned = Append(req[c].scanned, m), r.pc \in {"fetch", "giveback"}
      PROVE  WholeInv'
  <2>1. Deliver(c, m) /\ UNCHANGED <<copies, wire>>
    BY <1>2 DEF Get
  <2>2. /\ QueueKeeps /\ \A x \in Clients : x # c => HoldsNoMore(x)
        /\ \A y \in Msgs : Holds(c, y)' => Holds(c, y) \/ y = m
    BY <1>1, <2>1, DeliveryKeeps
  <2>3. \A x \in Clients : NoNewAck(x)
    BY <1>1, <2>1, QueueStepsAckNothing
  <2>4. req'[c] = r /\ \A x \in Clients : x # c => req'[x] = req[x]
    BY <1>1, <1>2, BecomeOnly
  <2>5. req[c].scanned \in Seq(Msgs) /\ req'[c].scanned = Append(req[c].scanned, m)
    BY <1>1, <1>2, <2>4 DEF Requests
  <2>6. \A y : y \in Read(c) \/ y = m => y \in Read(c)'
    <3>1. m \in Read(c)'
      <4>1. Len(req[c].scanned) + 1 \in DOMAIN req'[c].scanned
            /\ req'[c].scanned[Len(req[c].scanned) + 1] = m
        BY <2>5
      <4> QED
        BY <4>1 DEF Read
    <3>2. \A i \in DOMAIN req[c].scanned : i \in DOMAIN req'[c].scanned
                                            /\ req'[c].scanned[i] = req[c].scanned[i]
      BY <2>5
    <3> QED
      BY <3>1, <3>2 DEF Read
  <2>7. \A y \in Backlog : y \in Msgs
    BY SizesAssumption DEF Backlog, Msgs
  <2>8. ReadWhole(c)'
    BY <1>1, <1>2, <2>1, <2>2, <2>3, <2>4, <2>6, <2>7
       DEF ReadWhole, HasCurrent, At, InLoop, Duplicated, QueueKeeps, NoNewAck
  <2> QED
    BY <2>1, <2>2, <2>3, <2>4, <2>8, WholeStep
<1>3. ASSUME NEW m \in Msgs, FetchMore(c, m) \/ FetchTooDeep(c, m) PROVE WholeInv'
  <2>1. PICK taken : taken = Taken(c, m)
    OBVIOUS
  <2>2. PICK r \in {taken, Raise(taken)} : Become(c, r) /\ Get(c, m)
    BY <1>3, <2>1 DEF FetchMore, FetchTooDeep
  <2>3. /\ taken.results = req[c].results /\ taken.scanned = Append(req[c].scanned, m)
        /\ taken.pc = "fetch" /\ DOMAIN taken = DOMAIN req[c]
    BY <1>1, <2>1, <2>2 DEF Taken, Requests, Get, At
  <2>4. /\ r.results = req[c].results /\ r.scanned = Append(req[c].scanned, m)
        /\ r.pc \in {"fetch", "giveback"}
    BY <1>1, <2>1, <2>2, <2>3 DEF Raise, Requests, Taken
  <2> QED
    BY <1>2, <2>2, <2>4
<1>4. CASE FetchEnds(c)
  <2>1. At(c, "fetch") /\ req[c].chan = "open" /\ Ready = {} /\ UNCHANGED <<place, owner, wire, copies>>
    BY <1>4 DEF FetchEnds, CanCall, Continue, brokerVars, queueVars
  <2>2. PICK r : r = Goto(req[c], "match")
    OBVIOUS
  <2>3. /\ r.scanned = req[c].scanned /\ r.results = req[c].results /\ r.pc = "match"
        /\ Become(c, r)
    BY <1>1, <1>4, <2>2 DEF FetchEnds, Continue, Goto, Requests
  <2>4. req'[c] = r /\ \A x \in Clients : x # c => req'[x] = req[x]
    BY <1>1, <2>3, BecomeOnly
  <2>5. ASSUME NEW m \in Backlog PROVE m \in Msgs /\ (place[m] = "gone" \/ m \in Read(c))
    <3>1. m \in Msgs /\ place[m] \in {"ready", "unacked", "gone"}
      BY <1>1, SizesAssumption DEF WholeInv, Backlog, Msgs, IInv, TypeOK
    <3>2. CASE place[m] = "unacked"
      <4>1. owner[m] \in Clients /\ req[owner[m]].pc \in Locked
        BY <1>1, <3>1, <3>2 DEF ReaderInv, HeldByReader, Exclusive
      <4>2. owner[m] = c
        BY <1>1, <2>1, <4>1, LocksExclude DEF At, Locked
      <4> QED
        BY <1>1, <3>1, <3>2, <4>2 DEF ReadWhole, Holds
    <3> QED
      BY <2>1, <3>1, <3>2 DEF Ready
  <2>6. QueueKeeps /\ \A x \in Clients : NoNewAck(x) /\ HoldsNoMore(x)
    BY <1>1, <2>1, QueueStepsKeep, QueueStepsAckNothing
  <2>7. Read(c)' = Read(c)
    BY <2>3, <2>4 DEF Read
  <2>8. ReadWhole(c)'
    BY <1>1, <2>1, <2>3, <2>4, <2>5, <2>6, <2>7
       DEF ReadWhole, HasCurrent, At, InLoop, Duplicated, IsBulk, NoNewAck, HoldsNoMore
  <2> QED
    BY <2>1, <2>4, <2>6, <2>8, WholeStep
<1>5. CASE CallRaises(c)
  <2>1. PICK r : r = Raise(req[c])
    OBVIOUS
  <2>2. Onward(c, r)
    BY <1>1, <2>1 DEF Onward, Raise, Requests, Chosen, InLoop
  <2> QED
    BY <1>5, <2>1, <2>2, WholeQuiet DEF CallRaises, Continue, brokerVars, queueVars
<1>6. \A m \in Msgs : ~FetchStops(c, m) /\ ~FetchLost(c, m)
  BY DEF FetchStops, FetchLost, Calm
<1> QED
  BY <1>3, <1>4, <1>5, <1>6 DEF Fetch

(* the choice, which finds what it read, *)
LEMMA WholeChooses ==
    ASSUME WholeInv, ReaderInv', NEW c \in Clients, Match(c) \/ PrepareTarget(c)
    PROVE  WholeInv'
<1>1. req[c] \in Requests /\ IInv /\ ReadWhole(c)
  BY DEF WholeInv, ReaderInv, CustodyInv, IInv, TypeOK
<1>2. ASSUME NEW r, Become(c, r), copies' = copies, req[c].pc \in Chosen,
             r.scanned = req[c].scanned, r.results = req[c].results,
             r.pc \in InLoop \ {"next"} \/ (r.pc = "target" /\ r.job.kind # "bulk") =>
                 Matches(c, Fp[r.current]) = {r.current},
             \/ UNCHANGED <<place, owner, wire>>
             \/ Requeue(HeldBy(c)) /\ wire' = wire
      PROVE  WholeInv'
  <2>1. Onward(c, r)
    BY <1>2 DEF Onward
  <2> QED
    BY <1>2, <2>1, WholeQuiet
<1> USE <1>1, <1>2 DEF Requests, At, Chosen, InLoop, IsBulk, Continue, brokerVars, queueVars, Goto, Raise
<1>3. CASE MatchScan(c)
  BY <1>3 DEF MatchScan, Finish
<1>4. CASE MatchBulk(c)
  BY <1>4 DEF MatchBulk
<1>5. ASSUME NEW f \in Fps, MatchFails(c, f) PROVE WholeInv'
  BY <1>5 DEF MatchFails
<1>6. ASSUME NEW f \in Fps, NEW m \in Msgs, MatchSingle(c, f, m) PROVE WholeInv'
  <2>1. PICK r : r = [req[c] EXCEPT !.current = m, !.pc = IF Publishes(c) THEN "target" ELSE "settle"]
    OBVIOUS
  <2>2. r.scanned = req[c].scanned /\ r.results = req[c].results /\ r.current = m
    BY <2>1
  <2>3. Matches(c, Fp[r.current]) = {r.current}
    BY <1>6, <2>2 DEF MatchSingle, Matches
  <2> QED
    BY <1>6, <2>1, <2>2, <2>3 DEF MatchSingle
<1>7. CASE EnsureTarget(c)
  <2>1. PICK r : r = Goto(req[c], IF IsBulk(c) THEN "next" ELSE "publish")
    OBVIOUS
  <2>2. /\ r.scanned = req[c].scanned /\ r.results = req[c].results /\ r.current = req[c].current
        /\ r.pc = IF IsBulk(c) THEN "next" ELSE "publish"
    BY <2>1
  <2>3. ~IsBulk(c) => Matches(c, Fp[r.current]) = {r.current}
    BY <1>7, <2>2 DEF EnsureTarget, ReadWhole, HasCurrent
  <2> QED
    BY <1>7, <2>1, <2>2, <2>3 DEF EnsureTarget
<1>8. CASE TargetInvalid(c)
  BY <1>8 DEF TargetInvalid
<1>9. CASE TargetMissing(c)
  BY <1>9 DEF TargetMissing, Lose
<1> QED
  BY <1>3, <1>4, <1>5, <1>6, <1>7, <1>8, <1>9 DEF Match, PrepareTarget

(* the turns of a batch, where what is absent is gone, *)
LEMMA WholeTakes ==
    ASSUME WholeInv, ReaderInv', NEW c \in Clients, Take(c)
    PROVE  WholeInv'
<1>1. req[c] \in Requests /\ IInv /\ ReadWhole(c)
  BY DEF WholeInv, ReaderInv, CustodyInv, IInv, TypeOK
<1>2. ASSUME NEW f \in Fps, NextAbsent(c, f) PROVE WholeInv'
  <2>1. PICK r : r = Record([req[c] EXCEPT !.todo = @ \ {f}], f, "not_found")
    OBVIOUS
  <2>2. At(c, "next") /\ Matches(c, f) = {} /\ Become(c, r) /\ UNCHANGED brokerVars
    BY <1>2, <2>1 DEF NextAbsent, Skip, Continue
  <2>3. /\ r.scanned = req[c].scanned /\ r.pc = "next"
        /\ \A g \in Fps : g # f => r.results[g] = req[c].results[g]
    BY <1>1, <2>1, <2>2 DEF Record, Requests, At
  <2>4. req'[c] = r /\ \A x \in Clients : x # c => req'[x] = req[x]
    BY <1>1, <2>2, BecomeOnly
  <2>5. UNCHANGED <<place, owner, wire, copies>>
    BY <2>2 DEF brokerVars, queueVars
  <2>6. QueueKeeps /\ \A x \in Clients : NoNewAck(x) /\ HoldsNoMore(x)
    BY <1>1, <2>5, QueueStepsKeep, QueueStepsAckNothing
  <2>7. \A m \in Backlog : m \in Msgs /\ Fp[m] \in Fps /\ (place[m] = "gone" \/ m \in Read(c))
    BY <1>1, <2>2, SizesAssumption, FpAssumption DEF Backlog, Msgs, ReadWhole, At, InLoop
  <2>8. \A m \in Backlog : Fp[m] = f => place[m] = "gone"
    BY <2>2, <2>7 DEF Matches
  <2>9. Read(c)' = Read(c)
    BY <2>3, <2>4 DEF Read
  <2>10. ReadWhole(c)'
    BY <1>1, <2>3, <2>4, <2>5, <2>6, <2>7, <2>8, <2>9
       DEF ReadWhole, HasCurrent, At, InLoop, Duplicated, NoNewAck, HoldsNoMore
  <2> QED
    BY <2>4, <2>5, <2>6, <2>10, WholeStep
<1>3. ASSUME NEW r, Continue(c, r), At(c, "next"), Onward(c, r) PROVE WholeInv'
  BY <1>3, WholeQuiet DEF Continue, brokerVars, queueVars
<1>4. ASSUME NEW f \in Fps, NextDuplicated(c, f) PROVE WholeInv'
  <2>1. PICK r : r = Record([req[c] EXCEPT !.todo = @ \ {f}], f, "skipped_duplicate")
    OBVIOUS
  <2>2. At(c, "next") /\ Continue(c, r)
    BY <1>4, <2>1 DEF NextDuplicated, Skip
  <2>3. Onward(c, r)
    BY <1>1, <2>1, <2>2 DEF Record, Requests, Onward, Chosen, InLoop, At
  <2> QED
    BY <1>3, <2>2, <2>3
<1>5. ASSUME NEW f \in Fps, NEW m \in Msgs, NextMessage(c, f, m) PROVE WholeInv'
  <2>1. PICK r : r = [req[c] EXCEPT !.todo = @ \ {f}, !.current = m,
                                    !.pc = IF Publishes(c) THEN "publish" ELSE "settle"]
    OBVIOUS
  <2>2. At(c, "next") /\ Continue(c, r) /\ Matches(c, f) = {m} /\ Fp[m] = f
    BY <1>5, <2>1 DEF NextMessage, Matches
  <2>3. Onward(c, r)
    BY <1>1, <2>1, <2>2 DEF Requests, Onward, Chosen, InLoop, At
  <2> QED
    BY <1>3, <2>2, <2>3
<1>6. CASE BatchEnds(c)
  <2>1. PICK r : r = Finish(req[c])
    OBVIOUS
  <2>2. At(c, "next") /\ Continue(c, r)
    BY <1>6, <2>1 DEF BatchEnds
  <2>3. Onward(c, r)
    BY <1>1, <2>1 DEF Finish, Requests, Onward, Chosen, InLoop
  <2> QED
    BY <1>3, <2>2, <2>3
<1> QED
  BY <1>2, <1>4, <1>5, <1>6 DEF Take

(* and the publish and the settle of a message that has no double. *)
LEMMA WholeActs ==
    ASSUME Calm, WholeInv, ReaderInv', NEW c \in Clients, Publish(c) \/ SettleOne(c)
    PROVE  WholeInv'
<1>1. req[c] \in Requests /\ CustodyInv /\ IInv /\ ReadWhole(c)
  BY DEF WholeInv, ReaderInv, CustodyInv, IInv, TypeOK
<1>2. req[c].pc \in InLoop /\ req[c].pc \in Chosen /\ HasCurrent(c) /\ ~Duplicated(req[c].current)
      /\ req[c].current \in Msgs /\ Matches(c, Fp[req[c].current]) = {req[c].current}
  <2>1. req[c].pc \in {"publish", "settle", "undeliver"}
    BY DEF Publish, PublishConfirmed, PublishUnroutable, PublishRefused, PublishLost, PublishRaises,
           SettleOne, Settle, SettleRaises, Undeliver, UndeliverRaises, At
  <2>2. HasCurrent(c) /\ req[c].pc \in InLoop /\ req[c].pc \in Chosen
    BY <2>1 DEF HasCurrent, InLoop, Chosen
  <2> QED
    BY <1>1, <2>2, CurrentIsSingle, InTheLoop DEF ReadWhole
<1>3. ASSUME NEW r, Become(c, r), copies' = copies, r.scanned = req[c].scanned,
             \A f \in Fps : r.results[f] = "not_found" => req[c].results[f] = "not_found",
             r.pc \in {"giveback", "undeliver"}, r.current = req[c].current \/ r.pc = "giveback",
             \/ UNCHANGED <<place, owner, wire>>
             \/ Requeue(HeldBy(c)) /\ wire' = wire
      PROVE  WholeInv'
  <2>1. Onward(c, r)
    BY <1>2, <1>3 DEF Onward, Chosen, InLoop
  <2> QED
    BY <1>3, <2>1, WholeQuiet
<1>4. CASE PublishConfirmed(c)
  <2>1. At(c, "publish") /\ Store(c) /\ UNCHANGED <<place, owner, wire>>
    BY <1>4 DEF PublishConfirmed, queueVars
  <2>2. PICK r : r = Goto(req[c], "settle")
    OBVIOUS
  <2>3. Become(c, r) /\ Onward(c, r)
    BY <1>1, <1>2, <1>4, <2>2 DEF PublishConfirmed, Goto, Requests, Onward, Chosen
  <2>4. QueueKeeps /\ \A x \in Clients : NoNewAck(x) /\ HoldsNoMore(x)
    BY <1>1, <2>1, QueueStepsKeep, QueueStepsAckNothing
  <2>5. /\ \A x \in Clients : x # c => copies'[x] = copies[x]
        /\ \A m \in Msgs : m # req[c].current => copies'[c][m] = copies[c][m]
    BY <1>1, <2>1, StoreIs
  <2>6. \A m \in Msgs : Duplicated(m) => copies'[c][m] = 0 /\ ~Acked(c, m)'
    BY <1>1, <1>2, <2>4, <2>5 DEF ReadWhole, NoNewAck
  <2> QED
    BY <2>3, <2>4, <2>5, <2>6, WholeOnward
<1>5. CASE PublishUnroutable(c)
  <2>1. PICK r : r = IF IsBulk(c) THEN Goto(req[c], "undeliver") ELSE Raise(req[c])
    OBVIOUS
  <2>2. /\ r.scanned = req[c].scanned /\ r.results = req[c].results /\ r.current = req[c].current
        /\ r.pc \in {"giveback", "undeliver"}
    BY <1>1, <2>1 DEF Goto, Raise, Requests
  <2> QED
    BY <1>3, <1>5, <2>1, <2>2 DEF PublishUnroutable, Continue, brokerVars, queueVars
<1>6. ASSUME At(c, "publish") \/ At(c, "settle"), NEW lost, lost = req[c] \/ lost = Lose(req[c]),
             NEW published \in BOOLEAN, Become(c, Broken(lost, published)), copies' = copies,
             \/ UNCHANGED <<place, owner, wire>>
             \/ Requeue(HeldBy(c)) /\ wire' = wire
      PROVE  WholeInv'
  <2>1. PICK r : r = Broken(lost, published)
    OBVIOUS
  <2>2. /\ r.pc = "giveback"
        /\ \A f \in Fps : r.results[f] = "not_found" => req[c].results[f] = "not_found"
    BY <1>1, <1>6, <2>1, BrokenIs
  <2>3. lost \in Requests /\ lost.scanned = req[c].scanned
    BY <1>1, <1>6 DEF Lose, Requests
  <2>4. r.scanned = req[c].scanned
    <3>1. PICK results : results = [f \in Fps |->
            IF f = Fp[lost.current]
            THEN IF published /\ lost.job.action = "copy" THEN "success" ELSE "failed"
            ELSE IF f \in lost.todo THEN "not_attempted" ELSE lost.results[f]]
      OBVIOUS
    <3>2. Halt(lost, published) = [lost EXCEPT !.results = results]
      BY <3>1 DEF Halt
    <3> QED
      BY <2>1, <2>3, <3>2 DEF Broken, Finish, Raise, Requests
  <2> QED
    BY <1>3, <1>6, <2>1, <2>2, <2>4
<1>7. CASE PublishRefused(c)
  BY <1>6, <1>7 DEF PublishRefused
<1>8. CASE PublishRaises(c)
  BY <1>6, <1>8 DEF PublishRaises, Continue, brokerVars, queueVars
<1>9. CASE SettleRaises(c)
  <2>0. Publishes(c) \in BOOLEAN
    BY DEF Publishes
  <2>1. PICK published \in BOOLEAN : published = Publishes(c)
    BY <2>0, Zenon
  <2>2. Become(c, Broken(req[c], published)) /\ At(c, "settle") /\ UNCHANGED <<place, owner, wire, copies>>
    BY <1>9, <2>1 DEF SettleRaises, Continue, brokerVars, queueVars
  <2> QED
    BY <1>6, <2>2
<1>10. CASE UndeliverRaises(c)
  <2>1. PICK r : r = Raise(req[c])
    OBVIOUS
  <2>2. r.scanned = req[c].scanned /\ r.results = req[c].results /\ r.pc = "giveback"
    BY <1>1, <2>1 DEF Raise, Requests
  <2> QED
    BY <1>3, <1>10, <2>1, <2>2 DEF UndeliverRaises, Continue, brokerVars, queueVars
<1>11. ~PublishLost(c)
  BY DEF PublishLost, Calm
<1>12. CASE Settle(c) \/ Undeliver(c)
  <2>1. PICK kind \in {"ack", "nack"} : Write(c, kind, req[c].current)
    BY <1>12 DEF Settle, Undeliver
  <2>2. UNCHANGED <<copies, place, owner>>
    BY <2>1 DEF Write, queueVars
  <2>3. PICK status \in {"success", "failed"} :
           LET s == Record(Process(req[c], req[c].current), Fp[req[c].current], status)
           IN  Become(c, Goto(s, "next")) \/ Become(c, Finish(s))
    BY <1>12 DEF Settle, Undeliver
  <2>4. PICK settled : settled = Record(Process(req[c], req[c].current), Fp[req[c].current], status)
    OBVIOUS
  <2>5. Become(c, Goto(settled, "next")) \/ Become(c, Finish(settled))
    BY <2>3, <2>4
  <2>6. PICK f \in Fps : f = Fp[req[c].current]
    BY <1>2, FpAssumption
  <2>7. /\ settled \in Requests /\ settled.scanned = req[c].scanned
        /\ \A g \in Fps : settled.results[g] = IF g = f THEN status ELSE req[c].results[g]
    BY <1>1, <1>2, <2>4, <2>6 DEF Record, Process, Requests, Statuses
  <2>8. PICK r \in {Goto(settled, "next"), Finish(settled)} : Become(c, r)
    BY <2>5
  <2>9. r.scanned = settled.scanned /\ r.results = settled.results /\ r.pc \in {"next", "giveback"}
    BY <2>7, <2>8 DEF Goto, Finish, Requests
  <2>10. Onward(c, r)
    BY <1>2, <2>7, <2>9 DEF Onward, Chosen, InLoop
  <2>11. QueueKeeps /\ \A x \in Clients : HoldsNoMore(x)
    BY <1>1, <2>2, QueueStepsKeep
  <2>12. /\ \A x \in Clients : x # c => NoNewAck(x)
         /\ \A m \in Msgs : Acked(c, m)' => Acked(c, m) \/ m = req[c].current
    BY <1>1, <1>2, <2>1, WriteAcks
  <2>13. \A m \in Msgs : Duplicated(m) => copies'[c][m] = 0 /\ ~Acked(c, m)'
    BY <1>1, <1>2, <2>2, <2>12 DEF ReadWhole
  <2> QED
    BY <2>2, <2>8, <2>10, <2>11, <2>12, <2>13, WholeOnward
<1> QED
  BY <1>4, <1>5, <1>7, <1>8, <1>9, <1>10, <1>11, <1>12 DEF Publish, SettleOne

(* The broker, and messages that come in. *)
LEMMA WholeOthers ==
    ASSUME WholeInv, ReaderInv',
           \/ \E m \in Msgs : Arrive(m)
           \/ \E c \in Clients : Broker(c)
           \/ UNCHANGED vars
    PROVE  WholeInv'
<1>1. CustodyInv /\ IInv
  BY DEF WholeInv, ReaderInv, CustodyInv
<1>2. ASSUME UNCHANGED <<copies, req>>, QueueKeeps, \A x \in Clients : NoNewAck(x) /\ HoldsNoMore(x)
      PROVE  WholeInv'
  <2>1. \A m \in Backlog : m \in Msgs
    BY SizesAssumption DEF Backlog, Msgs
  <2> QED
    BY <1>2, <2>1, WholeFrame DEF WholeInv, QueueKeeps
<1>3. ASSUME NEW m \in Msgs, Arrive(m) PROVE WholeInv'
  BY <1>1, <1>2, <1>3, QueueStepsAckNothing, QueueStepsKeep DEF Arrive
<1>4. ASSUME NEW c \in Clients, BrokerSettle(c) PROVE WholeInv'
  BY <1>1, <1>2, <1>4, BrokerAcksNothing, QueueStepsKeep DEF BrokerSettle
<1>5. ASSUME NEW c \in Clients, BrokerCleanup(c) PROVE WholeInv'
  BY <1>1, <1>2, <1>5, QueueStepsAckNothing, QueueStepsKeep DEF BrokerCleanup
<1>6. CASE UNCHANGED vars
  BY <1>1, <1>2, <1>6, QueueStepsAckNothing, QueueStepsKeep DEF vars, brokerVars, queueVars
<1> QED
  BY <1>3, <1>4, <1>5, <1>6 DEF Broker

LEMMA InitIsWhole == Init => WholeInv
<1> SUFFICES ASSUME Init PROVE WholeInv
  OBVIOUS
<1>1. ASSUME NEW c \in Clients PROVE ReadWhole(c)
  <2>1. \A m \in Msgs : copies[c][m] = 0 /\ ~Acked(c, m) /\ ~Holds(c, m)
    BY DEF Init, Acked, Holds
  <2>2. req[c].pc = "idle" /\ \A f \in Fps : req[c].results[f] = "none"
    BY DEF Init, NewRequest
  <2>3. \A m \in Backlog : Fp[m] \in Fps
    BY SizesAssumption, FpAssumption DEF Backlog, Msgs
  <2> QED
    BY <2>1, <2>2, <2>3 DEF ReadWhole, HasCurrent, InLoop, At
<1>2. \A m \in Backlog : place[m] # "absent"
  BY SizesAssumption DEF Init, Backlog, Msgs
<1> QED
  BY <1>1, <1>2, InitIsReader DEF WholeInv

LEMMA NextIsWhole == Calm /\ OneLock /\ Quorum /\ WholeInv /\ [Next]_vars => WholeInv'
<1> SUFFICES ASSUME Calm, OneLock, Quorum, WholeInv, [Next]_vars PROVE WholeInv'
  OBVIOUS
<1>1. ReaderInv'
  BY NextIsReader DEF WholeInv
<1>2. ASSUME NEW c \in Clients, Step(c) PROVE WholeInv'
  BY <1>1, <1>2, WholeAround, WholeFetch, WholeChooses, WholeTakes, WholeActs DEF Step
<1>3. /\ \A c \in Clients : ~AcquireFails(c) /\ ~LoseSharedLock(c) /\ ~ConnectionLoss(c) /\ ~PgCleanup(c)
      /\ \A r \in Replicas : ~Crash(r)
  BY DEF Calm, AcquireFails, LoseSharedLock, ConnectionLoss, Crash, PgCleanup, WholeInv, ReaderInv, Exclusive
<1> QED
  BY <1>1, <1>2, <1>3, WholeAround, WholeOthers DEF Next, Terminated

(* On a quorum queue read whole under the lock, a not_found is right: a        *)
(* message that had the fingerprint from the start was removed.                *)
THEOREM AbsenceIsTrue == Calm /\ OneLock /\ Quorum => (Spec => []NotFoundIsTrue)
<1> SUFFICES ASSUME Calm, OneLock, Quorum PROVE Spec => []NotFoundIsTrue
  OBVIOUS
<1>1. WholeInv => NotFoundIsTrue
  BY DEF WholeInv, ReadWhole, NotFoundIsTrue
<1>2. WholeInv /\ [Next]_vars => WholeInv'
  BY NextIsWhole
<1> QED
  BY <1>1, <1>2, InitIsWhole, PTL DEF Spec

(* There, too, ambiguity blocks mutation: of two messages that share a         *)
(* fingerprint from the start neither is copied or removed, whichever requests *)
(* come in.  For the one that is left would be the proof that the other went.  *)
THEOREM AmbiguousStay == Calm /\ OneLock /\ Quorum => (Spec => []DuplicatesUntouched)
<1> SUFFICES ASSUME Calm, OneLock, Quorum PROVE Spec => []DuplicatesUntouched
  OBVIOUS
<1>1. ASSUME WholeInv PROVE DuplicatesUntouched
  <2>1. ASSUME NEW x \in Backlog, Duplicated(x)
        PROVE  place[x] # "gone" /\ \A c \in Clients : copies[c][x] = 0
    <3>1. x \in Msgs
      BY SizesAssumption DEF Backlog, Msgs
    <3>2. \A c \in Clients : copies[c][x] = 0 /\ ~Acked(c, x)
      BY <1>1, <2>1, <3>1 DEF WholeInv, ReadWhole
    <3>3. place[x] = "gone" => owner[x] \in Clients
      BY <1>1, <3>1 DEF WholeInv, ReaderInv, CustodyInv, IInv, NoLoss
    <3> QED
      BY <3>2, <3>3 DEF Acked
  <2> QED
    BY <2>1 DEF DuplicatesUntouched, Duplicated
<1>2. WholeInv /\ [Next]_vars => WholeInv'
  BY NextIsWhole
<1> QED
  BY <1>1, <1>2, InitIsWhole, PTL DEF Spec

-------------------------------------------------------------------------------
(* The order of a quorum queue. *)

(* No request copies and keeps, and no batch meets a target it cannot be routed *)
(* to: there a message is returned before those that were read ahead of it      *)
(* (message_operator.py:118).                                                   *)
ReturnsInOrder ==
    /\ \A j \in Jobs : j.action # "copy"
    /\ "unroutable" \notin Faults \/ \A j \in Jobs : j.kind = "bulk" => j.action \notin Publishing

(* Every message has a place of its own in the order. *)
RanksDiffer ==
    /\ rank \in [Msgs -> 1..N]
    /\ \A x, y \in Msgs : rank[x] = rank[y] => x = y

(* The messages of the backlog are ready in their order. *)
InOldOrder ==
    \A x, y \in Backlog : x < y /\ place[x] = "ready" /\ place[y] = "ready" => rank[x] < rank[y]

(* The ready messages up to the last of the backlog. *)
Upto == {m \in Ready : \E x \in Backlog : x \in Ready /\ rank[m] <= rank[x]}

NackAt(c, i, m) == i \in DOMAIN wire[c] /\ wire[c][i] = [kind |-> "nack", msg |-> m]
Nacked(c, m) == \E i \in DOMAIN wire[c] : NackAt(c, i, m)

(* What c has not given back: what it holds, and what it has yet to read. *)
Kept(c, m) == Holds(c, m) \/ (place[m] = "ready" /\ m \notin Read(c))
(* What c gave back. *)
Returned(c, m) == place[m] = "ready" /\ m \in Read(c)

(* How far the reader came. *)
ReadsAhead(c) ==
    /\ req[c].pc = "fetch" /\ Upto # {} => Cardinality(Upto) + Len(req[c].scanned) <= MaxScan
    /\ req[c].pc # "fetch" /\ Read(c) # {} => \A m \in Backlog : place[m] = "gone" \/ m \in Read(c)
    /\ \A i, j \in DOMAIN req[c].scanned :
          i < j /\ req[c].scanned[i] \in Backlog /\ req[c].scanned[j] \in Backlog =>
             req[c].scanned[i] < req[c].scanned[j]
    /\ \A x, y \in Backlog : place[x] = "ready" /\ x \notin Read(c) /\ y \in Read(c) => y < x

(* What it gave back, what is on its way, and what it still has, in this order. *)
GivesBack(c) ==
    /\ \A m \in Msgs : Holds(c, m) /\ m \in req[c].processed => OnWire(c, m)
    /\ req[c].pc \notin {"giveback", "close"} =>
          \A m \in Read(c) : place[m] \in {"unacked", "gone"} /\ ~Nacked(c, m)
    /\ \A x, y \in Backlog : x < y /\ Kept(c, x) /\ Kept(c, y) => rank[x] < rank[y]
    /\ \A x, y \in Backlog : x < y /\ Returned(c, x) /\ Returned(c, y) => rank[x] < rank[y]
    /\ \A x, y \in Backlog : Returned(c, x) /\ Holds(c, y) /\ ~Acked(c, y) => x < y
    /\ \A x, y \in Backlog : \A i, k \in DOMAIN wire[c] : NackAt(c, i, x) /\ NackAt(c, k, y) /\ i < k => x < y
    /\ \A x, y \in Backlog : Nacked(c, x) /\ Holds(c, y) /\ y \notin req[c].processed => x < y

OrderInv ==
    /\ WholeInv
    /\ RanksDiffer
    /\ (\A c \in Clients : req[c].chan # "open") => InOldOrder
    /\ \A c \in Clients : /\ ~At(c, "undeliver")
                          /\ req[c].chan = "open" => ReadsAhead(c) /\ GivesBack(c)

(* As many different numbers as fit between two. *)
LEMMA DifferentNumbers ==
    ASSUME RanksDiffer, NEW S \in SUBSET Msgs, NEW lo \in Int, NEW hi \in Int, lo <= hi + 1,
           \A s \in S : lo <= rank[s] /\ rank[s] <= hi
    PROVE  IsFiniteSet(S) /\ Cardinality(S) \in Nat /\ Cardinality(S) <= hi - lo + 1
<1>1. IsFiniteSet(lo..hi) /\ Cardinality(lo..hi) = hi - lo + 1
  BY FS_Interval
<1>2. \A s \in S : rank[s] \in lo..hi
  BY SizesAssumption DEF RanksDiffer
<1> DEFINE f == [s \in S |-> rank[s]]
<1>3. f \in Injection(S, lo..hi)
  BY <1>2 DEF Injection, IsInjective, RanksDiffer
<1> QED
  BY <1>1, <1>3, FS_Injection, FS_CardinalityType

(* How many of S come before a message. *)
LEMMA BehindCounts ==
    ASSUME RanksDiffer, NEW S \in SUBSET Msgs
    PROVE  /\ IsFiniteSet(S) /\ Cardinality(S) \in 0..N
           /\ \A m \in Msgs : /\ Behind(S, m) \in Nat
                              /\ Behind(S, m) <= Cardinality(S)
                              /\ m \in S => Behind(S, m) < Cardinality(S)
                              /\ Behind(S, m) <= rank[m] - 1
                              /\ m \notin S => Cardinality(S) - Behind(S, m) <= N - rank[m]
           /\ \A x, y \in Msgs : rank[x] < rank[y] =>
                 /\ Behind(S, x) <= Behind(S, y)
                 /\ x \in S => Behind(S, x) < Behind(S, y)
                 /\ x \notin S => Behind(S, y) - Behind(S, x) < rank[y] - rank[x]
<1>1. N \in Nat /\ \A m \in Msgs : rank[m] \in 1..N
  BY SizesAssumption DEF RanksDiffer
<1>2. IsFiniteSet(S) /\ Cardinality(S) \in 0..N
  BY <1>1, DifferentNumbers
<1> DEFINE Before(m) == {x \in S : rank[x] < rank[m]}
<1>3. ASSUME NEW m \in Msgs
      PROVE  /\ IsFiniteSet(Before(m)) /\ Cardinality(Before(m)) \in Nat
             /\ Cardinality(Before(m)) <= Cardinality(S)
             /\ Cardinality(Before(m)) <= rank[m] - 1
  <2>1. Before(m) \in SUBSET S
    OBVIOUS
  <2>2. \A s \in Before(m) : 1 <= rank[s] /\ rank[s] <= rank[m] - 1
    BY <1>1
  <2>3. Cardinality(Before(m)) <= rank[m] - 1
    <3>1. rank[m] \in Int /\ 1 <= (rank[m] - 1) + 1 /\ Before(m) \in SUBSET Msgs
      BY <1>1
    <3> HIDE DEF Before
    <3> QED
      BY <2>2, <3>1, DifferentNumbers
  <2> QED
    BY <1>2, <2>1, <2>3, FS_Subset, FS_CardinalityType
<1>4. ASSUME NEW m \in Msgs, m \in S PROVE Cardinality(Before(m)) < Cardinality(S)
  <2>1. Before(m) \in SUBSET S /\ Before(m) # S
    BY <1>1, <1>4
  <2> QED
    BY <1>2, <1>3, <2>1, FS_Subset
<1>5. ASSUME NEW m \in Msgs, m \notin S
      PROVE  Cardinality(S) - Cardinality(Before(m)) <= N - rank[m]
  <2> DEFINE After == {x \in S : rank[x] > rank[m]}
  <2>1. S = Before(m) \cup After /\ Before(m) \cap After = {}
    BY <1>1, <1>5 DEF RanksDiffer
  <2>2. /\ After \in SUBSET Msgs /\ rank[m] + 1 <= N + 1
        /\ \A s \in After : rank[m] + 1 <= rank[s] /\ rank[s] <= N
    BY <1>1
  <2> HIDE DEF After, Before
  <2>3. IsFiniteSet(After) /\ Cardinality(After) \in Nat /\ Cardinality(After) <= N - rank[m]
    BY <1>1, <2>2, DifferentNumbers
  <2>4. Cardinality(S) = Cardinality(Before(m)) + Cardinality(After)
    BY <1>3, <2>1, <2>3, FS_Union, FS_EmptySet
  <2> QED
    BY <1>1, <1>3, <2>3, <2>4
<1>6. ASSUME NEW x \in Msgs, NEW y \in Msgs, rank[x] < rank[y]
      PROVE  /\ Cardinality(Before(x)) <= Cardinality(Before(y))
             /\ x \in S => Cardinality(Before(x)) < Cardinality(Before(y))
             /\ x \notin S => Cardinality(Before(y)) - Cardinality(Before(x)) < rank[y] - rank[x]
  <2>1. Before(x) \in SUBSET Before(y)
    BY <1>1, <1>6
  <2>2. x \in S => x \in Before(y) /\ x \notin Before(x)
    BY <1>1, <1>6
  <2> DEFINE Between == {s \in S : rank[x] < rank[s] /\ rank[s] < rank[y]}
  <2>3. x \notin S => Before(y) = Before(x) \cup Between /\ Before(x) \cap Between = {}
    BY <1>1, <1>6 DEF RanksDiffer
  <2>4. /\ Between \in SUBSET Msgs /\ rank[x] + 1 <= (rank[y] - 1) + 1
        /\ \A s \in Between : rank[x] + 1 <= rank[s] /\ rank[s] <= rank[y] - 1
    BY <1>1, <1>6
  <2> HIDE DEF Between, Before
  <2>5. IsFiniteSet(Between) /\ Cardinality(Between) \in Nat /\ Cardinality(Between) <= rank[y] - 1 - rank[x]
    BY <1>1, <2>4, DifferentNumbers
  <2>6. x \notin S => Cardinality(Before(y)) = Cardinality(Before(x)) + Cardinality(Between)
    BY <1>3, <2>3, <2>5, FS_Union, FS_EmptySet
  <2>7. Cardinality(Before(x)) <= Cardinality(Before(y))
        /\ (x \in S => Cardinality(Before(x)) < Cardinality(Before(y)))
    BY <1>3, <2>1, <2>2, FS_Subset
  <2> QED
    BY <1>1, <1>3, <2>5, <2>6, <2>7
<1>7. \A m : Behind(S, m) = Cardinality(Before(m))
  BY DEF Behind
<1> HIDE DEF Before
<1> QED
  BY <1>2, <1>3, <1>4, <1>5, <1>6, <1>7

(* Those that go to the back keep their order, as do those that stay. *)
LEMMA BackKeepsOrder ==
    ASSUME RanksDiffer, NEW S \in SUBSET Msgs, rank' = MovedToBack(S)
    PROVE  /\ RanksDiffer'
           /\ \A x, y \in Msgs : rank[x] < rank[y] /\ (x \in S <=> y \in S) => rank'[x] < rank'[y]
           /\ \A x \in Msgs \ S, y \in S : rank'[x] < rank'[y]
<1>1. N \in Nat /\ \A m \in Msgs : rank[m] \in 1..N
  BY SizesAssumption DEF RanksDiffer
<1>2. PICK n \in 0..N : n = Cardinality(S)
  BY BehindCounts
<1>3. \A m \in Msgs : rank'[m] = IF m \in S THEN N - n + Behind(S, m) + 1 ELSE rank[m] - Behind(S, m)
  BY <1>2 DEF MovedToBack
<1>4. \A m \in Msgs : /\ Behind(S, m) \in Nat
                      /\ m \in S => Behind(S, m) < n
                      /\ Behind(S, m) <= rank[m] - 1
                      /\ m \notin S => n - Behind(S, m) <= N - rank[m]
  BY <1>2, BehindCounts
<1>5. \A x, y \in Msgs : rank[x] < rank[y] =>
                 /\ x \in S => Behind(S, x) < Behind(S, y)
                 /\ x \notin S => Behind(S, y) - Behind(S, x) < rank[y] - rank[x]
  BY BehindCounts
<1>6. \A m \in Msgs : rank'[m] \in 1..N
  BY <1>1, <1>3, <1>4
<1>7. \A x, y \in Msgs : rank[x] < rank[y] /\ (x \in S <=> y \in S) => rank'[x] < rank'[y]
  BY <1>1, <1>3, <1>4, <1>5
<1>8. \A x \in Msgs \ S, y \in S : rank'[x] < rank'[y]
  <2> SUFFICES ASSUME NEW x \in Msgs, x \notin S, NEW y \in Msgs, y \in S PROVE rank'[x] < rank'[y]
    OBVIOUS
  <2>1. rank'[x] <= N - n
    BY <1>1, <1>3, <1>4
  <2>2. rank'[y] > N - n
    BY <1>1, <1>3, <1>4
  <2> QED
    BY <1>1, <1>6, <2>1, <2>2
<1>9. \A x, y \in Msgs : rank'[x] = rank'[y] => x = y
  <2> SUFFICES ASSUME NEW x \in Msgs, NEW y \in Msgs, x # y PROVE rank'[x] # rank'[y]
    OBVIOUS
  <2>1. rank[x] < rank[y] \/ rank[y] < rank[x]
    BY <1>1 DEF RanksDiffer
  <2>2. rank'[x] < rank'[y] \/ rank'[y] < rank'[x]
    BY <1>7, <1>8, <2>1
  <2> QED
    BY <1>6, <2>2
<1>10. rank' \in [Msgs -> 1..N]
  <2>1. rank' = [m \in Msgs |-> rank'[m]]
    BY DEF MovedToBack
  <2> QED
    BY <1>6, <2>1
<1> QED
  BY <1>7, <1>8, <1>9, <1>10 DEF RanksDiffer

(* Only an open channel holds messages, has read them, and has frames under way. *)
LEMMA ReaderFacts ==
    ASSUME WholeInv, NEW c \in Clients
    PROVE  /\ IInv /\ ReaderInv /\ req[c] \in Requests /\ req[c].scanned \in Seq(Msgs)
           /\ \A m \in Backlog : m \in Msgs /\ m \in Int
           /\ \A m \in Msgs : Holds(c, m) => req[c].chan = "open" /\ m \in Read(c)
           /\ req[c].chan # "open" => wire[c] = <<>> /\ HeldBy(c) = {}
<1>1. /\ IInv /\ ReaderInv /\ req[c] \in Requests /\ wire[c] \in Seq(Frames)
      /\ \A m \in Msgs : HeldByReader(m)
  BY DEF WholeInv, ReaderInv, CustodyInv, IInv, TypeOK
<1>2. \A m \in Backlog : m \in Msgs /\ m \in Int
  BY SizesAssumption DEF Backlog, Msgs
<1>3. \A m \in Msgs : Holds(c, m) => req[c].chan = "open" /\ m \in Read(c)
  BY <1>1 DEF WholeInv, ReadWhole, Holds, HeldByReader
<1>4. ASSUME wire[c] # <<>> PROVE req[c].chan = "open"
  <2>1. 1 \in DOMAIN wire[c]
    BY <1>1, <1>4
  <2>2. wire[c][1].msg \in Msgs /\ Holds(c, wire[c][1].msg)
    BY <1>1, <2>1, WireType DEF IInv, ClientInv, WireSafe
  <2> QED
    BY <1>3, <2>2
<1> QED
  BY <1>1, <1>2, <1>3, <1>4 DEF HeldBy, Holds, Requests

LEMMA OneOpen ==
    ASSUME OneLock, WholeInv, NEW c \in Clients, NEW d \in Clients,
           req[c].chan = "open", req[d].chan = "open"
    PROVE  c = d
<1>1. ReaderInv /\ req[c].pc \in Locked /\ req[d].pc \in Locked
  BY DEF WholeInv, ReaderInv, Exclusive
<1> QED
  BY <1>1, LocksExclude

(* A nack on its way is of a message that is held, and not acked. *)
LEMMA NackHolds ==
    ASSUME IInv, NEW c \in Clients, NEW m \in Msgs, Nacked(c, m)
    PROVE  Holds(c, m) /\ OnWire(c, m) /\ ~Acked(c, m)
<1>1. PICK i \in DOMAIN wire[c] : NackAt(c, i, m)
  BY DEF Nacked
<1>2. wire[c][i].msg = m /\ wire[c][i].kind = "nack"
  BY <1>1 DEF NackAt
<1>3. Holds(c, m) /\ \A k \in DOMAIN wire[c] : k # i => wire[c][k].msg # m
  BY <1>1, <1>2 DEF IInv, ClientInv, WireSafe, NackAt
<1> QED
  BY <1>1, <1>2, <1>3 DEF OnWire, Acked, Holds, NackAt

(* A request keeps its place while the queue and its wire stay as they are. *)
LEMMA SameView ==
    ASSUME NEW x \in Clients, ReadsAhead(x), GivesBack(x),
           UNCHANGED <<place, rank, owner>>, wire'[x] = wire[x],
           req'[x].scanned = req[x].scanned, req'[x].processed = req[x].processed,
           req'[x].pc = "fetch" => req[x].pc = "fetch",
           req'[x].pc \notin {"giveback", "close"} => req[x].pc \notin {"giveback", "close"},
           req[x].pc = "fetch" /\ req'[x].pc # "fetch" =>
               \A m \in Backlog : place'[m] = "gone" \/ m \in Read(x)'
    PROVE  ReadsAhead(x)' /\ GivesBack(x)'
<1>1. /\ Read(x)' = Read(x) /\ Upto' = Upto
      /\ \A m : (Holds(x, m)' <=> Holds(x, m)) /\ (OnWire(x, m)' <=> OnWire(x, m))
      /\ \A m : Acked(x, m)' <=> Acked(x, m)
      /\ \A m : (Nacked(x, m)' <=> Nacked(x, m)) /\ \A i : NackAt(x, i, m)' <=> NackAt(x, i, m)
  BY DEF Read, Upto, Ready, Holds, OnWire, Acked, Nacked, NackAt
<1>2. \A m : (Kept(x, m)' <=> Kept(x, m)) /\ (Returned(x, m)' <=> Returned(x, m))
  BY <1>1 DEF Kept, Returned
<1>3. ReadsAhead(x)'
  BY <1>1 DEF ReadsAhead
<1>4. GivesBack(x)'
  BY <1>1, <1>2 DEF GivesBack
<1> QED
  BY <1>3, <1>4

(* A step of c that leaves the queue and its wire as they are. *)
LEMMA OrderQuiet ==
    ASSUME OneLock, OrderInv, WholeInv', NEW c \in Clients, NEW r, Become(c, r),
           UNCHANGED <<place, rank, owner, wire>>,
           r.scanned = req[c].scanned, r.processed = req[c].processed, r.chan = req[c].chan,
           r.pc # "undeliver",
           r.chan = "open" => /\ r.pc = "fetch" => req[c].pc = "fetch"
                              /\ r.pc \notin {"giveback", "close"} => req[c].pc \notin {"giveback", "close"}
                              /\ req[c].pc = "fetch" => r.pc \in {"fetch", "match"}
    PROVE  OrderInv'
<1>1. WholeInv
  BY DEF OrderInv
<1>2. req'[c] = r /\ \A x \in Clients : x # c => req'[x] = req[x]
  BY <1>1, ReaderFacts, BecomeOnly
<1>3. \A x \in Clients : ~At(x, "undeliver")'
  BY <1>2 DEF OrderInv, At
<1>4. (\A x \in Clients : req'[x].chan # "open") => InOldOrder'
  BY <1>2 DEF OrderInv, InOldOrder
<1>5. ASSUME NEW x \in Clients, req'[x].chan = "open" PROVE ReadsAhead(x)' /\ GivesBack(x)'
  <2>1. req[x].chan = "open" /\ ReadsAhead(x) /\ GivesBack(x)
    BY <1>2, <1>5 DEF OrderInv
  <2>2. ASSUME req[x].pc = "fetch", req'[x].pc # "fetch"
        PROVE  \A m \in Backlog : place'[m] = "gone" \/ m \in Read(x)'
    <3>1. x = c /\ req'[x].pc = "match"
      BY <1>2, <1>5, <2>2
    <3> QED
      BY <3>1 DEF WholeInv, ReadWhole
  <2> QED
    BY <1>2, <1>5, <2>1, <2>2, SameView
<1>6. RanksDiffer'
  BY DEF OrderInv, RanksDiffer
<1> QED
  BY <1>3, <1>4, <1>5, <1>6 DEF OrderInv

(* The channel is opened: everything is ready, in its order. *)
LEMMA OrderOpens ==
    ASSUME OneLock, OrderInv, WholeInv', NEW c \in Clients, NEW r, Become(c, r), At(c, "open"),
           UNCHANGED <<place, rank, owner, wire>>,
           r.scanned = req[c].scanned, r.processed = req[c].processed, r.chan = "open",
           r.pc \in {"fetch", "giveback"}, r.pc = "fetch" => Cardinality(Ready) <= MaxScan
    PROVE  OrderInv'
<1>1. WholeInv /\ IInv /\ ReaderInv /\ req[c] \in Requests
  BY ReaderFacts DEF OrderInv
<1>2. req'[c] = r /\ \A x \in Clients : x # c => req'[x] = req[x]
  BY <1>1, BecomeOnly
<1>3. req[c].chan # "open" /\ req[c].scanned = <<>>
  BY <1>1 DEF ReaderInv, Exclusive, At, Locked, IInv, ClientInv, Progress, BeforeOpen
<1>4. \A x \in Clients : req[x].chan # "open"
  <2> SUFFICES ASSUME NEW x \in Clients, req[x].chan = "open" PROVE FALSE
    OBVIOUS
  <2>1. req[x].pc \in Locked /\ req[c].pc \in Locked
    BY <1>1 DEF ReaderInv, Exclusive, At, Locked
  <2> QED
    BY <1>1, <1>3, <2>1, LocksExclude
<1>5. InOldOrder /\ wire[c] = <<>> /\ \A m \in Msgs : ~Holds(c, m)
  BY <1>1, <1>3, <1>4, ReaderFacts DEF OrderInv
<1>6. Read(c)' = {} /\ \A m \in Msgs : ~Holds(c, m)'
  BY <1>2, <1>3, <1>5 DEF Read, Holds
<1>7. \A m \in Backlog : m \in Msgs
  BY <1>1, ReaderFacts
<1>8. ReadsAhead(c)'
  <2>1. ASSUME r.pc = "fetch" PROVE Cardinality(Upto') + Len(req'[c].scanned) <= MaxScan
    <3>1. Upto' \in SUBSET Ready /\ IsFiniteSet(Msgs)
      BY SizesAssumption, FS_Interval DEF Upto, Ready, Msgs
    <3>2. IsFiniteSet(Ready) /\ Cardinality(Ready) \in Nat
      BY <3>1, FS_Subset, FS_CardinalityType DEF Ready
    <3>3. Cardinality(Upto') <= Cardinality(Ready) /\ Cardinality(Upto') \in Nat
      BY <3>1, <3>2, FS_Subset, FS_CardinalityType
    <3>4. Len(req'[c].scanned) = 0
      BY <1>2, <1>3
    <3> QED
      BY <2>1, <3>2, <3>3, <3>4, SizesAssumption
  <2> QED
    BY <1>2, <1>3, <1>6, <2>1 DEF ReadsAhead
<1>9. GivesBack(c)'
  <2>1. \A m : ~Nacked(c, m)' /\ \A i : ~NackAt(c, i, m)'
    BY <1>5 DEF Nacked, NackAt
  <2> QED
    BY <1>5, <1>6, <1>7, <2>1 DEF GivesBack, Kept, Returned, InOldOrder
<1>10. \A x \in Clients : ~At(x, "undeliver")'
  BY <1>2 DEF OrderInv, At
<1> QED
  BY <1>2, <1>4, <1>8, <1>9, <1>10 DEF OrderInv, RanksDiffer

(* A read takes the head of the queue, which comes after all that c has. *)
LEMMA OrderReads ==
    ASSUME OneLock, Quorum, OrderInv, WholeInv', NEW c \in Clients, NEW m \in Msgs, Get(c, m),
           NEW r, Become(c, r), r.scanned = Append(req[c].scanned, m),
           r.processed = req[c].processed, r.chan = req[c].chan,
           r.pc = "fetch" \/ (r.pc = "giveback" /\ Len(req[c].scanned) + 1 > MaxScan)
    PROVE  OrderInv'
<1>1. /\ WholeInv /\ IInv /\ ReaderInv /\ req[c].scanned \in Seq(Msgs)
      /\ \A x \in Backlog : x \in Msgs /\ x \in Int
  BY ReaderFacts DEF OrderInv
<1>2. req'[c] = r /\ \A x \in Clients : x # c => req'[x] = req[x]
  BY <1>1, BecomeOnly
<1>3. /\ req[c].chan = "open" /\ req[c].pc = "fetch" /\ wire[c] = <<>> /\ IsHead(m)
      /\ UNCHANGED <<rank, wire>>
      /\ \A y \in Msgs : /\ place'[y] = IF y = m THEN "unacked" ELSE place[y]
                         /\ owner'[y] = IF y = m THEN c ELSE owner[y]
  BY <1>1 DEF Get, CanCall, At, Deliver, IInv, TypeOK
<1>4. ReadsAhead(c) /\ GivesBack(c)
  BY <1>3 DEF OrderInv
<1>5. m \in Ready /\ place[m] = "ready" /\ m \notin Read(c) /\ \A y \in Ready : rank[m] <= rank[y]
  BY <1>3, <1>4 DEF IsHead, Ready, GivesBack
<1>6. /\ Len(req'[c].scanned) = Len(req[c].scanned) + 1
      /\ DOMAIN req'[c].scanned = DOMAIN req[c].scanned \cup {Len(req[c].scanned) + 1}
      /\ req'[c].scanned[Len(req[c].scanned) + 1] = m
      /\ \A i \in DOMAIN req[c].scanned : /\ req'[c].scanned[i] = req[c].scanned[i]
                                          /\ i \in Int /\ i <= Len(req[c].scanned)
      /\ Len(req[c].scanned) \in Nat
  BY <1>1, <1>2
<1>7. Read(c)' = Read(c) \cup {m}
  BY <1>6 DEF Read
<1>8. \A y \in Msgs : /\ Holds(c, y)' <=> (Holds(c, y) \/ y = m)
                      /\ Kept(c, y)' <=> Kept(c, y)
                      /\ place'[y] = "ready" <=> place[y] = "ready" /\ y # m
                      /\ ~Returned(c, y)'
  BY <1>3, <1>4, <1>5, <1>7 DEF Holds, Kept, Returned, GivesBack
<1>9. IsFiniteSet(Upto) /\ Upto' \subseteq Upto \ {m} /\ (Upto' # {} => m \in Upto)
  <2>1. IsFiniteSet(Msgs) /\ Upto \in SUBSET Msgs
    BY SizesAssumption, FS_Interval DEF Upto, Ready, Msgs
  <2>2. Ready' = Ready \ {m}
    BY <1>8 DEF Ready
  <2> QED
    BY <1>3, <1>5, <2>1, <2>2, FS_Subset DEF Upto
<1>10. Upto' # {} => /\ Cardinality(Upto') \in Nat /\ Cardinality(Upto') >= 1
                     /\ Cardinality(Upto') + Len(req'[c].scanned) <= MaxScan
  <2> SUFFICES ASSUME Upto' # {}
               PROVE  /\ Cardinality(Upto') \in Nat /\ Cardinality(Upto') >= 1
                      /\ Cardinality(Upto') + Len(req'[c].scanned) <= MaxScan
    OBVIOUS
  <2>1. IsFiniteSet(Upto \ {m}) /\ Cardinality(Upto \ {m}) = Cardinality(Upto) - 1
    BY <1>9, FS_RemoveElement
  <2>2. /\ IsFiniteSet(Upto') /\ Cardinality(Upto') \in Nat /\ Cardinality(Upto) \in Nat
        /\ Cardinality(Upto') <= Cardinality(Upto) - 1
    BY <1>9, <2>1, FS_Subset, FS_CardinalityType
  <2>3. Cardinality(Upto') # 0
    BY <2>2, FS_EmptySet
  <2>4. Cardinality(Upto) + Len(req[c].scanned) <= MaxScan
    BY <1>3, <1>4, <1>9 DEF ReadsAhead
  <2> QED
    BY <1>6, <2>2, <2>3, <2>4, SizesAssumption
<1>11. ReadsAhead(c)'
  <2>1. ASSUME r.pc = "giveback", NEW x \in Backlog PROVE place'[x] = "gone" \/ x \in Read(c)'
    <3>1. Upto' = {}
      BY <1>2, <1>6, <1>10, <2>1, SizesAssumption
    <3>2. x \in Msgs /\ place'[x] # "ready"
      <4>1. x \in Msgs /\ rank'[x] \in Int
        BY <1>1 DEF WholeInv, IInv, TypeOK, ReaderInv, CustodyInv
      <4> QED
        BY <3>1, <4>1 DEF Upto, Ready
    <3>3. place'[x] \in {"unacked", "gone"}
      BY <3>2 DEF WholeInv, ReaderInv, CustodyInv, IInv, TypeOK
    <3>4. CASE place'[x] = "unacked"
      <4>1. owner'[x] \in Clients /\ req'[owner'[x]].chan = "open"
        BY <3>2, <3>4 DEF WholeInv, ReaderInv, HeldByReader
      <4>2. req[owner'[x]].chan = "open"
        BY <1>2, <1>3, <4>1
      <4>3. owner'[x] = c
        BY <1>1, <1>3, <4>1, <4>2, OneOpen
      <4> QED
        BY <3>2, <3>4, <4>3 DEF WholeInv, ReadWhole, Holds
    <3> QED
      BY <3>3, <3>4
  <2>2. \A i, j \in DOMAIN req'[c].scanned :
          i < j /\ req'[c].scanned[i] \in Backlog /\ req'[c].scanned[j] \in Backlog =>
             req'[c].scanned[i] < req'[c].scanned[j]
    <3> SUFFICES ASSUME NEW i \in DOMAIN req'[c].scanned, NEW j \in DOMAIN req'[c].scanned, i < j,
                        req'[c].scanned[i] \in Backlog, req'[c].scanned[j] \in Backlog
                 PROVE  req'[c].scanned[i] < req'[c].scanned[j]
      OBVIOUS
    <3>1. i \in DOMAIN req[c].scanned
      BY <1>6
    <3>2. CASE j \in DOMAIN req[c].scanned
      BY <1>4, <1>6, <3>1, <3>2 DEF ReadsAhead
    <3>3. CASE j = Len(req[c].scanned) + 1
      <4>1. req'[c].scanned[j] = m /\ req'[c].scanned[i] = req[c].scanned[i] /\ req[c].scanned[i] \in Read(c)
        BY <1>6, <3>1, <3>3 DEF Read
      <4> QED
        BY <1>4, <1>5, <4>1 DEF ReadsAhead
    <3> QED
      BY <1>6, <3>2, <3>3
  <2>3. ASSUME NEW x \in Backlog, NEW y \in Backlog, place'[x] = "ready", x \notin Read(c)', y \in Read(c)'
        PROVE  y < x
    <3>1. x \in Msgs /\ place[x] = "ready" /\ x # m /\ x \notin Read(c)
      BY <1>1, <1>7, <1>8, <2>3
    <3>2. CASE y \in Read(c)
      BY <1>4, <2>3, <3>1, <3>2 DEF ReadsAhead
    <3>3. CASE y = m
      <4>1. ~(x < m)
        <5>1. Kept(c, x) /\ Kept(c, m)
          BY <1>5, <3>1 DEF Kept
        <5>2. x < m => rank[x] < rank[m]
          BY <1>4, <2>3, <3>3, <5>1 DEF GivesBack
        <5>3. rank[m] <= rank[x] /\ rank[x] \in Int /\ rank[m] \in Int
          BY <1>1, <1>5, <3>1 DEF Ready, IInv, TypeOK
        <5> QED
          BY <5>2, <5>3
      <4> QED
        BY <1>1, <2>3, <3>1, <3>3, <4>1
    <3> QED
      BY <1>7, <2>3, <3>2, <3>3
  <2> QED
    BY <1>2, <1>10, <2>1, <2>2, <2>3 DEF ReadsAhead
<1>12. GivesBack(c)'
  <2>1. \A y : ~Nacked(c, y)' /\ \A i : ~NackAt(c, i, y)'
    BY <1>3 DEF Nacked, NackAt
  <2>2. req[c].processed = {} /\ req'[c].processed = {}
    BY <1>1, <1>2, <1>3 DEF IInv, ClientInv, Progress, BeforeLoop, BeforeOpen
  <2>3. \A y \in Read(c)' : y \in Msgs /\ place'[y] \in {"unacked", "gone"}
    <3>1. Read(c) \subseteq Msgs
      BY <1>1 DEF Read
    <3> QED
      BY <1>3, <1>4, <1>7, <3>1 DEF GivesBack
  <2>4. \A x, y \in Backlog : x < y /\ Kept(c, x)' /\ Kept(c, y)' => rank'[x] < rank'[y]
    BY <1>1, <1>3, <1>4, <1>8 DEF GivesBack
  <2> QED
    BY <1>1, <1>8, <2>1, <2>2, <2>3, <2>4 DEF GivesBack
<1>13. \A x \in Clients : ~At(x, "undeliver")'
  BY <1>2 DEF OrderInv, At
<1>14. \A x \in Clients : req'[x].chan = "open" => x = c
  BY <1>1, <1>2, <1>3, OneOpen
<1> QED
  BY <1>2, <1>3, <1>11, <1>12, <1>13, <1>14 DEF OrderInv, RanksDiffer

(* The channel is closed: what it still held goes back, in its order, behind *)
(* what it gave back before.                                                 *)
LEMMA OrderCloses ==
    ASSUME OneLock, Quorum, OrderInv, WholeInv', NEW c \in Clients, NEW r, Become(c, r),
           CanCall(c), req[c].pc # "fetch", Requeue(HeldBy(c)), r.chan # "open", r.pc # "undeliver"
    PROVE  OrderInv'
<1>1. /\ WholeInv /\ IInv /\ ReaderInv /\ RanksDiffer
      /\ \A x \in Backlog : x \in Msgs /\ x \in Int
      /\ \A m \in Msgs : Holds(c, m) => m \in Read(c)
  BY ReaderFacts DEF OrderInv
<1>2. req'[c] = r /\ \A x \in Clients : x # c => req'[x] = req[x]
  BY <1>1, BecomeOnly
<1>3. req[c].chan = "open" /\ wire[c] = <<>> /\ ReadsAhead(c) /\ GivesBack(c)
  BY DEF CanCall, OrderInv
<1>4. HeldBy(c) \in SUBSET Msgs /\ \A m \in Msgs : m \in HeldBy(c) <=> Holds(c, m)
  BY DEF HeldBy, Holds
<1>5. /\ RanksDiffer'
      /\ \A x, y \in Msgs : rank[x] < rank[y] /\ (Holds(c, x) <=> Holds(c, y)) => rank'[x] < rank'[y]
      /\ \A x, y \in Msgs : ~Holds(c, x) /\ Holds(c, y) => rank'[x] < rank'[y]
  <2>1. rank' = MovedToBack(HeldBy(c))
    BY DEF Requeue
  <2> QED
    BY <1>1, <1>4, <2>1, BackKeepsOrder
<1>6. \A m \in Msgs : place'[m] = "ready" => place[m] = "ready" \/ Holds(c, m)
  BY <1>4 DEF Requeue
<1>7. InOldOrder'
  <2> SUFFICES ASSUME NEW x \in Backlog, NEW y \in Backlog, x < y,
                      place'[x] = "ready", place'[y] = "ready"
               PROVE  rank'[x] < rank'[y]
    BY DEF InOldOrder
  <2>1. x \in Msgs /\ y \in Msgs /\ x \in Int /\ y \in Int
    BY <1>1
  <2>2. \A m \in Msgs : Holds(c, m) => ~Acked(c, m) /\ place[m] = "unacked"
    BY <1>3 DEF Holds, Acked
  <2>3. CASE Kept(c, x) /\ Kept(c, y)
    <3>1. rank[x] < rank[y]
      BY <1>3, <2>3 DEF GivesBack
    <3>2. Holds(c, x) /\ ~Holds(c, y) => FALSE
      BY <1>1, <1>3, <2>1, <2>2, <2>3 DEF Kept, ReadsAhead
    <3> QED
      BY <1>5, <2>1, <3>1, <3>2
  <2>4. CASE Returned(c, x) /\ Returned(c, y)
    <3>1. rank[x] < rank[y] /\ ~Holds(c, x) /\ ~Holds(c, y)
      BY <1>3, <2>2, <2>1, <2>4 DEF GivesBack, Returned
    <3> QED
      BY <1>5, <2>1, <3>1
  <2>5. CASE Returned(c, x) /\ Kept(c, y)
    <3>1. x \in Read(c) /\ ~Holds(c, x)
      BY <2>1, <2>2, <2>5 DEF Returned
    <3>2. Holds(c, y)
      BY <1>3, <2>2, <2>5, <3>1 DEF Kept, ReadsAhead
    <3> QED
      BY <1>5, <2>1, <3>1, <3>2
  <2>6. CASE Kept(c, x) /\ Returned(c, y)
    <3>1. y \in Read(c)
      BY <2>6 DEF Returned
    <3>2. Holds(c, x)
      BY <1>3, <2>2, <2>6, <3>1 DEF Kept, ReadsAhead
    <3>3. y < x
      BY <1>3, <2>1, <2>2, <2>6, <3>2 DEF GivesBack
    <3> QED
      BY <2>1, <3>3
  <2> QED
    BY <1>6, <2>1, <2>3, <2>4, <2>5, <2>6 DEF Kept, Returned
<1>8. \A x \in Clients : ~At(x, "undeliver")' /\ req'[x].chan # "open"
  BY <1>1, <1>2, <1>3, OneOpen DEF OrderInv, At
<1> QED
  BY <1>5, <1>7, <1>8 DEF OrderInv

(* A frame more on the wire of c. *)
LEMMA WireGrows ==
    ASSUME IInv, NEW c \in Clients, NEW kind \in {"ack", "nack"}, NEW m \in Msgs, Write(c, kind, m),
           req'[c].scanned = req[c].scanned
    PROVE  /\ UNCHANGED <<place, rank, owner>> /\ \A x \in Clients : x # c => wire'[x] = wire[x]
           /\ Len(wire[c]) \in Nat /\ \A i \in DOMAIN wire[c] : i \in Int /\ i <= Len(wire[c])
           /\ Read(c)' = Read(c) /\ Upto' = Upto
           /\ \A y \in Msgs : /\ Holds(c, y)' <=> Holds(c, y)
                              /\ Kept(c, y)' <=> Kept(c, y)
                              /\ Returned(c, y)' <=> Returned(c, y)
                              /\ OnWire(c, y)' <=> (OnWire(c, y) \/ y = m)
                              /\ Acked(c, y) => Acked(c, y)'
                              /\ Nacked(c, y)' <=> (Nacked(c, y) \/ (kind = "nack" /\ y = m))
           /\ \A y \in Msgs, i \in DOMAIN wire'[c] : NackAt(c, i, y)' <=>
                 NackAt(c, i, y) \/ (i = Len(wire[c]) + 1 /\ kind = "nack" /\ y = m)
<1>1. PICK frame : frame = [kind |-> kind, msg |-> m]
  OBVIOUS
<1>2. /\ frame \in Frames /\ wire[c] \in Seq(Frames) /\ wire' = [wire EXCEPT ![c] = Append(wire[c], frame)]
      /\ UNCHANGED <<place, rank, owner>> /\ wire \in [Clients -> Seq(Frames)]
  BY <1>1 DEF Frames, IInv, TypeOK, Write, queueVars
<1>3. /\ DOMAIN wire'[c] = DOMAIN wire[c] \cup {Len(wire[c]) + 1} /\ Len(wire[c]) \in Nat
      /\ wire'[c][Len(wire[c]) + 1] = frame
      /\ \A i \in DOMAIN wire[c] : wire'[c][i] = wire[c][i] /\ i \in Int /\ i <= Len(wire[c])
  BY <1>2
<1>4. Read(c)' = Read(c) /\ Upto' = Upto /\ \A y : Holds(c, y)' <=> Holds(c, y)
  BY <1>2 DEF Read, Upto, Ready, Holds
<1>5. \A y : (Kept(c, y)' <=> Kept(c, y)) /\ (Returned(c, y)' <=> Returned(c, y))
  BY <1>2, <1>4 DEF Kept, Returned
<1>6. \A y \in Msgs : /\ OnWire(c, y)' <=> (OnWire(c, y) \/ y = m)
                      /\ Acked(c, y) => Acked(c, y)'
  BY <1>1, <1>2, <1>3 DEF OnWire, Acked
<1>7. \A y \in Msgs, i \in DOMAIN wire'[c] : NackAt(c, i, y)' <=>
         NackAt(c, i, y) \/ (i = Len(wire[c]) + 1 /\ kind = "nack" /\ y = m)
  <2> SUFFICES ASSUME NEW y \in Msgs, NEW i \in DOMAIN wire'[c]
               PROVE  NackAt(c, i, y)' <=>
                        NackAt(c, i, y) \/ (i = Len(wire[c]) + 1 /\ kind = "nack" /\ y = m)
    OBVIOUS
  <2>1. CASE i \in DOMAIN wire[c]
    BY <1>3, <2>1 DEF NackAt
  <2>2. CASE i = Len(wire[c]) + 1
    <3>1. i \notin DOMAIN wire[c]
      BY <1>3, <2>2
    <3> QED
      BY <1>1, <1>3, <2>2, <3>1 DEF NackAt
  <2> QED
    BY <1>3, <2>1, <2>2
<1>8. \A y \in Msgs : Nacked(c, y)' <=> (Nacked(c, y) \/ (kind = "nack" /\ y = m))
  <2> SUFFICES ASSUME NEW y \in Msgs
               PROVE  Nacked(c, y)' <=> (Nacked(c, y) \/ (kind = "nack" /\ y = m))
    OBVIOUS
  <2>1. Nacked(c, y)' <=> \E i \in DOMAIN wire'[c] : NackAt(c, i, y)'
    BY DEF Nacked
  <2>2. \A i \in DOMAIN wire'[c] : NackAt(c, i, y)' <=>
           NackAt(c, i, y) \/ (i = Len(wire[c]) + 1 /\ kind = "nack" /\ y = m)
    BY <1>7
  <2>3. \A i : NackAt(c, i, y) => i \in DOMAIN wire[c]
    BY DEF NackAt
  <2> QED
    BY <1>3, <2>1, <2>2, <2>3 DEF Nacked
<1> QED
  BY <1>2, <1>3, <1>4, <1>5, <1>6, <1>7, <1>8

(* A step of c that writes on its open channel. *)
LEMMA OrderWrites ==
    ASSUME OneLock, OrderInv, WholeInv', NEW c \in Clients, NEW r, Become(c, r),
           NEW kind \in {"ack", "nack"}, NEW m \in Msgs, Write(c, kind, m), m \in Read(c),
           req[c].chan = "open", r.chan = "open", r.scanned = req[c].scanned,
           r.processed = req[c].processed \cup {m}, req[c].pc # "fetch",
           \/ /\ kind = "ack" /\ req[c].pc \notin {"giveback", "close"}
              /\ r.pc \notin {"fetch", "undeliver"}
           \/ kind = "nack" /\ req[c].pc = "giveback" /\ r.pc = "giveback" /\ FirstUnprocessed(c, m)
    PROVE  OrderInv'
<1>1. /\ WholeInv /\ IInv /\ ReaderInv /\ req[c].scanned \in Seq(Msgs)
      /\ \A x \in Backlog : x \in Msgs /\ x \in Int
      /\ \A x \in Msgs : Holds(c, x) => x \in Read(c)
  BY ReaderFacts DEF OrderInv
<1>2. req'[c] = r /\ \A x \in Clients : x # c => req'[x] = req[x]
  BY <1>1, BecomeOnly
<1>3. ReadsAhead(c) /\ GivesBack(c)
  BY DEF OrderInv
<1>4. /\ UNCHANGED <<place, rank, owner>>
      /\ Len(wire[c]) \in Nat /\ \A i \in DOMAIN wire[c] : i \in Int /\ i <= Len(wire[c])
      /\ Read(c)' = Read(c) /\ Upto' = Upto
      /\ \A y \in Msgs : /\ Holds(c, y)' <=> Holds(c, y)
                         /\ Kept(c, y)' <=> Kept(c, y)
                         /\ Returned(c, y)' <=> Returned(c, y)
                         /\ OnWire(c, y)' <=> (OnWire(c, y) \/ y = m)
                         /\ Acked(c, y) => Acked(c, y)'
                         /\ Nacked(c, y)' <=> (Nacked(c, y) \/ (kind = "nack" /\ y = m))
      /\ \A y \in Msgs, i \in DOMAIN wire'[c] : NackAt(c, i, y)' <=>
            NackAt(c, i, y) \/ (i = Len(wire[c]) + 1 /\ kind = "nack" /\ y = m)
  BY <1>1, <1>2, WireGrows
<1>5. ReadsAhead(c)'
  <2>1. r.pc # "fetch"
    OBVIOUS
  <2> QED
    BY <1>2, <1>3, <1>4, <2>1 DEF ReadsAhead
<1>6. ASSUME kind = "nack", NEW x \in Backlog, x # m, NEW l, l \in {"wired", "kept"},
             l = "wired" => Nacked(c, x), l = "kept" => Holds(c, x) /\ x \notin req[c].processed, m \in Backlog
      PROVE  IF l = "wired" THEN x < m ELSE m < x
  <2>1. PICK i \in DOMAIN req[c].scanned :
           /\ req[c].scanned[i] = m /\ m \notin req[c].processed
           /\ \A j \in 1..(i - 1) : req[c].scanned[j] \in req[c].processed
    BY <1>6 DEF FirstUnprocessed
  <2>2. Holds(c, m)
    BY <2>1 DEF UnsettledHeld, OrderInv, WholeInv, ReaderInv, CustodyInv, IInv, ClientInv
  <2>3. CASE l = "wired"
    BY <1>3, <1>6, <2>1, <2>2, <2>3 DEF GivesBack
  <2>4. CASE l = "kept"
    <3>1. x \in Read(c)
      BY <1>1, <1>6, <2>4
    <3>2. PICK j \in DOMAIN req[c].scanned : req[c].scanned[j] = x
      BY <3>1 DEF Read
    <3>3. i < j
      <4>1. i \in Nat /\ j \in Nat /\ j >= 1 /\ i # j
        BY <1>1, <1>6, <2>1, <3>2
      <4>2. j \notin 1..(i - 1)
        BY <1>6, <2>1, <2>4, <3>2
      <4> QED
        BY <4>1, <4>2
    <3> QED
      BY <1>3, <1>6, <2>1, <2>4, <3>2, <3>3 DEF ReadsAhead
  <2> QED
    BY <1>6, <2>3, <2>4
<1>7. GivesBack(c)'
  <2>1. \A y \in Msgs : Holds(c, y)' /\ y \in req'[c].processed => OnWire(c, y)'
    BY <1>2, <1>3, <1>4 DEF GivesBack
  <2>2. req'[c].pc \notin {"giveback", "close"} =>
          \A y \in Read(c)' : place'[y] \in {"unacked", "gone"} /\ ~Nacked(c, y)'
    <3>1. Read(c) \subseteq Msgs
      BY <1>1 DEF Read
    <3> QED
      BY <1>2, <1>3, <1>4, <3>1 DEF GivesBack
  <2>3. /\ \A x, y \in Backlog : x < y /\ Kept(c, x)' /\ Kept(c, y)' => rank'[x] < rank'[y]
        /\ \A x, y \in Backlog : x < y /\ Returned(c, x)' /\ Returned(c, y)' => rank'[x] < rank'[y]
        /\ \A x, y \in Backlog : Returned(c, x)' /\ Holds(c, y)' /\ ~Acked(c, y)' => x < y
    BY <1>1, <1>3, <1>4 DEF GivesBack
  <2>4. \A y \in Msgs : Nacked(c, y) => Holds(c, y)
    BY <1>1, NackHolds
  <2>5. ASSUME kind = "ack", NEW y \in Backlog PROVE ~Nacked(c, y)' /\ \A i \in DOMAIN wire'[c] : ~NackAt(c, i, y)'
    <3>1. ~Nacked(c, y)
      BY <1>1, <1>3, <2>4, <2>5 DEF GivesBack
    <3>2. ~Nacked(c, y)'
      BY <1>1, <1>4, <2>5, <3>1
    <3> QED
      BY <3>2 DEF Nacked
  <2>6. ASSUME kind = "nack", NEW x \in Backlog, NEW y \in Backlog,
               NEW i \in DOMAIN wire'[c], NEW k \in DOMAIN wire'[c], NackAt(c, i, x)', NackAt(c, k, y)', i < k
        PROVE  x < y
    <3>1. CASE NackAt(c, i, x) /\ NackAt(c, k, y)
      <4>1. i \in DOMAIN wire[c] /\ k \in DOMAIN wire[c]
        BY <3>1 DEF NackAt
      <4> QED
        BY <1>3, <2>6, <3>1, <4>1 DEF GivesBack
    <3>2. CASE NackAt(c, i, x) /\ k = Len(wire[c]) + 1 /\ y = m
      <4>1. Nacked(c, x)
        BY <3>2 DEF Nacked, NackAt
      <4>2. x # m
        <5>1. OnWire(c, x)
          BY <1>1, <4>1, NackHolds
        <5>2. m \notin req[c].processed
          BY <2>6 DEF FirstUnprocessed
        <5>3. m \in Msgs /\ ~OnWire(c, m)
          BY <1>1, <5>2 DEF IInv, ClientInv, UnsettledHeld
        <5> QED
          BY <5>1, <5>3
      <4> QED
        BY <1>6, <2>6, <3>2, <4>1, <4>2
    <3>3. CASE i = Len(wire[c]) + 1
      <4>1. k \notin DOMAIN wire[c] /\ k # Len(wire[c]) + 1
        BY <1>4, <2>6, <3>3
      <4> QED
        BY <1>1, <1>4, <2>6, <4>1 DEF NackAt
    <3> QED
      BY <1>1, <1>4, <2>6, <3>1, <3>2, <3>3
  <2>7. ASSUME kind = "nack", NEW x \in Backlog, NEW y \in Backlog,
               Nacked(c, x)', Holds(c, y)', y \notin req'[c].processed
        PROVE  x < y
    <3>1. Holds(c, y) /\ y \notin req[c].processed /\ y # m /\ (Nacked(c, x) \/ x = m)
      BY <1>1, <1>2, <1>4, <2>7
    <3>2. CASE Nacked(c, x)
      BY <1>3, <3>1, <3>2 DEF GivesBack
    <3>3. CASE x = m
      BY <1>6, <2>7, <3>1, <3>3
    <3> QED
      BY <3>1, <3>2, <3>3
  <2>8. /\ \A x, y \in Backlog : \A i, k \in DOMAIN wire'[c] : NackAt(c, i, x)' /\ NackAt(c, k, y)' /\ i < k => x < y
        /\ \A x, y \in Backlog : Nacked(c, x)' /\ Holds(c, y)' /\ y \notin req'[c].processed => x < y
    BY <2>5, <2>6, <2>7
  <2> QED
    BY <2>1, <2>2, <2>3, <2>8 DEF GivesBack
<1>8. \A x \in Clients : ~At(x, "undeliver")' /\ (req'[x].chan = "open" => x = c)
  BY <1>1, <1>2, OneOpen DEF OrderInv, At
<1> QED
  BY <1>2, <1>4, <1>5, <1>7, <1>8 DEF OrderInv, RanksDiffer

(* A frame less on the wire of c. *)
LEMMA WireShrinks ==
    ASSUME IInv, NEW c \in Clients, wire[c] # <<>>, wire' = [wire EXCEPT ![c] = Tail(wire[c])]
    PROVE  /\ \A x \in Clients : x # c => wire'[x] = wire[x]
           /\ \A i \in DOMAIN wire'[c] : /\ i \in Int /\ i + 1 \in DOMAIN wire[c] /\ i + 1 > 1
                                         /\ \A y : NackAt(c, i, y)' <=> NackAt(c, i + 1, y)
           /\ \A y \in Msgs : y # Head(wire[c]).msg =>
                 /\ OnWire(c, y) => OnWire(c, y)'
                 /\ Nacked(c, y) => Nacked(c, y)'
                 /\ (\E i \in DOMAIN wire[c] : wire[c][i] = [kind |-> "ack", msg |-> y]) =>
                     \E i \in DOMAIN wire'[c] : wire'[c][i] = [kind |-> "ack", msg |-> y]
           /\ \A y : Nacked(c, y)' => Nacked(c, y)
           /\ 1 \in DOMAIN wire[c] /\ Head(wire[c]) = wire[c][1] /\ Head(wire[c]) \in Frames
<1>1. wire \in [Clients -> Seq(Frames)] /\ wire[c] \in Seq(Frames)
  BY DEF IInv, TypeOK
<1>2. wire'[c] = Tail(wire[c]) /\ \A x \in Clients : x # c => wire'[x] = wire[x]
  BY <1>1
<1>3. 1 \in DOMAIN wire[c] /\ Head(wire[c]) = wire[c][1] /\ Head(wire[c]) \in Frames
  BY <1>1
<1>4. \A i \in DOMAIN wire'[c] : /\ i \in Int /\ i + 1 \in DOMAIN wire[c] /\ i + 1 > 1
                                 /\ wire'[c][i] = wire[c][i + 1]
  BY <1>1, <1>2
<1>5. \A k \in DOMAIN wire[c] : k # 1 => /\ k - 1 \in DOMAIN wire'[c]
                                         /\ wire'[c][k - 1] = wire[c][k]
  BY <1>1, <1>2
<1>6. \A i \in DOMAIN wire'[c] : \A y : NackAt(c, i, y)' <=> NackAt(c, i + 1, y)
  BY <1>4 DEF NackAt
<1>7. \A y : Nacked(c, y)' => Nacked(c, y)
  BY <1>4, <1>6 DEF Nacked
<1>8. ASSUME NEW y \in Msgs, y # Head(wire[c]).msg
      PROVE  /\ OnWire(c, y) => OnWire(c, y)'
             /\ Nacked(c, y) => Nacked(c, y)'
             /\ (\E i \in DOMAIN wire[c] : wire[c][i] = [kind |-> "ack", msg |-> y]) =>
                 \E i \in DOMAIN wire'[c] : wire'[c][i] = [kind |-> "ack", msg |-> y]
  <2>1. \A k \in DOMAIN wire[c] : wire[c][k].msg = y => k # 1
    BY <1>3, <1>8
  <2>2. OnWire(c, y) => OnWire(c, y)'
    BY <1>5, <2>1 DEF OnWire
  <2>3. ASSUME NEW k \in DOMAIN wire[c], NEW kind, wire[c][k] = [kind |-> kind, msg |-> y]
        PROVE  \E i \in DOMAIN wire'[c] : wire'[c][i] = [kind |-> kind, msg |-> y]
    <3>1. wire[c][k].msg = y
      BY <2>3
    <3>2. k - 1 \in DOMAIN wire'[c] /\ wire'[c][k - 1] = wire[c][k]
      BY <1>5, <2>1, <3>1
    <3> QED
      BY <2>3, <3>2
  <2>4. Nacked(c, y) => Nacked(c, y)'
    BY <2>3 DEF Nacked, NackAt
  <2> QED
    BY <2>2, <2>3, <2>4
<1> QED
  BY <1>2, <1>3, <1>4, <1>6, <1>7, <1>8

(* The broker takes an ack: one message less. *)
LEMMA OrderAcked ==
    ASSUME OneLock, OrderInv, WholeInv', NEW c \in Clients, BrokerSettle(c), Head(wire[c]).kind = "ack"
    PROVE  OrderInv'
<1>1. /\ WholeInv /\ IInv /\ ReaderInv /\ req[c].scanned \in Seq(Msgs)
      /\ \A x \in Backlog : x \in Msgs /\ x \in Int
      /\ req[c].chan # "open" => wire[c] = <<>>
  BY ReaderFacts DEF OrderInv
<1>2. /\ wire[c] # <<>> /\ wire' = [wire EXCEPT ![c] = Tail(wire[c])] /\ UNCHANGED <<rank, owner, req>>
      /\ place' = [place EXCEPT ![Head(wire[c]).msg] = "gone"]
  BY <1>1 DEF BrokerSettle, IInv, TypeOK
<1>3. PICK m : m = Head(wire[c]).msg
  OBVIOUS
<1>4. req[c].chan = "open" /\ ReadsAhead(c) /\ GivesBack(c)
  BY <1>1, <1>2 DEF OrderInv
<1>5. /\ \A i \in DOMAIN wire'[c] : /\ i \in Int /\ i + 1 \in DOMAIN wire[c]
                                    /\ \A y : NackAt(c, i, y)' <=> NackAt(c, i + 1, y)
      /\ \A y \in Msgs : y # m =>
                 /\ OnWire(c, y) => OnWire(c, y)'
                 /\ (\E i \in DOMAIN wire[c] : wire[c][i] = [kind |-> "ack", msg |-> y]) =>
                     \E i \in DOMAIN wire'[c] : wire'[c][i] = [kind |-> "ack", msg |-> y]
      /\ \A y : Nacked(c, y)' => Nacked(c, y)
      /\ m \in Msgs
  BY <1>1, <1>2, <1>3, WireShrinks DEF Frames
<1>6. Holds(c, m)
  <2>1. 1 \in DOMAIN wire[c] /\ m = wire[c][1].msg
    BY <1>1, <1>2, <1>3, WireShrinks
  <2> QED
    BY <1>1, <2>1 DEF IInv, ClientInv, WireSafe
<1>7. \A y \in Msgs : place'[y] = IF y = m THEN "gone" ELSE place[y]
  BY <1>1, <1>2, <1>3 DEF IInv, TypeOK
<1>8. Read(c)' = Read(c) /\ Upto' = Upto /\ Ready' = Ready
  <2>1. Ready' = Ready /\ Read(c)' = Read(c)
    BY <1>2, <1>6, <1>7 DEF Ready, Holds, Read
  <2> QED
    BY <1>2, <2>1 DEF Upto
<1>9. \A y \in Msgs : /\ Holds(c, y)' => Holds(c, y) /\ y # m
                      /\ Kept(c, y)' => Kept(c, y)
                      /\ Returned(c, y)' => Returned(c, y)
                      /\ place[y] = "gone" => place'[y] = "gone"
                      /\ place'[y] = "ready" <=> place[y] = "ready"
                      /\ Acked(c, y) /\ y # m => Acked(c, y)'
  BY <1>2, <1>5, <1>6, <1>7, <1>8 DEF Holds, Kept, Returned, Acked
<1>10. ReadsAhead(c)'
  BY <1>1, <1>2, <1>4, <1>8, <1>9 DEF ReadsAhead
<1>11. GivesBack(c)'
  <2>1. Read(c) \subseteq Msgs
    BY <1>1 DEF Read
  <2>2. /\ \A y \in Msgs : Holds(c, y)' /\ y \in req'[c].processed => OnWire(c, y)'
        /\ req'[c].pc \notin {"giveback", "close"} => \A y \in Read(c)' : place'[y] \in {"unacked", "gone"} /\ ~Nacked(c, y)'
    <3>1. \A y \in Msgs : Holds(c, y)' /\ y \in req'[c].processed => OnWire(c, y)'
      BY <1>2, <1>4, <1>5, <1>9 DEF GivesBack
    <3>2. ASSUME req[c].pc \notin {"giveback", "close"}, NEW y \in Read(c)
          PROVE  place'[y] \in {"unacked", "gone"} /\ ~Nacked(c, y)'
      BY <1>4, <1>5, <1>7, <2>1, <3>2 DEF GivesBack
    <3> QED
      BY <1>2, <1>8, <3>1, <3>2
  <2>3. /\ \A x, y \in Backlog : x < y /\ Kept(c, x)' /\ Kept(c, y)' => rank'[x] < rank'[y]
        /\ \A x, y \in Backlog : x < y /\ Returned(c, x)' /\ Returned(c, y)' => rank'[x] < rank'[y]
        /\ \A x, y \in Backlog : Returned(c, x)' /\ Holds(c, y)' /\ ~Acked(c, y)' => x < y
    BY <1>1, <1>2, <1>4, <1>9 DEF GivesBack
  <2>4. \A x, y \in Backlog : \A i, k \in DOMAIN wire'[c] : NackAt(c, i, x)' /\ NackAt(c, k, y)' /\ i < k => x < y
    BY <1>4, <1>5 DEF GivesBack
  <2>5. \A x, y \in Backlog : Nacked(c, x)' /\ Holds(c, y)' /\ y \notin req'[c].processed => x < y
    BY <1>1, <1>2, <1>4, <1>5, <1>9 DEF GivesBack
  <2> QED
    BY <2>2, <2>3, <2>4, <2>5 DEF GivesBack
<1>12. \A x \in Clients : ~At(x, "undeliver")' /\ (req'[x].chan = "open" => x = c)
  BY <1>1, <1>2, <1>4, OneOpen DEF OrderInv, At
<1> QED
  BY <1>2, <1>4, <1>10, <1>11, <1>12 DEF OrderInv, RanksDiffer

(* The broker takes a nack: the message goes behind those that went back before. *)
LEMMA OrderNacked ==
    ASSUME OneLock, Quorum, OrderInv, WholeInv', NEW c \in Clients, BrokerSettle(c), Head(wire[c]).kind # "ack"
    PROVE  OrderInv'
<1>1. /\ WholeInv /\ IInv /\ ReaderInv /\ RanksDiffer /\ req[c].scanned \in Seq(Msgs)
      /\ \A x \in Backlog : x \in Msgs /\ x \in Int
      /\ req[c].chan # "open" => wire[c] = <<>>
      /\ \A y \in Msgs : Holds(c, y) => y \in Read(c)
  BY ReaderFacts DEF OrderInv
<1>2. PICK m : m = Head(wire[c]).msg
  OBVIOUS
<1>3. /\ wire[c] # <<>> /\ wire' = [wire EXCEPT ![c] = Tail(wire[c])] /\ UNCHANGED req
      /\ Requeue({m})
  BY <1>1, <1>2 DEF BrokerSettle, IInv, TypeOK
<1>4. req[c].chan = "open" /\ ReadsAhead(c) /\ GivesBack(c)
  BY <1>1, <1>3 DEF OrderInv
<1>5. /\ \A i \in DOMAIN wire'[c] : /\ i \in Int /\ i + 1 \in DOMAIN wire[c] /\ i + 1 > 1
                                    /\ \A y : NackAt(c, i, y)' <=> NackAt(c, i + 1, y)
      /\ \A y \in Msgs : y # m =>
                 /\ OnWire(c, y) => OnWire(c, y)'
                 /\ Nacked(c, y) => Nacked(c, y)'
                 /\ (\E i \in DOMAIN wire[c] : wire[c][i] = [kind |-> "ack", msg |-> y]) =>
                     \E i \in DOMAIN wire'[c] : wire'[c][i] = [kind |-> "ack", msg |-> y]
      /\ \A y : Nacked(c, y)' => Nacked(c, y)
      /\ m \in Msgs /\ 1 \in DOMAIN wire[c] /\ NackAt(c, 1, m)
  <2>1. Head(wire[c]) \in Frames /\ Head(wire[c]) = wire[c][1] /\ 1 \in DOMAIN wire[c]
    BY <1>1, <1>3, WireShrinks
  <2>2. m \in Msgs /\ NackAt(c, 1, m)
    BY <1>2, <2>1 DEF NackAt, Frames
  <2> QED
    BY <1>1, <1>2, <1>3, <2>1, <2>2, WireShrinks
<1>6. Holds(c, m) /\ Nacked(c, m) /\ ~Acked(c, m) /\ m \in Read(c)
  BY <1>1, <1>5, NackHolds DEF Nacked
<1>7. \A y \in Msgs : /\ place'[y] = IF y = m THEN "ready" ELSE place[y]
                      /\ owner'[y] = IF y = m THEN None ELSE owner[y]
  BY <1>3 DEF Requeue
<1>8. /\ RanksDiffer'
      /\ \A x, y \in Msgs : rank[x] < rank[y] /\ x # m /\ y # m => rank'[x] < rank'[y]
      /\ \A x \in Msgs : x # m => rank'[x] < rank'[m]
  <2>1. rank' = MovedToBack({m}) /\ {m} \in SUBSET Msgs
    BY <1>3, <1>5 DEF Requeue
  <2> QED
    BY <1>1, <2>1, BackKeepsOrder
<1>9. Read(c)' = Read(c) /\ req[c].pc \in {"giveback", "close"}
      /\ \A x \in Backlog : place[x] = "gone" \/ x \in Read(c)
  <2>1. Read(c)' = Read(c) /\ req[c].pc \in {"giveback", "close"}
    BY <1>3, <1>4, <1>6 DEF Read, GivesBack
  <2> QED
    BY <1>4, <1>6, <2>1 DEF ReadsAhead
<1>10. /\ \A y \in Msgs : /\ Holds(c, y)' <=> Holds(c, y) /\ y # m
                          /\ place'[y] = "gone" <=> place[y] = "gone"
                          /\ Acked(c, y) => Acked(c, y)'
       /\ \A y \in Backlog : /\ Kept(c, y)' => Holds(c, y) /\ y # m
                             /\ Returned(c, y)' => Returned(c, y) \/ y = m
  <2>1. \A y \in Msgs : /\ Holds(c, y)' <=> Holds(c, y) /\ y # m
                        /\ place'[y] = "gone" <=> place[y] = "gone"
    BY <1>6, <1>7, NoneAssumption DEF Holds
  <2>2. \A y \in Msgs : Acked(c, y) => Acked(c, y)'
    BY <1>5, <1>6, <1>7 DEF Acked
  <2>3. \A y \in Backlog : /\ Kept(c, y)' => Holds(c, y) /\ y # m
                           /\ Returned(c, y)' => Returned(c, y) \/ y = m
    BY <1>1, <1>6, <1>7, <1>9, <2>1 DEF Kept, Returned
  <2> QED
    BY <2>1, <2>2, <2>3
<1>11. ReadsAhead(c)'
  BY <1>1, <1>3, <1>4, <1>9, <1>10 DEF ReadsAhead
<1>12. GivesBack(c)'
  <2>1. \A y \in Msgs : Holds(c, y)' /\ y \in req'[c].processed => OnWire(c, y)'
    BY <1>3, <1>4, <1>5, <1>10 DEF GivesBack
  <2>2. req'[c].pc \in {"giveback", "close"}
    BY <1>3, <1>9
  <2>3. \A x, y \in Backlog : x < y /\ Kept(c, x)' /\ Kept(c, y)' => rank'[x] < rank'[y]
    BY <1>1, <1>4, <1>8, <1>10 DEF GivesBack, Kept
  <2>4. ASSUME NEW x \in Backlog, NEW y \in Backlog, x < y, Returned(c, x)', Returned(c, y)'
        PROVE  rank'[x] < rank'[y]
    <3>1. CASE x # m /\ y # m
      BY <1>1, <1>4, <1>8, <1>10, <2>4, <3>1 DEF GivesBack
    <3>2. CASE y = m
      BY <1>1, <1>8, <2>4, <3>2
    <3>3. CASE x = m
      <4>1. y < x
        BY <1>1, <1>4, <1>6, <1>10, <2>4, <3>3 DEF GivesBack
      <4> QED
        BY <1>1, <2>4, <4>1
    <3> QED
      BY <3>1, <3>2, <3>3
  <2>5. ASSUME NEW x \in Backlog, NEW y \in Backlog, Returned(c, x)', Holds(c, y)', ~Acked(c, y)'
        PROVE  x < y
    <3>1. Holds(c, y) /\ y # m /\ ~Acked(c, y) /\ y \in Msgs
      BY <1>1, <1>10, <2>5
    <3>2. CASE x # m
      BY <1>4, <1>10, <2>5, <3>1, <3>2 DEF GivesBack
    <3>3. CASE x = m /\ y \notin req[c].processed
      BY <1>4, <1>6, <2>5, <3>1, <3>3 DEF GivesBack
    <3>4. CASE x = m /\ y \in req[c].processed
      <4>1. PICK k \in DOMAIN wire[c] : wire[c][k].msg = y
        BY <1>4, <3>1, <3>4 DEF GivesBack, OnWire
      <4>2. wire[c][k] \in Frames
        BY <1>1, WireType DEF IInv
      <4>3. wire[c][k] = [kind |-> "nack", msg |-> y]
        BY <3>1, <4>1, <4>2 DEF Acked, Frames
      <4>4. NackAt(c, k, y) /\ k # 1 /\ k \in Nat
        <5>1. wire[c] \in Seq(Frames)
          BY <1>1 DEF IInv, TypeOK
        <5> QED
          BY <1>5, <3>1, <4>1, <4>3, <5>1 DEF NackAt
      <4>5. 1 < k
        <5>1. wire[c] \in Seq(Frames)
          BY <1>1 DEF IInv, TypeOK
        <5> QED
          BY <4>1, <4>4, <5>1
      <4> QED
        BY <1>4, <1>5, <2>5, <3>4, <4>1, <4>4, <4>5 DEF GivesBack
    <3> QED
      BY <3>2, <3>3, <3>4
  <2>6. \A x, y \in Backlog : \A i, k \in DOMAIN wire'[c] : NackAt(c, i, x)' /\ NackAt(c, k, y)' /\ i < k => x < y
    BY <1>4, <1>5 DEF GivesBack
  <2>7. \A x, y \in Backlog : Nacked(c, x)' /\ Holds(c, y)' /\ y \notin req'[c].processed => x < y
    BY <1>1, <1>3, <1>4, <1>5, <1>10 DEF GivesBack
  <2> QED
    BY <2>1, <2>2, <2>3, <2>4, <2>5, <2>6, <2>7 DEF GivesBack
<1>13. \A x \in Clients : ~At(x, "undeliver")' /\ (req'[x].chan = "open" => x = c)
  BY <1>1, <1>3, <1>4, OneOpen DEF OrderInv, At
<1> QED
  BY <1>3, <1>4, <1>8, <1>11, <1>12, <1>13 DEF OrderInv


(* A new message goes to the back, behind all that were there. *)
LEMMA OrderArrives ==
    ASSUME OrderInv, WholeInv', NEW m \in Msgs, Arrive(m)
    PROVE  OrderInv'
<1>1. /\ WholeInv /\ IInv /\ RanksDiffer /\ m \notin Backlog
      /\ \A x \in Backlog : x \in Msgs /\ x \in Int
  <2>1. WholeInv /\ RanksDiffer /\ IInv /\ place[m] = "absent"
    BY DEF OrderInv, WholeInv, ReaderInv, CustodyInv, Arrive
  <2>2. \A x \in Backlog : x \in Msgs /\ x \in Int
    BY SizesAssumption DEF Backlog, Msgs
  <2> QED
    BY <2>1, <2>2 DEF WholeInv
<1>2. /\ UNCHANGED <<owner, wire, req>> /\ rank' = MovedToBack({m})
      /\ \A y \in Msgs : place'[y] = IF y = m THEN "ready" ELSE place[y]
      /\ place[m] = "absent"
  BY <1>1 DEF Arrive, IInv, TypeOK
<1>3. /\ RanksDiffer'
      /\ \A x, y \in Msgs : rank[x] < rank[y] /\ x # m /\ y # m => rank'[x] < rank'[y]
      /\ \A x \in Msgs : x # m => rank'[x] < rank'[m]
  <2>1. {m} \in SUBSET Msgs
    OBVIOUS
  <2> QED
    BY <1>1, <1>2, <2>1, BackKeepsOrder
<1>4. /\ \A x \in Msgs : rank[x] \in Int /\ rank'[x] \in Int
      /\ \A x, y \in Msgs : x # m /\ y # m /\ rank'[x] <= rank'[y] => rank[x] <= rank[y]
  <2>1. \A x \in Msgs : rank[x] \in Int /\ rank'[x] \in Int
    BY <1>1, <1>3, SizesAssumption DEF RanksDiffer
  <2>2. ASSUME NEW x \in Msgs, NEW y \in Msgs, x # m, y # m, rank[y] < rank[x]
        PROVE  rank'[y] < rank'[x]
    BY <1>3, <2>2
  <2>3. ASSUME NEW x \in Msgs, NEW y \in Msgs, x # m, y # m, rank'[x] <= rank'[y]
        PROVE  rank[x] <= rank[y]
    BY <2>1, <2>2, <2>3
  <2> QED
    BY <2>1, <2>3
<1>5. Upto' \subseteq Upto
  <2> SUFFICES ASSUME NEW y \in Upto' PROVE y \in Upto
    OBVIOUS
  <2>1. y \in Msgs /\ place'[y] = "ready"
    BY DEF Upto, Ready
  <2>2. PICK x \in Backlog : place'[x] = "ready" /\ rank'[y] <= rank'[x]
    BY DEF Upto, Ready
  <2>3. x \in Msgs /\ x # m /\ place[x] = "ready"
    BY <1>1, <1>2, <2>2
  <2>4. y # m
    BY <1>3, <1>4, <2>1, <2>2, <2>3
  <2> QED
    BY <1>2, <1>4, <2>1, <2>2, <2>3, <2>4 DEF Upto, Ready
<1>6. IsFiniteSet(Upto) /\ Cardinality(Upto') \in Nat /\ Cardinality(Upto) \in Nat
      /\ Cardinality(Upto') <= Cardinality(Upto)
  <2>1. IsFiniteSet(Msgs) /\ Upto \in SUBSET Msgs
    BY SizesAssumption, FS_Interval DEF Upto, Ready, Msgs
  <2> QED
    BY <1>5, <2>1, FS_Subset, FS_CardinalityType
<1>7. InOldOrder => InOldOrder'
  BY <1>1, <1>2, <1>3 DEF InOldOrder
<1>8. ASSUME NEW c \in Clients, req[c].chan = "open" PROVE ReadsAhead(c)' /\ GivesBack(c)'
  <2>1. ReadsAhead(c) /\ GivesBack(c) /\ req[c].scanned \in Seq(Msgs)
    BY <1>1, <1>8, ReaderFacts DEF OrderInv
  <2>2. Read(c)' = Read(c) /\ Read(c) \subseteq Msgs
    BY <1>2, <2>1 DEF Read
  <2>3. /\ \A y \in Msgs : /\ Holds(c, y)' <=> Holds(c, y)
                           /\ OnWire(c, y)' <=> OnWire(c, y)
                           /\ Acked(c, y)' <=> Acked(c, y)
        /\ \A y : (Nacked(c, y)' <=> Nacked(c, y)) /\ \A i : NackAt(c, i, y)' <=> NackAt(c, i, y)
    BY <1>2 DEF Holds, OnWire, Acked, Nacked, NackAt
  <2>4. \A y \in Msgs : y # m => (Kept(c, y)' <=> Kept(c, y)) /\ (Returned(c, y)' <=> Returned(c, y))
    BY <1>2, <2>2, <2>3 DEF Kept, Returned
  <2>5. ReadsAhead(c)'
    <3>1. req'[c] = req[c] /\ (Upto' # {} => Upto # {}) /\ Len(req[c].scanned) \in Nat
      BY <1>2, <1>5, <2>1
    <3>2. req'[c].pc = "fetch" /\ Upto' # {} => Cardinality(Upto') + Len(req'[c].scanned) <= MaxScan
      BY <1>6, <2>1, <3>1, SizesAssumption DEF ReadsAhead
    <3> QED
      BY <1>1, <1>2, <2>1, <2>2, <3>1, <3>2 DEF ReadsAhead
  <2>6. GivesBack(c)'
    BY <1>1, <1>2, <1>3, <2>1, <2>2, <2>3, <2>4 DEF GivesBack
  <2> QED
    BY <2>5, <2>6
<1> QED
  BY <1>2, <1>3, <1>7, <1>8 DEF OrderInv, At

-------------------------------------------------------------------------------
(* The steps of a request on a quorum queue, by what they do to the order. *)

(* The locks and the channel, and what goes back in the end, *)
LEMMA OrderAround ==
    ASSUME Calm, OneLock, Quorum, OrderInv, WholeInv', NEW c \in Clients,
           Lock(c) \/ Open(c) \/ Return(c) \/ (\E j \in Jobs : Start(c, j))
    PROVE  OrderInv'
<1>1. /\ WholeInv /\ req[c] \in Requests /\ req[c].scanned \in Seq(Msgs)
      /\ req[c].chan = "open" => req[c].pc \in Locked \ {"open", "release"}
  BY ReaderFacts DEF OrderInv, WholeInv, ReaderInv, Exclusive
<1>2. ASSUME NEW r, Become(c, r), UNCHANGED <<place, rank, owner, wire>>,
             r.scanned = req[c].scanned, r.processed = req[c].processed, r.chan = req[c].chan,
             r.pc # "undeliver", req[c].chan = "open" => req[c].pc = "giveback" /\ r.pc = "close"
      PROVE  OrderInv'
  BY <1>2, OrderQuiet
<1>3. ASSUME NEW m \in Msgs, GiveBack(c, m) PROVE OrderInv'
  <2>1. PICK r : r = Process(req[c], m)
    OBVIOUS
  <2>2. /\ Become(c, r) /\ Write(c, "nack", m) /\ req[c].chan = "open"
        /\ req[c].pc = "giveback" /\ FirstUnprocessed(c, m)
    BY <1>3, <2>1 DEF GiveBack, At
  <2>3. /\ r.chan = req[c].chan /\ r.pc = req[c].pc /\ r.scanned = req[c].scanned
        /\ r.processed = req[c].processed \cup {m}
    BY <1>1, <2>1 DEF Process, Requests
  <2>4. m \in Read(c)
    BY <2>2 DEF FirstUnprocessed, Read
  <2> QED
    BY <2>2, <2>3, <2>4, OrderWrites
<1>4. CASE OpenChannel(c)
  <2>1. PICK opened : opened = [req[c] EXCEPT !.chan = "open"]
    OBVIOUS
  <2>2. PICK r : r = IF Quorum /\ Cardinality(Ready) > MaxScan THEN Raise(opened) ELSE Goto(opened, "fetch")
    OBVIOUS
  <2>3. Become(c, r) /\ UNCHANGED <<place, rank, owner, wire>> /\ At(c, "open")
    BY <1>4, <2>1, <2>2 DEF OpenChannel, Continue, brokerVars, queueVars
  <2>4. opened \in Requests /\ /\ opened.scanned = req[c].scanned /\ opened.chan = "open"
                               /\ opened.processed = req[c].processed
    BY <1>1, <2>1 DEF Requests
  <2>5. /\ r.scanned = req[c].scanned /\ r.processed = req[c].processed /\ r.chan = "open"
        /\ r.pc = IF Cardinality(Ready) > MaxScan THEN "giveback" ELSE "fetch"
    BY <2>2, <2>4 DEF Raise, Goto, Requests
  <2>6. Cardinality(Ready) \in Nat /\ MaxScan \in Nat
    <3>1. IsFiniteSet(Msgs) /\ Ready \in SUBSET Msgs
      BY SizesAssumption, FS_Interval DEF Ready, Msgs
    <3> QED
      BY <3>1, FS_Subset, FS_CardinalityType, SizesAssumption
  <2> QED
    BY <2>3, <2>5, <2>6, OrderOpens
<1>5. CASE CloseChannel(c)
  <2>1. PICK r : r = [req[c] EXCEPT !.chan = "none", !.pc = "release"]
    OBVIOUS
  <2>2. Become(c, r) /\ CanCall(c) /\ req[c].pc = "close" /\ Requeue(HeldBy(c))
    BY <1>5, <2>1 DEF CloseChannel, At
  <2>3. r.chan = "none" /\ r.pc = "release"
    BY <1>1, <2>1 DEF Requests
  <2> QED
    BY <2>2, <2>3, OrderCloses
<1> USE <1>1, <1>2 DEF Requests, At, Locked, InLoop, Continue, brokerVars, queueVars, Goto, Raise
<1>6. CASE AcquireLocal(c) \/ AcquireShared(c)
  BY <1>6 DEF AcquireLocal, AcquireShared
<1>7. ASSUME NEW j \in Jobs, Start(c, j) PROVE OrderInv'
  BY <1>7 DEF Start
<1>8. CASE GiveBackRaises(c)
  BY <1>8 DEF GiveBackRaises
<1>9. CASE GiveBackEnds(c) \/ CloseDead(c)
  BY <1>9 DEF GiveBackEnds, CloseDead
<1>10. CASE Release(c)
  BY <1>10 DEF Release
<1>11. ~OpenFails(c)
  BY DEF OpenFails, Calm
<1> QED
  BY <1>3, <1>4, <1>5, <1>6, <1>7, <1>8, <1>9, <1>10, <1>11 DEF Lock, Open, Return

(* the reading, *)
LEMMA OrderFetches ==
    ASSUME Calm, OneLock, Quorum, OrderInv, WholeInv', NEW c \in Clients, Fetch(c)
    PROVE  OrderInv'
<1>1. /\ req[c] \in Requests /\ req[c].scanned \in Seq(Msgs)
  BY ReaderFacts DEF OrderInv
<1>2. ASSUME NEW m \in Msgs, NEW r, Become(c, r), Get(c, m), Len(req[c].scanned) + 1 > MaxScan \/ r.pc = "fetch",
             r = Taken(c, m) \/ r = Raise(Taken(c, m))
      PROVE  OrderInv'
  <2>1. PICK taken : taken = Taken(c, m)
    OBVIOUS
  <2>2. /\ taken \in Requests /\ taken.scanned = Append(req[c].scanned, m) /\ taken.pc = req[c].pc
        /\ taken.processed = req[c].processed /\ taken.chan = req[c].chan
    <3>1. Append(req[c].scanned, m) \in Seq(Msgs)
      BY <1>1
    <3>2. PICK longer \in Seq(Msgs) : longer = Append(req[c].scanned, m)
      BY <3>1
    <3>3. taken = [req[c] EXCEPT !.scanned = longer]
      BY <2>1, <3>2 DEF Taken
    <3> QED
      BY <1>1, <3>2, <3>3 DEF Requests
  <2>3. /\ r.scanned = Append(req[c].scanned, m) /\ r.processed = req[c].processed /\ r.chan = req[c].chan
        /\ r.pc = req[c].pc \/ r.pc = "giveback"
    BY <1>2, <2>1, <2>2 DEF Raise, Requests
  <2>4. req[c].pc = "fetch"
    BY <1>2 DEF Get, At
  <2> QED
    BY <1>2, <2>3, <2>4, OrderReads
<1>3. ASSUME NEW m \in Msgs, FetchMore(c, m) PROVE OrderInv'
  <2>1. Taken(c, m).pc = "fetch" /\ Get(c, m) /\ Become(c, Taken(c, m))
    BY <1>1, <1>3 DEF FetchMore, Taken, Get, At, Requests
  <2> QED
    BY <1>2, <2>1
<1>4. ASSUME NEW m \in Msgs, FetchTooDeep(c, m) PROVE OrderInv'
  BY <1>2, <1>4 DEF FetchTooDeep
<1>5. CASE FetchEnds(c) \/ CallRaises(c)
  <2>1. PICK r \in {Goto(req[c], "match"), Raise(req[c])} :
           /\ Become(c, r) /\ UNCHANGED <<place, rank, owner, wire>>
           /\ \/ r = Goto(req[c], "match") /\ req[c].pc = "fetch"
              \/ req[c].chan = "dead"
    BY <1>5 DEF FetchEnds, CallRaises, Continue, brokerVars, queueVars, At
  <2>2. /\ r.scanned = req[c].scanned /\ r.processed = req[c].processed /\ r.chan = req[c].chan
        /\ r.pc \in {"match", "giveback"} /\ (r.chan = "open" => r.pc = "match" /\ req[c].pc = "fetch")
    BY <1>1, <2>1 DEF Goto, Raise, Requests
  <2> QED
    BY <2>1, <2>2, OrderQuiet
<1>6. \A m \in Msgs : ~FetchStops(c, m) /\ ~FetchLost(c, m)
  BY DEF FetchStops, FetchLost, Calm
<1> QED
  BY <1>3, <1>4, <1>5, <1>6 DEF Fetch

(* what is chosen from it, *)
LEMMA OrderChooses ==
    ASSUME OneLock, Quorum, OrderInv, WholeInv', NEW c \in Clients,
           Match(c) \/ PrepareTarget(c) \/ Take(c)
    PROVE  OrderInv'
<1>1. req[c] \in Requests
  BY ReaderFacts DEF OrderInv
<1>2. ASSUME NEW r, Continue(c, r), req[c].pc \in {"match", "target", "next"},
             r.scanned = req[c].scanned, r.processed = req[c].processed, r.chan = req[c].chan,
             r.pc # "undeliver", r.pc # "fetch"
      PROVE  OrderInv'
  BY <1>2, OrderQuiet DEF Continue, brokerVars, queueVars
<1>3. CASE TargetMissing(c)
  <2>1. PICK lost : lost = Lose(req[c])
    OBVIOUS
  <2>2. PICK r : r = Raise(lost)
    OBVIOUS
  <2>3. Become(c, r) /\ CanCall(c) /\ req[c].pc = "target" /\ Requeue(HeldBy(c))
    BY <1>3, <2>1, <2>2 DEF TargetMissing, At
  <2>4. lost \in Requests /\ lost.chan = "dead"
    BY <1>1, <2>1 DEF Lose, Requests
  <2>5. r.chan = "dead" /\ r.pc = "giveback"
    BY <2>2, <2>4 DEF Raise, Requests
  <2> QED
    BY <2>3, <2>5, OrderCloses
<1> USE <1>1, <1>2 DEF Requests, At, Goto, Raise, Finish
<1>4. CASE MatchScan(c) \/ MatchBulk(c)
  BY <1>4 DEF MatchScan, MatchBulk
<1>5. ASSUME NEW f \in Fps, MatchFails(c, f) PROVE OrderInv'
  BY <1>5 DEF MatchFails
<1>6. ASSUME NEW f \in Fps, NEW m \in Msgs, MatchSingle(c, f, m) PROVE OrderInv'
  BY <1>6 DEF MatchSingle
<1>7. CASE EnsureTarget(c) \/ TargetInvalid(c)
  BY <1>7 DEF EnsureTarget, TargetInvalid
<1>8. CASE BatchEnds(c)
  BY <1>8 DEF BatchEnds
<1>9. ASSUME NEW f \in Fps, NextAbsent(c, f) \/ NextDuplicated(c, f) PROVE OrderInv'
  BY <1>9 DEF NextAbsent, NextDuplicated, Skip, Record
<1>10. ASSUME NEW f \in Fps, NEW m \in Msgs, NextMessage(c, f, m) PROVE OrderInv'
  BY <1>10 DEF NextMessage
<1> QED
  BY <1>3, <1>4, <1>5, <1>6, <1>7, <1>8, <1>9, <1>10 DEF Match, PrepareTarget, Take

(* what is done to it, *)
LEMMA OrderActs ==
    ASSUME Calm, OneLock, Quorum, ReturnsInOrder, OrderInv, WholeInv', NEW c \in Clients,
           Publish(c) \/ SettleOne(c)
    PROVE  OrderInv'
<1>1. req[c] \in Requests /\ CustodyInv /\ ~At(c, "undeliver")
      /\ (req[c].chan = "open" => req[c].pc # "open")
  BY DEF OrderInv, WholeInv, ReaderInv, CustodyInv, IInv, TypeOK, Exclusive
<1>2. /\ req[c].pc \in {"publish", "settle"} /\ req[c].pc \in InLoop /\ HasCurrent(c)
      /\ req[c].current \in Msgs /\ req[c].current \in Read(c) /\ Fp[req[c].current] \in req[c].job.fps
  <2>1. req[c].pc \in {"publish", "settle"}
    BY <1>1 DEF Publish, PublishConfirmed, PublishUnroutable, PublishRefused, PublishLost, PublishRaises,
           SettleOne, Settle, SettleRaises, Undeliver, UndeliverRaises, At
  <2>2. HasCurrent(c) /\ req[c].pc \in InLoop
    BY <2>1 DEF HasCurrent, InLoop
  <2> QED
    BY <1>1, <2>1, <2>2, InTheLoop DEF Progress
<1>3. req[c].job \in Jobs /\ req[c].job.action \in {"move", "park", "delete"}
  <2>1. req[c].job \in Jobs
    BY <1>1, <1>2 DEF Requests, NoJob
  <2> QED
    BY <1>2, <2>1, JobsAssumption DEF ReturnsInOrder, Actions, Publishing, Removing
<1>4. ASSUME NEW r, Become(c, r), UNCHANGED <<place, rank, owner, wire>>,
             r.scanned = req[c].scanned, r.processed = req[c].processed, r.chan = req[c].chan,
             r.pc \in {"settle", "giveback"}
      PROVE  OrderInv'
  BY <1>2, <1>4, OrderQuiet
<1>5. ASSUME NEW lost \in Requests, NEW published \in BOOLEAN
      PROVE  LET b == Broken(lost, published)
             IN  /\ b.pc = "giveback" /\ b.chan = lost.chan
                 /\ b.scanned = lost.scanned /\ b.processed = lost.processed
  <2>1. PICK results : results = [f \in Fps |->
            IF f = Fp[lost.current]
            THEN IF published /\ lost.job.action = "copy" THEN "success" ELSE "failed"
            ELSE IF f \in lost.todo THEN "not_attempted" ELSE lost.results[f]]
    OBVIOUS
  <2>2. Halt(lost, published) = [lost EXCEPT !.results = results]
    BY <2>1 DEF Halt
  <2> QED
    BY <2>2 DEF Broken, Finish, Raise, Requests
<1>6. CASE PublishConfirmed(c)
  BY <1>1, <1>4, <1>6 DEF PublishConfirmed, queueVars, Goto, Requests
<1>7. CASE PublishUnroutable(c)
  <2>1. ~IsBulk(c)
    <3>1. Publishes(c) /\ "unroutable" \in Faults
      BY <1>1, <1>2, <1>7, InTheLoop DEF PublishUnroutable, Told, Recorded, At
    <3> QED
      BY <1>3, <3>1 DEF ReturnsInOrder, IsBulk, Publishes
  <2> QED
    BY <1>1, <1>4, <1>7, <2>1 DEF PublishUnroutable, Continue, brokerVars, queueVars, Raise, Requests
<1>8. CASE PublishRefused(c)
  <2>1. PICK r : r = Broken(Lose(req[c]), FALSE)
    OBVIOUS
  <2>2. Become(c, r) /\ CanCall(c) /\ req[c].pc = "publish" /\ Requeue(HeldBy(c))
    BY <1>8, <2>1 DEF PublishRefused, At
  <2>3. Lose(req[c]) \in Requests /\ Lose(req[c]).chan = "dead"
    BY <1>1 DEF Lose, Requests
  <2>4. r.chan = "dead" /\ r.pc = "giveback"
    BY <1>5, <2>1, <2>3
  <2> QED
    BY <2>2, <2>4, OrderCloses DEF OrderInv
<1>9. CASE PublishRaises(c)
  BY <1>1, <1>4, <1>5, <1>9 DEF PublishRaises, Continue, brokerVars, queueVars
<1>10. CASE SettleRaises(c)
  <2>1. Publishes(c) \in BOOLEAN
    BY DEF Publishes
  <2>2. PICK published \in BOOLEAN : published = Publishes(c)
    BY <2>1, Zenon
  <2>3. Become(c, Broken(req[c], published)) /\ UNCHANGED <<place, rank, owner, wire>>
    BY <1>10, <2>2 DEF SettleRaises, Continue, brokerVars, queueVars
  <2> QED
    BY <1>1, <1>4, <1>5, <2>3
<1>11. CASE Settle(c)
  <2>1. Write(c, "ack", req[c].current) /\ req[c].chan = "open" /\ req[c].pc = "settle"
    BY <1>3, <1>11 DEF Settle, At, Removing
  <2>2. PICK settled : settled = Record(Process(req[c], req[c].current), Fp[req[c].current], "success")
    OBVIOUS
  <2>3. PICK r : r = IF IsBulk(c) THEN Goto(settled, "next") ELSE Finish(settled)
    OBVIOUS
  <2>4. Become(c, r)
    BY <1>11, <2>2, <2>3 DEF Settle
  <2>5. PICK f \in Fps : f = Fp[req[c].current]
    BY <1>2, FpAssumption
  <2>6. /\ settled \in Requests /\ settled.scanned = req[c].scanned /\ settled.chan = req[c].chan
        /\ settled.processed = req[c].processed \cup {req[c].current}
    BY <1>1, <1>2, <2>2, <2>5 DEF Record, Process, Requests, Statuses
  <2>7. /\ r.scanned = settled.scanned /\ r.chan = settled.chan /\ r.processed = settled.processed
        /\ r.pc \in {"next", "giveback"}
    BY <2>3, <2>6 DEF Goto, Finish, Requests
  <2> QED
    BY <1>2, <2>1, <2>4, <2>6, <2>7, OrderWrites
<1>12. ~PublishLost(c) /\ ~Undeliver(c) /\ ~UndeliverRaises(c)
  BY <1>1 DEF PublishLost, Calm, Undeliver, UndeliverRaises
<1> QED
  BY <1>6, <1>7, <1>8, <1>9, <1>10, <1>11, <1>12 DEF Publish, SettleOne

(* and the broker. *)
LEMMA OrderBroker ==
    ASSUME OneLock, Quorum, OrderInv, WholeInv', NEW c \in Clients, Broker(c)
    PROVE  OrderInv'
<1>1. ~BrokerCleanup(c)
  BY ReaderFacts DEF OrderInv, BrokerCleanup
<1> QED
  BY <1>1, OrderAcked, OrderNacked DEF Broker

LEMMA InitIsInOrder == Init => OrderInv
<1> SUFFICES ASSUME Init PROVE OrderInv
  OBVIOUS
<1>1. \A c \in Clients : req[c].pc = "idle" /\ req[c].chan = "none"
  BY DEF Init, NewRequest
<1>2. RanksDiffer
  BY SizesAssumption DEF Init, RanksDiffer, Msgs
<1>3. InOldOrder
  BY SizesAssumption DEF Init, InOldOrder, Backlog, Msgs
<1> QED
  BY <1>1, <1>2, <1>3, InitIsWhole DEF OrderInv, At

LEMMA NextIsInOrder ==
    Calm /\ OneLock /\ Quorum /\ ReturnsInOrder /\ OrderInv /\ [Next]_vars => OrderInv'
<1> SUFFICES ASSUME Calm, OneLock, Quorum, ReturnsInOrder, OrderInv, [Next]_vars PROVE OrderInv'
  OBVIOUS
<1>1. WholeInv'
  BY NextIsWhole DEF OrderInv
<1>2. ASSUME NEW c \in Clients, Step(c) PROVE OrderInv'
  BY <1>1, <1>2, OrderAround, OrderFetches, OrderChooses, OrderActs DEF Step
<1>3. CASE UNCHANGED vars
  <2>1. \A c \in Clients : ReadsAhead(c) /\ GivesBack(c) => ReadsAhead(c)' /\ GivesBack(c)'
    BY <1>3, SameView DEF vars, brokerVars, queueVars
  <2> QED
    BY <1>1, <1>3, <2>1 DEF OrderInv, RanksDiffer, InOldOrder, At, vars, brokerVars, queueVars
<1>4. /\ \A c \in Clients : ~AcquireFails(c) /\ ~LoseSharedLock(c) /\ ~ConnectionLoss(c) /\ ~PgCleanup(c)
      /\ \A r \in Replicas : ~Crash(r)
  BY DEF Calm, AcquireFails, LoseSharedLock, ConnectionLoss, Crash, PgCleanup, OrderInv, WholeInv, ReaderInv, Exclusive
<1> QED
  BY <1>1, <1>2, <1>3, <1>4, OrderAround, OrderArrives, OrderBroker DEF Next, Terminated

(* A quorum queue is left in the order it had, whatever the interleaving of the *)
(* requests' acks and nacks with the broker: once nothing is unacked, what is   *)
(* left of the backlog stands as it stood, though each message that was read    *)
(* went to the back (message_operator.py:118).                                  *)
THEOREM OrderIsKept ==
    Calm /\ OneLock /\ Quorum /\ ReturnsInOrder => (Spec => []QuorumOrderKept)
<1> SUFFICES ASSUME Calm, OneLock, Quorum, ReturnsInOrder PROVE Spec => []QuorumOrderKept
  OBVIOUS
<1>1. ASSUME OrderInv PROVE QuorumOrderKept
  <2> SUFFICES ASSUME \A m \in Msgs : place[m] # "unacked",
                      NEW x \in Backlog, NEW y \in Backlog, x < y, place[x] = "ready", place[y] = "ready"
               PROVE  rank[x] < rank[y]
    BY DEF QuorumOrderKept
  <2>1. CASE \A c \in Clients : req[c].chan # "open"
    BY <1>1, <2>1 DEF OrderInv, InOldOrder
  <2>2. ASSUME NEW c \in Clients, req[c].chan = "open" PROVE rank[x] < rank[y]
    <3>1. ReadsAhead(c) /\ GivesBack(c)
      BY <1>1, <2>2 DEF OrderInv
    <3>2. CASE x \in Read(c) /\ y \in Read(c)
      BY <3>1, <3>2 DEF GivesBack, Returned
    <3>3. CASE x \notin Read(c) /\ y \notin Read(c)
      BY <3>1, <3>3 DEF GivesBack, Kept
    <3>4. CASE ~(x \in Read(c) <=> y \in Read(c))
      <4>1. req[c].pc = "fetch"
        BY <3>1, <3>4 DEF ReadsAhead
      <4> QED
        BY <3>1, <3>4, <4>1 DEF GivesBack
    <3> QED
      BY <3>2, <3>3, <3>4
  <2> QED
    BY <2>1, <2>2
<1>2. OrderInv /\ [Next]_vars => OrderInv'
  BY NextIsInOrder
<1> QED
  BY <1>1, <1>2, InitIsInOrder, PTL DEF Spec
===============================================================================
