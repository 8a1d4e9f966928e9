------------------------- MODULE MessageOperatorProofs -------------------------
(***************************************************************************)
(* Publish before ack loses no message: NoLoss is an invariant of          *)
(* MessageOperator for any queue, requests, replicas and failures.         *)
(*                                                                         *)
(* The invariant that is inductive, IInv, follows a message from its       *)
(* basic.get to the broker's treatment of its ack: what was read on an     *)
(* open channel and not yet settled is held by that channel                *)
(* (UnsettledHeld), so each frame written settles a message the channel    *)
(* holds, once, and every ack still in flight is justified (WireSafe).     *)
(* Progress says what the coroutine has established where it stands.       *)
(***************************************************************************)
EXTENDS MessageOperator, FiniteSetTheorems, SequenceTheorems, TLAPS

(* The ranks after a requeue are numbers, which the type invariant needs. *)
LEMMA RanksAreNumbers ==
    ASSUME TypeOK, NEW S \in SUBSET Msgs
    PROVE  MovedToBack(S) \in [Msgs -> Int]
<1>1. IsFiniteSet(Msgs)
  BY SizesAssumption, FS_Interval DEF Msgs
<1>2. Cardinality(S) \in Nat
  BY <1>1, FS_Subset, FS_CardinalityType
<1>3. ASSUME NEW m \in Msgs PROVE Behind(S, m) \in Nat
  <2>1. {x \in S : rank[x] < rank[m]} \in SUBSET Msgs
    OBVIOUS
  <2> QED
    BY <1>1, <2>1, FS_Subset, FS_CardinalityType DEF Behind
<1> QED
  BY <1>2, <1>3, SizesAssumption DEF MovedToBack, TypeOK

(* Returning messages keeps the queue's variables well typed. *)
LEMMA RequeueType ==
    ASSUME TypeOK, NEW S \in SUBSET Msgs, Requeue(S)
    PROVE  /\ place' \in [Msgs -> {"absent", "ready", "unacked", "gone"}]
           /\ rank' \in [Msgs -> Int]
           /\ owner' \in [Msgs -> Clients \cup {None}]
<1>1. MovedToBack(S) \in [Msgs -> Int]
  BY RanksAreNumbers
<1> QED
  BY <1>1 DEF Requeue, TypeOK

(* What is on a wire names a message. *)
LEMMA WireType ==
    ASSUME TypeOK, NEW c \in Clients, NEW i \in DOMAIN wire[c]
    PROVE  wire[c][i] \in Frames /\ wire[c][i].msg \in Msgs
<1>1. wire[c] \in Seq(Frames)
  BY DEF TypeOK
<1>2. wire[c][i] \in Frames
  BY <1>1
<1> QED
  BY <1>2 DEF Frames

(* A client whose own state is as before, and whose channel still holds what *)
(* it held, keeps its part of the invariant.                                 *)
LEMMA Untouched ==
    ASSUME TypeOK, NEW x \in Clients, ClientInv(x),
           req'[x] = req[x], wire'[x] = wire[x], copies'[x] = copies[x],
           \A m \in Msgs : Holds(x, m) => Holds(x, m)'
    PROVE  ClientInv(x)'
<1>1. \A i \in DOMAIN wire[x] : wire[x][i] \in Frames
  BY DEF TypeOK
<1>2. Read(x) \subseteq Msgs
  BY DEF TypeOK, Requests, Read
<1>3. WireSafe(x)'
  BY <1>1 DEF ClientInv, WireSafe, Justified, Publishes, Frames
<1>4. UnsettledHeld(x)'
  BY <1>2 DEF ClientInv, UnsettledHeld, Read, OnWire
<1>5. Progress(x)'
  BY DEF ClientInv, Progress, At, HasCurrent, IsBulk, Read, Publishes
<1> QED
  BY <1>3, <1>4, <1>5 DEF ClientInv

(* A step of the coroutine that leaves the broker alone. *)
LEMMA LocalStep ==
    ASSUME IInv, NEW c \in Clients, NEW r \in Requests, Become(c, r),
           UNCHANGED brokerVars,
           local' \in [Replicas -> Clients \cup {None}], pg' \in Clients \cup {None},
           r.job = req[c].job \/ At(c, "idle"),
           r.scanned = req[c].scanned, r.processed = req[c].processed,
           r.chan = "open" => req[c].chan = "open" \/ r.scanned = <<>>,
           Progress(c)'
    PROVE  IInv'
<1> USE DEF IInv
<1>1. req' = [req EXCEPT ![c] = r] /\ req'[c] = r
  BY DEF Become, TypeOK
<1>2. TypeOK'
  BY <1>1 DEF TypeOK, brokerVars, queueVars
<1>3. \A x \in Clients, m \in Msgs : Justified(x, m) => Justified(x, m)'
  BY <1>1 DEF Justified, Publishes, Progress, ClientInv, At, NoJob, Removing, brokerVars, TypeOK
<1>4. NoLoss'
  BY <1>3 DEF NoLoss, brokerVars, queueVars
<1>5. ASSUME NEW x \in Clients, x # c PROVE ClientInv(x)'
  BY <1>1, <1>5, Untouched DEF Holds, brokerVars, queueVars, TypeOK
<1>6. ClientInv(c)'
  <2>1. WireSafe(c)'
    <3>1. \A i \in DOMAIN wire[c] : wire[c][i].msg \in Msgs
      BY WireType
    <3> QED
      BY <1>3, <3>1 DEF ClientInv, WireSafe, Holds, brokerVars, queueVars
  <2>2. UnsettledHeld(c)'
    BY <1>1 DEF ClientInv, UnsettledHeld, Read, OnWire, Holds, brokerVars, queueVars
  <2> QED
    BY <2>1, <2>2 DEF ClientInv
<1> QED
  BY <1>2, <1>4, <1>5, <1>6

(* The same, when the locks do not change either. *)
LEMMA ContinueStep ==
    ASSUME IInv, NEW c \in Clients, NEW r \in Requests, Continue(c, r),
           r.job = req[c].job \/ At(c, "idle"),
           r.scanned = req[c].scanned, r.processed = req[c].processed,
           r.chan = "open" => req[c].chan = "open" \/ r.scanned = <<>>,
           Progress(c)'
    PROVE  IInv'
<1>1. local' \in [Replicas -> Clients \cup {None}] /\ pg' \in Clients \cup {None}
  BY DEF Continue, lockVars, IInv, TypeOK
<1> QED
  BY <1>1, LocalStep DEF Continue

-------------------------------------------------------------------------------
(* The steps of the coroutine that leave the broker alone. *)

(* What Become does to a request, and what is known of it before. *)
LEMMA BecomeIs ==
    ASSUME IInv, NEW c \in Clients, NEW r, Become(c, r)
    PROVE  /\ req'[c] = r
           /\ req[c] \in Requests
           /\ Progress(c)
BY DEF Become, IInv, TypeOK, ClientInv

(* Taking the locks. *)
LEMMA LockPreserves ==
    ASSUME IInv, NEW c \in Clients, Lock(c)
    PROVE  IInv'
<1> req[c] \in Requests /\ Progress(c)
  BY DEF IInv, TypeOK, ClientInv
<1>1. CASE AcquireLocal(c)
  <2> DEFINE r == Goto(req[c], IF Shared THEN "shared" ELSE "open")
  <2>1. r \in Requests /\ Become(c, r)
    BY <1>1 DEF AcquireLocal, Requests, Locations, Statuses, Goto
  <2>2. req'[c] = r
    BY <2>1, BecomeIs
  <2>3. Progress(c)'
    BY <1>1, <2>2 DEF AcquireLocal, Progress, At, BeforeOpen, BeforeLoop, InLoop, HasCurrent, Goto
  <2>4. local' \in [Replicas -> Clients \cup {None}] /\ pg' \in Clients \cup {None}
    BY <1>1 DEF AcquireLocal, IInv, TypeOK
  <2> QED
    BY <1>1, <2>1, <2>3, <2>4, LocalStep DEF AcquireLocal, Requests, Goto
<1>2. CASE AcquireShared(c)
  <2> DEFINE r == Goto(req[c], "open")
  <2>1. r \in Requests /\ Become(c, r)
    BY <1>2 DEF AcquireShared, Requests, Locations, Statuses, Goto
  <2>2. req'[c] = r
    BY <2>1, BecomeIs
  <2>3. Progress(c)'
    BY <1>2, <2>2 DEF AcquireShared, Progress, At, BeforeOpen, BeforeLoop, InLoop, HasCurrent, Goto
  <2>4. local' \in [Replicas -> Clients \cup {None}] /\ pg' \in Clients \cup {None}
    BY <1>2 DEF AcquireShared, IInv, TypeOK
  <2> QED
    BY <1>2, <2>1, <2>3, <2>4, LocalStep DEF AcquireShared, Requests, Goto
<1> QED
  BY <1>1, <1>2 DEF Lock

(* The database does not answer. *)
LEMMA AcquireFailsPreserves ==
    ASSUME IInv, NEW c \in Clients, AcquireFails(c)
    PROVE  IInv'
<1> req[c] \in Requests /\ Progress(c)
  BY DEF IInv, TypeOK, ClientInv
<1> DEFINE r == Fail(req[c])
<1>1. r \in Requests /\ Continue(c, r)
  BY DEF AcquireFails, Requests, Locations, Statuses, Fail
<1>2. req'[c] = r
  BY <1>1, BecomeIs DEF Continue
<1>3. Progress(c)'
  BY <1>2 DEF AcquireFails, Progress, At, BeforeOpen, BeforeLoop, InLoop, HasCurrent, Fail
<1> QED
  BY <1>1, <1>3, ContinueStep DEF AcquireFails, Requests, Fail

(* A request comes in. *)
LEMMA StartPreserves ==
    ASSUME IInv, NEW c \in Clients, NEW j \in Jobs, Start(c, j)
    PROVE  IInv'
<1> req[c] \in Requests /\ Progress(c)
  BY DEF IInv, TypeOK, ClientInv
<1> DEFINE r == [req[c] EXCEPT !.job = j, !.todo = j.fps, !.pc = "lock"]
<1>1. r \in Requests /\ Continue(c, r)
  BY JobsAssumption DEF Start, Requests, Locations, Statuses
<1>2. req'[c] = r
  BY <1>1, BecomeIs DEF Continue
<1>3. Progress(c)'
  BY <1>2, JobsAssumption DEF Start, Progress, At, BeforeOpen, BeforeLoop, InLoop, HasCurrent, IsBulk, Publishes
<1> QED
  BY <1>1, <1>3, JobsAssumption, ContinueStep DEF Start, Requests

(* Opening the channel. *)
LEMMA OpenPreserves ==
    ASSUME IInv, NEW c \in Clients, Open(c)
    PROVE  IInv'
<1> req[c] \in Requests /\ Progress(c)
  BY DEF IInv, TypeOK, ClientInv
<1>1. CASE OpenChannel(c)
  <2> DEFINE r == LET opened == [req[c] EXCEPT !.chan = "open"]
                 IN IF Quorum /\ Cardinality(Ready) > MaxScan
                    THEN Raise(opened) ELSE Goto(opened, "fetch")
  <2>1. r \in Requests /\ Continue(c, r)
    BY <1>1 DEF OpenChannel, Requests, Locations, Statuses, Raise, Goto
  <2>2. req'[c] = r
    BY <2>1, BecomeIs DEF Continue
  <2>3. Progress(c)'
    BY <1>1, <2>2 DEF OpenChannel, Progress, At, BeforeOpen, BeforeLoop, InLoop, HasCurrent, Raise, Goto
  <2> QED
    BY <1>1, <2>1, <2>3, ContinueStep DEF OpenChannel, Requests, Raise, Goto, Progress, At, BeforeOpen
<1>2. CASE OpenFails(c)
  <2> DEFINE r == Fail(req[c])
  <2>1. r \in Requests /\ Continue(c, r)
    BY <1>2 DEF OpenFails, Requests, Locations, Statuses, Fail
  <2>2. req'[c] = r
    BY <2>1, BecomeIs DEF Continue
  <2>3. Progress(c)'
    BY <1>2, <2>2 DEF OpenFails, Progress, At, BeforeOpen, BeforeLoop, InLoop, HasCurrent, Fail
  <2> QED
    BY <1>2, <2>1, <2>3, ContinueStep DEF OpenFails, Requests, Fail
<1> QED
  BY <1>1, <1>2 DEF Open

(* Deciding what to act on. *)
LEMMA MatchPreserves ==
    ASSUME IInv, NEW c \in Clients, Match(c)
    PROVE  IInv'
<1> req[c] \in Requests /\ Progress(c)
  BY DEF IInv, TypeOK, ClientInv
<1>1. CASE MatchScan(c)
  <2> DEFINE r == Finish(req[c])
  <2>1. r \in Requests /\ Continue(c, r)
    BY <1>1 DEF MatchScan, Requests, Locations, Statuses, Finish
  <2>2. req'[c] = r
    BY <2>1, BecomeIs DEF Continue
  <2>3. Progress(c)'
    BY <1>1, <2>2 DEF MatchScan, Progress, At, BeforeOpen, BeforeLoop, InLoop, HasCurrent, Finish
  <2> QED
    BY <1>1, <2>1, <2>3, ContinueStep DEF MatchScan, Requests, Finish
<1>2. CASE MatchBulk(c)
  <2> DEFINE r == Goto(req[c], IF Publishes(c) THEN "target" ELSE "next")
  <2>1. r \in Requests /\ Continue(c, r)
    BY <1>2 DEF MatchBulk, Requests, Locations, Statuses, Goto
  <2>2. req'[c] = r
    BY <2>1, BecomeIs DEF Continue
  <2>3. Progress(c)'
    BY <1>2, <2>2 DEF MatchBulk, Progress, At, BeforeOpen, BeforeLoop, InLoop, HasCurrent, Goto, IsBulk
  <2> QED
    BY <1>2, <2>1, <2>3, ContinueStep DEF MatchBulk, Requests, Goto
<1>3. ASSUME NEW f \in Fps, MatchFails(c, f) PROVE IInv'
  <2> DEFINE r == Raise(req[c])
  <2>1. r \in Requests /\ Continue(c, r)
    BY <1>3 DEF MatchFails, Requests, Locations, Statuses, Raise
  <2>2. req'[c] = r
    BY <2>1, BecomeIs DEF Continue
  <2>3. Progress(c)'
    BY <1>3, <2>2 DEF MatchFails, Progress, At, BeforeOpen, BeforeLoop, InLoop, HasCurrent, Raise
  <2> QED
    BY <1>3, <2>1, <2>3, ContinueStep DEF MatchFails, Requests, Raise
<1>4. ASSUME NEW f \in Fps, NEW m \in Msgs, MatchSingle(c, f, m) PROVE IInv'
  <2> DEFINE r == [req[c] EXCEPT !.current = m,
                      !.pc = IF Publishes(c) THEN "target" ELSE "settle"]
  <2>1. r \in Requests /\ Continue(c, r)
    BY <1>4 DEF MatchSingle, Requests, Locations, Statuses
  <2>2. req'[c] = r
    BY <2>1, BecomeIs DEF Continue
  <2>3. Progress(c)'
    BY <1>4, <2>2 DEF MatchSingle, Progress, At, BeforeOpen, BeforeLoop, InLoop, HasCurrent, IsBulk, Publishes, Matches, Read
  <2> QED
    BY <1>4, <2>1, <2>3, ContinueStep DEF MatchSingle, Requests
<1> QED
  BY <1>1, <1>2, <1>3, <1>4 DEF Match

(* One turn of operate_bulk's loop. *)
LEMMA TakePreserves ==
    ASSUME IInv, NEW c \in Clients, Take(c)
    PROVE  IInv'
<1> req[c] \in Requests /\ Progress(c)
  BY DEF IInv, TypeOK, ClientInv
<1>1. CASE BatchEnds(c)
  <2> DEFINE r == Finish(req[c])
  <2>1. r \in Requests /\ Continue(c, r)
    BY <1>1 DEF BatchEnds, Requests, Locations, Statuses, Finish
  <2>2. req'[c] = r
    BY <2>1, BecomeIs DEF Continue
  <2>3. Progress(c)'
    BY <1>1, <2>2 DEF BatchEnds, Progress, At, BeforeOpen, BeforeLoop, InLoop, HasCurrent, Finish
  <2> QED
    BY <1>1, <2>1, <2>3, ContinueStep DEF BatchEnds, Requests, Finish
<1>2. ASSUME NEW f \in Fps, NextAbsent(c, f) PROVE IInv'
  <2> DEFINE r == Record([req[c] EXCEPT !.todo = @ \ {f}], f, "not_found")
  <2>1. r \in Requests /\ Continue(c, r)
    BY <1>2 DEF NextAbsent, Requests, Locations, Statuses, Skip, Record
  <2>2. req'[c] = r
    BY <2>1, BecomeIs DEF Continue
  <2>3. Progress(c)'
    BY <1>2, <2>2 DEF NextAbsent, Progress, At, BeforeOpen, BeforeLoop, InLoop, HasCurrent, Skip, Record, IsBulk
  <2> QED
    BY <1>2, <2>1, <2>3, ContinueStep DEF NextAbsent, Requests, Skip, Record
<1>3. ASSUME NEW f \in Fps, NextDuplicated(c, f) PROVE IInv'
  <2> DEFINE r == Record([req[c] EXCEPT !.todo = @ \ {f}], f, "skipped_duplicate")
  <2>1. r \in Requests /\ Continue(c, r)
    BY <1>3 DEF NextDuplicated, Requests, Locations, Statuses, Skip, Record
  <2>2. req'[c] = r
    BY <2>1, BecomeIs DEF Continue
  <2>3. Progress(c)'
    BY <1>3, <2>2 DEF NextDuplicated, Progress, At, BeforeOpen, BeforeLoop, InLoop, HasCurrent, Skip, Record, IsBulk
  <2> QED
    BY <1>3, <2>1, <2>3, ContinueStep DEF NextDuplicated, Requests, Skip, Record
<1>4. ASSUME NEW f \in Fps, NEW m \in Msgs, NextMessage(c, f, m) PROVE IInv'
  <2> DEFINE r == [req[c] EXCEPT !.todo = @ \ {f}, !.current = m,
                      !.pc = IF Publishes(c) THEN "publish" ELSE "settle"]
  <2>1. r \in Requests /\ Continue(c, r)
    BY <1>4 DEF NextMessage, Requests, Locations, Statuses
  <2>2. req'[c] = r
    BY <2>1, BecomeIs DEF Continue
  <2>3. Progress(c)'
    BY <1>4, <2>2 DEF NextMessage, Progress, At, BeforeOpen, BeforeLoop, InLoop, HasCurrent, IsBulk, Publishes, Matches, Read
  <2> QED
    BY <1>4, <2>1, <2>3, ContinueStep DEF NextMessage, Requests
<1> QED
  BY <1>1, <1>2, <1>3, <1>4 DEF Take

(* The steps that only raise, move on or give up. *)
LEMMA OtherLocalPreserves ==
    ASSUME IInv, NEW c \in Clients,
           \/ FetchEnds(c)
           \/ CallRaises(c)
           \/ EnsureTarget(c)
           \/ TargetInvalid(c)
           \/ PublishUnroutable(c)
           \/ PublishRaises(c)
           \/ SettleRaises(c)
           \/ UndeliverRaises(c)
           \/ GiveBackRaises(c)
           \/ GiveBackEnds(c)
           \/ CloseDead(c)
           \/ ConnectionLoss(c)
    PROVE  IInv'
<1> req[c] \in Requests /\ Progress(c)
  BY DEF IInv, TypeOK, ClientInv
<1>1. CASE FetchEnds(c)
  <2> DEFINE r == Goto(req[c], "match")
  <2>1. r \in Requests /\ Continue(c, r)
    BY <1>1 DEF FetchEnds, Requests, Locations, Statuses, Goto
  <2>2. req'[c] = r
    BY <2>1, BecomeIs DEF Continue
  <2>3. Progress(c)'
    BY <1>1, <2>2 DEF FetchEnds, Progress, At, BeforeOpen, BeforeLoop, InLoop, HasCurrent, Goto
  <2> QED
    BY <1>1, <2>1, <2>3, ContinueStep DEF FetchEnds, Requests, Goto
<1>2. CASE CallRaises(c)
  <2> DEFINE r == Raise(req[c])
  <2>1. r \in Requests /\ Continue(c, r)
    BY <1>2 DEF CallRaises, Requests, Locations, Statuses, Raise
  <2>2. req'[c] = r
    BY <2>1, BecomeIs DEF Continue
  <2>3. Progress(c)'
    BY <1>2, <2>2 DEF CallRaises, Progress, At, BeforeOpen, BeforeLoop, InLoop, HasCurrent, Raise
  <2> QED
    BY <1>2, <2>1, <2>3, ContinueStep DEF CallRaises, Requests, Raise
<1>3. CASE EnsureTarget(c)
  <2> DEFINE r == Goto(req[c], IF IsBulk(c) THEN "next" ELSE "publish")
  <2>1. r \in Requests /\ Continue(c, r)
    BY <1>3 DEF EnsureTarget, Requests, Locations, Statuses, Goto
  <2>2. req'[c] = r
    BY <2>1, BecomeIs DEF Continue
  <2>3. Progress(c)'
    BY <1>3, <2>2 DEF EnsureTarget, Progress, At, BeforeOpen, BeforeLoop, InLoop, HasCurrent, Goto, IsBulk, Read
  <2> QED
    BY <1>3, <2>1, <2>3, ContinueStep DEF EnsureTarget, Requests, Goto
<1>4. CASE TargetInvalid(c)
  <2> DEFINE r == Raise(req[c])
  <2>1. r \in Requests /\ Continue(c, r)
    BY <1>4 DEF TargetInvalid, Requests, Locations, Statuses, Raise
  <2>2. req'[c] = r
    BY <2>1, BecomeIs DEF Continue
  <2>3. Progress(c)'
    BY <1>4, <2>2 DEF TargetInvalid, Progress, At, BeforeOpen, BeforeLoop, InLoop, HasCurrent, Raise
  <2> QED
    BY <1>4, <2>1, <2>3, ContinueStep DEF TargetInvalid, Requests, Raise
<1>5. CASE PublishUnroutable(c)
  <2> DEFINE r == IF IsBulk(c) THEN Goto(req[c], "undeliver") ELSE Raise(req[c])
  <2>1. r \in Requests /\ Continue(c, r)
    BY <1>5 DEF PublishUnroutable, Requests, Locations, Statuses, Goto, Raise
  <2>2. req'[c] = r
    BY <2>1, BecomeIs DEF Continue
  <2>3. Progress(c)'
    BY <1>5, <2>2 DEF PublishUnroutable, Progress, At, BeforeOpen, BeforeLoop, InLoop, HasCurrent, Goto, Raise, IsBulk, Read
  <2> QED
    BY <1>5, <2>1, <2>3, ContinueStep DEF PublishUnroutable, Requests, Goto, Raise
<1>6. CASE PublishRaises(c)
  <2> DEFINE r == Broken(req[c], FALSE)
  <2>1. r \in Requests /\ Continue(c, r)
    BY <1>6 DEF PublishRaises, Requests, Locations, Statuses, Broken, Halt, Finish, Raise
  <2>2. req'[c] = r
    BY <2>1, BecomeIs DEF Continue
  <2>3. Progress(c)'
    BY <1>6, <2>2 DEF PublishRaises, Progress, At, BeforeOpen, BeforeLoop, InLoop, HasCurrent, Broken, Halt, Finish, Raise
  <2> QED
    BY <1>6, <2>1, <2>3, ContinueStep DEF PublishRaises, Requests, Broken, Halt, Finish, Raise
<1>7. CASE SettleRaises(c)
  <2> DEFINE r == Broken(req[c], Publishes(c))
  <2>1. r \in Requests /\ Continue(c, r)
    BY <1>7 DEF SettleRaises, Requests, Locations, Statuses, Broken, Halt, Finish, Raise
  <2>2. req'[c] = r
    BY <2>1, BecomeIs DEF Continue
  <2>3. Progress(c)'
    BY <1>7, <2>2 DEF SettleRaises, Progress, At, BeforeOpen, BeforeLoop, InLoop, HasCurrent, Broken, Halt, Finish, Raise
  <2> QED
    BY <1>7, <2>1, <2>3, ContinueStep DEF SettleRaises, Requests, Broken, Halt, Finish, Raise
<1>8. CASE UndeliverRaises(c)
  <2> DEFINE r == Raise(req[c])
  <2>1. r \in Requests /\ Continue(c, r)
    BY <1>8 DEF UndeliverRaises, Requests, Locations, Statuses, Raise
  <2>2. req'[c] = r
    BY <2>1, BecomeIs DEF Continue
  <2>3. Progress(c)'
    BY <1>8, <2>2 DEF UndeliverRaises, Progress, At, BeforeOpen, BeforeLoop, InLoop, HasCurrent, Raise
  <2> QED
    BY <1>8, <2>1, <2>3, ContinueStep DEF UndeliverRaises, Requests, Raise
<1>9. CASE GiveBackRaises(c)
  <2> DEFINE r == Goto(IF IsBulk(c) THEN req[c] ELSE Raise(req[c]), "close")
  <2>1. r \in Requests /\ Continue(c, r)
    BY <1>9 DEF GiveBackRaises, Requests, Locations, Statuses, Goto, Raise
  <2>2. req'[c] = r
    BY <2>1, BecomeIs DEF Continue
  <2>3. Progress(c)'
    BY <1>9, <2>2 DEF GiveBackRaises, Progress, At, BeforeOpen, BeforeLoop, InLoop, HasCurrent, Goto, Raise
  <2> QED
    BY <1>9, <2>1, <2>3, ContinueStep DEF GiveBackRaises, Requests, Goto, Raise
<1>10. CASE GiveBackEnds(c)
  <2> DEFINE r == Goto(req[c], "close")
  <2>1. r \in Requests /\ Continue(c, r)
    BY <1>10 DEF GiveBackEnds, Requests, Locations, Statuses, Goto
  <2>2. req'[c] = r
    BY <2>1, BecomeIs DEF Continue
  <2>3. Progress(c)'
    BY <1>10, <2>2 DEF GiveBackEnds, Progress, At, BeforeOpen, BeforeLoop, InLoop, HasCurrent, Goto
  <2> QED
    BY <1>10, <2>1, <2>3, ContinueStep DEF GiveBackEnds, Requests, Goto
<1>11. CASE CloseDead(c)
  <2> DEFINE r == Goto(req[c], "release")
  <2>1. r \in Requests /\ Continue(c, r)
    BY <1>11 DEF CloseDead, Requests, Locations, Statuses, Goto
  <2>2. req'[c] = r
    BY <2>1, BecomeIs DEF Continue
  <2>3. Progress(c)'
    BY <1>11, <2>2 DEF CloseDead, Progress, At, BeforeOpen, BeforeLoop, InLoop, HasCurrent, Goto
  <2> QED
    BY <1>11, <2>1, <2>3, ContinueStep DEF CloseDead, Requests, Goto
<1>12. CASE ConnectionLoss(c)
  <2> DEFINE r == Lose(req[c])
  <2>1. r \in Requests /\ Continue(c, r)
    BY <1>12 DEF ConnectionLoss, Requests, Locations, Statuses, Lose
  <2>2. req'[c] = r
    BY <2>1, BecomeIs DEF Continue
  <2>3. Progress(c)'
    BY <1>12, <2>2 DEF ConnectionLoss, Progress, At, BeforeOpen, BeforeLoop, InLoop, HasCurrent, Lose, IsBulk, Publishes, Read, Continue, brokerVars
  <2> QED
    BY <1>12, <2>1, <2>3, ContinueStep DEF ConnectionLoss, Requests, Lose
<1> QED
  BY <1>1, <1>2, <1>3, <1>4, <1>5, <1>6, <1>7, <1>8, <1>9, <1>10, <1>11, <1>12

(* Releasing the locks. *)
LEMMA ReleasePreserves ==
    ASSUME IInv, NEW c \in Clients, Release(c)
    PROVE  IInv'
<1> req[c] \in Requests /\ Progress(c)
  BY DEF IInv, TypeOK, ClientInv
<1> DEFINE r == Goto(IF Shared /\ pg # c THEN Raise(req[c]) ELSE req[c], "done")
<1>1. r \in Requests /\ Become(c, r)
  BY DEF Release, Requests, Locations, Statuses, Goto, Raise
<1>2. req'[c] = r
  BY <1>1, BecomeIs
<1>3. Progress(c)'
  BY <1>2 DEF Release, Progress, At, BeforeOpen, BeforeLoop, InLoop, HasCurrent, Goto, Raise
<1>4. local' \in [Replicas -> Clients \cup {None}] /\ pg' \in Clients \cup {None}
  BY DEF Release, IInv, TypeOK
<1> QED
  BY <1>1, <1>3, <1>4, LocalStep DEF Release, Requests, Goto, Raise

-------------------------------------------------------------------------------
(* The steps that meet the broker. *)

(* basic.get: the broker hands over m, which nobody held. *)
LEMMA GetStep ==
    ASSUME IInv, NEW c \in Clients, NEW m \in Msgs, Get(c, m),
           NEW r \in Requests, Become(c, r),
           r.job = req[c].job, r.processed = req[c].processed,
           r.scanned = req[c].scanned \/ r.scanned = Append(req[c].scanned, m),
           Progress(c)'
    PROVE  IInv'
<1>1. req' = [req EXCEPT ![c] = r] /\ req'[c] = r /\ req[c] \in Requests
  BY BecomeIs DEF Become
<1>2. /\ place[m] = "ready" /\ place' = [place EXCEPT ![m] = "unacked"]
      /\ owner' = [owner EXCEPT ![m] = c]
      /\ wire[c] = <<>> /\ req[c].chan = "open"
      /\ UNCHANGED <<rank, copies, wire, lockVars>>
  BY DEF Get, Deliver, IsHead, Ready, CanCall
<1>3. TypeOK'
  BY <1>1, <1>2 DEF IInv, TypeOK, lockVars
<1>4. \A x \in Clients, y \in Msgs : Holds(x, y) => Holds(x, y)'
  BY <1>2 DEF Holds, IInv, TypeOK
<1>5. Holds(c, m)'
  BY <1>2 DEF Holds, IInv, TypeOK
<1>6. \A x \in Clients, y \in Msgs : Justified(x, y) => Justified(x, y)'
  BY <1>1, <1>2 DEF Justified, Publishes, IInv, TypeOK
<1>7. NoLoss'
  BY <1>2, <1>6 DEF NoLoss, IInv, TypeOK
<1>8. ASSUME NEW x \in Clients, x # c PROVE ClientInv(x)'
  BY <1>1, <1>2, <1>4, <1>8, Untouched DEF IInv, TypeOK
<1>9. WireSafe(c)'
  BY <1>2 DEF WireSafe
<1>10. UnsettledHeld(c)'
  <2>1. Read(c)' \subseteq Read(c) \cup {m}
    BY <1>1 DEF Read, Requests
  <2>2. Read(c) \subseteq Msgs
    BY <1>1 DEF Read, Requests
  <2> QED
    BY <1>1, <1>2, <1>4, <1>5, <2>1, <2>2 DEF UnsettledHeld, OnWire, IInv, ClientInv
<1> QED
  BY <1>3, <1>7, <1>8, <1>9, <1>10 DEF IInv, ClientInv

(* The channel's unacked messages go back to the queue, and c has no open     *)
(* channel any more.                                                          *)
LEMMA GiveUpStep ==
    ASSUME IInv, NEW c \in Clients, Requeue(HeldBy(c)),
           NEW r \in Requests, Become(c, r), r.chan # "open", r.job = req[c].job,
           wire' = [wire EXCEPT ![c] = <<>>], UNCHANGED <<copies, lockVars>>,
           Progress(c)'
    PROVE  IInv'
<1>1. req' = [req EXCEPT ![c] = r] /\ req'[c] = r
  BY BecomeIs DEF Become
<1>2. HeldBy(c) \in SUBSET Msgs
  BY DEF HeldBy
<1>3. TypeOK'
  <2>1. wire' \in [Clients -> Seq(Frames)]
    BY DEF IInv, TypeOK
  <2> QED
    BY <1>1, <1>2, <2>1, RequeueType DEF IInv, TypeOK, lockVars
<1>4. \A x \in Clients, y \in Msgs : x # c /\ Holds(x, y) => Holds(x, y)'
  BY DEF Holds, IInv, TypeOK, Requeue, HeldBy
<1>5. \A x \in Clients, y \in Msgs : Justified(x, y) => Justified(x, y)'
  BY <1>1 DEF Justified, Publishes, IInv, TypeOK
<1>6. NoLoss'
  BY <1>5 DEF NoLoss, IInv, TypeOK, Requeue, HeldBy
<1>7. ASSUME NEW x \in Clients, x # c PROVE ClientInv(x)'
  BY <1>1, <1>4, <1>7, Untouched DEF IInv, TypeOK
<1>8. WireSafe(c)' /\ UnsettledHeld(c)'
  BY <1>1 DEF WireSafe, UnsettledHeld, IInv, TypeOK
<1> QED
  BY <1>3, <1>6, <1>7, <1>8 DEF IInv, ClientInv

(* The target stores a copy of the current message. *)
LEMMA StoreStep ==
    ASSUME IInv, NEW c \in Clients, req[c].current \in Msgs, Store(c),
           NEW r \in Requests, Become(c, r), r.job = req[c].job,
           r.scanned = req[c].scanned, r.processed = req[c].processed,
           r.chan = "open" => req[c].chan = "open",
           UNCHANGED <<queueVars, wire, lockVars>>,
           Progress(c)'
    PROVE  IInv'
<1>1. req' = [req EXCEPT ![c] = r] /\ req'[c] = r
  BY BecomeIs DEF Become
<1>2. /\ copies' \in [Clients -> [Msgs -> Nat]]
      /\ \A x \in Clients : x # c => copies'[x] = copies[x]
      /\ \A x \in Clients, y \in Msgs : copies[x][y] > 0 => copies'[x][y] > 0
  BY DEF Store, IInv, TypeOK
<1>3. TypeOK'
  BY <1>1, <1>2 DEF IInv, TypeOK, queueVars, lockVars
<1>4. \A x \in Clients, y \in Msgs : Justified(x, y) => Justified(x, y)'
  BY <1>1, <1>2 DEF Justified, Publishes, IInv, TypeOK
<1>5. NoLoss'
  BY <1>4 DEF NoLoss, IInv, TypeOK, queueVars
<1>6. ASSUME NEW x \in Clients, x # c PROVE ClientInv(x)'
  BY <1>1, <1>2, <1>6, Untouched DEF IInv, TypeOK, Holds, queueVars
<1>7. WireSafe(c)'
  <2>1. \A i \in DOMAIN wire[c] : wire[c][i].msg \in Msgs
    BY WireType DEF IInv
  <2> QED
    BY <1>4, <2>1 DEF WireSafe, Holds, queueVars, IInv, ClientInv
<1>8. UnsettledHeld(c)'
  BY <1>1 DEF UnsettledHeld, Read, OnWire, Holds, queueVars, IInv, ClientInv
<1> QED
  BY <1>3, <1>5, <1>6, <1>7, <1>8 DEF IInv, ClientInv

(* An ack or a nack is written for a message the open channel holds. *)
LEMMA WriteStep ==
    ASSUME IInv, NEW c \in Clients, NEW kind \in {"ack", "nack"}, NEW m \in Msgs,
           Write(c, kind, m), req[c].chan = "open", m \in Read(c) \ req[c].processed,
           kind = "ack" => Justified(c, m),
           NEW r \in Requests, Become(c, r), r.job = req[c].job,
           r.scanned = req[c].scanned, r.processed = req[c].processed \cup {m},
           Progress(c)'
    PROVE  IInv'
<1> DEFINE frame == [kind |-> kind, msg |-> m]
<1>1. req' = [req EXCEPT ![c] = r] /\ req'[c] = r
  BY BecomeIs DEF Become
<1>2. /\ wire' = [wire EXCEPT ![c] = Append(wire[c], frame)]
      /\ wire[c] \in Seq(Frames) /\ frame \in Frames
      /\ UNCHANGED <<queueVars, copies, lockVars>>
  BY DEF Write, IInv, TypeOK, Frames
<1>3. /\ wire'[c] \in Seq(Frames)
      /\ Len(wire'[c]) = Len(wire[c]) + 1
      /\ \A i \in 1..Len(wire[c]) : wire'[c][i] = wire[c][i]
      /\ wire'[c][Len(wire[c]) + 1] = frame
  <2>1. wire'[c] = Append(wire[c], frame)
    BY <1>2 DEF IInv, TypeOK
  <2> HIDE DEF frame
  <2> QED
    BY <1>2, <2>1, AppendProperties
<1>4. TypeOK'
  <2>1. wire' \in [Clients -> Seq(Frames)]
    <3>1. Append(wire[c], frame) \in Seq(Frames)
      BY <1>2
    <3> HIDE DEF frame
    <3> QED
      BY <1>2, <3>1 DEF IInv, TypeOK
  <2> QED
    BY <1>1, <1>2, <2>1 DEF IInv, TypeOK, queueVars, lockVars
<1>5. Holds(c, m) /\ ~OnWire(c, m)
  BY DEF IInv, ClientInv, UnsettledHeld
<1>6. \A x \in Clients, y \in Msgs : Justified(x, y) => Justified(x, y)'
  BY <1>1, <1>2 DEF Justified, Publishes, IInv, TypeOK
<1>7. NoLoss'
  BY <1>2, <1>6 DEF NoLoss, IInv, TypeOK, queueVars
<1>8. ASSUME NEW x \in Clients, x # c PROVE ClientInv(x)'
  <2>1. wire'[x] = wire[x] /\ req'[x] = req[x]
    BY <1>1, <1>2, <1>8 DEF IInv, TypeOK
  <2> QED
    BY <1>2, <2>1, Untouched DEF IInv, Holds, queueVars
<1>9. DOMAIN wire'[c] = 1..(Len(wire[c]) + 1) /\ DOMAIN wire[c] = 1..Len(wire[c])
  BY <1>2, <1>3
<1>10. WireSafe(c)'
  <2>1. \A i \in 1..Len(wire[c]) :
          /\ wire[c][i].msg \in Msgs
          /\ wire[c][i].msg # m
          /\ Holds(c, wire[c][i].msg)
          /\ wire[c][i].kind = "ack" => Justified(c, wire[c][i].msg)
          /\ \A k \in 1..Len(wire[c]) : k # i => wire[c][k].msg # wire[c][i].msg
    BY <1>5, <1>9, WireType DEF IInv, ClientInv, WireSafe, OnWire
  <2>2. ASSUME NEW i \in 1..(Len(wire[c]) + 1)
        PROVE  /\ Holds(c, wire[c][i].msg)'
               /\ (wire[c][i].kind = "ack" => Justified(c, wire[c][i].msg))'
               /\ \A k \in 1..(Len(wire[c]) + 1) :
                      k # i => wire'[c][k].msg # wire'[c][i].msg
    <3>1. Len(wire[c]) \in Nat
      BY <1>2
    <3>2. CASE i \in 1..Len(wire[c])
      <4>1. wire'[c][i] = wire[c][i] /\ Holds(c, wire[c][i].msg)'
        BY <1>2, <1>3, <2>1, <3>2 DEF Holds, queueVars
      <4>2. (wire[c][i].kind = "ack" => Justified(c, wire[c][i].msg))'
        BY <1>6, <2>1, <3>2, <4>1 DEF Justified, Publishes
      <4>3. ASSUME NEW k \in 1..(Len(wire[c]) + 1), k # i
            PROVE  wire'[c][k].msg # wire'[c][i].msg
        <5>1. CASE k \in 1..Len(wire[c])
          BY <1>3, <2>1, <3>2, <4>1, <4>3, <5>1
        <5>2. CASE k = Len(wire[c]) + 1
          BY <1>3, <2>1, <3>2, <4>1, <5>2
        <5> QED
          BY <3>1, <5>1, <5>2
      <4> QED
        BY <4>1, <4>2, <4>3
    <3>3. CASE i = Len(wire[c]) + 1
      BY <1>2, <1>3, <1>5, <1>6, <2>1, <3>1, <3>3 DEF Holds, queueVars
    <3> QED
      BY <3>1, <3>2, <3>3
  <2> QED
    BY <1>9, <2>2 DEF WireSafe
<1>11. UnsettledHeld(c)'
  <2>1. Read(c)' = Read(c)
    BY <1>1 DEF Read
  <2>2. ASSUME NEW y \in Read(c) \ req[c].processed, y # m
        PROVE  Holds(c, y)' /\ ~OnWire(c, y)'
    <3>1. Holds(c, y) /\ ~OnWire(c, y)
      BY DEF IInv, ClientInv, UnsettledHeld
    <3>2. ASSUME NEW i \in 1..(Len(wire[c]) + 1) PROVE wire'[c][i].msg # y
      <4>1. Len(wire[c]) \in Nat
        BY <1>2
      <4>2. CASE i \in 1..Len(wire[c])
        BY <1>3, <1>9, <3>1, <4>2 DEF OnWire
      <4>3. CASE i = Len(wire[c]) + 1
        BY <1>3, <2>2, <4>3
      <4> QED
        BY <4>1, <4>2, <4>3
    <3> QED
      BY <1>2, <1>9, <3>1, <3>2 DEF OnWire, Holds, queueVars
  <2> QED
    BY <1>1, <2>1, <2>2 DEF UnsettledHeld
<1> QED
  BY <1>4, <1>7, <1>8, <1>10, <1>11 DEF IInv, ClientInv
(* Reading the queue, as far as fetch reads it. *)
LEMMA FetchPreserves ==
    ASSUME IInv, NEW c \in Clients, Fetch(c)
    PROVE  IInv'
<1> req[c] \in Requests /\ Progress(c)
  BY DEF IInv, TypeOK, ClientInv
<1>0. ASSUME NEW m \in Msgs PROVE Taken(c, m) \in Requests
  <2>1. req[c].scanned \in Seq(Msgs)
    BY DEF Requests
  <2>2. Append(req[c].scanned, m) \in Seq(Msgs)
    BY <2>1
  <2> QED
    BY <2>2 DEF Taken, Requests
<1>1. ASSUME NEW m \in Msgs, FetchMore(c, m) PROVE IInv'
  <2> DEFINE r == Taken(c, m)
  <2>1. r \in Requests /\ Become(c, r)
    BY <1>0, <1>1 DEF FetchMore, Requests, Locations
  <2>2. req'[c] = r
    BY <2>1, BecomeIs
  <2>3. Progress(c)'
    BY <1>1, <2>2 DEF FetchMore, Get, Progress, At, BeforeOpen, BeforeLoop, InLoop, HasCurrent, IsBulk, Publishes, Read, Taken
  <2> QED
    BY <1>1, <2>1, <2>3, GetStep DEF FetchMore, Requests, Taken
<1>2. ASSUME NEW m \in Msgs, FetchStops(c, m) PROVE IInv'
  <2> DEFINE r == Goto(Taken(c, m), "match")
  <2>1. r \in Requests /\ Become(c, r)
    BY <1>0, <1>2 DEF FetchStops, Requests, Locations, Goto
  <2>2. req'[c] = r
    BY <2>1, BecomeIs
  <2>3. Progress(c)'
    BY <1>2, <2>2 DEF FetchStops, Get, Progress, At, BeforeOpen, BeforeLoop, InLoop, HasCurrent, IsBulk, Publishes, Read, Goto, Taken
  <2> QED
    BY <1>2, <2>1, <2>3, GetStep DEF FetchStops, Requests, Goto, Taken
<1>3. ASSUME NEW m \in Msgs, FetchTooDeep(c, m) PROVE IInv'
  <2> DEFINE r == Raise(Taken(c, m))
  <2>0. Taken(c, m) \in Requests
    BY <1>0
  <2>1. r \in Requests /\ Become(c, r)
    <3>1. Become(c, r)
      BY <1>3 DEF FetchTooDeep
    <3>2. \A x \in Requests : Raise(x) \in Requests
      BY DEF Requests, Locations, Raise
    <3> QED
      BY <2>0, <3>1, <3>2
  <2>2. req'[c] = r
    BY <2>1, BecomeIs
  <2>3. Progress(c)'
    BY <1>3, <2>2 DEF FetchTooDeep, Get, Progress, At, BeforeOpen, BeforeLoop, InLoop, HasCurrent, IsBulk, Publishes, Read, Raise, Taken
  <2> QED
    BY <1>3, <2>1, <2>3, GetStep DEF FetchTooDeep, Requests, Raise, Taken
<1>4. ASSUME NEW m \in Msgs, FetchLost(c, m) PROVE IInv'
  <2> DEFINE r == Raise(Lose(req[c]))
  <2>1. r \in Requests /\ Become(c, r)
    BY <1>0, <1>4 DEF FetchLost, Requests, Locations, Raise, Lose
  <2>2. req'[c] = r
    BY <2>1, BecomeIs
  <2>3. Progress(c)'
    BY <1>4, <2>2 DEF FetchLost, Get, Progress, At, BeforeOpen, BeforeLoop, InLoop, HasCurrent, IsBulk, Publishes, Read, Raise, Lose
  <2> QED
    BY <1>4, <2>1, <2>3, GetStep DEF FetchLost, Requests, Raise, Lose
<1>5. CASE FetchEnds(c) \/ CallRaises(c)
  BY <1>5, OtherLocalPreserves
<1> QED
  BY <1>1, <1>2, <1>3, <1>4, <1>5 DEF Fetch

(* The broker closes the channel, or the coroutine does. *)
LEMMA GiveUpPreserves ==
    ASSUME IInv, NEW c \in Clients,
           TargetMissing(c) \/ PublishRefused(c) \/ CloseChannel(c) \/ BrokerCleanup(c)
    PROVE  IInv'
<1> req[c] \in Requests /\ Progress(c)
  BY DEF IInv, TypeOK, ClientInv
<1>1. CanCall(c) /\ wire' = wire => wire' = [wire EXCEPT ![c] = <<>>]
  BY DEF CanCall, IInv, TypeOK
<1>2. CASE TargetMissing(c)
  <2> DEFINE r == Raise(Lose(req[c]))
  <2>1. r \in Requests /\ Become(c, r)
    BY <1>2 DEF TargetMissing, Requests, Locations, Statuses, Raise, Lose
  <2>2. req'[c] = r
    BY <2>1, BecomeIs
  <2>3. Progress(c)'
    BY <1>2, <2>2 DEF TargetMissing, Progress, At, BeforeOpen, BeforeLoop, InLoop, HasCurrent, IsBulk, Publishes, Read, Raise, Lose
  <2> QED
    BY <1>1, <1>2, <2>1, <2>3, GiveUpStep DEF TargetMissing, Requests, Raise, Lose
<1>3. CASE PublishRefused(c)
  <2> DEFINE r == Broken(Lose(req[c]), FALSE)
  <2>1. r \in Requests /\ Become(c, r)
    BY <1>3 DEF PublishRefused, Requests, Locations, Statuses, Broken, Halt, Finish, Raise, Lose
  <2>2. req'[c] = r
    BY <2>1, BecomeIs
  <2>3. Progress(c)'
    BY <1>3, <2>2 DEF PublishRefused, Progress, At, BeforeOpen, BeforeLoop, InLoop, HasCurrent, IsBulk, Publishes, Read, Broken, Halt, Finish, Raise, Lose
  <2> QED
    BY <1>1, <1>3, <2>1, <2>3, GiveUpStep DEF PublishRefused, Requests, Broken, Halt, Finish, Raise, Lose
<1>4. CASE CloseChannel(c)
  <2> DEFINE r == [req[c] EXCEPT !.chan = "none", !.pc = "release"]
  <2>1. r \in Requests /\ Become(c, r)
    BY <1>4 DEF CloseChannel, Requests, Locations, Statuses
  <2>2. req'[c] = r
    BY <2>1, BecomeIs
  <2>3. Progress(c)'
    BY <1>4, <2>2 DEF CloseChannel, Progress, At, BeforeOpen, BeforeLoop, InLoop, HasCurrent, IsBulk, Publishes, Read
  <2> QED
    BY <1>1, <1>4, <2>1, <2>3, GiveUpStep DEF CloseChannel, Requests
<1>5. CASE BrokerCleanup(c)
  <2>1. Become(c, req[c]) /\ UNCHANGED req
    BY <1>5 DEF BrokerCleanup, Become, IInv, TypeOK
  <2>2. Progress(c)'
    BY <1>5 DEF BrokerCleanup, Progress, At, BeforeOpen, BeforeLoop, InLoop, HasCurrent, IsBulk, Publishes, Read
  <2> QED
    BY <1>5, <2>1, <2>2, GiveUpStep DEF BrokerCleanup
<1> QED
  BY <1>2, <1>3, <1>4, <1>5

(* Publishing: the copy is stored, confirmed or not, or nothing is. *)
LEMMA PublishPreserves ==
    ASSUME IInv, NEW c \in Clients, Publish(c)
    PROVE  IInv'
<1> req[c] \in Requests /\ Progress(c)
  BY DEF IInv, TypeOK, ClientInv
<1>1. At(c, "publish") => req[c].current \in Msgs
  BY DEF Progress, At, BeforeOpen, BeforeLoop, InLoop, HasCurrent, IsBulk, Publishes, Read, Requests
<1>2. CASE PublishConfirmed(c)
  <2> DEFINE r == Goto(req[c], "settle")
  <2>1. r \in Requests /\ Become(c, r)
    BY <1>2 DEF PublishConfirmed, Requests, Locations, Statuses, Goto
  <2>2. req'[c] = r
    BY <2>1, BecomeIs
  <2>3. copies'[c][req[c].current] > 0
    BY <1>1, <1>2 DEF PublishConfirmed, Store, IInv, TypeOK
  <2>4. Progress(c)'
    BY <1>2, <2>2, <2>3 DEF PublishConfirmed, Progress, At, BeforeOpen, BeforeLoop, InLoop, HasCurrent, IsBulk, Publishes, Read, Goto
  <2> QED
    BY <1>1, <1>2, <2>1, <2>4, StoreStep DEF PublishConfirmed, Requests, Goto
<1>3. CASE PublishLost(c)
  <2> DEFINE r == Broken(Lose(req[c]), FALSE)
  <2>1. r \in Requests /\ Become(c, r)
    BY <1>3 DEF PublishLost, Requests, Locations, Statuses, Broken, Halt, Finish, Raise, Lose
  <2>2. req'[c] = r
    BY <2>1, BecomeIs
  <2>3. copies'[c][req[c].current] > 0
    BY <1>1, <1>3 DEF PublishLost, Store, IInv, TypeOK
  <2>4. Progress(c)'
    BY <1>3, <2>2, <2>3 DEF PublishLost, Progress, At, BeforeOpen, BeforeLoop, InLoop, HasCurrent, IsBulk, Publishes, Read, Broken, Halt, Finish, Raise, Lose
  <2> QED
    BY <1>1, <1>3, <2>1, <2>4, StoreStep DEF PublishLost, Requests, Broken, Halt, Finish, Raise, Lose
<1>4. CASE PublishUnroutable(c) \/ PublishRaises(c)
  BY <1>4, OtherLocalPreserves
<1>5. CASE PublishRefused(c)
  BY <1>5, GiveUpPreserves
<1> QED
  BY <1>2, <1>3, <1>4, <1>5 DEF Publish

(* Settling the current message, or giving one back. *)
LEMMA SettlePreserves ==
    ASSUME IInv, NEW c \in Clients,
           Settle(c) \/ Undeliver(c) \/ \E m \in Msgs : GiveBack(c, m)
    PROVE  IInv'
<1> req[c] \in Requests /\ Progress(c)
  BY DEF IInv, TypeOK, ClientInv
<1>1. HasCurrent(c) => /\ req[c].current \in Msgs
                       /\ req[c].current \in Read(c) \ req[c].processed
  BY DEF Progress, Read, Requests
<1>2. CASE Settle(c)
  <2> DEFINE m == req[c].current
             kind == IF req[c].job.action \in Removing THEN "ack" ELSE "nack"
             settled == Record(Process(req[c], m), Fp[m], "success")
             r == IF IsBulk(c) THEN Goto(settled, "next") ELSE Finish(settled)
  <2>1. m \in Msgs /\ m \in Read(c) \ req[c].processed
    BY <1>1, <1>2 DEF Settle, HasCurrent, At, InLoop
  <2>2. r \in Requests /\ Become(c, r) /\ Write(c, kind, m)
    BY <1>2, <2>1, FpAssumption
       DEF Settle, Requests, Locations, Statuses, Record, Process, Goto, Finish
  <2>3. req'[c] = r
    BY <2>2, BecomeIs
  <2>4. Progress(c)'
    BY <1>2, <2>1, <2>3 DEF Settle, Progress, At, BeforeOpen, BeforeLoop, InLoop, HasCurrent, IsBulk, Publishes, Read, Record, Process, Goto, Finish
  <2>5. kind = "ack" => Justified(c, m)
    BY <1>2 DEF Settle, Justified, Progress, At, HasCurrent, InLoop
  <2>6. /\ r.job = req[c].job /\ r.scanned = req[c].scanned
        /\ r.processed = req[c].processed \cup {m}
    BY <2>1 DEF Record, Process, Goto, Finish, Requests
  <2> QED
    BY <1>2, <2>1, <2>2, <2>4, <2>5, <2>6, WriteStep DEF Settle
<1>3. CASE Undeliver(c)
  <2> DEFINE m == req[c].current
             r == Goto(Record(Process(req[c], m), Fp[m], "failed"), "next")
  <2>1. m \in Msgs /\ m \in Read(c) \ req[c].processed
    BY <1>1, <1>3 DEF Undeliver, HasCurrent, At, InLoop
  <2>2. r \in Requests /\ Become(c, r) /\ Write(c, "nack", m)
    BY <1>3, <2>1, FpAssumption
       DEF Undeliver, Requests, Locations, Statuses, Record, Process, Goto
  <2>3. req'[c] = r
    BY <2>2, BecomeIs
  <2>4. Progress(c)'
    BY <1>3, <2>1, <2>3 DEF Undeliver, Progress, At, BeforeOpen, BeforeLoop, InLoop, HasCurrent, IsBulk, Publishes, Read, Record, Process, Goto
  <2>5. /\ r.job = req[c].job /\ r.scanned = req[c].scanned
        /\ r.processed = req[c].processed \cup {m}
    BY <2>1 DEF Record, Process, Goto, Requests
  <2> QED
    BY <1>3, <2>1, <2>2, <2>4, <2>5, WriteStep DEF Undeliver
<1>4. ASSUME NEW m \in Msgs, GiveBack(c, m) PROVE IInv'
  <2> DEFINE r == Process(req[c], m)
  <2>1. r \in Requests /\ Become(c, r) /\ Write(c, "nack", m)
    BY <1>4 DEF GiveBack, Process, Requests
  <2>2. req'[c] = r
    BY <2>1, BecomeIs
  <2>3. Progress(c)'
    BY <1>4, <2>2 DEF GiveBack, Progress, At, BeforeOpen, BeforeLoop, InLoop, HasCurrent, IsBulk, Publishes, Read, Process
  <2>4. m \in Read(c) \ req[c].processed
    BY <1>4 DEF GiveBack, FirstUnprocessed, Read
  <2>5. /\ r.job = req[c].job /\ r.scanned = req[c].scanned
        /\ r.processed = req[c].processed \cup {m}
    BY DEF Process, Requests
  <2> QED
    BY <1>4, <2>1, <2>3, <2>4, <2>5, WriteStep DEF GiveBack
<1> QED
  BY <1>2, <1>3, <1>4
(* The broker processes an ack, or puts a nacked message back. *)
LEMMA BrokerSettlePreserves ==
    ASSUME IInv, NEW c \in Clients, BrokerSettle(c)
    PROVE  IInv'
<1> DEFINE m == Head(wire[c]).msg
<1>1. /\ wire[c] \in Seq(Frames) /\ wire[c] # <<>>
      /\ UNCHANGED <<copies, lockVars, req>>
      /\ wire' = [wire EXCEPT ![c] = Tail(wire[c])]
  BY DEF BrokerSettle, IInv, TypeOK
<1>2. /\ Len(wire[c]) \in Nat \ {0}
      /\ DOMAIN wire[c] = 1..Len(wire[c])
      /\ Head(wire[c]) = wire[c][1]
      /\ Tail(wire[c]) \in Seq(Frames)
      /\ DOMAIN Tail(wire[c]) = 1..(Len(wire[c]) - 1)
      /\ \A i \in 1..(Len(wire[c]) - 1) : Tail(wire[c])[i] = wire[c][i + 1]
  BY <1>1
<1>3. m \in Msgs /\ Holds(c, m) /\ (Head(wire[c]).kind = "ack" => Justified(c, m))
  BY <1>2, WireType DEF IInv, ClientInv, WireSafe
<1>4. wire'[c] = Tail(wire[c]) /\ \A x \in Clients : x # c => wire'[x] = wire[x]
  BY <1>1 DEF IInv, TypeOK
<1>5. /\ \A y \in Msgs : y # m => place'[y] = place[y] /\ owner'[y] = owner[y]
      /\ place'[m] = "gone" => Head(wire[c]).kind = "ack" /\ owner'[m] = owner[m]
  BY <1>3 DEF BrokerSettle, Requeue, IInv, TypeOK
<1>6. TypeOK'
  <2>1. wire' \in [Clients -> Seq(Frames)]
    BY <1>1, <1>2 DEF IInv, TypeOK
  <2>2. CASE Head(wire[c]).kind = "ack"
    BY <1>1, <2>1, <2>2 DEF BrokerSettle, IInv, TypeOK, lockVars
  <2>3. CASE Head(wire[c]).kind # "ack"
    <3>1. Requeue({m}) /\ {m} \in SUBSET Msgs
      BY <1>3, <2>3 DEF BrokerSettle
    <3> QED
      BY <1>1, <2>1, <3>1, RequeueType DEF IInv, TypeOK, lockVars
  <2> QED
    BY <2>2, <2>3
<1>7. \A x \in Clients, y \in Msgs : Justified(x, y) => Justified(x, y)'
  BY <1>1 DEF Justified, Publishes
<1>8. NoLoss'
  <2>1. ASSUME NEW y \in Msgs, place'[y] = "gone"
        PROVE  owner'[y] \in Clients /\ Justified(owner'[y], y)
    <3>1. CASE y = m
      BY <1>3, <1>5, <2>1, <3>1 DEF Holds
    <3>2. CASE y # m
      BY <1>5, <2>1, <3>2 DEF IInv, NoLoss
    <3> QED
      BY <3>1, <3>2
  <2>2. ASSUME NEW y \in Msgs, place'[y] = "gone"
        PROVE  owner'[y] \in Clients /\ (Justified(owner[y], y))'
    BY <1>1, <2>1, <2>2 DEF Justified, Publishes
  <2> QED
    BY <2>2 DEF NoLoss
<1>9. ASSUME NEW x \in Clients, x # c PROVE ClientInv(x)'
  <2>1. \A y \in Msgs : Holds(x, y) => Holds(x, y)'
    BY <1>3, <1>5, <1>9 DEF Holds
  <2> QED
    BY <1>1, <1>4, <1>9, <2>1, Untouched DEF IInv
<1>10. WireSafe(c)'
  <2>1. ASSUME NEW i \in DOMAIN wire'[c]
        PROVE  /\ Holds(c, wire[c][i].msg)'
               /\ (wire[c][i].kind = "ack" => Justified(c, wire[c][i].msg))'
               /\ \A k \in DOMAIN wire'[c] : k # i => wire'[c][k].msg # wire'[c][i].msg
    <3>1. /\ i \in 1..(Len(wire[c]) - 1) /\ i + 1 \in DOMAIN wire[c] /\ 1 \in DOMAIN wire[c]
          /\ wire'[c][i] = wire[c][i + 1]
      BY <1>2, <1>4
    <3>2. wire[c][i + 1].msg \in Msgs /\ wire[c][i + 1].msg # m
      BY <1>2, <3>1, WireType DEF IInv, ClientInv, WireSafe
    <3>3. Holds(c, wire[c][i + 1].msg)
          /\ (wire[c][i + 1].kind = "ack" => Justified(c, wire[c][i + 1].msg))
      BY <3>1 DEF IInv, ClientInv, WireSafe
    <3>4. \A k \in DOMAIN wire'[c] : k # i => wire'[c][k].msg # wire'[c][i].msg
      BY <1>2, <1>4, <3>1 DEF IInv, ClientInv, WireSafe
    <3>5. Holds(c, wire[c][i].msg)'
      BY <1>5, <3>1, <3>2, <3>3 DEF Holds
    <3>6. (wire[c][i].kind = "ack" => Justified(c, wire[c][i].msg))'
      BY <1>1, <3>1, <3>3 DEF Justified, Publishes
    <3> QED
      BY <3>4, <3>5, <3>6
  <2> QED
    BY <2>1 DEF WireSafe
<1>11. UnsettledHeld(c)'
  <2>1. ASSUME req[c].chan = "open", NEW y \in Read(c) \ req[c].processed
        PROVE  Holds(c, y)' /\ ~OnWire(c, y)'
    <3>1. Holds(c, y) /\ ~OnWire(c, y) /\ y \in Msgs
      BY <2>1 DEF IInv, ClientInv, UnsettledHeld, Read, TypeOK, Requests
    <3>2. y # m
      BY <1>2, <3>1 DEF OnWire
    <3>3. ~OnWire(c, y)'
      BY <1>2, <1>4, <3>1 DEF OnWire
    <3> QED
      BY <1>5, <3>1, <3>2, <3>3 DEF Holds
  <2>2. Read(c)' = Read(c) /\ req' = req
    BY <1>1 DEF Read
  <2> QED
    BY <2>1, <2>2 DEF UnsettledHeld
<1>12. Progress(c)'
  BY <1>1 DEF IInv, ClientInv, Progress, At, HasCurrent, IsBulk, Publishes, Read
<1> QED
  BY <1>6, <1>8, <1>9, <1>10, <1>11, <1>12 DEF IInv, ClientInv

-------------------------------------------------------------------------------
(* Producers, locks that are lost, and crashes. *)

(* A new message disturbs nobody. *)
LEMMA ArrivePreserves ==
    ASSUME IInv, NEW m \in Msgs, Arrive(m)
    PROVE  IInv'
<1>1. {m} \in SUBSET Msgs /\ MovedToBack({m}) \in [Msgs -> Int]
  BY RanksAreNumbers DEF IInv
<1>2. TypeOK'
  BY <1>1 DEF Arrive, IInv, TypeOK, lockVars
<1>3. NoLoss'
  BY DEF Arrive, NoLoss, IInv, TypeOK, Justified, Publishes
<1>4. ASSUME NEW x \in Clients PROVE ClientInv(x)'
  BY Untouched DEF Arrive, IInv, TypeOK, Holds
<1> QED
  BY <1>2, <1>3, <1>4 DEF IInv

(* The advisory lock goes away under its holder, or after it. *)
LEMMA LockLossPreserves ==
    ASSUME IInv, NEW c \in Clients, LoseSharedLock(c) \/ PgCleanup(c)
    PROVE  IInv'
<1>1. UNCHANGED <<brokerVars, local, req>> /\ pg' = None
  BY DEF LoseSharedLock, PgCleanup
<1>2. TypeOK'
  BY <1>1 DEF IInv, TypeOK, brokerVars, queueVars
<1>3. NoLoss'
  BY <1>1 DEF NoLoss, IInv, Justified, Publishes, brokerVars, queueVars
<1>4. ASSUME NEW x \in Clients PROVE ClientInv(x)'
  BY <1>1, Untouched DEF IInv, Holds, brokerVars, queueVars
<1> QED
  BY <1>2, <1>3, <1>4 DEF IInv

(* A crash stops coroutines where they stand; what they wrote may still arrive. *)
LEMMA CrashPreserves ==
    ASSUME IInv, NEW r \in Replicas, Crash(r)
    PROVE  IInv'
<1>1. ASSUME NEW x \in Clients
      PROVE  /\ req'[x] \in Requests
             /\ req'[x].job = req[x].job
             /\ \/ req'[x] = req[x]
                \/ /\ req'[x].pc = "crashed" /\ req'[x].chan # "open"
                   /\ req'[x].todo = req[x].todo
  <2>1. req[x] \in Requests
    BY DEF IInv, TypeOK
  <2>2. CASE ReplicaOf[x] = r /\ Active(x)
    <3>1. req'[x] = [req[x] EXCEPT !.pc = "crashed",
                                   !.chan = IF @ = "open" THEN "dead" ELSE @]
      BY <2>2 DEF Crash
    <3> QED
      BY <2>1, <3>1 DEF Requests, Locations
  <2>3. CASE ~(ReplicaOf[x] = r /\ Active(x))
    BY <2>1, <2>3 DEF Crash
  <2> QED
    BY <2>2, <2>3
<1>2. UNCHANGED <<brokerVars, pg>> /\ req' \in [Clients -> Requests]
  BY <1>1 DEF Crash
<1>3. TypeOK'
  BY <1>2 DEF Crash, IInv, TypeOK, brokerVars, queueVars
<1>4. \A x \in Clients, y \in Msgs : Justified(x, y) => Justified(x, y)'
  BY <1>1, <1>2 DEF Justified, Publishes, brokerVars
<1>5. NoLoss'
  BY <1>2, <1>4 DEF NoLoss, IInv, brokerVars, queueVars
<1>6. ASSUME NEW x \in Clients PROVE ClientInv(x)'
  <2>1. CASE req'[x] = req[x]
    BY <1>2, <2>1, Untouched DEF IInv, Holds, brokerVars, queueVars
  <2>2. CASE req'[x].pc = "crashed" /\ req'[x].chan # "open" /\ req'[x].todo = req[x].todo
    <3>1. WireSafe(x)'
      <4>1. \A i \in DOMAIN wire[x] : wire[x][i].msg \in Msgs
        BY WireType DEF IInv
      <4> QED
        BY <1>2, <1>4, <4>1 DEF WireSafe, IInv, ClientInv, Holds, brokerVars, queueVars
    <3>2. UnsettledHeld(x)'
      BY <2>2 DEF UnsettledHeld
    <3>3. Progress(x)'
      BY <1>1, <2>2 DEF Progress, At, BeforeOpen, BeforeLoop, InLoop, HasCurrent, IInv, ClientInv
    <3> QED
      BY <3>1, <3>2, <3>3 DEF ClientInv
  <2> QED
    BY <1>1, <2>1, <2>2
<1> QED
  BY <1>3, <1>5, <1>6 DEF IInv

-------------------------------------------------------------------------------
(* The theorems. *)

(* The queue at the start, before any request, is safe. *)
LEMMA InitIsSafe == Init => IInv
<1> SUFFICES ASSUME Init PROVE IInv
  OBVIOUS
<1>1. TypeOK
  BY SizesAssumption DEF Init, TypeOK, Msgs, Requests, NewRequest, Locations, Statuses
<1>2. NoLoss
  BY DEF Init, NoLoss
<1>3. ASSUME NEW c \in Clients PROVE ClientInv(c)
  <2>1. req[c] = NewRequest /\ wire[c] = <<>>
    BY DEF Init
  <2>2. WireSafe(c)
    BY <2>1 DEF WireSafe
  <2>3. UnsettledHeld(c)
    BY <2>1 DEF UnsettledHeld, NewRequest
  <2>4. Progress(c)
    BY <2>1 DEF Progress, NewRequest, NoJob, At, BeforeOpen, BeforeLoop, InLoop, HasCurrent
  <2> QED
    BY <2>2, <2>3, <2>4 DEF ClientInv
<1> QED
  BY <1>1, <1>2, <1>3 DEF IInv

(* Every step preserves the inductive invariant. *)
LEMMA NextIsSafe == IInv /\ [Next]_vars => IInv'
<1> SUFFICES ASSUME IInv, [Next]_vars PROVE IInv'
  OBVIOUS
<1>1. ASSUME NEW m \in Msgs, Arrive(m) PROVE IInv'
  BY <1>1, ArrivePreserves
<1>2. ASSUME NEW c \in Clients, NEW j \in Jobs, Start(c, j) PROVE IInv'
  BY <1>2, StartPreserves
<1>3. ASSUME NEW c \in Clients, Step(c) PROVE IInv'
  <2>1. CASE Lock(c)
    BY <2>1, LockPreserves
  <2>2. CASE Open(c)
    BY <2>2, OpenPreserves
  <2>3. CASE Fetch(c)
    BY <2>3, FetchPreserves
  <2>4. CASE Match(c)
    BY <2>4, MatchPreserves
  <2>5. CASE PrepareTarget(c)
    BY <2>5, OtherLocalPreserves, GiveUpPreserves DEF PrepareTarget
  <2>6. CASE Take(c)
    BY <2>6, TakePreserves
  <2>7. CASE Publish(c)
    BY <2>7, PublishPreserves
  <2>8. CASE SettleOne(c)
    BY <2>8, SettlePreserves, OtherLocalPreserves DEF SettleOne
  <2>9. CASE Return(c)
    BY <2>9, SettlePreserves, OtherLocalPreserves, GiveUpPreserves, ReleasePreserves
       DEF Return
  <2> QED
    BY <1>3, <2>1, <2>2, <2>3, <2>4, <2>5, <2>6, <2>7, <2>8, <2>9 DEF Step
<1>4. ASSUME NEW c \in Clients, Broker(c) PROVE IInv'
  BY <1>4, BrokerSettlePreserves, GiveUpPreserves DEF Broker
<1>5. ASSUME NEW c \in Clients,
             AcquireFails(c) \/ LoseSharedLock(c) \/ ConnectionLoss(c) \/ PgCleanup(c)
      PROVE  IInv'
  BY <1>5, AcquireFailsPreserves, LockLossPreserves, OtherLocalPreserves
<1>6. ASSUME NEW r \in Replicas, Crash(r) PROVE IInv'
  BY <1>6, CrashPreserves
<1>7. CASE UNCHANGED vars
  <2>1. UNCHANGED <<place, rank, owner, copies, wire, local, pg, req>>
    BY <1>7 DEF vars, brokerVars, queueVars, lockVars
  <2>2. TypeOK' /\ NoLoss'
    BY <2>1 DEF IInv, TypeOK, NoLoss, Justified, Publishes
  <2>3. ASSUME NEW x \in Clients PROVE ClientInv(x)'
    BY <2>1, Untouched DEF IInv, Holds
  <2> QED
    BY <2>2, <2>3 DEF IInv
<1> QED
  BY <1>1, <1>2, <1>3, <1>4, <1>5, <1>6, <1>7 DEF Next, Terminated

(* The inductive invariant holds in every reachable state. *)
THEOREM InductiveInvariant == Spec => []IInv
<1>1. Init => IInv
  BY InitIsSafe
<1>2. IInv /\ [Next]_vars => IInv'
  BY NextIsSafe
<1> QED
  BY <1>1, <1>2, PTL DEF Spec

(* Every variable keeps its type. *)
THEOREM TypeCorrect == Spec => []TypeOK
<1>1. IInv => TypeOK
  BY DEF IInv
<1> QED
  BY <1>1, InductiveInvariant, PTL

(* Publish before ack: no message leaves the queue but by the ack of a request *)
(* approved to remove it, whose target has stored its copy unless it deletes.  *)
THEOREM NothingIsLost == Spec => []NoLoss
<1>1. IInv => NoLoss
  BY DEF IInv
<1> QED
  BY <1>1, InductiveInvariant, PTL
===============================================================================
