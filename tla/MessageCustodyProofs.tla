-------------------------- MODULE MessageCustodyProofs --------------------------
(***************************************************************************)
(* What MessageOperator reports of a message is so, and it implements the  *)
(* promise of MessageCustody: whatever fails, for any queue, requests and  *)
(* replicas.                                                               *)
(*                                                                         *)
(* The invariant that is inductive, Told, follows the record that a        *)
(* request keeps of each fingerprint: nothing is recorded, copied or acked *)
(* before its turn, a copy is stored once because the turn of a            *)
(* fingerprint comes once, and a message whose ack is written is on record *)
(* as a success, which no failure after it overwrites.                     *)
(***************************************************************************)
EXTENDS MessageOperatorProofs

(* The records that say a fingerprint was not acted on. *)
NotActed == {"not_found", "skipped_duplicate", "not_attempted"}

(* A copy of m that c's target has stored. *)
Copied(c, m) ==
    /\ copies[c][m] = 1
    /\ Publishes(c)
    /\ req[c].pc \notin BeforeLoop
    /\ At(c, "publish") => IsBulk(c) /\ Fp[m] # Fp[req[c].current]
    /\ req[c].pc \in InLoop /\ IsBulk(c) => Fp[m] \notin req[c].todo
    /\ req[c].results[Fp[m]] \notin NotActed

(* What c has on record. *)
Recorded(c) ==
    /\ \A f \in Fps :
          /\ req[c].pc \in BeforeLoop => req[c].results[f] = "none"
          /\ req[c].pc \in InLoop /\ f \in req[c].todo => req[c].results[f] = "none"
          /\ req[c].results[f] = "success" /\ Publishes(c) =>
                \E m \in Msgs : Fp[m] = f /\ copies[c][m] = 1
    /\ HasCurrent(c) => req[c].results[Fp[req[c].current]] = "none"
    /\ req[c].pc \in {"target", "publish", "undeliver"} => Publishes(c)

Told(c) ==
    /\ \A m \in Msgs : /\ copies[c][m] = 0 \/ Copied(c, m)
                       /\ Acked(c, m) => req[c].results[Fp[m]] = "success"
    /\ Recorded(c)

CustodyInv == IInv /\ \A c \in Clients : Told(c)

(* No ack is written. *)
NoNewAck(c) == \A m \in Msgs : Acked(c, m)' => Acked(c, m)

-------------------------------------------------------------------------------
(* Who can ack. *)

(* What the steps of the queue do to acks: only writing one makes one. *)
LEMMA QueueStepsAckNothing ==
    ASSUME IInv, NEW x \in Clients,
           \/ UNCHANGED <<place, owner, wire>>
           \/ \E c \in Clients : Requeue(HeldBy(c)) /\ (wire' = wire \/ wire' = [wire EXCEPT ![c] = <<>>])
           \/ \E c \in Clients, m \in Msgs : Deliver(c, m) /\ wire' = wire
           \/ \E m \in Msgs : Arrive(m)
    PROVE  NoNewAck(x)
<1> USE DEF IInv
<1>1. CASE UNCHANGED <<place, owner, wire>>
  BY <1>1 DEF NoNewAck, Acked
<1>2. ASSUME NEW c \in Clients, Requeue(HeldBy(c)), wire' = wire \/ wire' = [wire EXCEPT ![c] = <<>>]
      PROVE  NoNewAck(x)
  <2>1. \A m \in Msgs : place'[m] = "gone" => place[m] = "gone" /\ owner'[m] = owner[m]
    BY <1>2 DEF Requeue, HeldBy
  <2>2. wire'[x] = wire[x] \/ wire'[x] = <<>>
    BY <1>2 DEF TypeOK
  <2> QED
    BY <2>1, <2>2 DEF NoNewAck, Acked
<1>3. ASSUME NEW c \in Clients, NEW m \in Msgs, Deliver(c, m), wire' = wire
      PROVE  NoNewAck(x)
  BY <1>3 DEF NoNewAck, Acked, Deliver, TypeOK
<1>4. ASSUME NEW m \in Msgs, Arrive(m) PROVE NoNewAck(x)
  BY <1>4 DEF NoNewAck, Acked, Arrive, TypeOK
<1> QED
  BY <1>1, <1>2, <1>3, <1>4

(* The broker's treatment of an ack only fulfils it. *)
LEMMA BrokerAcksNothing ==
    ASSUME IInv, NEW c \in Clients, BrokerSettle(c), NEW x \in Clients
    PROVE  NoNewAck(x)
<1> USE DEF IInv
<1>1. /\ wire[c] \in Seq(Frames) /\ wire[c] # <<>>
      /\ wire' = [wire EXCEPT ![c] = Tail(wire[c])]
  BY DEF BrokerSettle, TypeOK
<1>2. PICK frame : frame = wire[c][1]
  OBVIOUS
<1>3. Head(wire[c]) = frame /\ 1 \in DOMAIN wire[c] /\ frame \in Frames /\ frame.msg \in Msgs
  BY <1>1, <1>2, WireType
<1>4. Holds(c, frame.msg)
  BY <1>2, <1>3 DEF ClientInv, WireSafe
<1>5. \A i \in DOMAIN Tail(wire[c]) : i + 1 \in DOMAIN wire[c] /\ Tail(wire[c])[i] = wire[c][i + 1]
  BY <1>1
<1>6. \A m \in Msgs : (\E i \in DOMAIN wire'[x] : wire'[x][i] = [kind |-> "ack", msg |-> m])
                     => \E i \in DOMAIN wire[x] : wire[x][i] = [kind |-> "ack", msg |-> m]
  BY <1>1, <1>5 DEF TypeOK
<1>7. ASSUME NEW m \in Msgs, place'[m] = "gone", owner'[m] = x
      PROVE  Acked(x, m)
  <2>1. CASE frame.kind = "ack"
    <3>1. place' = [place EXCEPT ![frame.msg] = "gone"] /\ owner' = owner
      BY <1>3, <2>1 DEF BrokerSettle
    <3>2. CASE m # frame.msg
      BY <1>7, <3>1, <3>2 DEF Acked, TypeOK
    <3>3. CASE m = frame.msg
      <4>1. x = c
        BY <1>4, <1>7, <3>1, <3>3 DEF Holds
      <4>2. frame = [kind |-> "ack", msg |-> m]
        BY <1>3, <2>1, <3>3 DEF Frames
      <4> QED
        BY <1>2, <1>3, <4>1, <4>2 DEF Acked
    <3> QED
      BY <3>2, <3>3
  <2>2. CASE frame.kind # "ack"
    <3>1. Requeue({frame.msg})
      BY <1>3, <2>2 DEF BrokerSettle
    <3> QED
      BY <1>7, <3>1 DEF Requeue, Acked
  <2> QED
    BY <2>1, <2>2
<1> QED
  BY <1>6, <1>7 DEF NoNewAck, Acked

(* A frame written acks, if anything, its message. *)
LEMMA WriteAcks ==
    ASSUME IInv, NEW c \in Clients, NEW kind \in {"ack", "nack"}, NEW m \in Msgs, Write(c, kind, m)
    PROVE  /\ \A x \in Clients : x # c => NoNewAck(x)
           /\ \A y \in Msgs : Acked(c, y)' => Acked(c, y) \/ (kind = "ack" /\ y = m)
<1>1. UNCHANGED <<place, owner>>
  BY DEF Write, queueVars
<1>2. PICK frame : frame = [kind |-> kind, msg |-> m]
  OBVIOUS
<1>3. frame \in Frames /\ wire[c] \in Seq(Frames) /\ wire' = [wire EXCEPT ![c] = Append(wire[c], frame)]
  BY <1>2 DEF Frames, IInv, TypeOK, Write
<1>4. \A x \in Clients : x # c => wire'[x] = wire[x]
  BY <1>3 DEF IInv, TypeOK
<1>5. \A x \in Clients : x # c => NoNewAck(x)
  BY <1>1, <1>4 DEF NoNewAck, Acked
<1>6. wire'[c] = Append(wire[c], frame)
  BY <1>3 DEF IInv, TypeOK
<1>7. \A i \in DOMAIN wire'[c] : wire'[c][i] = frame \/ (i \in DOMAIN wire[c] /\ wire'[c][i] = wire[c][i])
  BY <1>3, <1>6
<1>8. ASSUME NEW y \in Msgs, Acked(c, y)', ~Acked(c, y)
      PROVE  kind = "ack" /\ y = m
  <2>1. PICK i \in DOMAIN wire'[c] : wire'[c][i] = [kind |-> "ack", msg |-> y]
    BY <1>1, <1>8 DEF Acked
  <2>2. frame = [kind |-> "ack", msg |-> y]
    BY <1>7, <1>8, <2>1 DEF Acked
  <2>3. frame.kind = kind /\ frame.msg = m /\ frame.kind = "ack" /\ frame.msg = y
    BY <1>2, <2>2
  <2> QED
    BY <2>3
<1> QED
  BY <1>5, <1>8

-------------------------------------------------------------------------------
(* The record of a request. *)

(* What a request records changes only by its own steps. *)
LEMMA OthersAreTold ==
    ASSUME CustodyInv, IInv', NEW x \in Clients, req'[x] = req[x], copies'[x] = copies[x], NoNewAck(x)
    PROVE  Told(x)'
<1>1. Recorded(x)'
  BY DEF CustodyInv, Told, Recorded, HasCurrent, At, IsBulk, Publishes
<1>2. \A m \in Msgs : Copied(x, m) => Copied(x, m)'
  BY DEF Copied, At, IsBulk, Publishes
<1> QED
  BY <1>1, <1>2 DEF CustodyInv, Told, NoNewAck

(* A step of c keeps the invariant when it keeps c's part. *)
LEMMA StepOfRequest ==
    ASSUME CustodyInv, IInv', NEW c \in Clients, Told(c)',
           \A x \in Clients : x # c => req'[x] = req[x] /\ copies'[x] = copies[x] /\ NoNewAck(x)
    PROVE  CustodyInv'
BY OthersAreTold DEF CustodyInv

(* A step of c that records nothing and copies nothing: before its loop it may *)
(* go anywhere, and from anywhere to what follows the loop.                    *)
Quiet(c) ==
    /\ copies'[c] = copies[c]
    /\ req'[c].results = req[c].results
    /\ \/ req'[c].job = req[c].job /\ req'[c].pc \notin BeforeLoop \cup InLoop
       \/ /\ req[c].pc \in BeforeLoop
          /\ req'[c].pc \in {"target", "publish", "undeliver"} => Publishes(c)'

LEMMA QuietStep ==
    ASSUME CustodyInv, IInv', NEW c \in Clients, Quiet(c), NoNewAck(c)
    PROVE  Told(c)'
<1> USE DEF CustodyInv
<1>1. Told(c)
  OBVIOUS
<1>2. CASE req'[c].job = req[c].job /\ req'[c].pc \notin BeforeLoop \cup InLoop
  <2>1. \A m \in Msgs : Copied(c, m) => Copied(c, m)'
    BY <1>2 DEF Quiet, Copied, At, IsBulk, Publishes, InLoop
  <2>2. Recorded(c)'
    BY <1>1, <1>2 DEF Quiet, Told, Recorded, HasCurrent, At, IsBulk, Publishes, InLoop, BeforeLoop, BeforeOpen
  <2> QED
    BY <1>1, <2>1, <2>2 DEF Told, NoNewAck, Quiet
<1>3. CASE /\ req[c].pc \in BeforeLoop
           /\ req'[c].pc \in {"target", "publish", "undeliver"} => Publishes(c)'
  <2>1. \A f \in Fps : req[c].results[f] = "none"
    BY <1>1, <1>3 DEF Told, Recorded
  <2>2. \A m \in Msgs : copies[c][m] = 0 /\ Fp[m] \in Fps
    BY <1>1, <1>3, FpAssumption DEF Told, Copied
  <2>3. \A m \in Msgs : ~Acked(c, m)
    BY <1>1, <2>1, <2>2 DEF Told
  <2>4. HasCurrent(c)' => req'[c].current \in Msgs
    BY DEF IInv, TypeOK, Requests, ClientInv, Progress, Read
  <2>5. Recorded(c)'
    BY <1>3, <2>1, <2>2, <2>4 DEF Recorded, Quiet
  <2> QED
    BY <2>2, <2>3, <2>5 DEF Told, NoNewAck, Quiet
<1> QED
  BY <1>2, <1>3 DEF Quiet

-------------------------------------------------------------------------------
(* The steps of the coroutine. *)

(* What Become does to the requests. *)
LEMMA BecomeOnly ==
    ASSUME IInv, NEW c \in Clients, NEW r, Become(c, r)
    PROVE  /\ req'[c] = r
           /\ \A x \in Clients : x # c => req'[x] = req[x]
BY DEF Become, IInv, TypeOK

(* A quiet step that leaves the queue alone, or gives messages back, or reads one. *)
LEMMA QuietRequestStep ==
    ASSUME CustodyInv, IInv', NEW c \in Clients, NEW r, Become(c, r), UNCHANGED copies, Quiet(c),
           \/ UNCHANGED <<place, owner, wire>>
           \/ Requeue(HeldBy(c)) /\ wire' = wire
           \/ \E m \in Msgs : Deliver(c, m) /\ wire' = wire
    PROVE  CustodyInv'
<1>1. \A x \in Clients : NoNewAck(x)
  BY QueueStepsAckNothing DEF CustodyInv
<1>2. Told(c)'
  BY <1>1, QuietStep
<1>3. \A x \in Clients : x # c => req'[x] = req[x] /\ copies'[x] = copies[x] /\ NoNewAck(x)
  BY <1>1, BecomeOnly DEF CustodyInv
<1> QED
  BY <1>2, <1>3, StepOfRequest

LEMMA QuietContinue ==
    ASSUME CustodyInv, IInv', NEW c \in Clients, NEW r, Become(c, r), UNCHANGED brokerVars,
           r.results = req[c].results,
           \/ r.job = req[c].job /\ r.pc \notin BeforeLoop \cup InLoop
           \/ /\ req[c].pc \in BeforeLoop
              /\ r.pc \in {"target", "publish", "undeliver"} => r.job.action \in Publishing
    PROVE  CustodyInv'
<1>1. Quiet(c)
  BY BecomeOnly DEF CustodyInv, Quiet, Publishes, brokerVars
<1> QED
  BY <1>1, QuietRequestStep DEF brokerVars, queueVars

(* Before the messages are read. *)
LEMMA EarlySteps ==
    ASSUME CustodyInv, IInv', NEW c \in Clients,
           \/ Lock(c) \/ Open(c) \/ AcquireFails(c) \/ (\E j \in Jobs : Start(c, j))
    PROVE  CustodyInv'
<1>1. req[c] \in Requests
  BY DEF CustodyInv, IInv, TypeOK
<1> USE <1>1, QuietContinue DEF Requests, BeforeLoop, BeforeOpen, InLoop, At
<1>2. CASE Lock(c)
  BY <1>2 DEF Lock, AcquireLocal, AcquireShared, Goto
<1>3. CASE OpenChannel(c)
  BY <1>3 DEF OpenChannel, Continue, Raise, Goto
<1>4. CASE OpenFails(c) \/ AcquireFails(c)
  BY <1>4 DEF OpenFails, AcquireFails, Continue, Fail
<1>5. ASSUME NEW j \in Jobs, Start(c, j) PROVE CustodyInv'
  BY <1>5 DEF Start, Continue
<1> QED
  BY <1>2, <1>3, <1>4, <1>5 DEF Open

(* Reading the queue. *)
LEMMA FetchSteps ==
    ASSUME CustodyInv, IInv', NEW c \in Clients, Fetch(c)
    PROVE  CustodyInv'
<1>1. req[c] \in Requests
  BY DEF CustodyInv, IInv, TypeOK
<1>2. ASSUME NEW m \in Msgs, NEW r, Get(c, m), Become(c, r), r.job = req[c].job,
             r.results = req[c].results, r.pc \in {"fetch", "match", "giveback"}
      PROVE  CustodyInv'
  <2>1. Quiet(c)
    BY <1>2, BecomeOnly DEF CustodyInv, Quiet, Get, At, BeforeLoop, BeforeOpen, InLoop
  <2> QED
    BY <1>2, <2>1, QuietRequestStep DEF Get
<1>3. ASSUME NEW m \in Msgs,
             FetchMore(c, m) \/ FetchStops(c, m) \/ FetchTooDeep(c, m) \/ FetchLost(c, m)
      PROVE  CustodyInv'
  BY <1>1, <1>2, <1>3 DEF FetchMore, FetchStops, FetchTooDeep, FetchLost, Get, At, Requests,
                          Taken, Goto, Raise, Lose
<1>4. CASE FetchEnds(c)
  BY <1>1, <1>4, QuietContinue DEF FetchEnds, Continue, Goto, Requests, BeforeLoop, BeforeOpen, At
<1>5. CASE CallRaises(c)
  BY <1>1, <1>5, QuietContinue DEF CallRaises, Continue, Raise, Requests, BeforeLoop, BeforeOpen, InLoop, At
<1> QED
  BY <1>3, <1>4, <1>5 DEF Fetch

(* Choosing the message, and preparing the target. *)
LEMMA MatchSteps ==
    ASSUME CustodyInv, IInv', NEW c \in Clients, Match(c) \/ PrepareTarget(c)
    PROVE  CustodyInv'
<1>1. req[c] \in Requests
  BY DEF CustodyInv, IInv, TypeOK
<1>2. At(c, "target") => Publishes(c)
  BY DEF CustodyInv, Told, Recorded, At
<1> USE <1>1, QuietContinue DEF Requests, BeforeLoop, BeforeOpen, InLoop, At, Publishes
<1>3. CASE MatchScan(c)
  BY <1>3 DEF MatchScan, Continue, Finish
<1>4. CASE MatchBulk(c)
  BY <1>4 DEF MatchBulk, Continue, Goto
<1>5. ASSUME NEW f \in Fps, MatchFails(c, f) PROVE CustodyInv'
  BY <1>5 DEF MatchFails, Continue, Raise
<1>6. ASSUME NEW f \in Fps, NEW m \in Msgs, MatchSingle(c, f, m) PROVE CustodyInv'
  BY <1>6 DEF MatchSingle, Continue
<1>7. CASE EnsureTarget(c)
  BY <1>2, <1>7 DEF EnsureTarget, Continue, Goto
<1>8. CASE TargetInvalid(c)
  BY <1>8 DEF TargetInvalid, Continue, Raise
<1>9. CASE TargetMissing(c)
  <2>1. Quiet(c)
    <3>1. req'[c] = Raise(Lose(req[c])) /\ copies' = copies
      BY <1>9, BecomeOnly DEF TargetMissing, CustodyInv
    <3>2. Raise(Lose(req[c])).results = req[c].results /\ Raise(Lose(req[c])).job = req[c].job
          /\ Raise(Lose(req[c])).pc = "giveback"
      BY DEF Raise, Lose
    <3> QED
      BY <3>1, <3>2 DEF Quiet
  <2> QED
    BY <1>9, <2>1, QuietRequestStep DEF TargetMissing
<1> QED
  BY <1>3, <1>4, <1>5, <1>6, <1>7, <1>8, <1>9 DEF Match, PrepareTarget

(* Giving back, closing and releasing, and the ends of a loop that only raise. *)
LEMMA LateSteps ==
    ASSUME CustodyInv, IInv', NEW c \in Clients,
           \/ BatchEnds(c) \/ UndeliverRaises(c) \/ GiveBackRaises(c) \/ GiveBackEnds(c)
           \/ CloseChannel(c) \/ CloseDead(c) \/ Release(c)
           \/ \E m \in Msgs : GiveBack(c, m)
    PROVE  CustodyInv'
<1>1. req[c] \in Requests
  BY DEF CustodyInv, IInv, TypeOK
<1>2. CASE BatchEnds(c) \/ UndeliverRaises(c) \/ GiveBackEnds(c) \/ CloseDead(c)
  BY <1>1, <1>2, QuietContinue
     DEF BatchEnds, UndeliverRaises, GiveBackEnds, CloseDead, Continue, Finish, Raise, Goto,
         Requests, BeforeLoop, BeforeOpen, InLoop
<1>3. CASE GiveBackRaises(c)
  BY <1>1, <1>3, QuietContinue
     DEF GiveBackRaises, Continue, Raise, Goto, Requests, BeforeLoop, BeforeOpen, InLoop
<1>4. CASE Release(c)
  BY <1>1, <1>4, QuietContinue
     DEF Release, Raise, Goto, Requests, BeforeLoop, BeforeOpen, InLoop
<1>5. CASE CloseChannel(c)
  <2>1. Quiet(c)
    <3>1. req'[c] = [req[c] EXCEPT !.chan = "none", !.pc = "release"] /\ copies' = copies
      BY <1>5, BecomeOnly DEF CloseChannel, CustodyInv
    <3>2. /\ req'[c].results = req[c].results /\ req'[c].job = req[c].job
          /\ req'[c].pc = "release"
      BY <1>1, <3>1 DEF Requests
    <3> QED
      BY <3>1, <3>2 DEF Quiet, BeforeLoop, BeforeOpen, InLoop
  <2> QED
    BY <1>5, <2>1, QuietRequestStep DEF CloseChannel
<1>6. ASSUME NEW m \in Msgs, GiveBack(c, m) PROVE CustodyInv'
  <2>1. Write(c, "nack", m) /\ Become(c, Process(req[c], m)) /\ UNCHANGED copies /\ At(c, "giveback")
    BY <1>6 DEF GiveBack, Write
  <2>2. Quiet(c)
    BY <1>1, <2>1, BecomeOnly
       DEF CustodyInv, Quiet, Process, Requests, BeforeLoop, BeforeOpen, InLoop, At
  <2>3. \A x \in Clients : NoNewAck(x)
    BY <2>1, WriteAcks DEF NoNewAck, CustodyInv
  <2>4. Told(c)'
    BY <2>2, <2>3, QuietStep
  <2> QED
    BY <2>1, <2>3, <2>4, BecomeOnly, StepOfRequest DEF CustodyInv
<1> QED
  BY <1>2, <1>3, <1>4, <1>5, <1>6

-------------------------------------------------------------------------------
(* The loop: where something is recorded, copied or acked. *)

(* What is known of a request in its loop. *)
LEMMA InTheLoop ==
    ASSUME CustodyInv, NEW c \in Clients, req[c].pc \in InLoop
    PROVE  /\ req[c] \in Requests /\ Progress(c) /\ Told(c)
           /\ HasCurrent(c) => /\ req[c].current \in Msgs /\ Fp[req[c].current] \in Fps
                               /\ req[c].results[Fp[req[c].current]] = "none"
                               /\ IsBulk(c) => Fp[req[c].current] \notin req[c].todo
           /\ At(c, "publish") =>
                 /\ HasCurrent(c) /\ Publishes(c)
                 /\ copies[c][req[c].current] = 0
           /\ At(c, "settle") =>
                 /\ HasCurrent(c)
                 /\ Publishes(c) => copies[c][req[c].current] = 1
<1> USE DEF CustodyInv
<1>1. req[c] \in Requests /\ Progress(c) /\ Told(c)
  BY DEF IInv, TypeOK, ClientInv
<1>2. HasCurrent(c) => req[c].current \in Msgs
  BY <1>1 DEF Progress, Read, Requests
<1>3. /\ At(c, "publish") \/ At(c, "settle") => HasCurrent(c)
      /\ At(c, "publish") => Publishes(c)
  BY <1>1 DEF HasCurrent, At, InLoop, Told, Recorded
<1>4. HasCurrent(c) => /\ Fp[req[c].current] \in Fps
                       /\ req[c].results[Fp[req[c].current]] = "none"
                       /\ IsBulk(c) => Fp[req[c].current] \notin req[c].todo
  BY <1>1, <1>2, FpAssumption DEF Progress, Told, Recorded
<1>5. At(c, "publish") => copies[c][req[c].current] = 0
  BY <1>1, <1>2, <1>3 DEF Told, Copied
<1>6. At(c, "settle") /\ Publishes(c) => copies[c][req[c].current] = 1
  <2>1. At(c, "settle") /\ Publishes(c) => copies[c][req[c].current] > 0
    BY <1>1 DEF Progress
  <2> QED
    BY <1>1, <1>2, <1>3, <2>1 DEF Told, Copied
<1> QED
  BY <1>1, <1>2, <1>3, <1>4, <1>5, <1>6

(* A turn that records for a fingerprint what is not a success: nothing of it  *)
(* was acked, and nothing was copied if the record says so.                    *)
LEMMA TurnOfNothing ==
    ASSUME CustodyInv, IInv', NEW c \in Clients, req[c].pc \in InLoop,
           NEW f \in Fps, NEW status \in NotActed \cup {"failed"},
           req[c].results[f] = "none",
           status \in NotActed => f \in req[c].todo /\ IsBulk(c),
           copies'[c] = copies[c], NoNewAck(c),
           req'[c].job = req[c].job, req'[c].pc = "next", req'[c].todo \subseteq req[c].todo,
           f \notin req'[c].todo,
           \A g \in Fps : req'[c].results[g] = IF g = f THEN status ELSE req[c].results[g]
    PROVE  Told(c)'
<1>1. Told(c)
  BY DEF CustodyInv
<1>2. status # "success" /\ status # "none"
  BY DEF NotActed
<1>3. Recorded(c)'
  BY <1>1, <1>2 DEF Told, Recorded, HasCurrent, At, IsBulk, Publishes, BeforeLoop, BeforeOpen, InLoop
<1>4. \A m \in Msgs : Copied(c, m) => Copied(c, m)'
  <2>1. \A m \in Msgs : Fp[m] \in Fps
    BY FpAssumption
  <2> QED
    BY <2>1, <1>2 DEF Copied, At, IsBulk, Publishes, BeforeLoop, BeforeOpen, InLoop
<1>5. \A m \in Msgs : Acked(c, m)' => req'[c].results[Fp[m]] = "success"
  BY <1>1, FpAssumption DEF Told, NoNewAck
<1> QED
  BY <1>1, <1>3, <1>4, <1>5 DEF Told

LEMMA TakeSteps ==
    ASSUME CustodyInv, IInv', NEW c \in Clients,
           NEW f \in Fps, NextAbsent(c, f) \/ NextDuplicated(c, f) \/ \E m \in Msgs : NextMessage(c, f, m)
    PROVE  CustodyInv'
<1>1. At(c, "next") /\ req[c].pc \in InLoop /\ f \in req[c].todo
  BY DEF NextAbsent, NextDuplicated, NextMessage, At, InLoop
<1>2. req[c] \in Requests /\ Progress(c) /\ Told(c) /\ IsBulk(c) /\ req[c].results[f] = "none"
  BY <1>1, InTheLoop DEF Progress, Told, Recorded, At
<1>3. UNCHANGED brokerVars
  BY DEF NextAbsent, NextDuplicated, NextMessage, Skip, Continue
<1>4. copies' = copies /\ \A x \in Clients : NoNewAck(x)
  BY <1>3, QueueStepsAckNothing DEF brokerVars, queueVars, CustodyInv
<1>5. ASSUME NEW status \in {"not_found", "skipped_duplicate"}, Skip(c, f, status)
      PROVE  CustodyInv'
  <2>1. PICK r : r = Record([req[c] EXCEPT !.todo = @ \ {f}], f, status)
    OBVIOUS
  <2>2. /\ r.job = req[c].job /\ r.pc = "next" /\ r.todo = req[c].todo \ {f}
        /\ \A g \in Fps : r.results[g] = IF g = f THEN status ELSE req[c].results[g]
    BY <1>1, <1>2, <2>1 DEF Record, Requests, At
  <2>3. Become(c, r)
    BY <1>5, <2>1 DEF Skip, Continue
  <2>4. req'[c] = r /\ \A x \in Clients : x # c => req'[x] = req[x]
    BY <2>3, BecomeOnly DEF CustodyInv
  <2>5. Told(c)'
    BY <1>1, <1>2, <1>4, <2>2, <2>4, TurnOfNothing DEF NotActed
  <2> QED
    BY <1>4, <2>4, <2>5, StepOfRequest
<1>6. ASSUME NEW m \in Msgs, NextMessage(c, f, m)
      PROVE  CustodyInv'
  <2>1. PICK r : r = [req[c] EXCEPT !.todo = @ \ {f}, !.current = m,
                                    !.pc = IF Publishes(c) THEN "publish" ELSE "settle"]
    OBVIOUS
  <2>2. /\ r.job = req[c].job /\ r.todo = req[c].todo \ {f} /\ r.results = req[c].results
        /\ r.current = m /\ r.pc = IF Publishes(c) THEN "publish" ELSE "settle"
    BY <1>2, <2>1 DEF Requests
  <2>3. Become(c, r)
    BY <1>6, <2>1 DEF NextMessage, Continue
  <2>4. req'[c] = r /\ \A x \in Clients : x # c => req'[x] = req[x]
    BY <2>3, BecomeOnly DEF CustodyInv
  <2>5. Fp[m] = f
    BY <1>6 DEF NextMessage, Matches
  <2>6. Recorded(c)'
    BY <1>1, <1>2, <1>4, <2>2, <2>4, <2>5
       DEF Told, Recorded, HasCurrent, At, IsBulk, Publishes, BeforeLoop, BeforeOpen, InLoop
  <2>7. \A y \in Msgs : Copied(c, y) => Copied(c, y)'
    BY <1>1, <1>2, <1>4, <2>2, <2>4, <2>5
       DEF Copied, At, IsBulk, Publishes, BeforeLoop, BeforeOpen, InLoop
  <2>8. Told(c)'
    BY <1>2, <1>4, <2>2, <2>4, <2>6, <2>7 DEF Told, NoNewAck
  <2> QED
    BY <1>4, <2>4, <2>8, StepOfRequest
<1> QED
  BY <1>5, <1>6 DEF NextAbsent, NextDuplicated

(* The one copy of the current message is stored. *)
LEMMA StoreIs ==
    ASSUME CustodyInv, NEW c \in Clients, At(c, "publish"), Store(c)
    PROVE  /\ copies'[c][req[c].current] = 1
           /\ \A y \in Msgs : y # req[c].current => copies'[c][y] = copies[c][y]
           /\ \A x \in Clients : x # c => copies'[x] = copies[x]
<1>1. req[c].current \in Msgs /\ copies[c][req[c].current] = 0
  BY InTheLoop DEF At, InLoop
<1>2. copies \in [Clients -> [Msgs -> Nat]]
  BY DEF CustodyInv, IInv, TypeOK
<1> QED
  BY <1>1, <1>2 DEF Store

LEMMA ConfirmedStep ==
    ASSUME CustodyInv, IInv', NEW c \in Clients, PublishConfirmed(c)
    PROVE  CustodyInv'
<1>1. At(c, "publish") /\ req[c].pc \in InLoop /\ Store(c) /\ UNCHANGED <<place, owner, wire>>
  BY DEF PublishConfirmed, At, InLoop, queueVars
<1>2. \A x \in Clients : NoNewAck(x)
  BY <1>1, QueueStepsAckNothing DEF CustodyInv
<1>3. req[c] \in Requests /\ Told(c) /\ Publishes(c) /\ HasCurrent(c) /\ Progress(c)
      /\ req[c].current \in Msgs /\ req[c].results[Fp[req[c].current]] = "none"
      /\ (IsBulk(c) => Fp[req[c].current] \notin req[c].todo)
  BY <1>1, InTheLoop
<1>4. req'[c] = Goto(req[c], "settle") /\ \A x \in Clients : x # c => req'[x] = req[x]
  BY BecomeOnly DEF CustodyInv, PublishConfirmed
<1>5. /\ req'[c].job = req[c].job /\ req'[c].pc = "settle" /\ req'[c].todo = req[c].todo
      /\ req'[c].results = req[c].results /\ req'[c].current = req[c].current
  BY <1>3, <1>4 DEF Goto, Requests
<1>6. \A y \in Msgs : copies[c][y] = 1 => copies'[c][y] = 1
  BY <1>1, StoreIs
<1>7. Recorded(c)'
  BY <1>1, <1>3, <1>5, <1>6 DEF Told, Recorded, HasCurrent, At, IsBulk, Publishes, BeforeLoop, BeforeOpen, InLoop
<1>8. ASSUME NEW y \in Msgs, copies'[c][y] # 0 PROVE Copied(c, y)'
  <2>1. CASE y = req[c].current
    BY <1>1, <1>3, <1>5, <2>1, StoreIs
       DEF Copied, At, IsBulk, Publishes, BeforeLoop, BeforeOpen, InLoop, NotActed
  <2>2. CASE y # req[c].current
    <3>1. Copied(c, y)
      BY <1>1, <1>3, <1>8, <2>2, StoreIs DEF Told
    <3> QED
      BY <1>1, <1>5, <1>6, <3>1 DEF Copied, At, IsBulk, Publishes, BeforeLoop, BeforeOpen, InLoop
  <2> QED
    BY <2>1, <2>2
<1>9. Told(c)'
  BY <1>2, <1>3, <1>5, <1>7, <1>8 DEF Told, NoNewAck
<1> QED
  BY <1>1, <1>2, <1>4, <1>9, StoreIs, StepOfRequest

(* A failure other than an undeliverable message, between publish and settle: *)
(* the current message is recorded as failed, or as copied if it was, and     *)
(* nothing is recorded for what a batch had not come to.                      *)
LEMMA BrokenIs ==
    ASSUME CustodyInv, NEW c \in Clients, At(c, "publish") \/ At(c, "settle"),
           NEW r, r = req[c] \/ r = Lose(req[c]), NEW published \in BOOLEAN
    PROVE  LET b == Broken(r, published)
           IN  /\ b.job = req[c].job /\ b.pc = "giveback"
               /\ ~IsBulk(c) => b.results = req[c].results
               /\ IsBulk(c) => \A f \in Fps : b.results[f] =
                     IF f = Fp[req[c].current]
                     THEN IF published /\ req[c].job.action = "copy" THEN "success" ELSE "failed"
                     ELSE IF f \in req[c].todo THEN "not_attempted" ELSE req[c].results[f]
<1>1. req[c] \in Requests
  BY DEF CustodyInv, IInv, TypeOK
<1>2. /\ r \in Requests /\ r.job = req[c].job /\ r.results = req[c].results
      /\ r.todo = req[c].todo /\ r.current = req[c].current
  BY <1>1 DEF Lose, Requests
<1>3. CASE ~IsBulk(c)
  BY <1>2, <1>3 DEF Broken, IsBulk, Raise, Requests
<1>4. CASE IsBulk(c)
  <2>1. Broken(r, published) = Finish(Halt(r, published))
    BY <1>2, <1>4 DEF Broken, IsBulk
  <2>2. PICK results : results = [f \in Fps |->
            IF f = Fp[r.current]
            THEN IF published /\ r.job.action = "copy" THEN "success" ELSE "failed"
            ELSE IF f \in r.todo THEN "not_attempted" ELSE r.results[f]]
    OBVIOUS
  <2>3. Halt(r, published) = [r EXCEPT !.results = results]
    BY <2>2 DEF Halt
  <2>4. /\ Broken(r, published).job = r.job /\ Broken(r, published).pc = "giveback"
        /\ Broken(r, published).results = results
    BY <1>2, <2>1, <2>3 DEF Finish, Requests
  <2> QED
    BY <1>2, <1>4, <2>2, <2>4
<1> QED
  BY <1>3, <1>4

LEMMA BrokenStep ==
    ASSUME CustodyInv, IInv', NEW c \in Clients, At(c, "publish") \/ At(c, "settle"),
           NEW r, r = req[c] \/ r = Lose(req[c]), NEW published \in BOOLEAN,
           published => At(c, "settle") /\ Publishes(c),
           Become(c, Broken(r, published)),
           copies' = copies \/ (At(c, "publish") /\ Store(c)),
           \A x \in Clients : NoNewAck(x)
    PROVE  CustodyInv'
<1>1. req[c].pc \in InLoop
  BY DEF At, InLoop
<1>2. /\ req[c] \in Requests /\ Told(c) /\ HasCurrent(c) /\ Progress(c)
      /\ req[c].current \in Msgs /\ Fp[req[c].current] \in Fps
      /\ req[c].results[Fp[req[c].current]] = "none"
      /\ (At(c, "publish") => Publishes(c))
      /\ (At(c, "settle") /\ Publishes(c) => copies[c][req[c].current] = 1)
  BY <1>1, InTheLoop
<1>3. req'[c] = Broken(r, published) /\ \A x \in Clients : x # c => req'[x] = req[x]
  BY BecomeOnly DEF CustodyInv
<1>4. /\ req'[c].job = req[c].job /\ req'[c].pc = "giveback"
      /\ ~IsBulk(c) => req'[c].results = req[c].results
      /\ IsBulk(c) => \A f \in Fps : req'[c].results[f] =
            IF f = Fp[req[c].current]
            THEN IF published /\ req[c].job.action = "copy" THEN "success" ELSE "failed"
            ELSE IF f \in req[c].todo THEN "not_attempted" ELSE req[c].results[f]
  BY <1>3, BrokenIs
<1>5. /\ \A y \in Msgs : copies[c][y] = 1 => copies'[c][y] = 1
      /\ \A y \in Msgs : copies'[c][y] # copies[c][y] =>
            y = req[c].current /\ At(c, "publish") /\ copies'[c][y] = 1
      /\ \A x \in Clients : x # c => copies'[x] = copies[x]
  BY StoreIs
<1>6. Recorded(c)'
  <2>1. ASSUME NEW f \in Fps, req'[c].results[f] = "success", Publishes(c)'
        PROVE  \E m \in Msgs : Fp[m] = f /\ copies'[c][m] = 1
    <3>1. Publishes(c)
      BY <1>4, <2>1 DEF Publishes
    <3>2. req[c].results[f] = "success" \/ (f = Fp[req[c].current] /\ published)
      BY <1>4, <2>1
    <3>3. CASE req[c].results[f] = "success"
      BY <1>2, <1>5, <3>1, <3>3 DEF Told, Recorded
    <3>4. CASE f = Fp[req[c].current] /\ published
      BY <1>2, <1>5, <3>1, <3>4
    <3> QED
      BY <3>2, <3>3, <3>4
  <2> QED
    BY <1>4, <2>1 DEF Recorded, HasCurrent, At, BeforeLoop, BeforeOpen, InLoop
<1>7. ASSUME NEW y \in Msgs, copies'[c][y] # 0 PROVE Copied(c, y)'
  <2>1. copies'[c][y] = 1 /\ Publishes(c)
    BY <1>2, <1>5, <1>7 DEF Told, Copied
  <2>2. Fp[y] \in Fps
    BY FpAssumption
  <2>3. req'[c].results[Fp[y]] \notin NotActed
    <3>1. CASE Fp[y] = Fp[req[c].current]
      BY <1>2, <1>4, <2>2, <3>1 DEF NotActed
    <3>2. CASE Fp[y] # Fp[req[c].current]
      <4>1. Copied(c, y)
        BY <1>2, <1>5, <1>7, <3>2 DEF Told
      <4> QED
        BY <1>1, <1>4, <2>2, <3>2, <4>1 DEF Copied
    <3> QED
      BY <3>1, <3>2
  <2> QED
    BY <1>4, <2>1, <2>3 DEF Copied, At, Publishes, BeforeLoop, BeforeOpen, InLoop
<1>8. ASSUME NEW m \in Msgs, Acked(c, m)' PROVE req'[c].results[Fp[m]] = "success"
  <2>1. req[c].results[Fp[m]] = "success" /\ Fp[m] \in Fps
    BY <1>2, <1>8, FpAssumption DEF Told, NoNewAck
  <2>2. Fp[m] # Fp[req[c].current]
    BY <1>2, <2>1
  <2>3. Fp[m] \notin req[c].todo
    BY <1>1, <1>2, <2>1 DEF Told, Recorded
  <2> QED
    BY <1>4, <2>1, <2>2, <2>3
<1>9. Told(c)'
  BY <1>6, <1>7, <1>8 DEF Told
<1> QED
  BY <1>3, <1>5, <1>9, StepOfRequest

LEMMA PublishSteps ==
    ASSUME CustodyInv, IInv', NEW c \in Clients, Publish(c) \/ SettleRaises(c)
    PROVE  CustodyInv'
<1>1. req[c] \in Requests
  BY DEF CustodyInv, IInv, TypeOK
<1>2. CASE PublishConfirmed(c)
  BY <1>2, ConfirmedStep
<1>3. CASE PublishUnroutable(c)
  <2>1. At(c, "publish") /\ req[c].pc \in InLoop /\ UNCHANGED brokerVars
    BY <1>3 DEF PublishUnroutable, At, InLoop, Continue
  <2>2. CASE ~IsBulk(c)
    <3>1. Become(c, Raise(req[c]))
      BY <1>3, <2>2 DEF PublishUnroutable, Continue
    <3>2. Raise(req[c]).results = req[c].results /\ Raise(req[c]).job = req[c].job
          /\ Raise(req[c]).pc = "giveback"
      BY <1>1 DEF Raise, Requests
    <3> QED
      BY <2>1, <3>1, <3>2, QuietContinue DEF BeforeLoop, BeforeOpen, InLoop
  <2>3. CASE IsBulk(c)
    <3>1. Become(c, Goto(req[c], "undeliver"))
      BY <1>3, <2>3 DEF PublishUnroutable, Continue
    <3>2. req'[c] = Goto(req[c], "undeliver") /\ \A x \in Clients : x # c => req'[x] = req[x]
      BY <3>1, BecomeOnly DEF CustodyInv
    <3>3. /\ req'[c].job = req[c].job /\ req'[c].pc = "undeliver" /\ req'[c].todo = req[c].todo
          /\ req'[c].results = req[c].results /\ req'[c].current = req[c].current
      BY <1>1, <3>2 DEF Goto, Requests
    <3>4. copies' = copies /\ \A x \in Clients : NoNewAck(x)
      BY <2>1, QueueStepsAckNothing DEF brokerVars, queueVars, CustodyInv
    <3>5. Told(c) /\ Publishes(c) /\ HasCurrent(c)
      BY <2>1, InTheLoop
    <3>6. Recorded(c)'
      BY <2>1, <3>3, <3>4, <3>5
         DEF Told, Recorded, HasCurrent, At, IsBulk, Publishes, BeforeLoop, BeforeOpen, InLoop
    <3>7. \A y \in Msgs : Copied(c, y) => Copied(c, y)'
      BY <2>1, <3>3, <3>4 DEF Copied, At, IsBulk, Publishes, BeforeLoop, BeforeOpen, InLoop
    <3>8. Told(c)'
      BY <3>3, <3>4, <3>5, <3>6, <3>7 DEF Told, NoNewAck
    <3> QED
      BY <3>2, <3>4, <3>8, StepOfRequest
  <2> QED
    BY <2>2, <2>3
<1>4. CASE PublishRefused(c)
  <2>1. \A x \in Clients : NoNewAck(x)
    BY <1>4, QueueStepsAckNothing DEF PublishRefused, CustodyInv
  <2> QED
    BY <1>4, <2>1, BrokenStep DEF PublishRefused
<1>5. CASE PublishLost(c)
  <2>1. \A x \in Clients : NoNewAck(x)
    BY <1>5, QueueStepsAckNothing DEF PublishLost, CustodyInv, queueVars
  <2> QED
    BY <1>5, <2>1, BrokenStep DEF PublishLost
<1>6. CASE PublishRaises(c) \/ SettleRaises(c)
  <2>1. UNCHANGED brokerVars
    BY <1>6 DEF PublishRaises, SettleRaises, Continue
  <2>2. copies' = copies /\ \A x \in Clients : NoNewAck(x)
    BY <2>1, QueueStepsAckNothing DEF brokerVars, queueVars, CustodyInv
  <2>3. CASE PublishRaises(c)
    BY <2>2, <2>3, BrokenStep DEF PublishRaises, Continue
  <2>4. CASE SettleRaises(c)
    <3>0. Publishes(c) \in BOOLEAN
      BY DEF Publishes
    <3>1. PICK published \in BOOLEAN : published = Publishes(c)
      BY <3>0, Zenon
    <3>2. Become(c, Broken(req[c], published)) /\ At(c, "settle")
      BY <2>4, <3>1 DEF SettleRaises, Continue
    <3> QED
      BY <2>2, <3>1, <3>2, BrokenStep
  <2> QED
    BY <1>6, <2>3, <2>4
<1> QED
  BY <1>2, <1>3, <1>4, <1>5, <1>6 DEF Publish

(* The turn of an undeliverable message ends: it goes back. *)
LEMMA UndeliverStep ==
    ASSUME CustodyInv, IInv', NEW c \in Clients, Undeliver(c)
    PROVE  CustodyInv'
<1>1. At(c, "undeliver") /\ req[c].pc \in InLoop /\ HasCurrent(c)
  BY DEF Undeliver, At, InLoop, HasCurrent
<1>2. /\ req[c] \in Requests /\ Progress(c) /\ Told(c) /\ IsBulk(c)
      /\ req[c].current \in Msgs /\ Fp[req[c].current] \in Fps
      /\ req[c].results[Fp[req[c].current]] = "none" /\ Fp[req[c].current] \notin req[c].todo
  BY <1>1, InTheLoop DEF Progress
<1>3. PICK f \in Fps : f = Fp[req[c].current]
  BY <1>2
<1>4. PICK r : r = Goto(Record(Process(req[c], req[c].current), f, "failed"), "next")
  OBVIOUS
<1>5. /\ r.job = req[c].job /\ r.pc = "next" /\ r.todo = req[c].todo
      /\ \A g \in Fps : r.results[g] = IF g = f THEN "failed" ELSE req[c].results[g]
  BY <1>2, <1>4 DEF Goto, Record, Process, Requests
<1>6. Become(c, r) /\ Write(c, "nack", req[c].current) /\ copies' = copies
  BY <1>3, <1>4 DEF Undeliver, Write
<1>7. req'[c] = r /\ \A x \in Clients : x # c => req'[x] = req[x]
  BY <1>6, BecomeOnly DEF CustodyInv
<1>8. \A x \in Clients : NoNewAck(x)
  BY <1>2, <1>6, WriteAcks DEF NoNewAck, CustodyInv
<1>9. Told(c)'
  BY <1>1, <1>2, <1>3, <1>5, <1>6, <1>7, <1>8, TurnOfNothing DEF NotActed
<1> QED
  BY <1>6, <1>7, <1>8, <1>9, StepOfRequest

(* The turn of a message ends in its ack, or in its nack if it was copied. *)
LEMMA SettleStep ==
    ASSUME CustodyInv, IInv', NEW c \in Clients, Settle(c)
    PROVE  CustodyInv'
<1>1. At(c, "settle") /\ req[c].pc \in InLoop
  BY DEF Settle, At, InLoop
<1>2. /\ req[c] \in Requests /\ Progress(c) /\ Told(c) /\ HasCurrent(c)
      /\ req[c].current \in Msgs /\ Fp[req[c].current] \in Fps
      /\ (Publishes(c) => copies[c][req[c].current] = 1)
      /\ (IsBulk(c) => Fp[req[c].current] \notin req[c].todo)
  BY <1>1, InTheLoop
<1>3. PICK f \in Fps : f = Fp[req[c].current]
  BY <1>2
<1>4. PICK settled : settled = Record(Process(req[c], req[c].current), f, "success")
  OBVIOUS
<1>5. PICK r : r = IF IsBulk(c) THEN Goto(settled, "next") ELSE Finish(settled)
  OBVIOUS
<1>6. /\ r.job = req[c].job /\ r.pc = (IF IsBulk(c) THEN "next" ELSE "giveback") /\ r.todo = req[c].todo
      /\ \A g \in Fps : r.results[g] = IF g = f THEN "success" ELSE req[c].results[g]
  <2>1. /\ settled \in Requests /\ settled.job = req[c].job /\ settled.todo = req[c].todo
        /\ \A g \in Fps : settled.results[g] = IF g = f THEN "success" ELSE req[c].results[g]
    BY <1>2, <1>4 DEF Record, Process, Requests, Statuses
  <2> QED
    BY <1>5, <2>1 DEF Goto, Finish, Requests
<1>7. PICK kind \in {"ack", "nack"} : kind = IF req[c].job.action \in Removing THEN "ack" ELSE "nack"
  OBVIOUS
<1>8. Become(c, r) /\ Write(c, kind, req[c].current) /\ copies' = copies
  BY <1>3, <1>4, <1>5, <1>7 DEF Settle, Write
<1>9. req'[c] = r /\ \A x \in Clients : x # c => req'[x] = req[x]
  BY <1>8, BecomeOnly DEF CustodyInv
<1>10. /\ \A x \in Clients : x # c => NoNewAck(x)
       /\ \A y \in Msgs : Acked(c, y)' => Acked(c, y) \/ y = req[c].current
  BY <1>2, <1>8, WriteAcks DEF CustodyInv
<1>11. \A y \in Msgs : Acked(c, y)' => req'[c].results[Fp[y]] = "success"
  BY <1>2, <1>3, <1>6, <1>9, <1>10, FpAssumption DEF Told
<1>12. \A y \in Msgs : Copied(c, y) => Copied(c, y)'
  <2>1. \A y \in Msgs : Fp[y] \in Fps
    BY FpAssumption
  <2> QED
    BY <1>1, <1>6, <1>8, <1>9, <2>1
       DEF Copied, At, IsBulk, Publishes, BeforeLoop, BeforeOpen, InLoop, NotActed
<1>13. Recorded(c)'
  <2>1. \A g \in Fps : req'[c].pc \in InLoop /\ g \in req'[c].todo => req'[c].results[g] = "none"
    BY <1>1, <1>2, <1>3, <1>6, <1>9 DEF Told, Recorded, InLoop
  <2>2. ASSUME NEW g \in Fps, req'[c].results[g] = "success", Publishes(c)'
        PROVE  \E m \in Msgs : Fp[m] = g /\ copies'[c][m] = 1
    <3>1. Publishes(c)
      BY <1>6, <1>9, <2>2 DEF Publishes
    <3>2. CASE g = f
      BY <1>2, <1>3, <1>8, <3>1, <3>2
    <3>3. CASE g # f
      BY <1>2, <1>6, <1>8, <1>9, <2>2, <3>1, <3>3 DEF Told, Recorded
    <3> QED
      BY <3>2, <3>3
  <2> QED
    BY <1>6, <1>9, <2>1, <2>2 DEF Recorded, HasCurrent, At, BeforeLoop, BeforeOpen, InLoop
<1>14. Told(c)'
  BY <1>2, <1>8, <1>11, <1>12, <1>13 DEF Told
<1> QED
  BY <1>8, <1>9, <1>10, <1>14, StepOfRequest

LEMMA StepsPreserve ==
    ASSUME CustodyInv, IInv', NEW c \in Clients, Step(c)
    PROVE  CustodyInv'
<1>1. CASE Lock(c) \/ Open(c)
  BY <1>1, EarlySteps
<1>2. CASE Fetch(c)
  BY <1>2, FetchSteps
<1>3. CASE Match(c) \/ PrepareTarget(c)
  BY <1>3, MatchSteps
<1>4. CASE Take(c)
  BY <1>4, TakeSteps, LateSteps DEF Take
<1>5. CASE Publish(c) \/ SettleOne(c)
  BY <1>5, PublishSteps, SettleStep, UndeliverStep, LateSteps DEF SettleOne
<1>6. CASE Return(c)
  BY <1>6, LateSteps DEF Return
<1> QED
  BY <1>1, <1>2, <1>3, <1>4, <1>5, <1>6 DEF Step

-------------------------------------------------------------------------------
(* The broker, the network and the processes. *)

LEMMA OtherStepsPreserve ==
    ASSUME CustodyInv, IInv',
           \/ \E m \in Msgs : Arrive(m)
           \/ \E c \in Clients : Broker(c) \/ PgCleanup(c) \/ LoseSharedLock(c) \/ ConnectionLoss(c)
           \/ \E r \in Replicas : Crash(r)
           \/ UNCHANGED vars
    PROVE  CustodyInv'
<1> USE DEF CustodyInv
<1>1. ASSUME UNCHANGED <<copies, req>>, \A x \in Clients : NoNewAck(x) PROVE CustodyInv'
  BY <1>1, OthersAreTold
<1>2. ASSUME NEW m \in Msgs, Arrive(m) PROVE CustodyInv'
  BY <1>1, <1>2, QueueStepsAckNothing DEF Arrive
<1>3. ASSUME NEW c \in Clients, BrokerSettle(c) PROVE CustodyInv'
  BY <1>1, <1>3, BrokerAcksNothing DEF BrokerSettle
<1>4. ASSUME NEW c \in Clients, BrokerCleanup(c) PROVE CustodyInv'
  BY <1>1, <1>4, QueueStepsAckNothing DEF BrokerCleanup
<1>5. CASE \/ \E c \in Clients : PgCleanup(c) \/ LoseSharedLock(c)
           \/ UNCHANGED vars
  BY <1>1, <1>5, QueueStepsAckNothing DEF PgCleanup, LoseSharedLock, vars, brokerVars, queueVars
<1>6. ASSUME NEW c \in Clients, ConnectionLoss(c) PROVE CustodyInv'
  <2>1. /\ req' = [req EXCEPT ![c] = Lose(req[c])] /\ UNCHANGED brokerVars
        /\ req[c] \in Requests
    BY <1>6 DEF ConnectionLoss, Continue, Become, IInv, TypeOK
  <2>2. /\ req'[c].job = req[c].job /\ req'[c].pc = req[c].pc /\ req'[c].todo = req[c].todo
        /\ req'[c].results = req[c].results /\ req'[c].current = req[c].current
        /\ \A x \in Clients : x # c => req'[x] = req[x]
    BY <2>1 DEF Lose, Requests, IInv, TypeOK
  <2>3. copies' = copies /\ \A x \in Clients : NoNewAck(x)
    BY <2>1, QueueStepsAckNothing DEF brokerVars, queueVars
  <2>4. Recorded(c)'
    BY <2>2, <2>3 DEF Told, Recorded, HasCurrent, At, IsBulk, Publishes
  <2>5. \A m \in Msgs : Copied(c, m) => Copied(c, m)'
    BY <2>2, <2>3 DEF Copied, At, IsBulk, Publishes
  <2>6. Told(c)'
    BY <2>2, <2>3, <2>4, <2>5 DEF Told, NoNewAck
  <2> QED
    BY <2>2, <2>3, <2>6, StepOfRequest
<1>7. ASSUME NEW r \in Replicas, Crash(r) PROVE CustodyInv'
  <2>1. copies' = copies /\ \A x \in Clients : NoNewAck(x)
    BY <1>7, QueueStepsAckNothing DEF Crash, brokerVars, queueVars
  <2>2. ASSUME NEW x \in Clients PROVE Told(x)'
    <3>1. CASE ReplicaOf[x] = r /\ Active(x)
      <4>1. req[x] \in Requests
        BY DEF IInv, TypeOK
      <4>2. req'[x] = [req[x] EXCEPT !.pc = "crashed", !.chan = IF @ = "open" THEN "dead" ELSE @]
        BY <1>7, <3>1 DEF Crash
      <4>3. req'[x].job = req[x].job /\ req'[x].pc = "crashed" /\ req'[x].results = req[x].results
        BY <4>1, <4>2 DEF Requests
      <4>4. Quiet(x)
        BY <2>1, <4>3 DEF Quiet, BeforeLoop, BeforeOpen, InLoop
      <4> QED
        BY <2>1, <4>4, QuietStep
    <3>2. CASE ~(ReplicaOf[x] = r /\ Active(x))
      <4>1. req'[x] = req[x]
        BY <1>7, <3>2 DEF Crash
      <4> QED
        BY <2>1, <4>1, OthersAreTold
    <3> QED
      BY <3>1, <3>2
  <2> QED
    BY <2>2
<1> QED
  BY <1>2, <1>3, <1>4, <1>5, <1>6, <1>7 DEF Broker

-------------------------------------------------------------------------------
(* The theorems. *)

LEMMA InitIsTold == Init => CustodyInv
<1> SUFFICES ASSUME Init PROVE CustodyInv
  OBVIOUS
<1>1. IInv
  BY InitIsSafe
<1>2. ASSUME NEW c \in Clients PROVE Told(c)
  <2>1. /\ req[c].pc = "idle" /\ \A f \in Fps : req[c].results[f] = "none"
        /\ \A m \in Msgs : copies[c][m] = 0 /\ ~Acked(c, m)
    BY DEF Init, NewRequest, Acked
  <2> QED
    BY <2>1 DEF Told, Recorded, HasCurrent, At, InLoop
<1> QED
  BY <1>1, <1>2 DEF CustodyInv

LEMMA NextIsTold == CustodyInv /\ [Next]_vars => CustodyInv'
<1> SUFFICES ASSUME CustodyInv, [Next]_vars PROVE CustodyInv'
  OBVIOUS
<1>1. IInv'
  BY NextIsSafe DEF CustodyInv
<1> QED
  BY <1>1, StepsPreserve, EarlySteps, OtherStepsPreserve DEF Next, Terminated

(* What a request has on record is what it did (CustodyInv). *)
THEOREM RecordsAreKept == Spec => []CustodyInv
BY InitIsTold, NextIsTold, PTL DEF Spec

(* No report is false: a success of a publishing action has its one copy at *)
(* the target, a failure removed nothing, and what was not acted on was     *)
(* neither copied nor removed.                                              *)
THEOREM ReportsAreTrue == Spec => []ReportIsTrue
<1>1. ASSUME CustodyInv PROVE ReportIsTrue
  <2>1. ASSUME NEW c \in Clients, NEW m \in Msgs
        PROVE  /\ req[c].results[Fp[m]] = "success" /\ Publishes(c) =>
                      \E x \in Msgs : Fp[x] = Fp[m] /\ copies[c][x] = 1
               /\ req[c].results[Fp[m]] \notin {"none", "success"} => ~Acked(c, m)
               /\ req[c].results[Fp[m]] \in NotActed => copies[c][m] = 0
    BY <1>1, FpAssumption DEF CustodyInv, Told, Recorded, Copied
  <2> QED
    BY <2>1 DEF ReportIsTrue, NotActed
<1> QED
  BY <1>1, RecordsAreKept, PTL

-------------------------------------------------------------------------------
(* The promise of MessageCustody. *)

CustodyVars == <<Where, Asked, Purposes, copies>>

(* Reading a message and giving it back leave it in the queue. *)
LEMMA WhereStays ==
    ASSUME \/ place' = place
           \/ \E c \in Clients : Requeue(HeldBy(c))
           \/ \E c \in Clients, m \in Msgs : Deliver(c, m)
           \/ \E m \in Msgs : place[m] = "unacked" /\ Requeue({m}),
           TypeOK
    PROVE  Where' = Where
<1> DEFINE Same(m) == \/ place'[m] = place[m]
                      \/ place[m] \in {"ready", "unacked"} /\ place'[m] \in {"ready", "unacked"}
<1>1. ASSUME NEW S \in SUBSET Msgs, Requeue(S), \A x \in S : place[x] = "unacked", NEW m \in Msgs
      PROVE  Same(m)
  BY <1>1 DEF Requeue
<1>2. ASSUME NEW c \in Clients, NEW y \in Msgs, Deliver(c, y), NEW m \in Msgs
      PROVE  Same(m)
  BY <1>2 DEF TypeOK, Deliver, IsHead, Ready
<1>3. \A c \in Clients : HeldBy(c) \in SUBSET Msgs /\ \A x \in HeldBy(c) : place[x] = "unacked"
  BY DEF HeldBy
<1>4. \A m \in Msgs : Same(m)
  <2>1. CASE \E c \in Clients : Requeue(HeldBy(c))
    BY <1>1, <1>3, <2>1
  <2>2. CASE \E y \in Msgs : place[y] = "unacked" /\ Requeue({y})
    BY <1>1, <2>2
  <2> QED
    BY <1>2, <2>1, <2>2
<1> QED
  BY <1>4 DEF Where

(* A request keeps its job. *)
LEMMA ApprovalStays ==
    ASSUME \A c \in Clients : req'[c].job = req[c].job
    PROVE  Asked' = Asked /\ Purposes' = Purposes
BY DEF Asked, Purposes, Purpose

LEMMA KeptJob ==
    ASSUME IInv, NEW c \in Clients, NEW r, Become(c, r), r.job = req[c].job
    PROVE  Asked' = Asked /\ Purposes' = Purposes
<1>1. \A x \in Clients : req'[x].job = req[x].job
  BY BecomeOnly
<1> QED
  BY <1>1, ApprovalStays

(* A step of a request that copies nothing and acks nothing. *)
LEMMA CustodyStutters ==
    ASSUME IInv, NEW c \in Clients, NEW r, Become(c, r), r.job = req[c].job, copies' = copies,
           \/ place' = place
           \/ Requeue(HeldBy(c))
           \/ \E m \in Msgs : Deliver(c, m)
    PROVE  UNCHANGED CustodyVars
BY KeptJob, WhereStays DEF CustodyVars, IInv

(* A confirmed publish, or one whose confirm is lost, stores the one copy. *)
LEMMA StoresOnce ==
    ASSUME CustodyInv, NEW c \in Clients, At(c, "publish"), Store(c), place' = place,
           NEW r, Become(c, r), r.job = req[c].job
    PROVE  Custody!Next
<1>1. Where' = Where /\ Asked' = Asked /\ Purposes' = Purposes
  BY KeptJob, WhereStays DEF CustodyInv, IInv
<1>2. PICK m \in Msgs : m = req[c].current
  BY InTheLoop DEF At, InLoop
<1>3. copies[c][m] = 0 /\ Publishes(c) /\ HasCurrent(c) /\ Progress(c)
  BY <1>2, InTheLoop DEF At, InLoop
<1>4. m \in Asked[c]
  BY <1>2, <1>3 DEF Asked, Progress
<1>5. Purposes[c] \in {"copy", "replace"}
  BY <1>3 DEF Purposes, Purpose, Publishes, Publishing
<1>6. copies' = [copies EXCEPT ![c][m] = 1]
  BY <1>2, <1>3 DEF Store, CustodyInv, IInv, TypeOK
<1>7. Custody!Store(c, m)
  BY <1>1, <1>3, <1>4, <1>5, <1>6 DEF Custody!Store
<1> QED
  BY <1>7 DEF Custody!Next

(* The broker removes a message for its ack only. *)
LEMMA RemovesJustified ==
    ASSUME CustodyInv, NEW c \in Clients, BrokerSettle(c)
    PROVE  Custody!Next \/ UNCHANGED CustodyVars
<1> USE DEF CustodyInv, IInv
<1>1. wire[c] \in Seq(Frames) /\ wire[c] # <<>> /\ UNCHANGED <<copies, req>>
  BY DEF BrokerSettle, TypeOK
<1>2. PICK frame : frame = wire[c][1]
  OBVIOUS
<1>3. Head(wire[c]) = frame /\ 1 \in DOMAIN wire[c] /\ frame.msg \in Msgs
  BY <1>1, <1>2, WireType
<1>4. PICK m \in Msgs : m = frame.msg
  BY <1>3
<1>5. place[m] = "unacked" /\ (frame.kind = "ack" => Justified(c, m))
  BY <1>2, <1>3, <1>4 DEF ClientInv, WireSafe, Holds
<1>6. Asked' = Asked /\ Purposes' = Purposes
  BY <1>1, ApprovalStays
<1>7. CASE frame.kind = "ack"
  <2>1. place' = [place EXCEPT ![m] = "gone"]
    BY <1>3, <1>4, <1>7 DEF BrokerSettle
  <2>2. Where' = [Where EXCEPT ![m] = "gone"] /\ Where[m] = "queued"
    BY <1>5, <2>1 DEF Where, TypeOK
  <2>3. m \in Asked[c]
    BY <1>5, <1>7 DEF Justified, Asked
  <2>4. Purposes[c] = "destroy" \/ (Purposes[c] = "replace" /\ copies[c][m] > 0)
    BY <1>5, <1>7 DEF Justified, Purposes, Purpose, Publishes, Publishing, Removing
  <2>5. Custody!Remove(c, m)
    BY <1>1, <1>6, <2>2, <2>3, <2>4 DEF Custody!Remove
  <2> QED
    BY <2>5 DEF Custody!Next
<1>8. CASE frame.kind # "ack"
  <2>1. Requeue({m})
    BY <1>3, <1>4, <1>8 DEF BrokerSettle
  <2>2. Where' = Where
    BY <1>5, <2>1, WhereStays
  <2> QED
    BY <1>1, <1>6, <2>2 DEF CustodyVars
<1> QED
  BY <1>7, <1>8

(* An approved request comes in, or one that only reads. *)
LEMMA ApprovesOnce ==
    ASSUME CustodyInv, IInv', NEW c \in Clients, NEW j \in Jobs, Start(c, j)
    PROVE  Custody!Next \/ UNCHANGED CustodyVars
<1>1. req[c] \in Requests /\ req[c].job = NoJob /\ UNCHANGED <<place, copies>>
  BY DEF CustodyInv, IInv, TypeOK, ClientInv, Progress, Start, Continue, brokerVars, queueVars
<1>2. req'[c].job = j /\ \A x \in Clients : x # c => req'[x] = req[x]
  <2>1. PICK r : r = [req[c] EXCEPT !.job = j, !.todo = j.fps, !.pc = "lock"]
    OBVIOUS
  <2>2. r.job = j
    BY <1>1, <2>1 DEF Requests
  <2> QED
    BY <2>1, <2>2, BecomeOnly DEF Start, Continue, CustodyInv
<1>3. Where' = Where
  BY <1>1 DEF Where
<1>4. Asked[c] = {} /\ Purposes[c] = "nothing"
  BY <1>1 DEF Asked, Purposes, Purpose, NoJob
<1>5. CASE j.action = "none"
  <2>1. j.fps = {}
    BY <1>5, JobsAssumption
  <2>2. \A x \in Clients : {m \in Msgs : Fp[m] \in req'[x].job.fps} = {m \in Msgs : Fp[m] \in req[x].job.fps}
    BY <1>1, <1>2, <2>1 DEF NoJob
  <2>3. \A x \in Clients : Purpose(x)' = Purpose(x)
    BY <1>1, <1>2, <1>5 DEF Purpose, NoJob
  <2> QED
    BY <1>1, <1>3, <2>2, <2>3 DEF CustodyVars, Asked, Purposes
<1>6. CASE j.action # "none"
  <2> DEFINE S == {m \in Msgs : Fp[m] \in j.fps}
  <2>1. PICK p : p = Purpose(c)'
    OBVIOUS
  <2>2. p \in {"copy", "destroy", "replace"}
    BY <1>2, <1>6, <2>1 DEF Purpose
  <2>3. Asked' = [Asked EXCEPT ![c] = S]
    BY <1>2 DEF Asked
  <2>4. \A x \in Clients : x # c => Purpose(x)' = Purpose(x)
    BY <1>2 DEF Purpose
  <2>5. Purposes' = [Purposes EXCEPT ![c] = p]
    BY <2>1, <2>4 DEF Purposes
  <2>6. Custody!Approve(c, S, p)
    BY <1>1, <1>3, <1>4, <2>2, <2>3, <2>5 DEF Custody!Approve
  <2>7. S \in SUBSET Msgs /\ p \in Custody!Purposes
    BY <2>2 DEF Custody!Purposes
  <2> QED
    BY <2>6, <2>7 DEF Custody!Next
<1> QED
  BY <1>5, <1>6

LEMMA StepsKeepCustody ==
    ASSUME CustodyInv, IInv', NEW c \in Clients, Step(c)
    PROVE  Custody!Next \/ UNCHANGED CustodyVars
<1> IInv /\ req[c] \in Requests
  BY DEF CustodyInv, IInv, TypeOK
<1> USE CustodyStutters DEF Requests, brokerVars, queueVars, Continue, Goto, Raise, Fail, Lose, Finish
<1>1. CASE AcquireLocal(c) \/ AcquireShared(c)
  BY <1>1 DEF AcquireLocal, AcquireShared
<1>2. CASE OpenChannel(c) \/ OpenFails(c)
  BY <1>2 DEF OpenChannel, OpenFails
<1>3. ASSUME NEW m \in Msgs,
             FetchMore(c, m) \/ FetchStops(c, m) \/ FetchTooDeep(c, m) \/ FetchLost(c, m)
      PROVE  UNCHANGED CustodyVars
  BY <1>3 DEF FetchMore, FetchStops, FetchTooDeep, FetchLost, Get, Taken
<1>4. CASE FetchEnds(c) \/ CallRaises(c) \/ MatchScan(c) \/ MatchBulk(c)
  BY <1>4 DEF FetchEnds, CallRaises, MatchScan, MatchBulk
<1>5. ASSUME NEW f \in Fps, MatchFails(c, f) \/ \E m \in Msgs : MatchSingle(c, f, m)
      PROVE  UNCHANGED CustodyVars
  BY <1>5 DEF MatchFails, MatchSingle
<1>6. CASE EnsureTarget(c) \/ TargetInvalid(c)
  BY <1>6 DEF EnsureTarget, TargetInvalid
<1>7. CASE TargetMissing(c)
  BY <1>7 DEF TargetMissing
<1>8. ASSUME NEW f \in Fps,
             NextAbsent(c, f) \/ NextDuplicated(c, f) \/ \E m \in Msgs : NextMessage(c, f, m)
      PROVE  UNCHANGED CustodyVars
  BY <1>8 DEF NextAbsent, NextDuplicated, NextMessage, Skip, Record
<1>9. CASE BatchEnds(c) \/ UndeliverRaises(c) \/ GiveBackRaises(c) \/ GiveBackEnds(c) \/ CloseDead(c)
  BY <1>9 DEF BatchEnds, UndeliverRaises, GiveBackRaises, GiveBackEnds, CloseDead
<1>10. CASE PublishConfirmed(c)
  BY <1>10, StoresOnce DEF PublishConfirmed
<1>11. CASE PublishUnroutable(c)
  BY <1>11 DEF PublishUnroutable
<1>12. ASSUME At(c, "publish") \/ At(c, "settle"), NEW r, r = req[c] \/ r = Lose(req[c]),
              NEW published \in BOOLEAN
       PROVE  Broken(r, published).job = req[c].job
  BY <1>12, BrokenIs
<1>13. CASE PublishRefused(c)
  BY <1>12, <1>13 DEF PublishRefused
<1>14. CASE PublishLost(c)
  BY <1>12, <1>14, StoresOnce DEF PublishLost
<1>15. CASE PublishRaises(c)
  BY <1>12, <1>15 DEF PublishRaises
<1>16. CASE SettleRaises(c)
  <2>0. Publishes(c) \in BOOLEAN
    BY DEF Publishes
  <2>1. PICK published \in BOOLEAN : published = Publishes(c)
    BY <2>0, Zenon
  <2>2. Become(c, Broken(req[c], published)) /\ At(c, "settle") /\ UNCHANGED <<place, copies>>
    BY <1>16, <2>1 DEF SettleRaises
  <2> QED
    BY <1>12, <2>2
<1>17. ASSUME NEW m, NEW r, Process(req[c], m) = r PROVE r.job = req[c].job
  BY <1>17 DEF Process
<1>18. CASE \/ Settle(c) \/ Undeliver(c)
            \/ \E m \in Msgs : GiveBack(c, m)
  BY <1>18 DEF Settle, Undeliver, GiveBack, Write, Process, Record
<1>19. CASE CloseChannel(c)
  BY <1>19 DEF CloseChannel
<1>20. CASE Release(c)
  BY <1>20 DEF Release
<1> QED
  BY <1>1, <1>2, <1>3, <1>4, <1>5, <1>6, <1>7, <1>8, <1>9, <1>10, <1>11, <1>13, <1>14, <1>15,
     <1>16, <1>18, <1>19, <1>20, Zenon
     DEF Step, Lock, Open, Fetch, Match, PrepareTarget, Take, Publish, SettleOne, Return

LEMMA NextKeepsCustody ==
    ASSUME CustodyInv, IInv', [Next]_vars
    PROVE  Custody!Next \/ UNCHANGED CustodyVars
<1> USE DEF CustodyInv, IInv
<1>1. ASSUME UNCHANGED <<copies, req>>, Where' = Where PROVE UNCHANGED CustodyVars
  BY <1>1, ApprovalStays DEF CustodyVars
<1>2. ASSUME NEW m \in Msgs, Arrive(m) PROVE Custody!Next
  <2>1. Where' = [Where EXCEPT ![m] = "queued"] /\ Where[m] = "absent"
    BY <1>2 DEF Arrive, Where, TypeOK
  <2>2. Asked' = Asked /\ Purposes' = Purposes /\ copies' = copies
    BY <1>2, ApprovalStays DEF Arrive
  <2>3. Custody!Arrive(m)
    BY <2>1, <2>2 DEF Custody!Arrive
  <2> QED
    BY <2>3 DEF Custody!Next
<1>3. ASSUME NEW c \in Clients, NEW j \in Jobs, Start(c, j)
      PROVE  Custody!Next \/ UNCHANGED CustodyVars
  BY <1>3, ApprovesOnce
<1>4. ASSUME NEW c \in Clients, Step(c) PROVE Custody!Next \/ UNCHANGED CustodyVars
  BY <1>4, StepsKeepCustody
<1>5. ASSUME NEW c \in Clients, Broker(c) PROVE Custody!Next \/ UNCHANGED CustodyVars
  BY <1>1, <1>5, RemovesJustified, WhereStays DEF Broker, BrokerCleanup
<1>6. ASSUME NEW c \in Clients, PgCleanup(c) \/ LoseSharedLock(c) PROVE UNCHANGED CustodyVars
  BY <1>1, <1>6, WhereStays DEF PgCleanup, LoseSharedLock, brokerVars, queueVars
<1>7. ASSUME NEW c \in Clients, AcquireFails(c) \/ ConnectionLoss(c) PROVE UNCHANGED CustodyVars
  <2>1. req[c] \in Requests
    BY DEF TypeOK
  <2> QED
    BY <1>7, <2>1, CustodyStutters
       DEF AcquireFails, ConnectionLoss, Continue, brokerVars, queueVars, Fail, Lose, Requests
<1>8. ASSUME NEW r \in Replicas, Crash(r) PROVE UNCHANGED CustodyVars
  <2>1. ASSUME NEW x \in Clients PROVE req'[x].job = req[x].job
    <3>1. req[x] \in Requests
      BY DEF TypeOK
    <3>2. CASE ReplicaOf[x] = r /\ Active(x)
      BY <1>8, <3>1, <3>2 DEF Crash, Requests
    <3>3. CASE ~(ReplicaOf[x] = r /\ Active(x))
      BY <1>8, <3>3 DEF Crash
    <3> QED
      BY <3>2, <3>3
  <2> QED
    BY <1>8, <2>1, ApprovalStays, WhereStays DEF Crash, CustodyVars, brokerVars, queueVars
<1>9. CASE UNCHANGED vars
  BY <1>1, <1>9, WhereStays DEF vars, brokerVars, queueVars
<1> QED
  BY <1>2, <1>3, <1>4, <1>5, <1>6, <1>7, <1>8, <1>9 DEF Next, Terminated

(* MessageOperator implements MessageCustody: whatever fails, a message leaves *)
(* the queue only for an approved request, after its one copy if it is to be   *)
(* replaced, and no request stores a message twice.                            *)
THEOREM KeepsCustody == Spec => CustodySpec
<1>1. Init => Custody!Init
  <2> SUFFICES ASSUME Init PROVE Custody!Init
    OBVIOUS
  <2>1. Where \in [Msgs -> {"absent", "queued"}]
    BY DEF Init, Where
  <2>2. Asked = [c \in Clients |-> {}] /\ Purposes = [c \in Clients |-> "nothing"]
    BY DEF Init, Asked, Purposes, Purpose, NewRequest, NoJob
  <2> QED
    BY <2>1, <2>2 DEF Init, Custody!Init
<1>2. CustodyInv /\ CustodyInv' /\ [Next]_vars => [Custody!Next]_CustodyVars
  BY NextKeepsCustody DEF CustodyInv
<1>3. CustodyVars = Custody!vars /\ CustodyVars' = Custody!vars'
  BY DEF CustodyVars, Custody!vars
<1>4. CustodyInv /\ CustodyInv' /\ [Next]_vars => [Custody!Next]_Custody!vars
  BY <1>2, <1>3
<1> QED
  BY <1>1, <1>4, RecordsAreKept, PTL DEF Spec, CustodySpec, Custody!Spec
===============================================================================
