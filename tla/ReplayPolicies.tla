----------------------------- MODULE ReplayPolicies -----------------------------
(***************************************************************************)
(* A replay policy and the messages it retries.  Messages die in the queue *)
(* they are consumed from and come to the dead-letter queue with a history *)
(* (x-death, kept by the broker, and x-queuelens-deaths, stamped by a      *)
(* replay).  A run of the policy reads the dead-letter queue once, plans   *)
(* what to replay and what to park, acts through two audited bulk actions, *)
(* and counts itself as failed or not.                                     *)
(*                                                                         *)
(* Runs overlap: an Admin may run a policy at any time, and a replica that *)
(* lost the lead goes on with the run it is in.  A bulk action is one step *)
(* here, with the outcomes operate_bulk has under the lock of the queue    *)
(* (MessageOperator, BulkRuns).                                            *)
(***************************************************************************)
EXTENDS Integers, FiniteSets

CONSTANTS
    Messages,
    Strays,       \* messages published straight to the dead-letter queue: no history
    Queues,       \* queues that messages die in
    Origin,       \* Origin[m]: the one m is replayed to
    Runs,
    MaxDeaths,    \* max_deaths: parked at this many
    Backoff,      \* backoff_minutes
    Cap,          \* cap
    Brokers,      \* major versions of RabbitMQ
    MaxRound,     \* bound: how often a message dies before it comes to the queue
    MaxTroubles,  \* bound: failures and changes by people, in all
    Faults        \* "refused", "broker", "database", "crash", "environment", "consumers", "edit"

PauseAfter == 3   \* PAUSE_AFTER_FAILED_RUNS

ASSUME MessagesAssumption == Strays \subseteq Messages /\ Origin \in [Messages -> Queues]
ASSUME PolicyAssumption == MaxDeaths \in Nat \ {0, 1} /\ {Backoff, Cap, MaxRound} \subseteq Nat \ {0}
ASSUME BrokersAssumption == Brokers \subseteq {3, 4}
ASSUME TroublesAssumption ==
    /\ MaxTroubles \in Nat
    /\ Faults \subseteq
          {"refused", "broker", "database", "crash", "environment", "consumers", "edit"}

VARIABLES
    broker,       \* the version that keeps the x-death
    message,      \* message[m]: where it is and its history
    ahead,        \* ahead[m]: what stands before m in the dead-letter queue
    policy,       \* the row of the policy
    run,          \* run[r]
    environment,  \* the policy's environment and vhost are configured
    consumers,    \* the queues that have consumers
    troubles      \* how many failures and changes there have been

vars == <<broker, message, ahead, policy, run, environment, consumers, troubles>>

AtMost(n, bound) == IF n < bound THEN n ELSE bound
InDlq == {m \in Messages : message[m].at = "dlq"}

(* plan waits longest before the last replay; ages and deaths beyond count as that. *)
WaitFor(died) == Backoff * 2 ^ (died - 1)
ASSUME WaitsAssumption == \A died \in 1..MaxDeaths : WaitFor(died) \in Nat
Ages == 0..WaitFor(MaxDeaths - 1)
Counts == 0..MaxDeaths

MessageStates ==
    [at : {"origin", "dlq", "parking", "done"},
     counted : Counts,   \* the x-death counts, added up
     stamp : Counts,     \* x-queuelens-deaths, 0 if there is none
     died : Counts,      \* how often it did die
     age : Ages]         \* since it last did

Fingerprints == [message : Messages, counted : Counts, stamp : Counts]
RunStates ==
    [pc : {"idle", "begin", "replay", "park", "record", "write", "pause"},
     replay : SUBSET Fingerprints, park : SUBSET Fingerprints,  \* the plan
     failed : BOOLEAN,                                          \* the run is a failed one
     read : 0..PauseAfter]                                      \* record_run's row

NewRun == [pc |-> "idle", replay |-> {}, park |-> {}, failed |-> FALSE, read |-> 0]

(* a gives the messages of S an order. *)
InOrder(a, S) ==
    /\ \A m \in Messages : a[m] \subseteq S \ {m} /\ (m \notin S => a[m] = {})
    /\ \A m, k \in S : m # k => (m \in a[k] <=> k \notin a[m])
    /\ \A m \in S : \A k \in a[m] : a[k] \subseteq a[m]

TypeOK ==
    /\ broker \in Brokers
    /\ message \in [Messages -> MessageStates]
    /\ ahead \in [Messages -> SUBSET Messages] /\ InOrder(ahead, InDlq)
    /\ policy \in [exists : BOOLEAN, enabled : BOOLEAN, due : BOOLEAN, failures : 0..PauseAfter]
    /\ run \in [Runs -> RunStates]
    /\ environment \in BOOLEAN /\ consumers \subseteq Queues
    /\ troubles \in 0..MaxTroubles

Init ==
    /\ broker \in Brokers
    /\ message = [m \in Messages |-> [at |-> IF m \in Strays THEN "dlq" ELSE "origin",
                                      counted |-> 0, stamp |-> 0, died |-> 0, age |-> 0]]
    /\ ahead \in {a \in [Messages -> SUBSET Strays] : InOrder(a, Strays)}
    /\ policy = [exists |-> TRUE, enabled |-> TRUE, due |-> TRUE, failures |-> 0]
    /\ run = [r \in Runs |-> NewRun]
    /\ environment = TRUE /\ consumers = Queues
    /\ troubles = 0

-------------------------------------------------------------------------------
(* How messages live and die. *)

(* RabbitMQ 4 starts the x-death again for a message that a client publishes. *)
History(m) == IF broker = 4 THEN 0 ELSE message[m].counted

Die(m) ==
    /\ message[m].at = "origin"
    /\ \E n \in 1..MaxRound :
          message' = [message EXCEPT ![m].at = "dlq", ![m].age = 0,
                         ![m].counted = AtMost(History(m) + n, MaxDeaths),
                         ![m].died = AtMost(@ + n, MaxDeaths)]
    /\ ahead' = [ahead EXCEPT ![m] = InDlq]
    /\ UNCHANGED <<broker, policy, run, environment, consumers, troubles>>

(* Nothing looks at the history of a message that is parked or consumed. *)
Settled(m, place) == [message[m] EXCEPT !.at = place, !.counted = 0, !.stamp = 0, !.age = 0]

Consume(m) ==
    /\ message[m].at = "origin"
    /\ Origin[m] \in consumers
    /\ message' = [message EXCEPT ![m] = [Settled(m, "done") EXCEPT !.died = 0]]
    /\ UNCHANGED <<broker, ahead, policy, run, environment, consumers, troubles>>

Tick ==
    /\ message' = [m \in Messages |-> IF message[m].at = "dlq" /\ message[m].died > 0
                       THEN [message[m] EXCEPT !.age = AtMost(@ + 1, WaitFor(MaxDeaths - 1))]
                       ELSE message[m]]
    /\ message' # message
    /\ UNCHANGED <<broker, ahead, policy, run, environment, consumers, troubles>>

IntervalPasses ==
    /\ ~policy.due
    /\ policy' = [policy EXCEPT !.due = TRUE]
    /\ UNCHANGED <<broker, message, ahead, run, environment, consumers, troubles>>

-------------------------------------------------------------------------------
(* plan. *)

(* Mutant: the stamp is added to what the broker counts. *)
DeathsAdded(m) == message[m].counted + message[m].stamp

(* deaths: the stamp counts deaths up to the replay, and there was one since. *)
Deaths(m) ==
    LET counted == message[m].counted
        stamped == message[m].stamp
    IN  IF stamped > 0 /\ counted < stamped + 1 THEN stamped + 1 ELSE counted

(* Mutant: a fingerprint of what the producer sent. *)
FingerprintOfBody(m) == [message |-> m, counted |-> 0, stamp |-> 0]

(* The headers are part of a message's identity, so each time it dies makes it *)
(* another one (here by the stamp; the x-death has the second as well).        *)
Fingerprint(m) ==
    [message |-> m, counted |-> message[m].counted, stamp |-> message[m].stamp]

Exhausted(m) == Deaths(m) >= MaxDeaths
Due(m) == Deaths(m) > 0 /\ (Exhausted(m) \/ message[m].age >= WaitFor(Deaths(m)))

(* Mutant: the cap is on what is looked at. *)
ActedOfFirst == {m \in InDlq : Due(m) /\ Cardinality(ahead[m]) < Cap}

(* The first that are due, up to the cap. *)
Acted == {m \in InDlq : Due(m) /\ Cardinality({k \in ahead[m] \cup {m} : Due(k)}) <= Cap}

-------------------------------------------------------------------------------
(* PolicyRunner. *)

At(r, location) == run[r].pc = location
Become(r, next) == run' = [run EXCEPT ![r] = next]
Continue(r, next) ==
    Become(r, next) /\ UNCHANGED <<broker, message, ahead, policy, environment, consumers, troubles>>

(* run_due: the leader has listed the policies. *)
RunDue(r) ==
    /\ At(r, "idle")
    /\ policy.exists /\ policy.enabled /\ policy.due
    /\ Continue(r, [NewRun EXCEPT !.pc = "begin"])

(* run_policy: an Admin runs it, enabled or not. *)
RunNow(r) ==
    /\ At(r, "idle")
    /\ policy.exists
    /\ Continue(r, [NewRun EXCEPT !.pc = "begin"])

(* Mutant: a run whose environment is gone is not a failed one. *)
SkipUnreachable(r) ==
    /\ At(r, "begin")
    /\ ~environment
    /\ Continue(r, [run[r] EXCEPT !.pc = "record"])

Unreachable(r) ==
    /\ At(r, "begin")
    /\ ~environment
    /\ Continue(r, [run[r] EXCEPT !.pc = "record", !.failed = TRUE])

(* The dead-letter queue is read and sorted, and what goes to a queue that    *)
(* nobody consumes is held back, after it has counted for the cap.            *)
Plan(r) ==
    /\ At(r, "begin")
    /\ environment
    /\ Continue(r, [run[r] EXCEPT !.pc = "replay",
          !.replay = {Fingerprint(m) :
                        m \in {n \in Acted : ~Exhausted(n) /\ Origin[n] \in consumers}},
          !.park = {Fingerprint(m) : m \in {n \in Acted : Exhausted(n)}}])

(* The messages of a batch that are still there as they were planned. *)
Matching(fps) == {m \in InDlq : Fingerprint(m) \in fps}
Outcomes(fps) ==
    IF "refused" \in Faults /\ troubles < MaxTroubles
    THEN {o \in [moved : SUBSET Matching(fps), failed : SUBSET Matching(fps)] :
             o.moved \cap o.failed = {}}
    ELSE {[moved |-> Matching(fps), failed |-> {}]}
Spent(fps, o) == IF o.moved = Matching(fps) THEN 0 ELSE 1
Without(moved) == [m \in Messages |-> IF m \in moved THEN {} ELSE ahead[m] \ moved]

Replay(r) ==
    /\ At(r, "replay")
    /\ \E o \in Outcomes(run[r].replay) :
          /\ message' = [m \in Messages |->
                IF m \in o.moved
                THEN [message[m] EXCEPT !.at = "origin", !.stamp = Deaths(m), !.age = 0]
                ELSE message[m]]
          /\ ahead' = Without(o.moved)
          /\ Become(r, [run[r] EXCEPT !.pc = "park", !.replay = {}, !.failed = o.failed # {}])
          /\ troubles' = troubles + Spent(run[r].replay, o)
    /\ UNCHANGED <<broker, policy, environment, consumers>>

(* Mutant: parking leaves the message in the dead-letter queue. *)
ParkCopy(r) ==
    /\ At(r, "park")
    /\ \E o \in Outcomes(run[r].park) :
          /\ message' = [m \in Messages |-> IF m \in o.moved THEN Settled(m, "parking") ELSE message[m]]
          /\ Become(r, [run[r] EXCEPT !.pc = "record", !.park = {}, !.failed = @ \/ o.failed # {}])
          /\ troubles' = troubles + Spent(run[r].park, o)
    /\ UNCHANGED <<broker, ahead, policy, environment, consumers>>

Park(r) ==
    /\ At(r, "park")
    /\ \E o \in Outcomes(run[r].park) :
          /\ message' = [m \in Messages |->
                IF m \in o.moved THEN Settled(m, "parking") ELSE message[m]]
          /\ ahead' = Without(o.moved)
          /\ Become(r, [run[r] EXCEPT !.pc = "record", !.park = {}, !.failed = @ \/ o.failed # {}])
          /\ troubles' = troubles + Spent(run[r].park, o)
    /\ UNCHANGED <<broker, policy, environment, consumers>>

(* record_run reads the row, counts, and writes it. *)
RecordRead(r) ==
    /\ At(r, "record")
    /\ Continue(r, IF policy.exists THEN [run[r] EXCEPT !.pc = "write", !.read = policy.failures]
                   ELSE NewRun)

Failures(r) == IF run[r].failed THEN AtMost(run[r].read + 1, PauseAfter) ELSE 0

RecordWrite(r) ==
    /\ At(r, "write")
    /\ policy.exists
    /\ policy' = [policy EXCEPT !.due = FALSE,
                    !.failures = IF Failures(r) = run[r].read THEN @ ELSE Failures(r)]
    /\ Become(r, IF Failures(r) < PauseAfter THEN NewRun ELSE [NewRun EXCEPT !.pc = "pause"])
    /\ UNCHANGED <<broker, message, ahead, environment, consumers, troubles>>

(* The row is gone by now: the run raises. *)
RecordLost(r) ==
    /\ At(r, "write")
    /\ ~policy.exists
    /\ Continue(r, NewRun)

Pause(r) ==
    /\ At(r, "pause")
    /\ policy' = [policy EXCEPT !.enabled = @ /\ ~policy.exists]
    /\ Become(r, NewRun)
    /\ UNCHANGED <<broker, message, ahead, environment, consumers, troubles>>

-------------------------------------------------------------------------------
(* What goes wrong, and what people do. *)

Trouble(kind) ==
    /\ kind \in Faults
    /\ troubles < MaxTroubles
    /\ troubles' = troubles + 1
    /\ UNCHANGED <<broker, message, ahead>>

(* The dead-letter queue cannot be read, or must not be: nothing is recorded. *)
PlanFails(r) ==
    /\ At(r, "begin")
    /\ environment
    /\ Trouble("broker")
    /\ Become(r, NewRun)
    /\ UNCHANGED <<broker, policy, environment, consumers>>

(* A batch raises: its dry run, or the audit of its attempt, is refused. *)
BatchFails(r) ==
    /\ Trouble("database")
    /\ \/ At(r, "replay") /\ run[r].replay # {} /\ Become(r, [run[r] EXCEPT !.pc = "park", !.replay = {}, !.failed = TRUE])
       \/ At(r, "park") /\ run[r].park # {} /\ Become(r, [run[r] EXCEPT !.pc = "record", !.park = {}, !.failed = TRUE])
    /\ UNCHANGED <<broker, policy, environment, consumers>>

RecordFails(r) ==
    /\ run[r].pc \in {"record", "write", "pause"}
    /\ Trouble("database")
    /\ Become(r, NewRun)
    /\ UNCHANGED <<broker, policy, environment, consumers>>

Crash(r) ==
    /\ ~At(r, "idle")
    /\ Trouble("crash")
    /\ Become(r, NewRun)
    /\ UNCHANGED <<broker, policy, environment, consumers>>

ToggleEnvironment ==
    /\ Trouble("environment")
    /\ environment' = ~environment
    /\ UNCHANGED <<broker, policy, run, consumers>>

ToggleConsumers(q) ==
    /\ Trouble("consumers")
    /\ consumers' = IF q \in consumers THEN consumers \ {q} ELSE consumers \cup {q}
    /\ UNCHANGED <<broker, policy, run, environment>>

(* update: when a policy is enabled its count starts over. *)
Enable ==
    /\ policy.exists
    /\ Trouble("edit")
    /\ policy' = [policy EXCEPT !.enabled = TRUE, !.failures = 0]
    /\ UNCHANGED <<broker, run, environment, consumers>>

Disable ==
    /\ policy.exists
    /\ Trouble("edit")
    /\ policy' = [policy EXCEPT !.enabled = FALSE]
    /\ UNCHANGED <<broker, run, environment, consumers>>

Delete ==
    /\ policy.exists
    /\ Trouble("edit")
    /\ policy' = [policy EXCEPT !.exists = FALSE]
    /\ UNCHANGED <<broker, run, environment, consumers>>

Step(r) ==
    \/ Unreachable(r) \/ Plan(r) \/ Replay(r) \/ Park(r)
    \/ RecordRead(r) \/ RecordWrite(r) \/ RecordLost(r) \/ Pause(r)

Next ==
    \/ \E m \in Messages : Die(m) \/ Consume(m)
    \/ Tick \/ IntervalPasses
    \/ \E r \in Runs :
          Step(r) \/ RunDue(r) \/ RunNow(r) \/ PlanFails(r) \/ BatchFails(r) \/ RecordFails(r) \/ Crash(r)
    \/ ToggleEnvironment \/ (\E q \in Queues : ToggleConsumers(q))
    \/ Enable \/ Disable \/ Delete

Spec == Init /\ [][Next]_vars

(* Time passes, some replica leads and lists the policies, and a run goes on. *)
FairSpec ==
    /\ Spec
    /\ WF_vars(Tick) /\ WF_vars(IntervalPasses)
    /\ WF_vars(\E r \in Runs : RunDue(r))
    /\ \A r \in Runs : WF_vars(Step(r))

-------------------------------------------------------------------------------
(* Properties. *)

Replayed(m) == message[m].at = "dlq" /\ message'[m].at = "origin"

(* A message is replayed only when it has been dead for the backoff of its     *)
(* deaths, and never once it died max_deaths times by the count it carries: a  *)
(* plan made before it died again does not touch it.                           *)
OnlyWhenDue ==
    [][\A m \in Messages : Replayed(m) =>
          ~Exhausted(m) /\ message[m].age >= WaitFor(Deaths(m))]_vars

(* A message is parked only when it did die max_deaths times: what replays     *)
(* stamp and what the broker counts are never counted twice.                   *)
ParkedForCause == \A m \in Messages : message[m].at = "parking" => message[m].died >= MaxDeaths

(* While a policy runs and its targets have consumers, no message that keeps   *)
(* dying comes back for ever: it is parked in the end, on either broker.       *)
Healthy(queues) == policy.exists /\ policy.enabled /\ environment /\ queues \subseteq consumers
NoEndlessRetry ==
    <>[]Healthy(Queues) => \A m \in Messages \ Strays : <>[](m \notin InDlq)

(* A policy whose environment was removed is paused, if its runs are recorded. *)
GonePolicyIsPaused == <>[]~environment => <>[](policy.enabled => ~policy.exists)

-------------------------------------------------------------------------------
(* The inductive invariant behind ParkedForCause and OnlyWhenDue. *)

(* What a message carries never says more than how often it died: a stamp is of *)
(* a death before the replay, and there was one more when the message is back.  *)
Carried(m) ==
    /\ message[m].stamp < MaxDeaths
    /\ message[m].at = "origin" => /\ message[m].counted <= message[m].died
                                   /\ message[m].stamp <= message[m].died
    /\ message[m].at = "dlq" => /\ message[m].counted <= message[m].died
                                /\ message[m].stamp > 0 => message[m].stamp < message[m].died
    /\ message[m].at = "parking" => message[m].died >= MaxDeaths

(* A planned message that was replayed since carries a later stamp; one that is still *)
(* as it was planned is still due, to be replayed or to be parked as it was planned.  *)
Planned(fp, toPark) ==
    LET m == fp.message
    IN  /\ message[m].at = "origin" => fp.stamp < message[m].stamp
        /\ message[m].at = "dlq" => /\ fp.stamp <= message[m].stamp
                                    /\ fp = Fingerprint(m) => Due(m) /\ (Exhausted(m) <=> toPark)

IInv ==
    /\ TypeOK
    /\ \A m \in Messages : Carried(m)
    /\ \A r \in Runs : /\ \A fp \in run[r].replay : Planned(fp, FALSE)
                       /\ \A fp \in run[r].park : Planned(fp, TRUE)
===============================================================================
