------------------------------ MODULE AlertEngine ------------------------------
(***************************************************************************)
(* The alert rules and the engine that evaluates them.  Every replica runs *)
(* the loop of AlertEngine._run; a session-level PostgreSQL lock elects    *)
(* the one that evaluates (Coordinator.is_leader; on SQLite there is one   *)
(* replica, which always leads).  A pass lists the rules, reads the queues *)
(* and goes through the rules; a rule fires or recovers by a compare-and-  *)
(* set on its row, and is then delivered to PagerDuty and noted.           *)
(*                                                                         *)
(* Leadership is only looked at before a pass, so a replica whose database *)
(* session ended goes on with its pass while another one starts its own.   *)
(*                                                                         *)
(* Time is counted in evaluation intervals: a replica sleeps at least one  *)
(* between two passes, and a held condition's age stops at Duration.  A    *)
(* firing is named by its number where the code has its second.            *)
(***************************************************************************)
EXTENDS Integers, FiniteSets

CONSTANTS
    Rules,
    Replicas,
    Duration,     \* duration_seconds of the rules, in evaluation intervals
    MaxTroubles,  \* bound: changes of conditions and rules, and failures, in all
    Faults,       \* "session", "crash", "unreadable", "delivery", "database", "edit"
    None

Ages == 0..Duration

ASSUME BoundsAssumption == {Duration, MaxTroubles} \subseteq Nat
ASSUME FaultsAssumption ==
    Faults \subseteq {"session", "crash", "unreadable", "delivery", "database", "edit"}
ASSUME NoneAssumption == None \notin Replicas \cup Ages

VARIABLES
    troubles,   \* how many changes and failures there have been
    holds,      \* holds[r]: the queues meet the condition of rule r
    rule,       \* rule[r]: its row
    changed,    \* changed[r]: how often its row was set fired, and set recovered
    leader,     \* the replica whose session holds the lock
    engine,     \* engine[p]: the loop of replica p
    incidents,  \* PagerDuty: the dedup keys of the open incidents
    notes       \* notes[r]: how often a firing of r, and a recovery, was noted

vars == <<troubles, holds, rule, changed, leader, engine, incidents, notes>>

Key(r, at) == [rule |-> r, at |-> at]
Counts == [fired : Nat, recovered : Nat]
Rows == [exists : BOOLEAN, enabled : BOOLEAN, fired : BOOLEAN, at : Nat]
Events == [rule : Rules, kind : {"trigger", "resolve"}, at : Nat]
NoEvent == None

Engines ==
    [pc : {"sleep", "list", "read", "evaluate", "dispatch", "note"},
     leads : BOOLEAN,                       \* Coordinator._leader is set
     led : Ages,                            \* for how long it has been
     pending : [Rules -> Ages \cup {None}],  \* how long ago the condition was first seen to hold
     todo : SUBSET Rules,                   \* rules the pass has still to evaluate
     snap : [Rules -> Rows],                \* the rows as the pass listed them
     reads : [Rules -> BOOLEAN],            \* the conditions as it read them
     event : Events \cup {NoEvent}]         \* what it is delivering

NoClocks == [r \in Rules |-> None]
NewRow == [exists |-> TRUE, enabled |-> TRUE, fired |-> FALSE, at |-> 0]
NewEngine ==
    [pc |-> "sleep", leads |-> FALSE, led |-> 0, pending |-> NoClocks, todo |-> {},
     snap |-> [r \in Rules |-> NewRow], reads |-> [r \in Rules |-> FALSE], event |-> NoEvent]

TypeOK ==
    /\ troubles \in 0..MaxTroubles
    /\ holds \in [Rules -> BOOLEAN]
    /\ rule \in [Rules -> Rows]
    /\ changed \in [Rules -> Counts]
    /\ leader \in Replicas \cup {None}
    /\ engine \in [Replicas -> Engines]
    /\ incidents \subseteq [rule : Rules, at : Nat]
    /\ notes \in [Rules -> Counts]

Init ==
    /\ troubles = 0
    /\ holds = [r \in Rules |-> FALSE]
    /\ rule = [r \in Rules |-> NewRow]
    /\ changed = [r \in Rules |-> [fired |-> 0, recovered |-> 0]]
    /\ leader = None
    /\ engine = [p \in Replicas |-> NewEngine]
    /\ incidents = {}
    /\ notes = [r \in Rules |-> [fired |-> 0, recovered |-> 0]]

-------------------------------------------------------------------------------
At(p, location) == engine[p].pc = location
Become(p, e) == engine' = [engine EXCEPT ![p] = e]
Continue(p, e) ==
    Become(p, e) /\ UNCHANGED <<troubles, holds, rule, changed, leader, incidents, notes>>

(* Between passes only the clocks and the leadership are kept. *)
Sleep(e) == [e EXCEPT !.pc = "sleep", !.todo = {}, !.snap = NewEngine.snap,
                      !.reads = NewEngine.reads, !.event = NoEvent]
Forget(e) == [Sleep(e) EXCEPT !.pending = NoClocks]
Done(e, r) == [e EXCEPT !.todo = @ \ {r}]

-------------------------------------------------------------------------------
(* is_leader, before each pass. *)

(* d intervals have passed. *)
Older(age, d) == IF age + d < Duration THEN age + d ELSE Duration
Wait(e, d) ==
    [e EXCEPT !.led = Older(@, d),
              !.pending = [r \in Rules |-> IF @[r] = None THEN None ELSE Older(@[r], d)]]

TakeLead(p) ==
    /\ At(p, "sleep")
    /\ ~engine[p].leads
    /\ leader = None
    /\ leader' = p
    /\ Become(p, [engine[p] EXCEPT !.leads = TRUE, !.led = 0, !.pc = "list"])
    /\ UNCHANGED <<troubles, holds, rule, changed, incidents, notes>>

KeepLead(p) ==
    /\ At(p, "sleep")
    /\ engine[p].leads
    /\ leader = p
    /\ \E d \in 1..Duration + 1 : Continue(p, [Wait(engine[p], d) EXCEPT !.pc = "list"])

(* Mutant: the clocks are kept when the lead is lost. *)
LoseLeadOnly(p) ==
    /\ At(p, "sleep")
    /\ engine[p].leads
    /\ leader # p
    /\ Continue(p, [engine[p] EXCEPT !.leads = FALSE])

(* The session is gone: _drop_leader, and the clocks with it: whoever leads  *)
(* now keeps them.  A replica that does not lead has none.                   *)
LoseLead(p) ==
    /\ At(p, "sleep")
    /\ engine[p].leads
    /\ leader # p
    /\ Continue(p, Forget([engine[p] EXCEPT !.leads = FALSE]))

-------------------------------------------------------------------------------
(* evaluate_once. *)

Enabled == {r \in Rules : rule[r].exists /\ rule[r].enabled}

ListRules(p) ==
    /\ At(p, "list")
    /\ Continue(p, IF Enabled = {} THEN Forget(engine[p])
                   ELSE [engine[p] EXCEPT !.pc = "read", !.todo = Enabled, !.snap = rule])

ReadQueues(p) ==
    /\ At(p, "read")
    /\ Continue(p, [engine[p] EXCEPT !.reads = holds, !.pc = "evaluate"])

(* The queues of the scope cannot be read: its rules are left alone. *)
Unreadable(p) ==
    /\ "unreadable" \in Faults
    /\ troubles < MaxTroubles
    /\ At(p, "read")
    /\ troubles' = troubles + 1
    /\ Become(p, Sleep(engine[p]))
    /\ UNCHANGED <<holds, rule, changed, leader, incidents, notes>>

(* Mutant: each pass starts the clock of the condition again. *)
HeldAnew(p, r) == 0

(* How long the condition has held: setdefault keeps when it was first seen to. *)
Held(p, r) == IF engine[p].pending[r] = None THEN 0 ELSE engine[p].pending[r]
Seen(p, r) == [engine[p] EXCEPT !.pending[r] = Held(p, r)]
Due(p, r) == Held(p, r) >= Duration /\ ~engine[p].snap[r].fired
Evaluating(p, r) == At(p, "evaluate") /\ r \in engine[p].todo

(* Set fired or recovered, if it is not already: one row is updated. *)
CanSet(r, fired) == rule[r].exists /\ rule[r].fired # fired

Holding(p, r) ==
    /\ Evaluating(p, r)
    /\ engine[p].reads[r]
    /\ ~Due(p, r) \/ ~CanSet(r, TRUE)
    /\ Continue(p, Done(Seen(p, r), r))

(* Mutant: no compare, the row is set whatever it was. *)
FireUnchecked(p, r) ==
    /\ Evaluating(p, r)
    /\ engine[p].reads[r]
    /\ Due(p, r)
    /\ rule' = [rule EXCEPT ![r].fired = TRUE, ![r].at = changed[r].fired + 1]
    /\ changed' = [changed EXCEPT ![r].fired = IF rule[r].fired THEN @ ELSE @ + 1]
    /\ Become(p, [Seen(p, r) EXCEPT !.pc = "dispatch",
                     !.event = [rule |-> r, kind |-> "trigger", at |-> changed[r].fired + 1]])
    /\ UNCHANGED <<troubles, holds, leader, incidents, notes>>

(* Mutant: mark_fired does not store when. *)
FireUndated(p, r) ==
    /\ Evaluating(p, r)
    /\ engine[p].reads[r]
    /\ Due(p, r)
    /\ CanSet(r, TRUE)
    /\ rule' = [rule EXCEPT ![r].fired = TRUE, ![r].at = None]
    /\ changed' = [changed EXCEPT ![r].fired = @ + 1]
    /\ Become(p, [Seen(p, r) EXCEPT !.pc = "dispatch",
                     !.event = [rule |-> r, kind |-> "trigger", at |-> changed[r].fired + 1]])
    /\ UNCHANGED <<troubles, holds, leader, incidents, notes>>

Fire(p, r) ==
    /\ Evaluating(p, r)
    /\ engine[p].reads[r]
    /\ Due(p, r)
    /\ CanSet(r, TRUE)
    /\ rule' = [rule EXCEPT ![r].fired = TRUE, ![r].at = changed[r].fired + 1]
    /\ changed' = [changed EXCEPT ![r].fired = @ + 1]
    /\ Become(p, [Seen(p, r) EXCEPT !.pc = "dispatch",
                     !.event = [rule |-> r, kind |-> "trigger", at |-> changed[r].fired + 1]])
    /\ UNCHANGED <<troubles, holds, leader, incidents, notes>>

Unseen(p, r) == [engine[p] EXCEPT !.pending[r] = None]

(* Mutant: a rule that recovered stays fired. *)
RecoverNever(p, r) ==
    /\ Evaluating(p, r)
    /\ ~engine[p].reads[r]
    /\ Continue(p, Done(Unseen(p, r), r))

NotHolding(p, r) ==
    /\ Evaluating(p, r)
    /\ ~engine[p].reads[r]
    /\ ~engine[p].snap[r].fired \/ ~CanSet(r, FALSE)
    /\ Continue(p, Done(Unseen(p, r), r))

(* The incident to resolve is the one the pass has listed. *)
Recover(p, r) ==
    /\ Evaluating(p, r)
    /\ ~engine[p].reads[r]
    /\ engine[p].snap[r].fired
    /\ CanSet(r, FALSE)
    /\ rule' = [rule EXCEPT ![r].fired = FALSE]
    /\ changed' = [changed EXCEPT ![r].recovered = @ + 1]
    /\ Become(p, [Unseen(p, r) EXCEPT !.pc = "dispatch",
                     !.event = [rule |-> r, kind |-> "resolve", at |-> engine[p].snap[r].at]])
    /\ UNCHANGED <<troubles, holds, leader, incidents, notes>>

EndPass(p) ==
    /\ At(p, "evaluate")
    /\ engine[p].todo = {}
    /\ Continue(p, Sleep(engine[p]))

-------------------------------------------------------------------------------
(* _fire: deliver, then note. *)

Incident(p) == Key(engine[p].event.rule, engine[p].event.at)

Deliver(p) ==
    /\ At(p, "dispatch")
    /\ incidents' = IF engine[p].event.kind = "trigger" THEN incidents \cup {Incident(p)}
                    ELSE incidents \ {Incident(p)}
    /\ Become(p, [engine[p] EXCEPT !.pc = "note"])
    /\ UNCHANGED <<troubles, holds, rule, changed, leader, notes>>

(* Three attempts have failed, or quiet hours mute the rule: noted as such. *)
NotDelivered(p) ==
    /\ "delivery" \in Faults
    /\ At(p, "dispatch")
    /\ Continue(p, [engine[p] EXCEPT !.pc = "note"])

Note(p) ==
    /\ At(p, "note")
    /\ notes' = IF engine[p].event.kind = "trigger"
                THEN [notes EXCEPT ![engine[p].event.rule].fired = @ + 1]
                ELSE [notes EXCEPT ![engine[p].event.rule].recovered = @ + 1]
    /\ Become(p, [Done(engine[p], engine[p].event.rule) EXCEPT !.pc = "evaluate", !.event = NoEvent])
    /\ UNCHANGED <<troubles, holds, rule, changed, leader, incidents>>

(* The database fails somewhere in the pass: it ends there. *)
PassFails(p) ==
    /\ "database" \in Faults
    /\ troubles < MaxTroubles
    /\ engine[p].pc \in {"list", "evaluate", "dispatch", "note"}
    /\ troubles' = troubles + 1
    /\ Become(p, Sleep(engine[p]))
    /\ UNCHANGED <<holds, rule, changed, leader, incidents, notes>>

-------------------------------------------------------------------------------
(* The queues, the people, the sessions and the replicas. *)

Trouble ==
    /\ troubles < MaxTroubles
    /\ troubles' = troubles + 1
    /\ UNCHANGED <<changed, incidents, notes>>

Flip(r) ==
    /\ Trouble
    /\ holds' = [holds EXCEPT ![r] = ~@]
    /\ UNCHANGED <<rule, leader, engine>>

(* AlertRuleRepository.update and delete: the fired state is not touched. *)
Toggle(r) ==
    /\ "edit" \in Faults
    /\ Trouble
    /\ rule[r].exists
    /\ rule' = [rule EXCEPT ![r].enabled = ~@]
    /\ UNCHANGED <<holds, leader, engine>>

Delete(r) ==
    /\ "edit" \in Faults
    /\ Trouble
    /\ rule[r].exists
    /\ rule' = [rule EXCEPT ![r].exists = FALSE]
    /\ UNCHANGED <<holds, leader, engine>>

SessionEnds(p) ==
    /\ "session" \in Faults
    /\ Trouble
    /\ leader = p
    /\ leader' = None
    /\ UNCHANGED <<holds, rule, engine>>

(* A replica dies and starts again. *)
Restart(p) ==
    /\ "crash" \in Faults
    /\ Trouble
    /\ Become(p, NewEngine)
    /\ leader' = IF leader = p THEN None ELSE leader
    /\ UNCHANGED <<holds, rule>>

Lead(p) == TakeLead(p) \/ KeepLead(p) \/ LoseLead(p)
Pass(p) ==
    \/ ListRules(p) \/ ReadQueues(p) \/ EndPass(p) \/ Deliver(p) \/ NotDelivered(p) \/ Note(p)
    \/ \E r \in Rules : Holding(p, r) \/ Fire(p, r) \/ NotHolding(p, r) \/ Recover(p, r)
Loop(p) == Lead(p) \/ Pass(p)

Next ==
    \/ \E r \in Rules : Flip(r) \/ Toggle(r) \/ Delete(r)
    \/ \E p \in Replicas :
        Loop(p) \/ Unreadable(p) \/ PassFails(p) \/ SessionEnds(p) \/ Restart(p)

Spec == Init /\ [][Next]_vars

(* The loops run. *)
FairSpec == Spec /\ \A p \in Replicas : WF_vars(Loop(p))

-------------------------------------------------------------------------------
(* Properties. *)

(* Overlapping evaluations notify once: a rule fires and recovers in turn,     *)
(* whoever evaluates it, and each change of its row is noted at most once.     *)
NotifyOnce ==
    \A r \in Rules :
        /\ changed[r].fired - changed[r].recovered = IF rule[r].fired THEN 1 ELSE 0
        /\ notes[r].fired <= changed[r].fired
        /\ notes[r].recovered <= changed[r].recovered

(* The clock of a held condition is the leader's own: it never goes back       *)
(* further than its present leadership.                                        *)
ClockIsTheLeaders ==
    \A p \in Replicas, r \in Rules :
        engine[p].pending[r] # None => engine[p].leads /\ engine[p].pending[r] <= engine[p].led

(* A rule that goes on holding is fired, and one whose condition is over       *)
(* recovers, whatever happened to the engines before.                          *)
Watched(r) == rule[r].exists /\ rule[r].enabled
FiredInTheEnd ==
    \A r \in Rules : <>[](holds[r] /\ Watched(r)) => <>[]rule[r].fired
RecoveredInTheEnd ==
    \A r \in Rules : <>[](~holds[r] /\ Watched(r)) => <>[]~rule[r].fired

(* One incident per firing, resolved on recovery: when a rule is not fired and *)
(* nothing is being delivered, none of its incidents is open.                  *)
IncidentsResolved ==
    (\A p \in Replicas : engine[p].pc \notin {"dispatch", "note"}) =>
        \A key \in incidents : rule[key.rule].fired

-------------------------------------------------------------------------------
(* The inductive invariant behind NotifyOnce and ClockIsTheLeaders. *)

(* The replicas that are delivering or noting a change of rule r. *)
InFlight(r, kind) ==
    {p \in Replicas : /\ engine[p].pc \in {"dispatch", "note"}
                      /\ engine[p].event.rule = r /\ engine[p].event.kind = kind}

(* A pass is made by a replica that took the lead, and what it delivers is an event. *)
EngineInv(p) ==
    /\ engine[p].pc # "sleep" => engine[p].leads
    /\ engine[p].pc \in {"dispatch", "note"} => engine[p].event \in Events

(* A change of a row is noted, on its way, or lost with the pass that made it. *)
Accounted(r) ==
    /\ changed[r].fired - changed[r].recovered = IF rule[r].fired THEN 1 ELSE 0
    /\ \A kind \in {"trigger", "resolve"} : IsFiniteSet(InFlight(r, kind))
    /\ notes[r].fired + Cardinality(InFlight(r, "trigger")) <= changed[r].fired
    /\ notes[r].recovered + Cardinality(InFlight(r, "resolve")) <= changed[r].recovered

IInv ==
    /\ TypeOK
    /\ ClockIsTheLeaders
    /\ \A p \in Replicas : EngineInv(p)
    /\ \A r \in Rules : Accounted(r)
===============================================================================
