--------------------------- MODULE AlertEngineProofs ---------------------------
(***************************************************************************)
(* A rule's changes are notified at most once, and a held condition's      *)
(* clock belongs to the leader that started it: the safety invariants of   *)
(* AlertEngine, for any rules, replicas, duration and failures.            *)
(*                                                                         *)
(* NotifyOnce is not inductive: between the compare-and-set and the note   *)
(* the change is on its way in some replica, which may have lost the lead. *)
(* Accounted counts these too (InFlight), so that a note spends one of     *)
(* them; the set of them is finite because each change adds one replica.   *)
(***************************************************************************)
EXTENDS AlertEngine, FiniteSetTheorems, TLAPS

(* The clocks of an engine are its own. *)
OwnClocks(e) == \A r \in Rules : e.pending[r] # None => e.leads /\ e.pending[r] <= e.led

(* Time goes on for the clocks and for the leadership alike. *)
LEMMA WaitKeepsClocks ==
    ASSUME NEW e \in Engines, OwnClocks(e), NEW d \in Nat
    PROVE  /\ Wait(e, d) \in Engines
           /\ OwnClocks(Wait(e, d))
           /\ Wait(e, d).leads = e.leads /\ Wait(e, d).event = e.event
<1>1. Ages \subseteq Nat /\ None \notin Ages
  BY BoundsAssumption, NoneAssumption DEF Ages
<1>2. \A a \in Ages : Older(a, d) \in Ages
  BY BoundsAssumption DEF Older, Ages
<1>3. \A a, b \in Ages : a <= b => Older(a, d) <= Older(b, d)
  <2>1. Duration \in Nat
    BY BoundsAssumption
  <2> QED
    BY <2>1 DEF Older, Ages
<1> DEFINE q == [r \in Rules |-> IF e.pending[r] = None THEN None ELSE Older(e.pending[r], d)]
<1>4. e.led \in Ages /\ e.pending \in [Rules -> Ages \cup {None}]
  BY DEF Engines
<1>5. q \in [Rules -> Ages \cup {None}]
  BY <1>2, <1>4
<1>6. Wait(e, d) = [e EXCEPT !.led = Older(e.led, d), !.pending = q]
  BY DEF Wait, Engines
<1> HIDE DEF q
<1>7. Wait(e, d) \in Engines /\ Wait(e, d).led = Older(e.led, d) /\ Wait(e, d).pending = q
      /\ Wait(e, d).leads = e.leads /\ Wait(e, d).event = e.event
  BY <1>2, <1>4, <1>5, <1>6 DEF Engines
<1>8. ASSUME NEW r \in Rules, q[r] # None PROVE e.leads /\ q[r] <= Older(e.led, d)
  <2>1. e.pending[r] # None /\ q[r] = Older(e.pending[r], d)
    BY <1>8 DEF q
  <2> QED
    BY <1>3, <1>4, <2>1 DEF OwnClocks
<1> QED
  BY <1>7, <1>8 DEF OwnClocks

(* An engine that sleeps, or forgets, is one. *)
LEMMA SleepType ==
    ASSUME NEW e \in Engines
    PROVE  /\ Sleep(e) \in Engines /\ Sleep(e).pc = "sleep"
           /\ Sleep(e).pending = e.pending /\ Sleep(e).leads = e.leads /\ Sleep(e).led = e.led
           /\ Forget(e) \in Engines /\ Forget(e).pc = "sleep" /\ Forget(e).pending = NoClocks
<1>1. NewEngine.snap \in [Rules -> Rows] /\ NewEngine.reads \in [Rules -> BOOLEAN]
  BY DEF NewEngine, NewRow, Rows
<1>2. NoClocks \in [Rules -> Ages \cup {None}]
  BY DEF NoClocks
<1>3. Sleep(e) \in Engines /\ Sleep(e).pc = "sleep"
      /\ Sleep(e).pending = e.pending /\ Sleep(e).leads = e.leads /\ Sleep(e).led = e.led
  <2> HIDE DEF NewEngine
  <2> QED
    BY <1>1 DEF Sleep, Engines, NoEvent
<1> QED
  BY <1>2, <1>3 DEF Forget, Engines

-------------------------------------------------------------------------------
(* Changes on their way. *)

(* A step of one engine starts a delivery there, or ends or keeps it. *)
LEMMA FlightsOfStep ==
    ASSUME TypeOK, NEW p \in Replicas, NEW e, Become(p, e), NEW r, NEW kind
    PROVE  InFlight(r, kind)' = IF e.pc \in {"dispatch", "note"} /\ e.event.rule = r /\ e.event.kind = kind
                                THEN InFlight(r, kind) \cup {p} ELSE InFlight(r, kind) \ {p}
<1>1. \A x \in Replicas : engine'[x] = IF x = p THEN e ELSE engine[x]
  BY DEF TypeOK, Become
<1> QED
  BY <1>1 DEF InFlight

(* When no delivery is started, and nothing is noted, the accounts stay right. *)
LEMMA AccountsKept ==
    ASSUME NEW r \in Rules, TypeOK, Accounted(r), notes'[r] = notes[r], changed'[r] = changed[r],
           rule'[r].fired = rule[r].fired,
           \A kind \in {"trigger", "resolve"} : InFlight(r, kind)' \subseteq InFlight(r, kind)
    PROVE  Accounted(r)'
<1>1. /\ IsFiniteSet(InFlight(r, "trigger")') /\ IsFiniteSet(InFlight(r, "resolve")')
      /\ Cardinality(InFlight(r, "trigger")') <= Cardinality(InFlight(r, "trigger"))
      /\ Cardinality(InFlight(r, "resolve")') <= Cardinality(InFlight(r, "resolve"))
  BY FS_Subset DEF Accounted
<1>2. /\ Cardinality(InFlight(r, "trigger")') \in Nat /\ Cardinality(InFlight(r, "trigger")) \in Nat
      /\ Cardinality(InFlight(r, "resolve")') \in Nat /\ Cardinality(InFlight(r, "resolve")) \in Nat
  BY <1>1, FS_CardinalityType DEF Accounted
<1>3. /\ notes[r].fired \in Nat /\ notes[r].recovered \in Nat
      /\ changed[r].fired \in Nat /\ changed[r].recovered \in Nat
  BY DEF TypeOK, Counts
<1>4. /\ notes[r].fired + Cardinality(InFlight(r, "trigger")') <= changed[r].fired
      /\ notes[r].recovered + Cardinality(InFlight(r, "resolve")') <= changed[r].recovered
  BY <1>1, <1>2, <1>3 DEF Accounted
<1> QED
  BY <1>1, <1>4 DEF Accounted

-------------------------------------------------------------------------------
(* A step of one engine that changes no row and notes nothing. *)
LEMMA EngineStep ==
    ASSUME IInv, NEW p \in Replicas, NEW e \in Engines, Become(p, e),
           UNCHANGED <<rule, changed, notes>>,
           troubles' \in 0..MaxTroubles, holds' = holds, leader' \in Replicas \cup {None},
           incidents' \subseteq [rule : Rules, at : Nat],
           e.pc # "sleep" => e.leads,
           e.pc \in {"dispatch", "note"} => /\ engine[p].pc \in {"dispatch", "note"}
                                            /\ e.event = engine[p].event,
           OwnClocks(e)
    PROVE  IInv'
<1> USE DEF IInv
<1>1. \A x \in Replicas : engine'[x] = IF x = p THEN e ELSE engine[x]
  BY DEF TypeOK, Become
<1>2. TypeOK'
  BY DEF TypeOK, Become
<1>3. ClockIsTheLeaders'
  BY <1>1 DEF ClockIsTheLeaders, OwnClocks
<1>4. ASSUME NEW x \in Replicas PROVE EngineInv(x)'
  BY <1>1 DEF EngineInv
<1>5. ASSUME NEW r \in Rules PROVE Accounted(r)'
  <2>1. \A kind \in {"trigger", "resolve"} : InFlight(r, kind)' \subseteq InFlight(r, kind)
    BY <1>1 DEF InFlight
  <2> QED
    BY <2>1, AccountsKept
<1> QED
  BY <1>2, <1>3, <1>4, <1>5

(* The same, when nothing else changes. *)
LEMMA ContinueStep ==
    ASSUME IInv, NEW p \in Replicas, NEW e \in Engines, Continue(p, e),
           e.pc # "sleep" => e.leads,
           e.pc \in {"dispatch", "note"} => /\ engine[p].pc \in {"dispatch", "note"}
                                            /\ e.event = engine[p].event,
           OwnClocks(e)
    PROVE  IInv'
<1>1. /\ troubles' \in 0..MaxTroubles /\ leader' \in Replicas \cup {None}
      /\ incidents' \subseteq [rule : Rules, at : Nat]
  BY DEF Continue, IInv, TypeOK
<1> QED
  BY <1>1, EngineStep DEF Continue

(* What is known of an engine. *)
LEMMA EngineIs ==
    ASSUME IInv, NEW p \in Replicas
    PROVE  engine[p] \in Engines /\ OwnClocks(engine[p]) /\ EngineInv(p)
BY DEF IInv, TypeOK, ClockIsTheLeaders, OwnClocks

LEMMA LeadPreserves ==
    ASSUME IInv, NEW p \in Replicas, Lead(p)
    PROVE  IInv'
<1> engine[p] \in Engines /\ OwnClocks(engine[p]) /\ EngineInv(p)
  BY EngineIs
<1>1. CASE TakeLead(p)
  <2> DEFINE e == [engine[p] EXCEPT !.leads = TRUE, !.led = 0, !.pc = "list"]
  <2>1. e \in Engines /\ Become(p, e) /\ e.pc = "list" /\ e.leads /\ e.pending = engine[p].pending
    <3>1. 0 \in Ages
      BY BoundsAssumption DEF Ages
    <3> QED
      BY <1>1, <3>1 DEF TakeLead, Engines
  <2>2. \A r \in Rules : engine[p].pending[r] = None
    BY <1>1 DEF TakeLead, OwnClocks
  <2>3. OwnClocks(e)
    BY <2>1, <2>2 DEF OwnClocks
  <2> HIDE DEF e
  <2> QED
    BY <1>1, <2>1, <2>3, EngineStep DEF TakeLead, IInv, TypeOK
<1>2. CASE KeepLead(p)
  <2>1. PICK d \in 1..Duration + 1 : Continue(p, [Wait(engine[p], d) EXCEPT !.pc = "list"])
    BY <1>2 DEF KeepLead
  <2> DEFINE w == Wait(engine[p], d)
  <2> DEFINE e == [w EXCEPT !.pc = "list"]
  <2>2. w \in Engines /\ OwnClocks(w) /\ w.leads
    BY <1>2, BoundsAssumption, WaitKeepsClocks DEF KeepLead
  <2> HIDE DEF w
  <2>3. e \in Engines /\ e.pc = "list" /\ e.leads /\ OwnClocks(e)
    BY <2>2 DEF Engines, OwnClocks
  <2>4. Continue(p, e)
    BY <2>1 DEF w
  <2> HIDE DEF e
  <2> QED
    BY <2>3, <2>4, ContinueStep
<1>3. CASE LoseLead(p)
  <2> DEFINE f == [engine[p] EXCEPT !.leads = FALSE]
  <2> DEFINE e == Forget(f)
  <2>1. f \in Engines
    BY DEF Engines
  <2>2. e \in Engines /\ e.pc = "sleep" /\ e.pending = NoClocks
    BY <2>1, SleepType
  <2>3. OwnClocks(e)
    BY <2>2 DEF OwnClocks, NoClocks
  <2> QED
    BY <1>3, <2>2, <2>3, ContinueStep DEF LoseLead
<1> QED
  BY <1>1, <1>2, <1>3 DEF Lead

(* A pass up to its evaluation, and its end, whatever ends it. *)
LEMMA PassPreserves ==
    ASSUME IInv, NEW p \in Replicas,
           \/ ListRules(p) \/ ReadQueues(p) \/ EndPass(p) \/ Deliver(p) \/ NotDelivered(p)
           \/ Unreadable(p) \/ PassFails(p)
    PROVE  IInv'
<1> engine[p] \in Engines /\ OwnClocks(engine[p]) /\ EngineInv(p)
  BY EngineIs
<1>1. /\ Sleep(engine[p]) \in Engines /\ Sleep(engine[p]).pc = "sleep" /\ OwnClocks(Sleep(engine[p]))
      /\ Forget(engine[p]) \in Engines /\ Forget(engine[p]).pc = "sleep" /\ OwnClocks(Forget(engine[p]))
  BY SleepType DEF OwnClocks, NoClocks
<1>2. CASE ListRules(p)
  <2>1. CASE Enabled = {}
    BY <1>1, <1>2, <2>1, ContinueStep DEF ListRules
  <2>2. CASE Enabled # {}
    <3> DEFINE e == [engine[p] EXCEPT !.pc = "read", !.todo = Enabled, !.snap = rule]
    <3>1. e \in Engines /\ e.pc = "read" /\ OwnClocks(e) /\ e.leads
      BY <1>2 DEF ListRules, At, Engines, Enabled, OwnClocks, EngineInv, IInv, TypeOK
    <3> HIDE DEF e
    <3> QED
      BY <1>2, <2>2, <3>1, ContinueStep DEF ListRules, e
  <2> QED
    BY <2>1, <2>2
<1>3. CASE ReadQueues(p)
  <2> DEFINE e == [engine[p] EXCEPT !.reads = holds, !.pc = "evaluate"]
  <2>1. e \in Engines /\ e.pc = "evaluate" /\ OwnClocks(e) /\ e.leads
    BY <1>3 DEF ReadQueues, At, Engines, OwnClocks, EngineInv, IInv, TypeOK
  <2> HIDE DEF e
  <2> QED
    BY <1>3, <2>1, ContinueStep DEF ReadQueues, e
<1>4. CASE EndPass(p)
  BY <1>1, <1>4, ContinueStep DEF EndPass
<1>5. CASE Deliver(p) \/ NotDelivered(p)
  <2> DEFINE e == [engine[p] EXCEPT !.pc = "note"]
  <2>1. e \in Engines /\ e.pc = "note" /\ OwnClocks(e) /\ e.leads /\ e.event = engine[p].event
    BY <1>5 DEF Deliver, NotDelivered, At, Engines, OwnClocks, EngineInv
  <2>2. engine[p].pc = "dispatch" /\ Become(p, e)
    BY <1>5 DEF Deliver, NotDelivered, Continue, At
  <2>3. Incident(p) \in [rule : Rules, at : Nat]
    BY <2>2 DEF EngineInv, Events, Incident, Key
  <2> HIDE DEF e
  <2>4. incidents' \subseteq [rule : Rules, at : Nat]
    BY <1>5, <2>3 DEF Deliver, NotDelivered, Continue, IInv, TypeOK
  <2>5. UNCHANGED <<troubles, holds, rule, changed, leader, notes>>
    BY <1>5 DEF Deliver, NotDelivered, Continue
  <2> QED
    BY <2>1, <2>2, <2>4, <2>5, EngineStep DEF IInv, TypeOK
<1>6. CASE Unreadable(p) \/ PassFails(p)
  <2>1. troubles' \in 0..MaxTroubles
    BY <1>6, BoundsAssumption DEF Unreadable, PassFails, IInv, TypeOK
  <2> QED
    BY <1>1, <1>6, <2>1, EngineStep DEF Unreadable, PassFails, IInv, TypeOK
<1> QED
  BY <1>2, <1>3, <1>4, <1>5, <1>6

-------------------------------------------------------------------------------
(* The evaluation of one rule. *)

(* Starting, keeping or stopping the clock of a rule, in a pass. *)
LEMMA SeenIs ==
    ASSUME IInv, NEW p \in Replicas, NEW r \in Rules, At(p, "evaluate")
    PROVE  /\ Seen(p, r) \in Engines /\ OwnClocks(Seen(p, r))
           /\ Seen(p, r).leads /\ Seen(p, r).pc = "evaluate"
           /\ Unseen(p, r) \in Engines /\ OwnClocks(Unseen(p, r))
           /\ Unseen(p, r).leads /\ Unseen(p, r).pc = "evaluate"
<1> engine[p] \in Engines /\ OwnClocks(engine[p]) /\ EngineInv(p)
  BY EngineIs
<1>1. Ages \subseteq Nat /\ 0 \in Ages /\ None \notin Ages
  BY BoundsAssumption, NoneAssumption DEF Ages
<1>2. /\ engine[p].led \in Ages /\ engine[p].pending \in [Rules -> Ages \cup {None}]
      /\ engine[p].leads /\ engine[p].pc = "evaluate"
  BY DEF At, Engines, EngineInv
<1>3. Held(p, r) \in Ages /\ Held(p, r) <= engine[p].led
  <2>1. CASE engine[p].pending[r] = None
    BY <1>1, <1>2, <2>1 DEF Held
  <2>2. CASE engine[p].pending[r] # None
    BY <1>2, <2>2 DEF Held, OwnClocks
  <2> QED
    BY <2>1, <2>2
<1> DEFINE q == [engine[p].pending EXCEPT ![r] = Held(p, r)]
           u == [engine[p].pending EXCEPT ![r] = None]
<1>4. q \in [Rules -> Ages \cup {None}] /\ u \in [Rules -> Ages \cup {None}]
  BY <1>2, <1>3
<1>5. \A x \in Rules : /\ q[x] # None => q[x] <= engine[p].led
                       /\ u[x] # None => u[x] <= engine[p].led
  BY <1>2, <1>3 DEF OwnClocks
<1>6. Seen(p, r) = [engine[p] EXCEPT !.pending = q] /\ Unseen(p, r) = [engine[p] EXCEPT !.pending = u]
  BY DEF Seen, Unseen
<1> HIDE DEF q, u
<1> QED
  BY <1>2, <1>4, <1>5, <1>6 DEF Engines, OwnClocks

(* The accounts of a rule, from what a step does to each of their entries. *)
LEMMA AccountsMoved ==
    ASSUME NEW r \in Rules, TypeOK, TypeOK', Accounted(r),
           NEW df \in Int, NEW dr \in Int, NEW nf \in Int, NEW nr \in Int,
           changed'[r].fired = changed[r].fired + df, changed'[r].recovered = changed[r].recovered + dr,
           notes'[r].fired = notes[r].fired + nf, notes'[r].recovered = notes[r].recovered + nr,
           \/ rule'[r].fired = rule[r].fired /\ df - dr = 0
           \/ ~rule[r].fired /\ rule'[r].fired /\ df - dr = 1
           \/ rule[r].fired /\ ~rule'[r].fired /\ df - dr = -1,
           IsFiniteSet(InFlight(r, "trigger")'), IsFiniteSet(InFlight(r, "resolve")'),
           Cardinality(InFlight(r, "trigger")') = Cardinality(InFlight(r, "trigger")) + (df - nf),
           Cardinality(InFlight(r, "resolve")') = Cardinality(InFlight(r, "resolve")) + (dr - nr)
    PROVE  Accounted(r)'
<1>1. /\ Cardinality(InFlight(r, "trigger")) \in Nat /\ Cardinality(InFlight(r, "resolve")) \in Nat
      /\ notes[r].fired \in Nat /\ notes[r].recovered \in Nat
      /\ changed[r].fired \in Nat /\ changed[r].recovered \in Nat
  BY FS_CardinalityType DEF Accounted, TypeOK, Counts
<1>2. changed'[r].fired - changed'[r].recovered = IF rule'[r].fired THEN 1 ELSE 0
  <2>1. CASE rule'[r].fired = rule[r].fired /\ df - dr = 0
    BY <1>1, <2>1 DEF Accounted
  <2>2. CASE ~rule[r].fired /\ rule'[r].fired /\ df - dr = 1
    <3>1. (IF rule[r].fired THEN 1 ELSE 0) = 0 /\ (IF rule'[r].fired THEN 1 ELSE 0) = 1
      BY <2>2
    <3>2. changed[r].fired - changed[r].recovered = 0
      BY <3>1 DEF Accounted
    <3>3. changed'[r].fired - changed'[r].recovered = 1
      BY <1>1, <2>2, <3>2
    <3> QED
      BY <3>1, <3>3
  <2>3. CASE rule[r].fired /\ ~rule'[r].fired /\ df - dr = -1
    <3>1. (IF rule[r].fired THEN 1 ELSE 0) = 1 /\ (IF rule'[r].fired THEN 1 ELSE 0) = 0
      BY <2>3
    <3>2. changed[r].fired - changed[r].recovered = 1
      BY <3>1 DEF Accounted
    <3>3. changed'[r].fired - changed'[r].recovered = 0
      BY <1>1, <2>3, <3>2
    <3> QED
      BY <3>1, <3>3
  <2> QED
    BY <2>1, <2>2, <2>3
<1>3. /\ notes'[r].fired + Cardinality(InFlight(r, "trigger")') <= changed'[r].fired
      /\ notes'[r].recovered + Cardinality(InFlight(r, "resolve")') <= changed'[r].recovered
  BY <1>1 DEF Accounted
<1>4. \A kind \in {"trigger", "resolve"} : IsFiniteSet(InFlight(r, kind)')
  OBVIOUS
<1> QED
  BY <1>2, <1>3, <1>4 DEF Accounted

(* A change of a row puts its notification on the way. *)
LEMMA ChangePreserves ==
    ASSUME IInv, NEW p \in Replicas, NEW r \in Rules, NEW e \in Engines, Become(p, e),
           At(p, "evaluate"), OwnClocks(e), e.leads, e.pc = "dispatch", e.event \in Events,
           e.event.rule = r,
           \/ /\ Fire(p, r) /\ e.event.kind = "trigger"
           \/ /\ Recover(p, r) /\ e.event.kind = "resolve"
    PROVE  IInv'
<1> USE DEF IInv
<1>1. \A x \in Replicas : engine'[x] = IF x = p THEN e ELSE engine[x]
  BY DEF TypeOK, Become
<1>2. UNCHANGED <<troubles, holds, leader, incidents, notes>>
  BY DEF Fire, Recover
<1>3. changed[r] \in Counts /\ notes[r] \in Counts /\ rule[r] \in Rows
  BY DEF TypeOK
<1>4. TypeOK'
  <2>1. CASE Fire(p, r)
    <3>1. changed[r].fired + 1 \in Nat
      BY <1>3 DEF Counts
    <3>2. /\ [rule[r] EXCEPT !.fired = TRUE, !.at = changed[r].fired + 1] \in Rows
          /\ [changed[r] EXCEPT !.fired = @ + 1] \in Counts
      BY <1>3, <3>1 DEF Rows, Counts
    <3>3. /\ rule' = [rule EXCEPT ![r] = [rule[r] EXCEPT !.fired = TRUE, !.at = changed[r].fired + 1]]
          /\ changed' = [changed EXCEPT ![r] = [changed[r] EXCEPT !.fired = @ + 1]]
      BY <2>1 DEF Fire, TypeOK
    <3>4. rule' \in [Rules -> Rows] /\ changed' \in [Rules -> Counts]
      BY <3>2, <3>3 DEF TypeOK
    <3> QED
      BY <1>2, <3>4 DEF TypeOK, Become
  <2>2. CASE Recover(p, r)
    <3>1. changed[r].recovered + 1 \in Nat
      BY <1>3 DEF Counts
    <3>2. /\ [rule[r] EXCEPT !.fired = FALSE] \in Rows
          /\ [changed[r] EXCEPT !.recovered = @ + 1] \in Counts
      BY <1>3, <3>1 DEF Rows, Counts
    <3>3. /\ rule' = [rule EXCEPT ![r] = [rule[r] EXCEPT !.fired = FALSE]]
          /\ changed' = [changed EXCEPT ![r] = [changed[r] EXCEPT !.recovered = @ + 1]]
      BY <2>2 DEF Recover, TypeOK
    <3>4. rule' \in [Rules -> Rows] /\ changed' \in [Rules -> Counts]
      BY <3>2, <3>3 DEF TypeOK
    <3> QED
      BY <1>2, <3>4 DEF TypeOK, Become
  <2> QED
    BY <2>1, <2>2
<1>5. ClockIsTheLeaders'
  BY <1>1 DEF ClockIsTheLeaders, OwnClocks
<1>6. ASSUME NEW x \in Replicas PROVE EngineInv(x)'
  BY <1>1 DEF EngineInv
<1>7. p \notin InFlight(r, "trigger") /\ p \notin InFlight(r, "resolve")
  BY DEF InFlight, At
<1>8. ASSUME NEW x \in Rules, x # r PROVE Accounted(x)'
  <2>1. \A kind \in {"trigger", "resolve"} : InFlight(x, kind)' \subseteq InFlight(x, kind)
    BY <1>1, <1>8 DEF InFlight
  <2>2. changed'[x] = changed[x] /\ rule'[x].fired = rule[x].fired
    BY <1>8 DEF Fire, Recover, TypeOK
  <2> QED
    BY <1>2, <2>1, <2>2, AccountsKept
<1>9. Accounted(r)'
  <2>1. /\ IsFiniteSet(InFlight(r, "trigger")) /\ IsFiniteSet(InFlight(r, "resolve"))
        /\ Cardinality(InFlight(r, "trigger")) \in Nat /\ Cardinality(InFlight(r, "resolve")) \in Nat
    BY FS_CardinalityType DEF Accounted
  <2>2. /\ changed[r].fired \in Nat /\ changed[r].recovered \in Nat
        /\ notes'[r].fired = notes[r].fired + 0 /\ notes'[r].recovered = notes[r].recovered + 0
    BY <1>2, <1>3 DEF Counts
  <2>3. CASE Fire(p, r) /\ e.event.kind = "trigger"
    <3>1. /\ InFlight(r, "trigger")' = InFlight(r, "trigger") \cup {p}
          /\ InFlight(r, "resolve")' = InFlight(r, "resolve")
      BY <1>1, <1>7, <2>3 DEF InFlight
    <3>2. /\ IsFiniteSet(InFlight(r, "trigger")') /\ IsFiniteSet(InFlight(r, "resolve")')
          /\ Cardinality(InFlight(r, "trigger")') = Cardinality(InFlight(r, "trigger")) + (1 - 0)
          /\ Cardinality(InFlight(r, "resolve")') = Cardinality(InFlight(r, "resolve")) + (0 - 0)
      BY <1>7, <2>1, <3>1, FS_AddElement
    <3>3. /\ changed'[r].fired = changed[r].fired + 1 /\ changed'[r].recovered = changed[r].recovered + 0
          /\ ~rule[r].fired /\ rule'[r].fired
      <4>1. /\ rule' = [rule EXCEPT ![r] = [rule[r] EXCEPT !.fired = TRUE, !.at = changed[r].fired + 1]]
            /\ changed' = [changed EXCEPT ![r] = [changed[r] EXCEPT !.fired = @ + 1]]
            /\ rule[r].fired # TRUE
        BY <2>3 DEF Fire, CanSet, TypeOK
      <4>2. /\ rule'[r] = [rule[r] EXCEPT !.fired = TRUE, !.at = changed[r].fired + 1]
            /\ changed'[r] = [changed[r] EXCEPT !.fired = @ + 1]
        BY <4>1 DEF TypeOK
      <4>3. rule[r].fired \in BOOLEAN /\ rule'[r].fired = TRUE
        BY <1>3, <4>2 DEF Rows
      <4>4. /\ changed'[r].fired = changed[r].fired + 1
            /\ changed'[r].recovered = changed[r].recovered
        BY <1>3, <4>2 DEF Counts
      <4>5. ~rule[r].fired /\ rule'[r].fired
        BY <4>1, <4>3
      <4> QED
        BY <2>2, <4>4, <4>5
    <3> QED
      BY <1>4, <2>2, <3>2, <3>3, AccountsMoved
  <2>4. CASE Recover(p, r) /\ e.event.kind = "resolve"
    <3>1. /\ InFlight(r, "resolve")' = InFlight(r, "resolve") \cup {p}
          /\ InFlight(r, "trigger")' = InFlight(r, "trigger")
      BY <1>1, <1>7, <2>4 DEF InFlight
    <3>2. /\ IsFiniteSet(InFlight(r, "trigger")') /\ IsFiniteSet(InFlight(r, "resolve")')
          /\ Cardinality(InFlight(r, "trigger")') = Cardinality(InFlight(r, "trigger")) + (0 - 0)
          /\ Cardinality(InFlight(r, "resolve")') = Cardinality(InFlight(r, "resolve")) + (1 - 0)
      BY <1>7, <2>1, <3>1, FS_AddElement
    <3>3. /\ changed'[r].recovered = changed[r].recovered + 1 /\ changed'[r].fired = changed[r].fired + 0
          /\ rule[r].fired /\ ~rule'[r].fired
      <4>1. /\ rule' = [rule EXCEPT ![r] = [rule[r] EXCEPT !.fired = FALSE]]
            /\ changed' = [changed EXCEPT ![r] = [changed[r] EXCEPT !.recovered = @ + 1]]
            /\ rule[r].fired # FALSE
        BY <2>4 DEF Recover, CanSet, TypeOK
      <4>2. /\ rule'[r] = [rule[r] EXCEPT !.fired = FALSE]
            /\ changed'[r] = [changed[r] EXCEPT !.recovered = @ + 1]
        BY <4>1 DEF TypeOK
      <4>3. rule[r].fired \in BOOLEAN /\ rule'[r].fired = FALSE
        BY <1>3, <4>2 DEF Rows
      <4>4. /\ changed'[r].recovered = changed[r].recovered + 1
            /\ changed'[r].fired = changed[r].fired
        BY <1>3, <4>2 DEF Counts
      <4>5. rule[r].fired /\ ~rule'[r].fired
        BY <4>1, <4>3
      <4> QED
        BY <2>2, <4>4, <4>5
    <3> QED
      BY <1>4, <2>2, <3>2, <3>3, AccountsMoved
  <2> QED
    BY <2>3, <2>4
<1> QED
  BY <1>4, <1>5, <1>6, <1>8, <1>9

LEMMA EvaluatePreserves ==
    ASSUME IInv, NEW p \in Replicas, NEW r \in Rules,
           Holding(p, r) \/ Fire(p, r) \/ NotHolding(p, r) \/ Recover(p, r)
    PROVE  IInv'
<1> At(p, "evaluate")
  BY DEF Holding, Fire, NotHolding, Recover, Evaluating
<1>1. /\ Seen(p, r) \in Engines /\ OwnClocks(Seen(p, r))
      /\ Seen(p, r).leads /\ Seen(p, r).pc = "evaluate"
      /\ Unseen(p, r) \in Engines /\ OwnClocks(Unseen(p, r))
      /\ Unseen(p, r).leads /\ Unseen(p, r).pc = "evaluate"
  BY SeenIs
<1>2. CASE Holding(p, r) \/ NotHolding(p, r)
  <2>1. ASSUME NEW e \in Engines, OwnClocks(e), e.leads, e.pc = "evaluate"
        PROVE  /\ Done(e, r) \in Engines /\ OwnClocks(Done(e, r))
               /\ Done(e, r).leads /\ Done(e, r).pc = "evaluate"
    BY <2>1 DEF Done, Engines, OwnClocks
  <2> QED
    BY <1>1, <1>2, <2>1, ContinueStep DEF Holding, NotHolding
<1>3. CASE Fire(p, r)
  <2> DEFINE ev == [rule |-> r, kind |-> "trigger", at |-> changed[r].fired + 1]
  <2> DEFINE e == [Seen(p, r) EXCEPT !.pc = "dispatch", !.event = ev]
  <2>1. ev \in Events
    BY DEF Events, IInv, TypeOK, Counts
  <2> HIDE DEF ev
  <2>2. e \in Engines /\ OwnClocks(e) /\ e.leads /\ e.pc = "dispatch" /\ e.event = ev
    BY <1>1, <2>1 DEF Engines, OwnClocks
  <2> HIDE DEF e
  <2>3. Become(p, e)
    BY <1>3 DEF Fire, e, ev
  <2>4. ev.rule = r /\ ev.kind = "trigger"
    BY DEF ev
  <2> QED
    BY <1>3, <2>1, <2>2, <2>3, <2>4, ChangePreserves
<1>4. CASE Recover(p, r)
  <2> DEFINE ev == [rule |-> r, kind |-> "resolve", at |-> engine[p].snap[r].at]
  <2> DEFINE e == [Unseen(p, r) EXCEPT !.pc = "dispatch", !.event = ev]
  <2>1. ev \in Events
    BY EngineIs DEF Events, Engines, Rows
  <2> HIDE DEF ev
  <2>2. e \in Engines /\ OwnClocks(e) /\ e.leads /\ e.pc = "dispatch" /\ e.event = ev
    BY <1>1, <2>1 DEF Engines, OwnClocks
  <2> HIDE DEF e
  <2>3. Become(p, e)
    BY <1>4 DEF Recover, e, ev
  <2>4. ev.rule = r /\ ev.kind = "resolve"
    BY DEF ev
  <2> QED
    BY <1>4, <2>1, <2>2, <2>3, <2>4, ChangePreserves
<1> QED
  BY <1>2, <1>3, <1>4

(* A note spends a change that was on its way. *)
LEMMA NotePreserves ==
    ASSUME IInv, NEW p \in Replicas, Note(p)
    PROVE  IInv'
<1> USE DEF IInv
<1> engine[p] \in Engines /\ OwnClocks(engine[p]) /\ EngineInv(p)
  BY EngineIs
<1>1. PICK r \in Rules, kind \in {"trigger", "resolve"} :
          engine[p].event.rule = r /\ engine[p].event.kind = kind /\ engine[p].pc = "note"
  BY DEF Note, At, EngineInv, Events
<1> DEFINE e == [Done(engine[p], r) EXCEPT !.pc = "evaluate", !.event = NoEvent]
<1>2. e \in Engines /\ OwnClocks(e) /\ e.leads /\ e.pc = "evaluate"
  BY <1>1 DEF Done, Engines, OwnClocks, EngineInv
<1>3. Become(p, e) /\ UNCHANGED <<troubles, holds, rule, changed, leader, incidents>>
  BY <1>1 DEF Note
<1> HIDE DEF e
<1>4. \A x \in Replicas : engine'[x] = IF x = p THEN e ELSE engine[x]
  BY <1>3 DEF TypeOK, Become
<1>5. changed[r] \in Counts /\ notes[r] \in Counts /\ rule[r] \in Rows
  BY DEF TypeOK
<1>6. /\ \A x \in Rules : x # r => notes'[x] = notes[x]
      /\ kind = "trigger" => /\ notes'[r].fired = notes[r].fired + 1
                             /\ notes'[r].recovered = notes[r].recovered + 0
      /\ kind = "resolve" => /\ notes'[r].fired = notes[r].fired + 0
                             /\ notes'[r].recovered = notes[r].recovered + 1
      /\ notes' \in [Rules -> Counts]
  <2>1. notes[r].fired + 1 \in Nat /\ notes[r].recovered + 1 \in Nat
    BY <1>5 DEF Counts
  <2>2. CASE kind = "trigger"
    <3> DEFINE n == [notes[r] EXCEPT !.fired = @ + 1]
    <3>1. n \in Counts /\ n.fired = notes[r].fired + 1 /\ n.recovered = notes[r].recovered
      BY <1>5, <2>1 DEF Counts
    <3>2. notes' = [notes EXCEPT ![r] = n]
      BY <1>1, <2>2 DEF Note
    <3> HIDE DEF n
    <3> QED
      BY <1>5, <2>2, <3>1, <3>2 DEF TypeOK, Counts
  <2>3. CASE kind = "resolve"
    <3> DEFINE n == [notes[r] EXCEPT !.recovered = @ + 1]
    <3>1. n \in Counts /\ n.fired = notes[r].fired /\ n.recovered = notes[r].recovered + 1
      BY <1>5, <2>1 DEF Counts
    <3>2. notes' = [notes EXCEPT ![r] = n]
      BY <1>1, <2>3 DEF Note
    <3> HIDE DEF n
    <3> QED
      BY <1>5, <2>3, <3>1, <3>2 DEF TypeOK, Counts
  <2> QED
    BY <2>2, <2>3
<1>7. TypeOK'
  BY <1>2, <1>3, <1>6 DEF TypeOK, Become
<1>8. ClockIsTheLeaders' /\ \A x \in Replicas : EngineInv(x)'
  BY <1>2, <1>4 DEF ClockIsTheLeaders, OwnClocks, EngineInv
<1>9. ASSUME NEW x \in Rules, x # r PROVE Accounted(x)'
  <2>1. \A k \in {"trigger", "resolve"} : InFlight(x, k)' \subseteq InFlight(x, k)
    BY <1>2, <1>4 DEF InFlight
  <2> QED
    BY <1>3, <1>6, <1>9, <2>1, AccountsKept
<1>10. Accounted(r)'
  <2>1. /\ IsFiniteSet(InFlight(r, "trigger")) /\ IsFiniteSet(InFlight(r, "resolve"))
        /\ Cardinality(InFlight(r, "trigger")) \in Nat /\ Cardinality(InFlight(r, "resolve")) \in Nat
    BY FS_CardinalityType DEF Accounted
  <2>2. /\ changed'[r].fired = changed[r].fired + 0 /\ changed'[r].recovered = changed[r].recovered + 0
        /\ rule'[r].fired = rule[r].fired
    BY <1>3, <1>5 DEF Counts
  <2>3. InFlight(r, kind)' = InFlight(r, kind) \ {p} /\ p \in InFlight(r, kind)
    BY <1>1, <1>2, <1>4 DEF InFlight
  <2>4. \A k \in {"trigger", "resolve"} : k # kind => InFlight(r, k)' = InFlight(r, k)
    BY <1>1, <1>2, <1>4 DEF InFlight
  <2>5. CASE kind = "trigger"
    <3>1. /\ IsFiniteSet(InFlight(r, "trigger")') /\ IsFiniteSet(InFlight(r, "resolve")')
          /\ Cardinality(InFlight(r, "trigger")') = Cardinality(InFlight(r, "trigger")) + (0 - 1)
          /\ Cardinality(InFlight(r, "resolve")') = Cardinality(InFlight(r, "resolve")) + (0 - 0)
      BY <2>1, <2>3, <2>4, <2>5, FS_RemoveElement
    <3> QED
      BY <1>6, <1>7, <2>2, <2>5, <3>1, AccountsMoved
  <2>6. CASE kind = "resolve"
    <3>1. /\ IsFiniteSet(InFlight(r, "trigger")') /\ IsFiniteSet(InFlight(r, "resolve")')
          /\ Cardinality(InFlight(r, "trigger")') = Cardinality(InFlight(r, "trigger")) + (0 - 0)
          /\ Cardinality(InFlight(r, "resolve")') = Cardinality(InFlight(r, "resolve")) + (0 - 1)
      BY <2>1, <2>3, <2>4, <2>6, FS_RemoveElement
    <3> QED
      BY <1>6, <1>7, <2>2, <2>6, <3>1, AccountsMoved
  <2> QED
    BY <2>5, <2>6
<1> QED
  BY <1>7, <1>8, <1>9, <1>10

-------------------------------------------------------------------------------
(* The queues, the people, the sessions, the replicas, and the whole. *)

LEMMA WorldPreserves ==
    ASSUME IInv,
           \/ \E r \in Rules : Flip(r) \/ Toggle(r) \/ Delete(r)
           \/ \E p \in Replicas : SessionEnds(p)
    PROVE  IInv'
<1> USE DEF IInv
<1>1. UNCHANGED <<engine, changed, incidents, notes>> /\ troubles' \in 0..MaxTroubles
  BY BoundsAssumption DEF Flip, Toggle, Delete, SessionEnds, Trouble, TypeOK
<1>2. \A x \in Rules : rule'[x].fired = rule[x].fired
  BY DEF Flip, Toggle, Delete, SessionEnds, TypeOK, Rows
<1>3. rule' \in [Rules -> Rows] /\ holds' \in [Rules -> BOOLEAN] /\ leader' \in Replicas \cup {None}
  <2>1. \A r \in Rules : /\ [rule[r] EXCEPT !.enabled = ~@] \in Rows
                         /\ [rule[r] EXCEPT !.exists = FALSE] \in Rows
    BY DEF TypeOK, Rows
  <2>2. \A r \in Rules : (~holds[r]) \in BOOLEAN
    OBVIOUS
  <2>3. rule' \in [Rules -> Rows]
    BY <2>1 DEF Flip, Toggle, Delete, SessionEnds, TypeOK
  <2>4. holds' \in [Rules -> BOOLEAN] /\ leader' \in Replicas \cup {None}
    BY <2>2 DEF Flip, Toggle, Delete, SessionEnds, TypeOK
  <2> QED
    BY <2>3, <2>4
<1>4. TypeOK'
  BY <1>1, <1>3 DEF TypeOK
<1>5. ClockIsTheLeaders' /\ \A x \in Replicas : EngineInv(x)'
  BY <1>1 DEF ClockIsTheLeaders, EngineInv
<1>6. ASSUME NEW x \in Rules PROVE Accounted(x)'
  <2>1. \A kind \in {"trigger", "resolve"} : InFlight(x, kind)' \subseteq InFlight(x, kind)
    BY <1>1 DEF InFlight
  <2> QED
    BY <1>1, <1>2, <2>1, AccountsKept
<1> QED
  BY <1>4, <1>5, <1>6

LEMMA NewEngineIs == NewEngine \in Engines /\ OwnClocks(NewEngine) /\ NewEngine.pc = "sleep"
<1>1. 0 \in Ages
  BY BoundsAssumption DEF Ages
<1> QED
  BY <1>1 DEF NewEngine, NewRow, NoClocks, Engines, OwnClocks, Rows

LEMMA RestartPreserves ==
    ASSUME IInv, NEW p \in Replicas, Restart(p)
    PROVE  IInv'
<1>1. troubles' \in 0..MaxTroubles
  BY BoundsAssumption DEF Restart, Trouble, IInv, TypeOK
<1> QED
  BY <1>1, NewEngineIs, EngineStep DEF Restart, Trouble, IInv, TypeOK

LEMMA InitIsSafe == Init => IInv
<1> SUFFICES ASSUME Init PROVE IInv
  OBVIOUS
<1>1. TypeOK
  BY NewEngineIs, BoundsAssumption DEF Init, TypeOK, NewRow, Rows, Counts
<1>2. ClockIsTheLeaders /\ \A p \in Replicas : EngineInv(p)
  BY NewEngineIs DEF Init, ClockIsTheLeaders, EngineInv, OwnClocks
<1>3. ASSUME NEW r \in Rules PROVE Accounted(r)
  <2>1. \A kind \in {"trigger", "resolve"} : InFlight(r, kind) = {}
    BY NewEngineIs DEF Init, InFlight
  <2> QED
    <3>1. IsFiniteSet(InFlight(r, "trigger")) /\ IsFiniteSet(InFlight(r, "resolve"))
          /\ Cardinality(InFlight(r, "trigger")) = 0 /\ Cardinality(InFlight(r, "resolve")) = 0
      BY <2>1, FS_EmptySet
    <3>2. /\ changed[r].fired = 0 /\ changed[r].recovered = 0 /\ ~rule[r].fired
          /\ notes[r].fired = 0 /\ notes[r].recovered = 0
      BY DEF Init, NewRow
    <3> QED
      BY <3>1, <3>2 DEF Accounted
<1> QED
  BY <1>1, <1>2, <1>3 DEF IInv

LEMMA NextIsSafe == IInv /\ [Next]_vars => IInv'
<1> SUFFICES ASSUME IInv, [Next]_vars PROVE IInv'
  OBVIOUS
<1>1. CASE UNCHANGED vars
  <2>1. UNCHANGED <<troubles, holds, rule, changed, leader, engine, incidents, notes>>
    BY <1>1 DEF vars
  <2>2. TypeOK' /\ ClockIsTheLeaders'
    BY <2>1 DEF IInv, TypeOK, ClockIsTheLeaders
  <2>3. \A p \in Replicas : EngineInv(p)'
    BY <2>1 DEF IInv, EngineInv
  <2>4. ASSUME NEW r \in Rules PROVE Accounted(r)'
    BY <2>1, AccountsKept DEF IInv, InFlight
  <2> QED
    BY <2>2, <2>3, <2>4 DEF IInv
<1>2. ASSUME NEW r \in Rules, Flip(r) \/ Toggle(r) \/ Delete(r) PROVE IInv'
  BY <1>2, WorldPreserves
<1>3. ASSUME NEW p \in Replicas, Lead(p) PROVE IInv'
  BY <1>3, LeadPreserves
<1>4. ASSUME NEW p \in Replicas, Pass(p) PROVE IInv'
  BY <1>4, PassPreserves, EvaluatePreserves, NotePreserves DEF Pass
<1>5. ASSUME NEW p \in Replicas, Unreadable(p) \/ PassFails(p) PROVE IInv'
  BY <1>5, PassPreserves
<1>6. ASSUME NEW p \in Replicas, SessionEnds(p) \/ Restart(p) PROVE IInv'
  BY <1>6, WorldPreserves, RestartPreserves
<1> QED
  BY <1>1, <1>2, <1>3, <1>4, <1>5, <1>6 DEF Next, Loop

(* The invariant behind all that follows. *)
THEOREM InductiveInvariant == Spec => []IInv
BY InitIsSafe, NextIsSafe, PTL DEF Spec

(* Every state of the engines, and of the rows, is well typed. *)
THEOREM TypeCorrect == Spec => []TypeOK
BY InductiveInvariant, PTL DEF IInv

(* Overlapping evaluations notify once: a rule fires and recovers in turn, and *)
(* each change of its row is noted at most once, by whichever replica made it. *)
THEOREM NotifiedOnce == Spec => []NotifyOnce
<1>1. IInv => NotifyOnce
  <2> SUFFICES ASSUME IInv, NEW r \in Rules
               PROVE  /\ changed[r].fired - changed[r].recovered = IF rule[r].fired THEN 1 ELSE 0
                      /\ notes[r].fired <= changed[r].fired
                      /\ notes[r].recovered <= changed[r].recovered
    BY DEF NotifyOnce
  <2>1. /\ Accounted(r) /\ changed[r] \in Counts /\ notes[r] \in Counts
        /\ Cardinality(InFlight(r, "trigger")) \in Nat /\ Cardinality(InFlight(r, "resolve")) \in Nat
    BY FS_CardinalityType DEF IInv, TypeOK, Accounted
  <2> QED
    BY <2>1 DEF Accounted, Counts
<1> QED
  BY <1>1, InductiveInvariant, PTL

(* A held condition's clock never goes back further than the present leadership *)
(* of the replica that keeps it.                                                *)
THEOREM ClocksAreTheLeaders == Spec => []ClockIsTheLeaders
BY InductiveInvariant, PTL DEF IInv
================================================================================
