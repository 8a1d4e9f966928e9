-------------------------- MODULE ReplayPoliciesProofs --------------------------
(***************************************************************************)
(* A policy replays only what waited its backoff, and parks only what died *)
(* max_deaths times: for any messages, queues and overlapping runs, either *)
(* version of the broker, any max_deaths and backoff, and whatever fails.  *)
(*                                                                         *)
(* A plan is old when it is carried out.  What makes it safe is that a     *)
(* message never comes back as it was: a replay stamps it with more deaths *)
(* than its last stamp said (StampsGrow), so that a fingerprint of before  *)
(* matches no more, and a message that still is as it was planned has only *)
(* grown older.  That the stamps grow rests on the second part of IInv:    *)
(* what a message carries never says more than how often it died.          *)
(***************************************************************************)
EXTENDS ReplayPolicies, TLAPS

-------------------------------------------------------------------------------
(* Numbers. *)

(* The waits of a policy, and the ages that are told apart. *)
LEMMA WaitsAreNumbers ==
    /\ \A n \in Counts \ {0} : WaitFor(n) \in Nat
    /\ WaitFor(MaxDeaths - 1) \in Nat
    /\ MaxDeaths \in Nat /\ MaxDeaths > 1
    /\ 0 \in Counts /\ 0 \in Ages
<1>1. MaxDeaths \in Nat /\ MaxDeaths > 1
  BY PolicyAssumption
<1>2. Counts \ {0} = 1..MaxDeaths /\ MaxDeaths - 1 \in 1..MaxDeaths
  BY <1>1 DEF Counts
<1>3. WaitFor(MaxDeaths - 1) \in Nat
  BY <1>2, WaitsAssumption
<1>4. 0 \in Counts /\ 0 \in Ages
  BY <1>1, <1>3 DEF Counts, Ages
<1> QED
  BY <1>1, <1>2, <1>3, <1>4, WaitsAssumption

LEMMA AtMostIsSmaller ==
    ASSUME NEW n \in Nat, NEW bound \in Nat
    PROVE  /\ AtMost(n, bound) \in 0..bound /\ AtMost(n, bound) <= n
           /\ \A k \in 0..bound : k <= n => k <= AtMost(n, bound)
BY DEF AtMost

(* The deaths a message carries: more than its stamp says, and never more than *)
(* it died.                                                                    *)
LEMMA DeathsAreCounted ==
    ASSUME TypeOK, NEW m \in Messages, Carried(m)
    PROVE  /\ Deaths(m) \in Counts
           /\ Deaths(m) > 0 => Deaths(m) > message[m].stamp
           /\ message[m].at = "dlq" => Deaths(m) <= message[m].died
<1>1. message[m] \in MessageStates
  BY DEF TypeOK
<1>2. /\ message[m].counted \in 0..MaxDeaths /\ message[m].stamp \in 0..MaxDeaths
      /\ message[m].died \in 0..MaxDeaths
  BY <1>1 DEF MessageStates, Counts
<1>3. message[m].stamp < MaxDeaths
      /\ (message[m].at = "dlq" => /\ message[m].counted <= message[m].died
                                   /\ message[m].stamp > 0 => message[m].stamp < message[m].died)
  BY DEF Carried
<1> QED
  BY <1>2, <1>3, WaitsAreNumbers DEF Deaths, Counts

-------------------------------------------------------------------------------
(* The order of the dead-letter queue. *)

LEMMA LastInOrder ==
    ASSUME NEW a \in [Messages -> SUBSET Messages], NEW S \in SUBSET Messages, InOrder(a, S),
           NEW m \in Messages, m \notin S
    PROVE  InOrder([a EXCEPT ![m] = S], S \cup {m})
<1> DEFINE b == [a EXCEPT ![m] = S]
<1>1. b[m] = S /\ \A k \in Messages : k # m => b[k] = a[k]
  OBVIOUS
<1>2. \A k \in Messages : m \notin a[k]
  BY DEF InOrder
<1> HIDE DEF b
<1>3. \A k \in Messages : b[k] \subseteq (S \cup {m}) \ {k} /\ (k \notin S \cup {m} => b[k] = {})
  BY <1>1 DEF InOrder
<1>4. \A k, n \in S \cup {m} : k # n => (k \in b[n] <=> n \notin b[k])
  BY <1>1, <1>2 DEF InOrder
<1>5. \A k \in S \cup {m} : \A n \in b[k] : b[n] \subseteq b[k]
  BY <1>1, <1>2 DEF InOrder
<1>6. InOrder(b, S \cup {m})
  BY <1>3, <1>4, <1>5 DEF InOrder
<1> QED
  BY <1>6 DEF b

LEMMA WithoutKeepsOrder ==
    ASSUME TypeOK, NEW moved \in SUBSET InDlq
    PROVE  /\ Without(moved) \in [Messages -> SUBSET Messages]
           /\ InOrder(Without(moved), InDlq \ moved)
<1> DEFINE b == Without(moved)
           S == InDlq \ moved
<1>1. /\ \A m \in Messages : m \in moved => b[m] = {}
      /\ \A m \in Messages : m \notin moved => b[m] = ahead[m] \ moved
  BY DEF Without
<1>2. /\ ahead \in [Messages -> SUBSET Messages]
      /\ \A m \in Messages : ahead[m] \subseteq InDlq \ {m} /\ (m \notin InDlq => ahead[m] = {})
      /\ \A m, k \in InDlq : m # k => (m \in ahead[k] <=> k \notin ahead[m])
      /\ \A m \in InDlq : \A k \in ahead[m] : ahead[k] \subseteq ahead[m]
  BY DEF TypeOK, InOrder
<1>3. b \in [Messages -> SUBSET Messages]
  BY <1>2 DEF Without
<1>4. InDlq \subseteq Messages /\ moved \subseteq InDlq
  BY DEF InDlq
<1> HIDE DEF b
<1>5. \A m \in S : m \in InDlq /\ m \in Messages /\ b[m] = ahead[m] \ moved
  BY <1>1, <1>4
<1>6. ASSUME NEW m \in Messages
      PROVE  b[m] \subseteq S \ {m} /\ (m \notin S => b[m] = {})
  <2>1. CASE m \in moved
    BY <1>1, <2>1
  <2>2. CASE m \notin moved
    <3>1. b[m] = ahead[m] \ moved /\ ahead[m] \subseteq InDlq \ {m}
          /\ (m \notin InDlq => ahead[m] = {})
      BY <1>1, <1>2, <2>2
    <3> QED
      BY <2>2, <3>1
  <2> QED
    BY <2>1, <2>2
<1>7. ASSUME NEW m \in S, NEW k \in S, m # k
      PROVE  m \in b[k] <=> k \notin b[m]
  BY <1>2, <1>5, <1>7
<1>8. ASSUME NEW m \in S, NEW k \in b[m]
      PROVE  b[k] \subseteq b[m]
  <2>1. k \in ahead[m] /\ k \notin moved /\ m \in InDlq /\ m \in Messages
    BY <1>5, <1>8
  <2>2. k \in S
    BY <1>2, <2>1
  <2>3. ahead[k] \subseteq ahead[m] /\ b[k] = ahead[k] \ moved /\ b[m] = ahead[m] \ moved
    BY <1>2, <1>5, <2>1, <2>2
  <2> QED
    BY <2>3
<1>9. InOrder(b, S)
  BY <1>6, <1>7, <1>8 DEF InOrder
<1> QED
  BY <1>3, <1>9 DEF b

-------------------------------------------------------------------------------
(* What a step may do to a message, and why a plan stays true. *)

(* It stays, it gets older, it dies again, it is replayed with a later stamp, *)
(* or it is parked or consumed for good.                                      *)
Moves(m) ==
    \/ message'[m] = message[m]
    \/ /\ message[m].at = "dlq" /\ message'[m].age >= message[m].age
       /\ message'[m] = [message[m] EXCEPT !.age = message'[m].age]
    \/ /\ message[m].at = "origin" /\ message'[m].at = "dlq"
       /\ message'[m].stamp = message[m].stamp
    \/ /\ message[m].at = "dlq" /\ message'[m].at = "origin"
       /\ message'[m].stamp > message[m].stamp
    \/ message'[m].at \in {"parking", "done"}

(* What is due stays due as it gets older. *)
LEMMA OlderIsDue ==
    ASSUME TypeOK, TypeOK', NEW m \in Messages, Carried(m), Due(m),
           message'[m].age >= message[m].age,
           message'[m] = [message[m] EXCEPT !.age = message'[m].age]
    PROVE  Due(m)' /\ (Exhausted(m)' <=> Exhausted(m))
<1>1. message[m] \in MessageStates /\ message'[m] \in MessageStates
  BY DEF TypeOK
<1>2. message'[m].counted = message[m].counted /\ message'[m].stamp = message[m].stamp
  BY <1>1 DEF MessageStates
<1>3. Deaths(m)' = Deaths(m)
  BY <1>2 DEF Deaths
<1>4. message[m].age \in Int /\ message'[m].age \in Int
  BY <1>1, WaitsAreNumbers DEF MessageStates, Ages
<1>5. WaitFor(Deaths(m)) \in Nat
  BY DeathsAreCounted, WaitsAreNumbers DEF Due, Counts
<1>6. WaitFor(Deaths(m))' = WaitFor(Deaths(m))
  BY <1>3 DEF WaitFor
<1>7. Exhausted(m)' <=> Exhausted(m)
  BY <1>3 DEF Exhausted
<1>8. message[m].age >= WaitFor(Deaths(m)) => message'[m].age >= WaitFor(Deaths(m))'
  BY <1>4, <1>5, <1>6
<1> QED
  BY <1>3, <1>7, <1>8 DEF Due

LEMMA PlanStaysTrue ==
    ASSUME TypeOK, TypeOK', NEW fp \in Fingerprints, NEW toPark \in BOOLEAN,
           Planned(fp, toPark), Carried(fp.message), Moves(fp.message)
    PROVE  Planned(fp, toPark)'
<1>1. PICK m \in Messages : m = fp.message
  BY DEF Fingerprints
<1>2. message[m] \in MessageStates /\ message'[m] \in MessageStates
  BY DEF TypeOK
<1>3. /\ message[m].stamp \in Int /\ message'[m].stamp \in Int /\ fp.stamp \in Int
  BY <1>2, WaitsAreNumbers DEF MessageStates, Counts, Fingerprints
<1>4. CASE message'[m] = message[m]
  BY <1>1, <1>4 DEF Planned, Fingerprint, Due, Exhausted, Deaths
<1>5. CASE /\ message[m].at = "dlq" /\ message'[m].age >= message[m].age
           /\ message'[m] = [message[m] EXCEPT !.age = message'[m].age]
  <2>1. /\ message'[m].at = "dlq" /\ message'[m].stamp = message[m].stamp
        /\ message'[m].counted = message[m].counted
    BY <1>2, <1>5 DEF MessageStates
  <2>2. Fingerprint(m)' = Fingerprint(m)
    BY <2>1 DEF Fingerprint
  <2>3. Due(m) => Due(m)' /\ (Exhausted(m)' <=> Exhausted(m))
    BY <1>1, <1>5, OlderIsDue
  <2> QED
    BY <1>1, <1>5, <2>1, <2>2, <2>3 DEF Planned
<1>6. CASE message[m].at = "origin" /\ message'[m].at = "dlq" /\ message'[m].stamp = message[m].stamp
  <2>1. fp.stamp < message'[m].stamp
    BY <1>1, <1>6 DEF Planned
  <2>2. fp # Fingerprint(m)'
    BY <2>1, <1>3 DEF Fingerprint
  <2> QED
    BY <1>1, <1>3, <1>6, <2>1, <2>2 DEF Planned
<1>7. CASE message[m].at = "dlq" /\ message'[m].at = "origin" /\ message'[m].stamp > message[m].stamp
  <2>1. fp.stamp < message'[m].stamp
    BY <1>1, <1>3, <1>7 DEF Planned
  <2> QED
    BY <1>1, <1>7, <2>1 DEF Planned
<1>8. CASE message'[m].at \in {"parking", "done"}
  BY <1>1, <1>8 DEF Planned
<1> QED
  BY <1>1, <1>4, <1>5, <1>6, <1>7, <1>8 DEF Moves

(* What was planned, of all runs. *)
PlansHold == \A r \in Runs : /\ \A fp \in run[r].replay : Planned(fp, FALSE)
                             /\ \A fp \in run[r].park : Planned(fp, TRUE)

(* A step that moves messages so, and adds to no plan, keeps the plans. *)
LEMMA PlansStayTrue ==
    ASSUME IInv, TypeOK', \A m \in Messages : Moves(m),
           \A r \in Runs : run'[r].replay \subseteq run[r].replay /\ run'[r].park \subseteq run[r].park
    PROVE  PlansHold'
<1>1. ASSUME NEW r \in Runs, NEW fp \in run[r].replay \cup run[r].park
      PROVE  fp \in Fingerprints /\ Carried(fp.message) /\ Moves(fp.message)
  BY DEF IInv, TypeOK, RunStates, Fingerprints
<1>2. ASSUME NEW r \in Runs, NEW fp \in run[r].replay PROVE Planned(fp, FALSE)'
  BY <1>1, PlanStaysTrue DEF IInv
<1>3. ASSUME NEW r \in Runs, NEW fp \in run[r].park PROVE Planned(fp, TRUE)'
  BY <1>1, PlanStaysTrue DEF IInv
<1> QED
  BY <1>2, <1>3 DEF PlansHold

-------------------------------------------------------------------------------
(* The steps that move messages. *)

LEMMA SettledIs ==
    ASSUME NEW m \in Messages, message[m] \in MessageStates, NEW place \in {"parking", "done"}
    PROVE  LET settled == Settled(m, place)
           IN  /\ settled \in MessageStates /\ settled.at = place
               /\ settled.stamp = 0 /\ settled.died = message[m].died
<1>1. Settled(m, place) \in MessageStates
  BY WaitsAreNumbers DEF Settled, MessageStates
<1>2. Settled(m, place).at = place /\ Settled(m, place).stamp = 0
      /\ Settled(m, place).died = message[m].died
  BY DEF Settled, MessageStates
<1> QED
  BY <1>1, <1>2

LEMMA MessageSteps ==
    ASSUME IInv, NEW m \in Messages, Die(m) \/ Consume(m)
    PROVE  IInv'
<1> USE DEF IInv
<1>1. message[m] \in MessageStates /\ message[m].at = "origin"
  BY DEF TypeOK, Die, Consume
<1>2. UNCHANGED <<broker, policy, run, environment, consumers, troubles>>
  BY DEF Die, Consume
<1>3. CASE Die(m)
  <2>1. PICK n \in 1..MaxRound :
            message' = [message EXCEPT ![m].at = "dlq", ![m].age = 0,
                           ![m].counted = AtMost(History(m) + n, MaxDeaths),
                           ![m].died = AtMost(@ + n, MaxDeaths)]
    BY <1>3 DEF Die
  <2>2. PICK counted, died : counted = AtMost(History(m) + n, MaxDeaths)
                             /\ died = AtMost(message[m].died + n, MaxDeaths)
    OBVIOUS
  <2>3. /\ message[m].counted \in 0..MaxDeaths /\ message[m].died \in 0..MaxDeaths
        /\ message[m].stamp \in 0..MaxDeaths
        /\ message[m].counted <= message[m].died /\ message[m].stamp <= message[m].died
        /\ message[m].stamp < MaxDeaths
    BY <1>1 DEF MessageStates, Counts, Carried
  <2>4. n \in Nat /\ n > 0 /\ MaxDeaths \in Nat /\ MaxDeaths > 1
    BY WaitsAreNumbers, PolicyAssumption
  <2>5. /\ counted \in 0..MaxDeaths /\ died \in 0..MaxDeaths /\ counted <= died
        /\ message[m].stamp < died
    BY <2>2, <2>3, <2>4 DEF AtMost, History
  <2>6. message'[m] = [message[m] EXCEPT !.at = "dlq", !.age = 0, !.counted = counted, !.died = died]
        /\ \A k \in Messages : k # m => message'[k] = message[k]
    BY <2>1, <2>2 DEF TypeOK
  <2>7. /\ message'[m].at = "dlq" /\ message'[m].age = 0 /\ message'[m].counted = counted
        /\ message'[m].died = died /\ message'[m].stamp = message[m].stamp
    BY <1>1, <2>6 DEF MessageStates
  <2>8. message'[m] \in MessageStates
    <3>1. counted \in Counts /\ died \in Counts
      BY <2>5 DEF Counts
    <3> QED
      BY <1>1, <2>6, <3>1, WaitsAreNumbers DEF MessageStates
  <2>9. message' \in [Messages -> MessageStates]
    <3>1. message' = [k \in Messages |-> message'[k]]
      BY <2>1 DEF TypeOK
    <3>2. \A k \in Messages : message'[k] \in MessageStates
      BY <2>6, <2>8 DEF TypeOK
    <3> QED
      BY <3>1, <3>2
  <2>10. InDlq' = InDlq \cup {m} /\ m \notin InDlq /\ InDlq \subseteq Messages
    <3>1. \A k \in Messages : k # m => message'[k].at = message[k].at
      BY <2>6
    <3> QED
      BY <1>1, <2>7, <3>1 DEF InDlq
  <2>11. ahead' \in [Messages -> SUBSET Messages] /\ InOrder(ahead', InDlq')
    BY <1>3, <2>10, LastInOrder DEF TypeOK, Die
  <2>12. TypeOK'
    BY <1>2, <2>9, <2>11 DEF TypeOK
  <2>13. Carried(m)'
    BY <2>5, <2>7, <2>3 DEF Carried
  <2>14. \A k \in Messages : Carried(k)'
    BY <2>6, <2>13 DEF Carried
  <2>15. \A k \in Messages : Moves(k)
    BY <1>1, <2>6, <2>7 DEF Moves
  <2> QED
    BY <1>2, <2>12, <2>14, <2>15, PlansStayTrue DEF PlansHold
<1>4. CASE Consume(m)
  <2>1. message'[m] = [Settled(m, "done") EXCEPT !.died = 0]
        /\ \A k \in Messages : k # m => message'[k] = message[k]
    BY <1>4 DEF Consume, TypeOK
  <2>2. message'[m] \in MessageStates /\ message'[m].at = "done" /\ message'[m].stamp = 0
    <3>1. Settled(m, "done") \in MessageStates /\ Settled(m, "done").at = "done"
          /\ Settled(m, "done").stamp = 0
      BY <1>1, SettledIs
    <3>2. [Settled(m, "done") EXCEPT !.died = 0] \in MessageStates
      BY <3>1, WaitsAreNumbers DEF MessageStates
    <3>3. [Settled(m, "done") EXCEPT !.died = 0].at = "done"
          /\ [Settled(m, "done") EXCEPT !.died = 0].stamp = 0
      BY <3>1 DEF MessageStates
    <3> QED
      BY <2>1, <3>2, <3>3
  <2>3. message' \in [Messages -> MessageStates]
    <3>1. message' = [message EXCEPT ![m] = message'[m]]
      BY <1>4, <2>1 DEF TypeOK, Consume
    <3> QED
      BY <2>2, <3>1 DEF TypeOK
  <2>4. InDlq' = InDlq /\ ahead' = ahead
    BY <1>1, <1>4, <2>1, <2>2 DEF InDlq, Consume
  <2>5. TypeOK'
    BY <1>2, <2>3, <2>4 DEF TypeOK
  <2>6. \A k \in Messages : Carried(k)'
    <3>1. Carried(m)'
      BY <2>2, WaitsAreNumbers DEF Carried
    <3>2. \A k \in Messages : k # m => Carried(k)'
      BY <2>1 DEF Carried
    <3> QED
      BY <3>1, <3>2
  <2>7. \A k \in Messages : Moves(k)
    BY <2>1, <2>2 DEF Moves
  <2> QED
    BY <1>2, <2>5, <2>6, <2>7, PlansStayTrue DEF PlansHold
<1> QED
  BY <1>3, <1>4

LEMMA TickPreserves ==
    ASSUME IInv, Tick
    PROVE  IInv'
<1> USE DEF IInv
<1>1. UNCHANGED <<broker, ahead, policy, run, environment, consumers, troubles>>
  BY DEF Tick
<1>2. ASSUME NEW m \in Messages
      PROVE  /\ message'[m] \in MessageStates /\ Carried(m)' /\ Moves(m)
             /\ message'[m].at = message[m].at
  <2>1. message[m] \in MessageStates
    BY DEF TypeOK
  <2>2. CASE message[m].at = "dlq" /\ message[m].died > 0
    <3>1. PICK age : age = AtMost(message[m].age + 1, WaitFor(MaxDeaths - 1))
      OBVIOUS
    <3>2. message[m].age \in 0..WaitFor(MaxDeaths - 1) /\ WaitFor(MaxDeaths - 1) \in Nat
      BY <2>1, WaitsAreNumbers DEF MessageStates, Ages
    <3>3. age \in 0..WaitFor(MaxDeaths - 1) /\ age >= message[m].age
      BY <3>1, <3>2 DEF AtMost
    <3>4. message'[m] = [message[m] EXCEPT !.age = age]
      BY <2>2, <3>1 DEF Tick
    <3>5. message'[m] \in MessageStates /\ message'[m].age = age
          /\ message'[m].at = message[m].at /\ message'[m].stamp = message[m].stamp
          /\ message'[m].counted = message[m].counted /\ message'[m].died = message[m].died
      BY <2>1, <3>3, <3>4 DEF MessageStates, Ages
    <3> QED
      BY <2>2, <3>3, <3>4, <3>5 DEF Carried, Moves
  <2>3. CASE ~(message[m].at = "dlq" /\ message[m].died > 0)
    <3>1. message'[m] = message[m]
      BY <2>3 DEF Tick
    <3> QED
      BY <2>1, <3>1 DEF Carried, Moves
  <2> QED
    BY <2>2, <2>3
<1>3. message' \in [Messages -> MessageStates]
  BY <1>2 DEF Tick
<1>4. InDlq' = InDlq
  BY <1>2 DEF InDlq
<1>5. TypeOK'
  BY <1>1, <1>3, <1>4 DEF TypeOK
<1> QED
  BY <1>1, <1>2, <1>5, PlansStayTrue DEF PlansHold

(* What matches a plan is in the dead-letter queue as it was planned. *)
LEMMA MatchingIsPlanned ==
    ASSUME NEW fps, NEW m \in Matching(fps)
    PROVE  m \in Messages /\ message[m].at = "dlq" /\ Fingerprint(m) \in fps /\ Fingerprint(m).message = m
BY DEF Matching, InDlq, Fingerprint

(* A batch moves messages of the queue only, and one that leaves some costs a *)
(* trouble.                                                                   *)
LEMMA BatchOutcome ==
    ASSUME TypeOK, NEW fps, NEW o \in Outcomes(fps)
    PROVE  o.moved \subseteq Matching(fps) /\ troubles + Spent(fps, o) \in 0..MaxTroubles
<1>1. troubles \in 0..MaxTroubles /\ MaxTroubles \in Nat
  BY TroublesAssumption DEF TypeOK
<1>2. CASE "refused" \in Faults /\ troubles < MaxTroubles
  BY <1>1, <1>2 DEF Outcomes, Spent
<1>3. CASE ~("refused" \in Faults /\ troubles < MaxTroubles)
  BY <1>1, <1>3 DEF Outcomes, Spent
<1> QED
  BY <1>2, <1>3

(* What is replayed is due and not exhausted, and carries a later stamp then. *)
LEMMA StampsGrow ==
    ASSUME IInv, NEW r \in Runs, NEW m \in Matching(run[r].replay)
    PROVE  /\ m \in Messages /\ message[m].at = "dlq"
           /\ ~Exhausted(m) /\ message[m].age >= WaitFor(Deaths(m))
           /\ Deaths(m) \in Counts /\ Deaths(m) < MaxDeaths
           /\ message[m].stamp < Deaths(m) /\ Deaths(m) <= message[m].died
<1> USE DEF IInv
<1>1. m \in Messages /\ message[m].at = "dlq" /\ Planned(Fingerprint(m), FALSE)
      /\ Fingerprint(m).message = m
  BY MatchingIsPlanned
<1>2. Due(m) /\ ~Exhausted(m)
  BY <1>1 DEF Planned
<1>3. Deaths(m) \in 0..MaxDeaths /\ MaxDeaths \in Nat
  BY <1>1, DeathsAreCounted, WaitsAreNumbers DEF Counts
<1>4. Deaths(m) > 0 /\ ~(Deaths(m) >= MaxDeaths) /\ message[m].age >= WaitFor(Deaths(m))
  BY <1>2 DEF Due, Exhausted
<1>5. Deaths(m) < MaxDeaths
  BY <1>3, <1>4
<1> QED
  BY <1>1, <1>2, <1>3, <1>4, <1>5, DeathsAreCounted

LEMMA ReplayPreserves ==
    ASSUME IInv, NEW r \in Runs, Replay(r)
    PROVE  IInv'
<1> USE DEF IInv
<1>1. PICK o \in Outcomes(run[r].replay) :
          /\ message' = [m \in Messages |->
                IF m \in o.moved
                THEN [message[m] EXCEPT !.at = "origin", !.stamp = Deaths(m), !.age = 0]
                ELSE message[m]]
          /\ ahead' = Without(o.moved)
          /\ Become(r, [run[r] EXCEPT !.pc = "park", !.replay = {}, !.failed = o.failed # {}])
          /\ troubles' = troubles + Spent(run[r].replay, o)
  BY DEF Replay
<1>2. o.moved \subseteq Matching(run[r].replay) /\ troubles' \in 0..MaxTroubles
  BY <1>1, BatchOutcome
<1>3. ASSUME NEW m \in Messages
      PROVE  /\ message'[m] \in MessageStates /\ Carried(m)' /\ Moves(m)
             /\ m \in o.moved => message'[m].at = "origin"
             /\ m \notin o.moved => message'[m] = message[m]
  <2>1. message[m] \in MessageStates
    BY DEF TypeOK
  <2>2. CASE m \in o.moved
    <3>1. PICK deaths : deaths = Deaths(m)
      OBVIOUS
    <3>2. /\ message[m].at = "dlq" /\ deaths \in Counts /\ deaths < MaxDeaths
          /\ message[m].stamp < deaths /\ deaths <= message[m].died
      BY <1>2, <2>2, <3>1, StampsGrow
    <3>3. message'[m] = [message[m] EXCEPT !.at = "origin", !.stamp = deaths, !.age = 0]
      BY <1>1, <2>2, <3>1
    <3>4. /\ message'[m].at = "origin" /\ message'[m].stamp = deaths
          /\ message'[m].counted = message[m].counted /\ message'[m].died = message[m].died
          /\ message'[m] \in MessageStates
      <4>1. message'[m] \in MessageStates
        BY <2>1, <3>2, <3>3, WaitsAreNumbers DEF MessageStates
      <4> QED
        BY <2>1, <3>3, <4>1 DEF MessageStates
    <3>5. Carried(m)'
      BY <3>2, <3>4 DEF Carried
    <3>6. Moves(m)
      BY <3>2, <3>4, WaitsAreNumbers, <2>1 DEF Moves, MessageStates, Counts
    <3> QED
      BY <2>2, <3>4, <3>5, <3>6
  <2>3. CASE m \notin o.moved
    <3>1. message'[m] = message[m]
      BY <1>1, <2>3
    <3> QED
      BY <2>1, <2>3, <3>1 DEF Carried, Moves
  <2> QED
    BY <2>2, <2>3
<1>4. message' \in [Messages -> MessageStates]
  BY <1>1, <1>3
<1>5. o.moved \subseteq InDlq /\ InDlq' = InDlq \ o.moved
  <2>1. o.moved \subseteq InDlq
    BY <1>2 DEF Matching
  <2> QED
    BY <1>3, <2>1 DEF InDlq
<1>6. ahead' \in [Messages -> SUBSET Messages] /\ InOrder(ahead', InDlq')
  BY <1>1, <1>5, WithoutKeepsOrder
<1>7. PICK failed \in BOOLEAN : failed = (o.failed # {})
  OBVIOUS
<1>8. run' = [run EXCEPT ![r] = [run[r] EXCEPT !.pc = "park", !.replay = {}, !.failed = failed]]
  BY <1>1, <1>7 DEF Become
<1>9. run[r] \in RunStates /\ [run[r] EXCEPT !.pc = "park", !.replay = {}, !.failed = failed] \in RunStates
  BY DEF TypeOK, RunStates
<1>10. run' \in [Runs -> RunStates]
  BY <1>8, <1>9 DEF TypeOK
<1>11. UNCHANGED <<broker, policy, environment, consumers>>
  BY DEF Replay
<1>12. TypeOK'
  BY <1>2, <1>4, <1>6, <1>10, <1>11 DEF TypeOK
<1>13. \A x \in Runs : run'[x].replay \subseteq run[x].replay /\ run'[x].park \subseteq run[x].park
  BY <1>8, <1>9 DEF TypeOK, RunStates
<1>14. PlansHold'
  BY <1>3, <1>12, <1>13, PlansStayTrue
<1> QED
  BY <1>3, <1>12, <1>14 DEF PlansHold

LEMMA ParkPreserves ==
    ASSUME IInv, NEW r \in Runs, Park(r)
    PROVE  IInv'
<1> USE DEF IInv
<1>1. PICK o \in Outcomes(run[r].park) :
          /\ message' = [m \in Messages |->
                IF m \in o.moved THEN Settled(m, "parking") ELSE message[m]]
          /\ ahead' = Without(o.moved)
          /\ Become(r, [run[r] EXCEPT !.pc = "record", !.park = {}, !.failed = @ \/ o.failed # {}])
          /\ troubles' = troubles + Spent(run[r].park, o)
  BY DEF Park
<1>2. o.moved \subseteq Matching(run[r].park) /\ troubles' \in 0..MaxTroubles
  BY <1>1, BatchOutcome
<1>3. ASSUME NEW m \in Messages
      PROVE  /\ message'[m] \in MessageStates /\ Carried(m)' /\ Moves(m)
             /\ m \in o.moved => message'[m].at = "parking"
             /\ m \notin o.moved => message'[m] = message[m]
  <2>1. message[m] \in MessageStates
    BY DEF TypeOK
  <2>2. CASE m \in o.moved
    <3>1. message[m].at = "dlq" /\ Planned(Fingerprint(m), TRUE) /\ Fingerprint(m).message = m
      BY <1>2, <2>2, MatchingIsPlanned
    <3>2. Deaths(m) >= MaxDeaths
      BY <3>1 DEF Planned, Exhausted
    <3>3. message[m].died >= MaxDeaths
      <4>1. Deaths(m) \in 0..MaxDeaths /\ Deaths(m) <= message[m].died /\ message[m].died \in 0..MaxDeaths
        BY <2>1, <3>1, DeathsAreCounted DEF MessageStates, Counts
      <4> QED
        BY <3>2, <4>1, WaitsAreNumbers
    <3>4. message'[m] = Settled(m, "parking")
      BY <1>1, <2>2
    <3>5. /\ message'[m].at = "parking" /\ message'[m].stamp = 0
          /\ message'[m].died = message[m].died /\ message'[m] \in MessageStates
      BY <2>1, <3>4, SettledIs
    <3> QED
      BY <2>2, <3>3, <3>5, WaitsAreNumbers DEF Carried, Moves
  <2>3. CASE m \notin o.moved
    <3>1. message'[m] = message[m]
      BY <1>1, <2>3
    <3> QED
      BY <2>1, <2>3, <3>1 DEF Carried, Moves
  <2> QED
    BY <2>2, <2>3
<1>4. message' \in [Messages -> MessageStates]
  BY <1>1, <1>3
<1>5. o.moved \subseteq InDlq /\ InDlq' = InDlq \ o.moved
  <2>1. o.moved \subseteq InDlq
    BY <1>2 DEF Matching
  <2> QED
    BY <1>3, <2>1 DEF InDlq
<1>6. ahead' \in [Messages -> SUBSET Messages] /\ InOrder(ahead', InDlq')
  BY <1>1, <1>5, WithoutKeepsOrder
<1>7. PICK failed \in BOOLEAN : failed = (run[r].failed \/ o.failed # {})
  OBVIOUS
<1>8. run[r] \in RunStates /\ [run[r] EXCEPT !.pc = "record", !.park = {}, !.failed = failed] \in RunStates
  BY DEF TypeOK, RunStates
<1>9. run' = [run EXCEPT ![r] = [run[r] EXCEPT !.pc = "record", !.park = {}, !.failed = failed]]
  BY <1>1, <1>7, <1>8 DEF Become, RunStates
<1>10. run' \in [Runs -> RunStates]
  BY <1>8, <1>9 DEF TypeOK
<1>11. UNCHANGED <<broker, policy, environment, consumers>>
  BY DEF Park
<1>12. TypeOK'
  BY <1>2, <1>4, <1>6, <1>10, <1>11 DEF TypeOK
<1>13. \A x \in Runs : run'[x].replay \subseteq run[x].replay /\ run'[x].park \subseteq run[x].park
  BY <1>8, <1>9 DEF TypeOK, RunStates
<1>14. PlansHold'
  BY <1>3, <1>12, <1>13, PlansStayTrue
<1> QED
  BY <1>3, <1>12, <1>14 DEF PlansHold

-------------------------------------------------------------------------------
(* The steps that move no message. *)

LEMMA StillStep ==
    ASSUME IInv, TypeOK', UNCHANGED message,
           \A r \in Runs : run'[r].replay \subseteq run[r].replay /\ run'[r].park \subseteq run[r].park
    PROVE  IInv'
<1>1. \A m \in Messages : Moves(m)
  BY DEF Moves
<1>2. PlansHold'
  BY <1>1, PlansStayTrue
<1>3. \A m \in Messages : Carried(m)'
  BY DEF IInv, Carried
<1> QED
  BY <1>2, <1>3 DEF IInv, PlansHold

(* A step of a run that plans no more than before. *)
LEMMA RunStep ==
    ASSUME IInv, NEW r \in Runs, NEW next \in RunStates, Become(r, next),
           next.replay \subseteq run[r].replay, next.park \subseteq run[r].park,
           UNCHANGED <<broker, message, ahead, environment, consumers>>,
           policy' \in [exists : BOOLEAN, enabled : BOOLEAN, due : BOOLEAN, failures : 0..PauseAfter],
           troubles' \in 0..MaxTroubles
    PROVE  IInv'
<1>1. run' = [run EXCEPT ![r] = next]
  BY DEF Become
<1>2. TypeOK'
  <2>1. run' \in [Runs -> RunStates]
    BY <1>1 DEF IInv, TypeOK
  <2>2. InDlq' = InDlq
    BY DEF InDlq
  <2> QED
    BY <2>1, <2>2 DEF IInv, TypeOK
<1>3. \A x \in Runs : run'[x].replay \subseteq run[x].replay /\ run'[x].park \subseteq run[x].park
  BY <1>1 DEF IInv, TypeOK
<1> QED
  BY <1>2, <1>3, StillStep

LEMMA NewRunIsEmpty ==
    /\ NewRun \in RunStates /\ NewRun.replay = {} /\ NewRun.park = {}
    /\ \A pc \in {"begin", "pause"} :
          LET next == [NewRun EXCEPT !.pc = pc]
          IN  next \in RunStates /\ next.replay = {} /\ next.park = {}
<1>1. NewRun \in RunStates /\ NewRun.replay = {} /\ NewRun.park = {}
  BY DEF NewRun, RunStates, PauseAfter
<1>2. ASSUME NEW pc \in {"begin", "pause"}
      PROVE  LET next == [NewRun EXCEPT !.pc = pc]
             IN  next \in RunStates /\ next.replay = {} /\ next.park = {}
  BY <1>1 DEF RunStates
<1> QED
  BY <1>1, <1>2

LEMMA PlanPreserves ==
    ASSUME IInv, NEW r \in Runs, Plan(r)
    PROVE  IInv'
<1> USE DEF IInv
<1>1. PICK replay, park :
          /\ replay = {Fingerprint(m) : m \in {n \in Acted : ~Exhausted(n) /\ Origin[n] \in consumers}}
          /\ park = {Fingerprint(m) : m \in {n \in Acted : Exhausted(n)}}
  OBVIOUS
<1>2. ASSUME NEW m \in Acted
      PROVE  /\ m \in Messages /\ message[m].at = "dlq" /\ Due(m)
             /\ Fingerprint(m) \in Fingerprints
             /\ Fingerprint(m).message = m /\ Fingerprint(m).stamp = message[m].stamp
             /\ message[m].stamp \in Int
  <2>1. m \in Messages /\ message[m].at = "dlq" /\ Due(m)
    BY DEF Acted, InDlq
  <2>2. message[m] \in MessageStates
    BY <2>1 DEF TypeOK
  <2>3. message[m].stamp \in Counts /\ message[m].counted \in Counts
    BY <2>2 DEF MessageStates
  <2> QED
    BY <2>1, <2>3, WaitsAreNumbers DEF Fingerprint, Fingerprints, Counts
<1>3. \A fp \in replay : fp \in Fingerprints /\ Planned(fp, FALSE)
  BY <1>1, <1>2 DEF Planned
<1>4. \A fp \in park : fp \in Fingerprints /\ Planned(fp, TRUE)
  BY <1>1, <1>2 DEF Planned
<1> DEFINE next == [run[r] EXCEPT !.pc = "replay", !.replay = replay, !.park = park]
<1>5. run[r] \in RunStates /\ next \in RunStates /\ next.replay = replay /\ next.park = park
  BY <1>3, <1>4 DEF TypeOK, RunStates
<1>6. run' = [run EXCEPT ![r] = next]
      /\ UNCHANGED <<broker, message, ahead, policy, environment, consumers, troubles>>
  BY <1>1 DEF Plan, Continue, Become
<1> HIDE DEF next
<1>7. TypeOK'
  <2>1. run' \in [Runs -> RunStates]
    BY <1>5, <1>6 DEF TypeOK
  <2>2. InDlq' = InDlq
    BY <1>6 DEF InDlq
  <2> QED
    BY <1>6, <2>1, <2>2 DEF TypeOK
<1>8. \A m \in Messages : Carried(m)'
  BY <1>6 DEF Carried
<1>9. \A fp, toPark : Planned(fp, toPark)' <=> Planned(fp, toPark)
  BY <1>6 DEF Planned, Fingerprint, Due, Exhausted, Deaths
<1>10. run'[r] = next /\ \A x \in Runs : x # r => run'[x] = run[x]
  BY <1>6 DEF TypeOK
<1> QED
  BY <1>3, <1>4, <1>5, <1>7, <1>8, <1>9, <1>10

(* The steps of a run that neither plan nor move anything. *)
LEMMA RunStepsPreserve ==
    ASSUME IInv, NEW r \in Runs,
           \/ Unreachable(r) \/ RecordRead(r) \/ RecordWrite(r) \/ RecordLost(r) \/ Pause(r)
           \/ RunDue(r) \/ RunNow(r) \/ PlanFails(r) \/ BatchFails(r) \/ RecordFails(r) \/ Crash(r)
    PROVE  IInv'
<1> USE DEF IInv
<1>1. run[r] \in RunStates /\ run[r].replay \subseteq run[r].replay /\ run[r].park \subseteq run[r].park
  BY DEF TypeOK
<1>2. policy \in [exists : BOOLEAN, enabled : BOOLEAN, due : BOOLEAN, failures : 0..PauseAfter]
      /\ troubles \in 0..MaxTroubles /\ MaxTroubles \in Nat
  BY TroublesAssumption DEF TypeOK
<1>3. CASE RunDue(r) \/ RunNow(r) \/ RecordLost(r)
  BY <1>2, <1>3, RunStep, NewRunIsEmpty DEF RunDue, RunNow, RecordLost, Continue
<1>4. CASE Unreachable(r)
  <2> DEFINE next == [run[r] EXCEPT !.pc = "record", !.failed = TRUE]
  <2>1. next \in RunStates /\ next.replay = run[r].replay /\ next.park = run[r].park
    BY <1>1 DEF RunStates
  <2>2. Continue(r, next)
    BY <1>4 DEF Unreachable
  <2> HIDE DEF next
  <2> QED
    BY <1>2, <2>1, <2>2, RunStep DEF Continue
<1>5. CASE RecordRead(r)
  <2> DEFINE next == [run[r] EXCEPT !.pc = "write", !.read = policy.failures]
  <2>1. next \in RunStates /\ next.replay = run[r].replay /\ next.park = run[r].park
    BY <1>1, <1>2 DEF RunStates
  <2>2. Continue(r, next) \/ Continue(r, NewRun)
    BY <1>5 DEF RecordRead
  <2> HIDE DEF next
  <2> QED
    BY <1>2, <2>1, <2>2, RunStep, NewRunIsEmpty DEF Continue
<1>6. CASE RecordWrite(r)
  <2>1. PICK failures : failures = IF Failures(r) = run[r].read THEN policy.failures ELSE Failures(r)
    OBVIOUS
  <2>2. failures \in 0..PauseAfter
    BY <1>1, <1>2, <2>1 DEF Failures, AtMost, PauseAfter, RunStates
  <2>3. policy' = [policy EXCEPT !.due = FALSE, !.failures = failures]
    BY <1>6, <2>1 DEF RecordWrite
  <2>4. policy' \in [exists : BOOLEAN, enabled : BOOLEAN, due : BOOLEAN, failures : 0..PauseAfter]
    BY <1>2, <2>2, <2>3
  <2>5. Become(r, NewRun) \/ Become(r, [NewRun EXCEPT !.pc = "pause"])
    BY <1>6 DEF RecordWrite
  <2>6. UNCHANGED <<broker, message, ahead, environment, consumers, troubles>>
    BY <1>6 DEF RecordWrite
  <2> QED
    BY <1>2, <2>4, <2>5, <2>6, RunStep, NewRunIsEmpty
<1>7. CASE Pause(r)
  <2>1. PICK enabled \in BOOLEAN : enabled = (policy.enabled /\ ~policy.exists)
    BY <1>2
  <2>2. policy' = [policy EXCEPT !.enabled = enabled]
    BY <1>2, <1>7, <2>1 DEF Pause
  <2>3. policy' \in [exists : BOOLEAN, enabled : BOOLEAN, due : BOOLEAN, failures : 0..PauseAfter]
    BY <1>2, <2>2
  <2> QED
    BY <1>2, <1>7, <2>3, RunStep, NewRunIsEmpty DEF Pause
<1>8. CASE PlanFails(r) \/ RecordFails(r) \/ Crash(r)
  <2>1. troubles' \in 0..MaxTroubles
    BY <1>2, <1>8 DEF PlanFails, RecordFails, Crash, Trouble
  <2> QED
    BY <1>2, <1>8, <2>1, RunStep, NewRunIsEmpty DEF PlanFails, RecordFails, Crash, Trouble
<1>9. CASE BatchFails(r)
  <2>1. troubles' \in 0..MaxTroubles
    BY <1>2, <1>9 DEF BatchFails, Trouble
  <2> DEFINE afterReplay == [run[r] EXCEPT !.pc = "park", !.replay = {}, !.failed = TRUE]
             afterPark == [run[r] EXCEPT !.pc = "record", !.park = {}, !.failed = TRUE]
  <2>2. /\ afterReplay \in RunStates /\ afterReplay.replay = {} /\ afterReplay.park = run[r].park
        /\ afterPark \in RunStates /\ afterPark.replay = run[r].replay /\ afterPark.park = {}
    BY <1>1 DEF RunStates
  <2>3. Become(r, afterReplay) \/ Become(r, afterPark)
    BY <1>9 DEF BatchFails
  <2>4. UNCHANGED <<broker, message, ahead, policy, environment, consumers>>
    BY <1>9 DEF BatchFails, Trouble
  <2> HIDE DEF afterReplay, afterPark
  <2> QED
    BY <1>2, <2>1, <2>2, <2>3, <2>4, RunStep
<1> QED
  BY <1>3, <1>4, <1>5, <1>6, <1>7, <1>8, <1>9

(* Time for the next run, and what people do. *)
LEMMA PeoplePreserve ==
    ASSUME IInv, \/ IntervalPasses \/ ToggleEnvironment \/ Enable \/ Disable \/ Delete
                 \/ \E q \in Queues : ToggleConsumers(q)
    PROVE  IInv'
<1> USE DEF IInv
<1>1. UNCHANGED <<broker, message, ahead, run>>
  BY DEF IntervalPasses, ToggleEnvironment, Enable, Disable, Delete, ToggleConsumers, Trouble
<1>2. policy \in [exists : BOOLEAN, enabled : BOOLEAN, due : BOOLEAN, failures : 0..PauseAfter]
      /\ troubles \in 0..MaxTroubles /\ MaxTroubles \in Nat
  BY TroublesAssumption DEF TypeOK
<1>3. policy' \in [exists : BOOLEAN, enabled : BOOLEAN, due : BOOLEAN, failures : 0..PauseAfter]
  <2> DEFINE Policies == [exists : BOOLEAN, enabled : BOOLEAN, due : BOOLEAN, failures : 0..PauseAfter]
  <2>1. 0 \in 0..PauseAfter
    BY DEF PauseAfter
  <2>2. /\ [policy EXCEPT !.due = TRUE] \in Policies
        /\ [policy EXCEPT !.enabled = TRUE, !.failures = 0] \in Policies
        /\ [policy EXCEPT !.enabled = FALSE] \in Policies
        /\ [policy EXCEPT !.exists = FALSE] \in Policies
    BY <1>2, <2>1
  <2>3. \/ policy' = policy
        \/ policy' = [policy EXCEPT !.due = TRUE]
        \/ policy' = [policy EXCEPT !.enabled = TRUE, !.failures = 0]
        \/ policy' = [policy EXCEPT !.enabled = FALSE]
        \/ policy' = [policy EXCEPT !.exists = FALSE]
    BY DEF IntervalPasses, ToggleEnvironment, Enable, Disable, Delete, ToggleConsumers
  <2> HIDE DEF Policies
  <2>4. policy' \in Policies
    BY <1>2, <2>2, <2>3 DEF Policies
  <2> QED
    BY <2>4 DEF Policies
<1>4. troubles' \in 0..MaxTroubles
  BY <1>2 DEF IntervalPasses, ToggleEnvironment, Enable, Disable, Delete, ToggleConsumers, Trouble
<1>5. environment' \in BOOLEAN /\ consumers' \subseteq Queues
  BY DEF TypeOK, IntervalPasses, ToggleEnvironment, Enable, Disable, Delete, ToggleConsumers
<1>6. InDlq' = InDlq
  BY <1>1 DEF InDlq
<1>7. TypeOK'
  BY <1>1, <1>3, <1>4, <1>5, <1>6 DEF TypeOK
<1> QED
  BY <1>1, <1>7, StillStep

-------------------------------------------------------------------------------
(* The theorems. *)

LEMMA InitIsSafe == Init => IInv
<1> SUFFICES ASSUME Init PROVE IInv
  OBVIOUS
<1>1. \A m \in Messages :
          /\ message[m] \in MessageStates
          /\ message[m].at = IF m \in Strays THEN "dlq" ELSE "origin"
          /\ message[m].counted = 0 /\ message[m].stamp = 0 /\ message[m].died = 0
  BY WaitsAreNumbers DEF Init, MessageStates, Counts, Ages
<1>2. InDlq = Strays
  BY <1>1, MessagesAssumption DEF InDlq
<1>3. TypeOK
  <2>1. message \in [Messages -> MessageStates]
    BY <1>1 DEF Init
  <2>2. ahead \in [Messages -> SUBSET Messages] /\ InOrder(ahead, InDlq)
    BY <1>2, MessagesAssumption DEF Init
  <2>3. run \in [Runs -> RunStates]
    BY NewRunIsEmpty DEF Init
  <2> QED
    BY <2>1, <2>2, <2>3, TroublesAssumption DEF Init, TypeOK, PauseAfter
<1>4. \A m \in Messages : Carried(m)
  BY <1>1, WaitsAreNumbers DEF Carried
<1> QED
  BY <1>3, <1>4, NewRunIsEmpty DEF Init, IInv

LEMMA NextIsSafe == IInv /\ [Next]_vars => IInv'
<1> SUFFICES ASSUME IInv, [Next]_vars PROVE IInv'
  OBVIOUS
<1>1. CASE UNCHANGED vars
  <2>1. TypeOK'
    BY <1>1 DEF vars, IInv, TypeOK, InDlq
  <2> QED
    BY <1>1, <2>1, StillStep DEF vars
<1>2. CASE \E m \in Messages : Die(m) \/ Consume(m)
  BY <1>2, MessageSteps
<1>3. CASE Tick
  BY <1>3, TickPreserves
<1>4. CASE \/ IntervalPasses \/ ToggleEnvironment \/ (\E q \in Queues : ToggleConsumers(q))
           \/ Enable \/ Disable \/ Delete
  BY <1>4, PeoplePreserve
<1>5. ASSUME NEW r \in Runs,
             Step(r) \/ RunDue(r) \/ RunNow(r) \/ PlanFails(r) \/ BatchFails(r) \/ RecordFails(r) \/ Crash(r)
      PROVE  IInv'
  BY <1>5, PlanPreserves, ReplayPreserves, ParkPreserves, RunStepsPreserve DEF Step
<1> QED
  BY <1>1, <1>2, <1>3, <1>4, <1>5 DEF Next

(* What messages carry never says more than they died, and what a run planned *)
(* and still finds as it was planned is still due (IInv).                     *)
THEOREM InductiveInvariant == Spec => []IInv
BY InitIsSafe, NextIsSafe, PTL DEF Spec

(* The state of the dead-letter queue, its messages and the runs is well formed; *)
(* in particular the queue is in one order.                                      *)
THEOREM TypeCorrect == Spec => []TypeOK
<1>1. IInv => TypeOK
  BY DEF IInv
<1> QED
  BY <1>1, InductiveInvariant, PTL

(* No message is parked that died less than max_deaths times. *)
THEOREM ParkedOnlyForCause == Spec => []ParkedForCause
<1>1. IInv => ParkedForCause
  BY DEF IInv, ParkedForCause, Carried
<1> QED
  BY <1>1, InductiveInvariant, PTL

(* Only the replay of a run takes a message back to its queue. *)
LEMMA OnlyReplayReplays ==
    ASSUME IInv, [Next]_vars, NEW m \in Messages, Replayed(m)
    PROVE  \E r \in Runs : Replay(r)
<1>1. message' # message /\ message[m].at = "dlq" /\ message'[m].at = "origin"
      /\ message \in [Messages -> MessageStates]
  BY DEF Replayed, IInv, TypeOK
<1>2. ASSUME NEW k \in Messages, Die(k) \/ Consume(k) PROVE FALSE
  <2>1. k # m
    BY <1>1, <1>2 DEF Die, Consume
  <2>2. message'[m] = message[m]
    BY <1>1, <1>2, <2>1 DEF Die, Consume
  <2> QED
    BY <1>1, <2>2
<1>3. ~Tick
  <2>1. message[m] \in MessageStates
    BY <1>1
  <2>2. Tick => message'[m].at = message[m].at
    BY <2>1 DEF Tick, MessageStates
  <2> QED
    BY <1>1, <2>2
<1>4. \A r \in Runs : ~Park(r)
  <2>1. \A k \in Messages : Settled(k, "parking").at = "parking"
    BY <1>1 DEF Settled, MessageStates
  <2> QED
    BY <1>1, <2>1 DEF Park
<1>5. ASSUME NEW r \in Runs,
             Step(r) \/ RunDue(r) \/ RunNow(r) \/ PlanFails(r) \/ BatchFails(r) \/ RecordFails(r) \/ Crash(r)
      PROVE  Replay(r)
  BY <1>1, <1>4, <1>5
     DEF Step, RunDue, RunNow, PlanFails, BatchFails, RecordFails, Crash, Unreachable, Plan,
         RecordRead, RecordWrite, RecordLost, Pause, Continue, Trouble
<1>6. ~(IntervalPasses \/ ToggleEnvironment \/ (\E q \in Queues : ToggleConsumers(q))
        \/ Enable \/ Disable \/ Delete)
  BY <1>1 DEF IntervalPasses, ToggleEnvironment, Enable, Disable, Delete, ToggleConsumers, Trouble
<1> QED
  BY <1>1, <1>2, <1>3, <1>5, <1>6 DEF Next, vars

(* A message is replayed only when it was dead for its backoff, and was not *)
(* exhausted: whatever became of it since the plan was made.                *)
THEOREM ReplayedOnlyWhenDue == Spec => OnlyWhenDue
<1>1. ASSUME IInv, [Next]_vars, NEW m \in Messages, Replayed(m)
      PROVE  ~Exhausted(m) /\ message[m].age >= WaitFor(Deaths(m))
  <2>1. PICK r \in Runs : Replay(r)
    BY <1>1, OnlyReplayReplays
  <2>2. PICK o \in Outcomes(run[r].replay) :
            message' = [k \in Messages |->
                IF k \in o.moved
                THEN [message[k] EXCEPT !.at = "origin", !.stamp = Deaths(k), !.age = 0]
                ELSE message[k]]
    BY <2>1 DEF Replay
  <2>3. m \in o.moved
    BY <1>1, <2>2 DEF Replayed
  <2>4. m \in Matching(run[r].replay)
    BY <1>1, <2>3, BatchOutcome DEF IInv
  <2> QED
    BY <1>1, <2>4, StampsGrow
<1>2. IInv /\ [Next]_vars =>
         [\A m \in Messages : Replayed(m) =>
             ~Exhausted(m) /\ message[m].age >= WaitFor(Deaths(m))]_vars
  BY <1>1
<1> QED
  BY <1>2, InductiveInvariant, PTL DEF Spec, OnlyWhenDue
===============================================================================
