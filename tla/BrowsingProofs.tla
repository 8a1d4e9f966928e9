----------------------------- MODULE BrowsingProofs -----------------------------
(*****************************************************************************)
(* Theorems about Browsing, for any number of requests, messages and         *)
(* snapshots, any window and depth and any delivery limits: its types, that  *)
(* what acted is on record, that what a snapshot showed is found, that       *)
(* copies are refused, and that only what overtakes the guard drops.         *)
(*****************************************************************************)
EXTENDS Browsing, FiniteSetTheorems, FunctionTheorems, SequenceTheorems,
        WellFoundedInduction, TLAPS

(***************************** Sets of numbers *****************************)

(* Messages are numbers.                                                                   *)
LEMMA IdsAreNumbers == Ids \subseteq Nat \ {0}
BY LimitsAssumption DEF Ids

(* There are finitely many messages, and so are those of any part of the queue.            *)
LEMMA PartsAreFinite ==
    ASSUME NEW S \in SUBSET Ids
    PROVE  IsFiniteSet(S) /\ Cardinality(S) \in Nat
<1>1. IsFiniteSet(Ids)
  BY FS_Interval, LimitsAssumption DEF Ids
<1> QED
  BY <1>1, FS_Subset, FS_CardinalityType

(* Least finds the smallest of some natural numbers.                                       *)
LEMMA LeastIsLeast ==
    ASSUME NEW S \in SUBSET Nat, S # {}
    PROVE  Least(S) \in S /\ \A w \in S : Least(S) <= w
<1>1. PICK i \in S : \A j \in S : ~(<<j, i>> \in OpToRel(<, Nat))
  BY NatLessThanWellFounded, WFMin
<1>2. \A j \in S : i <= j
  <2>1. \A j, k \in Nat : j < k => <<j, k>> \in OpToRel(<, Nat)
    BY DEF OpToRel
  <2>2. \A j \in S : ~(j < i)
    BY <1>1, <2>1
  <2> QED
    BY <2>2
<1> QED
  BY <1>2 DEF Least

(* The rank of a message in a part of the queue: how many stand up to it.                  *)
RankIn(S, i) == Cardinality({j \in S : j <= i})

(* Ranks grow with the number of a message, from 1 to the size of the part.                *)
LEMMA RanksGrow ==
    ASSUME NEW S \in SUBSET Ids
    PROVE  /\ \A i \in S : RankIn(S, i) \in 1..Cardinality(S)
           /\ \A i, k \in S : i < k => RankIn(S, i) < RankIn(S, k)
           /\ \A i, k \in S : i <= k => RankIn(S, i) <= RankIn(S, k)
<1>1. \A i \in S : {j \in S : j <= i} \in SUBSET S
  OBVIOUS
<1>2. ASSUME NEW i \in S PROVE RankIn(S, i) \in 1..Cardinality(S)
  <2>1. /\ IsFiniteSet({j \in S : j <= i}) /\ RankIn(S, i) \in Nat
        /\ RankIn(S, i) <= Cardinality(S) /\ Cardinality(S) \in Nat
    BY <1>1, PartsAreFinite, FS_Subset DEF RankIn
  <2>2. i \in {j \in S : j <= i}
    BY DEF Ids
  <2>3. RankIn(S, i) # 0
    BY <2>1, <2>2, FS_EmptySet DEF RankIn
  <2> QED
    BY <2>1, <2>3
<1>3. ASSUME NEW i \in S, NEW k \in S, i < k PROVE RankIn(S, i) < RankIn(S, k)
  <2>1. {j \in S : j <= i} \in SUBSET {j \in S : j <= k}
    <3>1. \A j \in S : j \in Nat
      BY IdsAreNumbers
    <3>2. i \in Nat /\ k \in Nat /\ \A j \in S : j <= i => j <= k
      BY <1>3, <3>1
    <3> QED
      BY <3>2
  <2>2. k \in {j \in S : j <= k} /\ k \notin {j \in S : j <= i}
    BY <1>3 DEF Ids
  <2>3. RankIn(S, i) <= RankIn(S, k) /\ RankIn(S, i) # RankIn(S, k)
    BY <1>1, <2>1, <2>2, PartsAreFinite, FS_Subset DEF RankIn
  <2> QED
    BY <1>2, <2>3
<1> QED
  BY <1>2, <1>3 DEF Ids

(* Each rank has its message.                                                              *)
LEMMA RanksAreTaken ==
    ASSUME NEW S \in SUBSET Ids, NEW p \in 1..Cardinality(S)
    PROVE  \E i \in S : RankIn(S, i) = p
<1>1. PICK n : n = Cardinality(S)
  OBVIOUS
<1>2. n \in Nat /\ IsFiniteSet(S) /\ IsFiniteSet(1..n) /\ Cardinality(1..n) = n
  BY <1>1, PartsAreFinite, FS_Interval
<1>3. PICK f : f = [i \in S |-> RankIn(S, i)]
  OBVIOUS
<1>4. f \in [S -> 1..n] /\ \A i \in S : f[i] = RankIn(S, i)
  BY <1>1, <1>3, RanksGrow
<1>5. \A i, k \in S : f[i] = f[k] => i = k
  BY <1>4, RanksGrow DEF Ids
<1>6. f \in Injection(S, 1..n)
  BY <1>4, <1>5 DEF Injection, IsInjective
<1>7. f \in Surjection(S, 1..n)
  BY <1>1, <1>2, <1>6, FS_Injection
<1> QED
  BY <1>1, <1>4, <1>7 DEF Surjection

(* What a snapshot shows of a scan is in the order of the queue.                           *)
LEMMA OrderedIsSorted ==
    ASSUME NEW S \in SUBSET Ids
    PROVE  /\ Ordered(S) \in Seq(S)
           /\ \A p, r \in DOMAIN Ordered(S) : p < r => Ordered(S)[p] < Ordered(S)[r]
<1>1. PICK n : n = Cardinality(S)
  OBVIOUS
<1>2. n \in Nat
  BY <1>1, PartsAreFinite
<1>3. PICK o : o = Ordered(S)
  OBVIOUS
<1>4. o = [p \in 1..n |-> CHOOSE i \in S : RankIn(S, i) = p]
  BY <1>1, <1>3 DEF Ordered, RankIn
<1>5. \A p \in 1..n : o[p] \in S /\ RankIn(S, o[p]) = p
  BY <1>1, <1>4, RanksAreTaken
<1>6. o \in [1..n -> S] /\ DOMAIN o = 1..n
  BY <1>4, <1>5
<1>7. o \in Seq(S)
  BY <1>2, <1>6, SeqDef
<1>8. ASSUME NEW p \in 1..n, NEW r \in 1..n, p < r PROVE o[p] < o[r]
  <2>1. o[p] \in S /\ o[r] \in S /\ RankIn(S, o[p]) = p /\ RankIn(S, o[r]) = r
    BY <1>5
  <2>2. o[r] <= o[p] => RankIn(S, o[r]) <= RankIn(S, o[p])
    BY <2>1, RanksGrow
  <2>3. o[p] \in Nat /\ o[r] \in Nat /\ p \in Nat /\ r \in Nat
    <3>1. p \in Nat /\ r \in Nat
      BY <1>2
    <3>2. \A i \in S : i \in Nat
      BY IdsAreNumbers
    <3> QED
      BY <2>1, <3>1, <3>2
  <2>4. o[r] <= o[p] => r <= p
    BY <2>1, <2>2
  <2>5. ~(r <= p)
    BY <1>8, <2>3
  <2> QED
    BY <2>3, <2>4, <2>5
<1> QED
  BY <1>3, <1>6, <1>7, <1>8

(* Where a shown message stands: no further down than it was shown, but for what was given *)
(* back before it.                                                                         *)
LEMMA RankOfShown ==
    ASSUME NEW R \in SUBSET Ids, NEW seen \in Seq(Ids), NEW p \in DOMAIN seen
    PROVE  LET back == {j \in R : j < seen[p] /\ j \notin ToSet(SubSeq(seen, 1, p))}
           IN  /\ Cardinality(back) \in Nat /\ RankIn(R, seen[p]) \in Nat
               /\ RankIn(R, seen[p]) <= p + Cardinality(back)
<1>1. DOMAIN seen = 1..Len(seen) /\ Len(seen) \in Nat /\ \A i \in 1..Len(seen) : seen[i] \in Ids
  BY LenProperties, ElementOfSeq
<1>2. PICK V : V = ToSet(SubSeq(seen, 1, p))
  OBVIOUS
<1>3. V = {seen[i] : i \in 1..p}
  <2>1. \A i \in 1..p : seen[i] \in Ids
    BY <1>1
  <2>2. PICK s : s = SubSeq(seen, 1, p)
    OBVIOUS
  <2>3. s \in Seq(Ids) /\ Len(s) = p /\ \A i \in 1..p : s[i] = seen[i]
    BY <1>1, <2>1, <2>2, SubSeqProperties
  <2> QED
    BY <1>2, <2>2, <2>3, LenProperties DEF ToSet
<1>4. V \in SUBSET Ids /\ p \in Nat
  BY <1>1, <1>3
<1>5. Cardinality(V) <= p
  <2>1. [i \in 1..p |-> seen[i]] \in Surjection(1..p, V)
    BY <1>3 DEF Surjection
  <2> QED
    BY <1>4, <2>1, FS_SurjCardinalityBound DEF ExistsSurjection
<1>6. PICK U : U = {j \in R : j < seen[p] /\ j \notin V}
  OBVIOUS
<1>7. PICK A : A = {j \in R : j <= seen[p]}
  OBVIOUS
<1>8. seen[p] \in V
  BY <1>1, <1>3
<1>9. A \in SUBSET (U \cup V) /\ U \in SUBSET Ids /\ A \in SUBSET Ids /\ U \cup V \in SUBSET Ids
  <2>1. \A j \in A : j \in Nat /\ seen[p] \in Nat /\ j <= seen[p]
    BY <1>1, <1>7, IdsAreNumbers
  <2>2. \A j \in A : j < seen[p] \/ j = seen[p]
    BY <2>1
  <2> QED
    BY <1>4, <1>6, <1>7, <1>8, <2>2
<1>10. /\ IsFiniteSet(U) /\ IsFiniteSet(V) /\ IsFiniteSet(U \cup V)
       /\ {Cardinality(U), Cardinality(V), Cardinality(U \cap V), Cardinality(A)} \subseteq Nat
       /\ Cardinality(U \cup V) \in Nat
  <2>1. U \cap V \in SUBSET Ids
    BY <1>4
  <2> QED
    BY <1>4, <1>9, <2>1, PartsAreFinite
<1>11. Cardinality(U \cup V) = Cardinality(U) + Cardinality(V) - Cardinality(U \cap V)
  BY <1>10, FS_Union
<1>12. Cardinality(A) <= Cardinality(U \cup V)
  BY <1>9, <1>10, FS_Subset
<1>13. Cardinality(A) <= p + Cardinality(U)
  BY <1>4, <1>5, <1>10, <1>11, <1>12
<1> QED
  BY <1>2, <1>6, <1>7, <1>10, <1>13 DEF RankIn
(******************************* The invariant ******************************)

(* The messages that were ever published.                                                  *)
Existing == {i \in Ids : messages.print[i] # None}

(* The queue is of one kind for good; the version that a process knows was the broker's.   *)
QueueInv ==
    /\ queue \in [kind : Kinds, version : {3, 4}, argument : Values, policy : Values,
                  emitted : BOOLEAN]
    /\ known \in {3, 4, None}

(* Messages are numbered without gaps, and only those published stand somewhere.            *)
MessageInv ==
    /\ messages \in [print : [Ids -> Prints \cup {None}], ready : SUBSET Ids, held : SUBSET Ids]
    /\ messages.ready \cap messages.held = {}
    /\ returns \in [Ids -> 0..MaxReturns] /\ dropped \subseteq Ids \ messages.ready
    /\ queue.kind = "classic" => dropped = {}
    /\ messages.ready \cup messages.held \cup dropped \subseteq Existing
    /\ \E n \in 0..MaxMessages : Existing = 1..n

(* What was shown was published, and is shown in the order of the queue.                   *)
Sorted(seen) ==
    /\ seen \in Seq(Existing)
    /\ \A p, r \in DOMAIN seen : p < r => seen[p] < seen[r]

(* No more snapshots than are kept, each with its own number.                               *)
ShotInv ==
    /\ issued \in 0..MaxScans
    /\ shots \in Seq(Shot) /\ Len(shots) <= MaxSnapshots
    /\ \A s, t \in DOMAIN shots : shots[s].id = shots[t].id => s = t
    /\ \A s \in DOMAIN shots : shots[s].id <= issued /\ Sorted(shots[s].seen)

(* An action scans down to the deepest copy that was shown and a window more, or to the end. *)
Reaches(t) ==
    t.job \in {"copy", "remove"} =>
       \A p \in AtOf(t.seen, t.print) : t.scan >= p + Window \/ t.scan >= Depth

(* A scan of a quorum queue was allowed by the limits and the version it was judged by,    *)
(* which is the version that the process still goes by.                                    *)
Allowed(t) ==
    (t.pc = "scanning" /\ queue.kind = "quorum") =>
       /\ t.judged \in Values \X {3, 4} /\ known # None
       /\ DeliveryLimit(Configured(t.judged[1]), known) = None

(* An action or a composition is about a message; only a composition goes past the guard.  *)
Addressed(t) ==
    /\ t.pc # "idle" /\ t.job \in {"copy", "remove", "publish"} => t.print \in Prints
    /\ t.pc = "publishing" => t.job = "publish"

(* What a request holds is sound.                                                          *)
Sound(t) == Sorted(t.seen) /\ Reaches(t) /\ Allowed(t) /\ Addressed(t)

TaskInv == task \in [Clients -> Task] /\ \A c \in Clients : Sound(task[c])

(* The counts of the audit trail.                                                          *)
CountInv ==
    /\ rows \in [{"started", "success"} -> Nat] /\ acted \in Nat
    /\ ActedIsOnRecord

BrowseInv == QueueInv /\ MessageInv /\ ShotInv /\ TaskInv /\ CountInv

(* What a step leaves of the past: a message that was published keeps its print.            *)
Kept ==
    /\ Existing \subseteq Existing'
    /\ \A i \in Existing : messages'.print[i] = messages.print[i]

(******************************* The messages ******************************)

(* What was published stays published while only other parts of the messages change.       *)
LEMMA SamePrints ==
    ASSUME messages'.print = messages.print
    PROVE  Kept /\ Existing' = Existing
BY DEF Kept, Existing

(* What a scan gives back to the queue or takes for good leaves the messages sound.         *)
LEMMA ReturnKeeps ==
    ASSUME QueueInv, MessageInv, NEW read \in SUBSET messages.ready, NEW taken, Return(read, taken), queue' = queue
    PROVE  MessageInv' /\ Kept
<1>1. PICK back : back = IF queue.kind = "quorum" THEN read \ taken ELSE {}
  OBVIOUS
<1>2. PICK over : over = {i \in back : TooMany(returns[i] + 1)}
  OBVIOUS
<1>3. /\ returns' = [i \in Ids |-> IF i \in back /\ returns[i] < MaxReturns
                                     THEN returns[i] + 1 ELSE returns[i]]
      /\ dropped' = dropped \cup over
      /\ messages' = [messages EXCEPT !.ready = (@ \ taken) \ over]
  BY <1>1, <1>2 DEF Return
<1>4. /\ over \subseteq messages.ready /\ over \subseteq Ids /\ messages.ready \subseteq Existing
      /\ queue.kind = "classic" => over = {}
  BY <1>1, <1>2 DEF MessageInv
<1>5. /\ messages'.print = messages.print /\ messages'.held = messages.held
      /\ messages'.ready = (messages.ready \ taken) \ over
      /\ messages' \in [print : [Ids -> Prints \cup {None}], ready : SUBSET Ids, held : SUBSET Ids]
  BY <1>3 DEF MessageInv
<1>6. returns' \in [Ids -> 0..MaxReturns]
  <2>1. \A i \in Ids : returns[i] \in 0..MaxReturns
    BY DEF MessageInv
  <2>2. \A i \in Ids : (IF i \in back /\ returns[i] < MaxReturns THEN returns[i] + 1 ELSE returns[i])
                          \in 0..MaxReturns
    BY <2>1, LimitsAssumption
  <2> QED
    BY <1>3, <2>2
<1>7. Existing' = Existing /\ Kept
  BY <1>5, SamePrints
<1>8. /\ messages'.ready \cup messages'.held \cup dropped' \subseteq Existing'
      /\ dropped' \subseteq Ids \ messages'.ready
      /\ messages'.ready \cap messages'.held = {}
      /\ queue'.kind = "classic" => dropped' = {}
  BY <1>3, <1>4, <1>5, <1>7 DEF MessageInv
<1> QED
  BY <1>5, <1>6, <1>7, <1>8 DEF MessageInv

(* A message that is published has the next number.                                        *)
LEMMA ArriveKeeps ==
    ASSUME MessageInv, NEW f \in Prints, Next1 \in Ids, Arrive(f),
           UNCHANGED <<queue, returns, dropped>>
    PROVE  MessageInv' /\ Kept
<1>1. PICK n \in 0..MaxMessages : Existing = 1..n
  BY DEF MessageInv
<1>2. n \in Nat /\ Next1 = n + 1
  <2>1. Next1 = Cardinality(1..n) + 1
    BY <1>1 DEF Next1, Existing
  <2>2. n \in Nat
    BY <1>1, LimitsAssumption
  <2>3. Cardinality(1..n) = n
    BY <2>2, FS_Interval
  <2> QED
    BY <2>1, <2>2, <2>3
<1>3. /\ messages \in [print : [Ids -> Prints \cup {None}], ready : SUBSET Ids, held : SUBSET Ids]
      /\ messages' = [messages EXCEPT !.print[n + 1] = f, !.ready = @ \cup {n + 1}]
  BY <1>2 DEF MessageInv, Arrive
<1>4. n + 1 \in Ids /\ n + 1 \notin Existing
  BY <1>1, <1>2
<1>5. /\ messages'.print = [messages.print EXCEPT ![n + 1] = f] /\ messages'.held = messages.held
      /\ messages'.ready = messages.ready \cup {n + 1}
      /\ messages' \in [print : [Ids -> Prints \cup {None}], ready : SUBSET Ids, held : SUBSET Ids]
  BY <1>3, <1>4
<1>6. /\ messages'.print[n + 1] = f
      /\ \A i \in Ids : i # n + 1 => messages'.print[i] = messages.print[i]
  BY <1>3, <1>4, <1>5
<1>7. Existing' = Existing \cup {n + 1}
  BY <1>4, <1>6, NoneAssumption DEF Existing
<1>8. Existing' = 1..(n + 1) /\ n + 1 \in 0..MaxMessages
  BY <1>1, <1>2, <1>4, <1>7, LimitsAssumption DEF Ids
<1>9. Kept
  BY <1>4, <1>6, <1>7 DEF Kept, Existing
<1>10. \A i \in messages.ready \cup messages.held \cup dropped : i # n + 1
  BY <1>4 DEF MessageInv
<1> QED
  BY <1>4, <1>5, <1>7, <1>8, <1>9, <1>10 DEF MessageInv

(* Consumers take, keep and give back.                                                     *)
LEMMA ConsumeKeeps ==
    ASSUME MessageInv, Consume
    PROVE  MessageInv' /\ Kept
<1>1. /\ messages \in [print : [Ids -> Prints \cup {None}], ready : SUBSET Ids, held : SUBSET Ids]
      /\ dropped = {} /\ UNCHANGED <<queue, returns, dropped>>
  BY DEF MessageInv, Consume
<1>2. PICK i \in Ids :
          \/ /\ i \in First(1)
             /\ messages' = [messages EXCEPT !.ready = @ \ {i}, !.held = @ \cup {i}]
          \/ /\ i \in messages.held
             /\ messages' = [messages EXCEPT !.ready = @ \cup {i}, !.held = @ \ {i}]
          \/ /\ i \in messages.held
             /\ messages' = [messages EXCEPT !.held = @ \ {i}]
  BY DEF Consume
<1>3. i \in First(1) => i \in messages.ready
  BY DEF First
<1>4. /\ messages'.print = messages.print
      /\ messages' \in [print : [Ids -> Prints \cup {None}], ready : SUBSET Ids, held : SUBSET Ids]
      /\ messages'.ready \cap messages'.held = {}
      /\ messages'.ready \cup messages'.held \subseteq messages.ready \cup messages.held
  <2>1. messages.ready \cap messages.held = {}
    BY DEF MessageInv
  <2>2. CASE i \in messages.ready /\ messages' = [messages EXCEPT !.ready = @ \ {i}, !.held = @ \cup {i}]
    BY <1>1, <2>1, <2>2
  <2>3. CASE i \in messages.held /\ messages' = [messages EXCEPT !.ready = @ \cup {i}, !.held = @ \ {i}]
    BY <1>1, <2>1, <2>3
  <2>4. CASE i \in messages.held /\ messages' = [messages EXCEPT !.held = @ \ {i}]
    BY <1>1, <2>1, <2>4
  <2> QED
    BY <1>2, <1>3, <2>2, <2>3, <2>4
<1>5. Existing' = Existing /\ Kept
  BY <1>4, SamePrints
<1> QED
  BY <1>1, <1>4, <1>5 DEF MessageInv
(* A scan reads messages that are ready.                                                   *)
LEMMA ScansWhatIsReady ==
    ASSUME MessageInv, NEW c \in Clients
    PROVE  Scanned(c) \in SUBSET messages.ready /\ messages.ready \in SUBSET Ids
BY DEF Scanned, First, MessageInv

(* Nothing but a broker's administrator changes the queue, and never its kind.             *)
LEMMA QueueSteps ==
    ASSUME QueueInv, [Next]_vars
    PROVE  QueueInv' /\ queue'.kind = queue.kind /\ queue'.argument = queue.argument
<1>1. queue.version \in {3, 4}
  BY DEF QueueInv
<1>2. CASE Administer
  <2>1. known' = known
    BY <1>2 DEF Administer
  <2>2. ASSUME NEW v \in Values, queue' = [queue EXCEPT !.policy = v] PROVE QueueInv' /\ queue'.kind = queue.kind /\ queue'.argument = queue.argument
    BY <2>1, <2>2 DEF QueueInv
  <2>3. CASE queue' = [queue EXCEPT !.emitted = TRUE]
    BY <2>1, <2>3 DEF QueueInv
  <2>4. CASE queue' = [queue EXCEPT !.version = 4]
    BY <2>1, <2>4 DEF QueueInv
  <2> QED
    BY <1>2, <2>2, <2>3, <2>4 DEF Administer
<1>3. ASSUME NEW c \in Clients, Guard(c) PROVE queue' = queue /\ known' \in {3, 4, None}
  <2>1. \A v \in IF known = None THEN {queue.version} ELSE {known} : v \in {3, 4, None}
    BY <1>1 DEF QueueInv
  <2> QED
    BY <1>3, <2>1 DEF Guard
<1>4. CASE ListQueues
  BY <1>1, <1>4 DEF ListQueues, QueueInv
<1>5. CASE Restart
  BY <1>5 DEF Restart, QueueInv
<1>6. ASSUME NEW c \in Clients,
             \/ GuardFails(c) \/ Scan(c) \/ Start(c) \/ Operate(c) \/ Publish(c) \/ Record(c)
             \/ \E job \in {"head", "snapshot"} : Read(c, job)
             \/ \E f \in Prints : \/ Compose(c, f)
                                  \/ \E job \in {"copy", "remove"}, id \in 0..issued : Act(c, job, f, id)
      PROVE UNCHANGED <<queue, known>>
  BY <1>6 DEF GuardFails, Scan, Start, Operate, Publish, Record, Read, Compose, Act
<1>7. CASE (\E id \in 1..issued : Page(id)) \/ (\E f \in Prints : Produce(f)) \/ Expire \/ Consume
  BY <1>7 DEF Page, Produce, Expire, Consume, QueueInv
<1>8. CASE UNCHANGED vars
  BY <1>8 DEF vars, QueueInv
<1> QED
  BY <1>2, <1>3, <1>4, <1>5, <1>6, <1>7, <1>8 DEF Next, QueueInv

(* Every step leaves the messages sound, and the past as it was.                           *)
LEMMA MessageSteps ==
    ASSUME QueueInv, MessageInv, TaskInv, [Next]_vars
    PROVE  MessageInv' /\ Kept
<1>1. ASSUME UNCHANGED <<messages, returns, dropped>>, queue'.kind = queue.kind
      PROVE  MessageInv' /\ Kept
  BY <1>1, SamePrints DEF MessageInv
<1>2. queue'.kind = queue.kind
  BY QueueSteps
<1>3. ASSUME NEW c \in Clients,
             \/ Guard(c) \/ GuardFails(c) \/ Start(c) \/ Record(c)
             \/ \E job \in {"head", "snapshot"} : Read(c, job)
             \/ \E f \in Prints : \/ Compose(c, f)
                                  \/ \E job \in {"copy", "remove"}, id \in 0..issued : Act(c, job, f, id)
      PROVE UNCHANGED <<messages, returns, dropped>>
  BY <1>3 DEF Guard, GuardFails, Start, Record, Read, Compose, Act
<1>4. ASSUME NEW c \in Clients, Scan(c) PROVE MessageInv' /\ Kept
  BY <1>4, ScansWhatIsReady, ReturnKeeps DEF Scan
<1>5. ASSUME NEW c \in Clients, Operate(c) PROVE MessageInv' /\ Kept
  <2>1. queue' = queue /\ \E taken : Return(Scanned(c), taken)
    BY <1>5 DEF Operate
  <2> QED
    BY <2>1, ScansWhatIsReady, ReturnKeeps
<1>6. ASSUME NEW c \in Clients, Publish(c) PROVE MessageInv' /\ Kept
  <2>1. CASE Next1 \in Ids /\ Arrive(task[c].print)
    <3>1. UNCHANGED <<queue, returns, dropped>> /\ task[c].pc = "publishing"
      BY <1>6 DEF Publish
    <3>2. task[c].print \in Prints
      BY <3>1 DEF TaskInv, Sound, Addressed
    <3> QED
      BY <2>1, <3>1, <3>2, ArriveKeeps
  <2>2. CASE messages' = messages
    BY <1>1, <1>2, <1>6, <2>2 DEF Publish
  <2> QED
    BY <1>6, <2>1, <2>2 DEF Publish
<1>7. ASSUME NEW f \in Prints, Produce(f) PROVE MessageInv' /\ Kept
  BY <1>7, ArriveKeeps DEF Produce
<1>8. CASE Consume
  BY <1>8, ConsumeKeeps
<1>9. CASE (\E id \in 1..issued : Page(id)) \/ Expire \/ ListQueues \/ Administer \/ Restart
  BY <1>1, <1>2, <1>9 DEF Page, Expire, ListQueues, Administer, Restart
<1>10. CASE UNCHANGED vars
  BY <1>1, <1>2, <1>10 DEF vars
<1> QED
  BY <1>1, <1>2, <1>3, <1>4, <1>5, <1>6, <1>7, <1>8, <1>9, <1>10 DEF Next
(****************************** The snapshots ******************************)

(* What was shown stays sorted and published.                                              *)
LEMMA SortedKept ==
    ASSUME Kept, NEW seen, Sorted(seen)
    PROVE  Sorted(seen)'
<1>1. seen \in Seq(Existing')
  BY SeqMonotonic DEF Kept, Sorted
<1> QED
  BY <1>1 DEF Sorted

(* A sequence without its i-th element.                                                    *)
LEMMA RemovedAt ==
    ASSUME NEW S, NEW s \in Seq(S), NEW i \in DOMAIN s
    PROVE  /\ RemoveAt(s, i) \in Seq(S) /\ Len(RemoveAt(s, i)) = Len(s) - 1
           /\ \A j \in 1..(Len(s) - 1) : RemoveAt(s, i)[j] = s[IF j < i THEN j ELSE j + 1]
<1>1. PICK n : n = Len(s)
  OBVIOUS
<1>2. n \in Nat /\ DOMAIN s = 1..n /\ i \in 1..n /\ \A j \in 1..n : s[j] \in S
  BY <1>1, LenProperties, ElementOfSeq
<1>3. PICK a : a = SubSeq(s, 1, i - 1)
  OBVIOUS
<1>4. a \in Seq(S) /\ Len(a) = i - 1 /\ \A j \in 1..(i - 1) : a[j] = s[j]
  <2>1. \A j \in 1..(i - 1) : s[j] \in S
    BY <1>2
  <2> QED
    BY <1>2, <1>3, <2>1, SubSeqProperties
<1>5. PICK b : b = SubSeq(s, i + 1, n)
  OBVIOUS
<1>6. b \in Seq(S) /\ Len(b) = n - i /\ \A j \in 1..(n - i) : b[j] = s[i + j]
  <2>1. i + 1 \in Int /\ n \in Int /\ \A j \in (i + 1)..n : s[j] \in S
    BY <1>2
  <2>2. /\ b \in Seq(S) /\ Len(b) = IF i + 1 <= n THEN n - (i + 1) + 1 ELSE 0
        /\ \A j \in 1..(n - (i + 1) + 1) : b[j] = s[(i + 1) + j - 1]
    BY <1>5, <2>1, SubSeqProperties
  <2>3. n - (i + 1) + 1 = n - i /\ \A j \in 1..(n - i) : (i + 1) + j - 1 = i + j
    BY <1>2
  <2> QED
    BY <1>2, <2>2, <2>3
<1>7. /\ a \o b \in Seq(S) /\ Len(a \o b) = Len(a) + Len(b)
      /\ \A j \in 1..(Len(a) + Len(b)) : (a \o b)[j] = IF j <= Len(a) THEN a[j] ELSE b[j - Len(a)]
  BY <1>4, <1>6, ConcatProperties
<1>8. PICK r : r = RemoveAt(s, i)
  OBVIOUS
<1>9. r = a \o b
  BY <1>1, <1>3, <1>5, <1>8 DEF RemoveAt
<1>10. r \in Seq(S) /\ Len(r) = n - 1
  <2>1. Len(a) + Len(b) = n - 1
    BY <1>2, <1>4, <1>6
  <2> QED
    BY <1>7, <1>9, <2>1
<1>11. ASSUME NEW j \in 1..(n - 1) PROVE r[j] = s[IF j < i THEN j ELSE j + 1]
  <2>1. CASE j < i
    BY <1>2, <1>4, <1>6, <1>7, <1>9, <2>1
  <2>2. CASE ~(j < i)
    <3>1. /\ r[j] = b[j - (i - 1)] /\ j - (i - 1) \in 1..(n - i)
          /\ i + (j - (i - 1)) = j + 1
      BY <1>2, <1>4, <1>6, <1>7, <1>9, <2>2
    <3> QED
      BY <1>6, <2>2, <3>1
  <2> QED
    BY <2>1, <2>2
<1> QED
  BY <1>1, <1>8, <1>10, <1>11

(* Snapshots that stay, in whatever order, stay sound.                                     *)
LEMMA StillShown ==
    ASSUME ShotInv, Kept, issued' = issued, shots' \in Seq(Shot), Len(shots') <= MaxSnapshots,
           NEW h \in [1..Len(shots') -> DOMAIN shots],
           \A j \in 1..Len(shots') : shots'[j] = shots[h[j]],
           \A j, k \in 1..Len(shots') : h[j] = h[k] => j = k
    PROVE  ShotInv'
<1>1. DOMAIN shots' = 1..Len(shots')
  BY LenProperties
<1>2. ASSUME NEW j \in 1..Len(shots'), NEW k \in 1..Len(shots'), shots'[j].id = shots'[k].id PROVE j = k
  BY <1>2 DEF ShotInv
<1>3. ASSUME NEW j \in 1..Len(shots') PROVE (shots[j].id <= issued /\ Sorted(shots[j].seen))'
  <2>1. PICK seen : seen = shots[h[j]].seen
    OBVIOUS
  <2>2. Sorted(seen) /\ shots[h[j]].id <= issued
    BY <2>1 DEF ShotInv
  <2>3. Sorted(seen)'
    BY <2>2, SortedKept
  <2>4. shots'[j].seen = seen
    BY <2>1
  <2> QED
    BY <2>1, <2>2, <2>3, <2>4 DEF Sorted
<1>4. issued' \in 0..MaxScans
  BY DEF ShotInv
<1> QED
  BY <1>1, <1>2, <1>3, <1>4 DEF ShotInv

(* A snapshot that is found is one that is kept.                                           *)
LEMMA FoundIsKept ==
    ASSUME ShotInv, NEW id, Found(id)
    PROVE  At(id) \in 1..Len(shots) /\ shots[At(id)].id = id /\ Sorted(Shown(id))
<1>1. At(id) \in DOMAIN shots /\ shots[At(id)].id = id
  BY DEF At, Found
<1> QED
  BY <1>1, LenProperties DEF Shown, ShotInv

(* One that is used goes to the end.                                                       *)
LEMMA TouchKeeps ==
    ASSUME ShotInv, Kept, issued' = issued, NEW id, Touch(id)
    PROVE  ShotInv'
<1>1. PICK n : n = Len(shots)
  OBVIOUS
<1>2. /\ shots \in Seq(Shot) /\ n \in Nat /\ n <= MaxSnapshots /\ DOMAIN shots = 1..n
      /\ \A j \in 1..n : shots[j] \in Shot
  BY <1>1, LenProperties, ElementOfSeq DEF ShotInv
<1>3. CASE Found(id)
  <2>1. PICK i : i = At(id)
    OBVIOUS
  <2>2. i \in 1..n /\ shots' = Append(RemoveAt(shots, i), shots[i])
    BY <1>1, <1>3, <2>1, FoundIsKept DEF Touch
  <2>3. PICK r : r = RemoveAt(shots, i)
    OBVIOUS
  <2>4. /\ r \in Seq(Shot) /\ Len(r) = n - 1
        /\ \A j \in 1..(n - 1) : r[j] = shots[IF j < i THEN j ELSE j + 1]
    BY <1>1, <1>2, <2>2, <2>3, RemovedAt
  <2>5. /\ shots' \in Seq(Shot) /\ Len(shots') = n /\ shots'[n] = shots[i]
        /\ \A j \in 1..(n - 1) : shots'[j] = r[j]
    BY <1>2, <2>2, <2>3, <2>4
  <2>6. PICK h : h = [j \in 1..n |-> IF j = n THEN i ELSE IF j < i THEN j ELSE j + 1]
    OBVIOUS
  <2>7. /\ h \in [1..n -> 1..n] /\ \A j, k \in 1..n : h[j] = h[k] => j = k
        /\ \A j \in 1..n : h[j] = IF j = n THEN i ELSE IF j < i THEN j ELSE j + 1
    BY <1>2, <2>2, <2>6
  <2>8. \A j \in 1..n : shots'[j] = shots[h[j]]
    <3>1. ASSUME NEW j \in 1..n, j # n PROVE shots'[j] = shots[h[j]]
      <4>1. j \in 1..(n - 1)
        BY <1>2, <3>1
      <4> QED
        BY <2>4, <2>5, <2>7, <3>1, <4>1
    <3> QED
      BY <2>5, <2>7, <3>1
  <2>9. /\ h \in [1..Len(shots') -> DOMAIN shots]
        /\ \A j \in 1..Len(shots') : shots'[j] = shots[h[j]]
        /\ \A j, k \in 1..Len(shots') : h[j] = h[k] => j = k
    BY <1>2, <2>5, <2>7, <2>8
  <2>10. shots' \in Seq(Shot) /\ Len(shots') <= MaxSnapshots
    BY <1>2, <2>5
  <2> QED
    BY <2>9, <2>10, StillShown
<1>4. CASE ~Found(id)
  <2>1. shots' = shots
    BY <1>4 DEF Touch
  <2>2. PICK h : h = [j \in 1..n |-> j]
    OBVIOUS
  <2>3. h \in [1..n -> 1..n] /\ \A j \in 1..n : h[j] = j
    BY <2>2
  <2> QED
    BY <1>1, <1>2, <2>1, <2>3, StillShown
<1> QED
  BY <1>3, <1>4

(* The oldest one goes.                                                                    *)
LEMMA ExpireKeeps ==
    ASSUME ShotInv, Kept, Expire
    PROVE  ShotInv'
<1>1. PICK n : n = Len(shots)
  OBVIOUS
<1>2. /\ shots \in Seq(Shot) /\ n \in Nat /\ n <= MaxSnapshots /\ DOMAIN shots = 1..n
      /\ \A j \in 1..n : shots[j] \in Shot
  BY <1>1, LenProperties, ElementOfSeq DEF ShotInv
<1>3. PICK numbers : numbers = {shots[s].id : s \in DOMAIN shots}
  OBVIOUS
<1>4. numbers \in SUBSET Nat /\ numbers # {}
  <2>1. \A j \in 1..n : shots[j].id \in Nat
    BY <1>2, LimitsAssumption DEF Shot
  <2>2. n # 0
    BY <1>1, <1>2, EmptySeq DEF Expire
  <2> QED
    BY <1>2, <1>3, <2>1, <2>2
<1>5. Found(Least(numbers))
  BY <1>3, <1>4, LeastIsLeast DEF Found
<1>6. PICK i : i = At(Least(numbers))
  OBVIOUS
<1>7. i \in 1..n /\ shots' = RemoveAt(shots, i) /\ issued' = issued
  BY <1>1, <1>3, <1>5, <1>6, FoundIsKept DEF Expire
<1>8. /\ shots' \in Seq(Shot) /\ Len(shots') = n - 1
      /\ \A j \in 1..(n - 1) : shots'[j] = shots[IF j < i THEN j ELSE j + 1]
  BY <1>1, <1>2, <1>7, RemovedAt
<1>9. PICK h : h = [j \in 1..(n - 1) |-> IF j < i THEN j ELSE j + 1]
  OBVIOUS
<1>10. /\ h \in [1..(n - 1) -> 1..n] /\ \A j, k \in 1..(n - 1) : h[j] = h[k] => j = k
       /\ \A j \in 1..(n - 1) : h[j] = IF j < i THEN j ELSE j + 1
  BY <1>2, <1>7, <1>9
<1>11. \A j \in 1..(n - 1) : shots'[j] = shots[h[j]]
  BY <1>8, <1>10
<1>12. n - 1 <= MaxSnapshots
  BY <1>2, LimitsAssumption
<1> QED
  BY <1>2, <1>7, <1>8, <1>10, <1>11, <1>12, StillShown
(* A new one goes to the end, and the least recently used one makes room.                  *)
LEMMA AddKeeps ==
    ASSUME ShotInv, Kept, NEW seen, Sorted(seen), issued < MaxScans, Add(seen)
    PROVE  ShotInv'
<1>1. PICK n : n = Len(shots)
  OBVIOUS
<1>2. /\ shots \in Seq(Shot) /\ n \in Nat /\ n <= MaxSnapshots /\ DOMAIN shots = 1..n
      /\ \A j \in 1..n : shots[j] \in Shot
  BY <1>1, LenProperties, ElementOfSeq DEF ShotInv
<1>3. PICK new : new = [id |-> issued + 1, seen |-> seen]
  OBVIOUS
<1>4. /\ new \in Shot /\ new.id = issued + 1 /\ new.seen = seen /\ issued \in Nat
      /\ issued' = issued + 1 /\ issued' \in 0..MaxScans
  <2>1. seen \in Seq(Ids)
    BY SeqMonotonic DEF Sorted, Existing
  <2>2. issued \in Nat /\ issued + 1 \in 1..MaxScans
    BY LimitsAssumption DEF ShotInv
  <2> QED
    BY <1>3, <2>1, <2>2 DEF Shot, Add
<1>5. PICK all : all = Append(shots, new)
  OBVIOUS
<1>6. /\ all \in Seq(Shot) /\ Len(all) = n + 1 /\ all[n + 1] = new
      /\ \A j \in 1..n : all[j] = shots[j]
  BY <1>1, <1>2, <1>4, <1>5
<1>7. shots' = IF n + 1 > MaxSnapshots THEN Tail(all) ELSE all
  <2>1. shots' = IF Len(all) > MaxSnapshots THEN Tail(all) ELSE all
    BY <1>3, <1>5, Zenon DEF Add
  <2> QED
    BY <1>6, <2>1
<1>8. \A j \in 1..n : shots[j].id \in Nat /\ shots[j].id <= issued /\ Sorted(shots[j].seen)
  <2>1. \A t \in Shot : t.id \in Nat
    BY LimitsAssumption DEF Shot
  <2>2. \A j \in DOMAIN shots : shots[j].id <= issued /\ Sorted(shots[j].seen)
    BY DEF ShotInv
  <2> QED
    BY <1>2, <2>1, <2>2
<1>9. \A j \in 1..(n + 1) : all[j].id \in Nat /\ all[j].id <= issued + 1 /\ Sorted(all[j].seen)
  <2>1. ASSUME NEW j \in 1..(n + 1), j # n + 1
        PROVE  all[j].id \in Nat /\ all[j].id <= issued + 1 /\ Sorted(all[j].seen)
    <3>1. j \in 1..n
      BY <1>2, <2>1
    <3> QED
      BY <1>4, <1>6, <1>8, <3>1
  <2> QED
    BY <1>4, <1>6, <2>1
<1>10. ASSUME NEW j \in 1..(n + 1), NEW k \in 1..(n + 1), all[j].id = all[k].id PROVE j = k
  <2>1. \A l \in 1..(n + 1) : l # n + 1 => l \in 1..n
    BY <1>2
  <2>2. \A l \in 1..n : all[l].id = shots[l].id /\ all[l].id # issued + 1
    BY <1>4, <1>6, <1>8
  <2>3. all[n + 1].id = issued + 1
    BY <1>4, <1>6
  <2>4. j \in 1..n /\ k \in 1..n => j = k
    BY <1>2, <1>10, <2>2 DEF ShotInv
  <2> QED
    BY <1>10, <2>1, <2>2, <2>3, <2>4
<1>11. PICK d \in {0, 1} :
          /\ shots' \in Seq(Shot) /\ Len(shots') = n + 1 - d /\ n + 1 - d <= MaxSnapshots
          /\ \A j \in 1..(n + 1 - d) : shots'[j] = all[j + d]
  <2>1. CASE n + 1 > MaxSnapshots
    <3>1. all # <<>> /\ shots' = Tail(all)
      BY <1>2, <1>6, <1>7, <2>1
    <3>2. /\ shots' \in Seq(Shot) /\ Len(shots') = n
          /\ \A j \in 1..n : shots'[j] = all[j + 1]
      BY <1>2, <1>6, <3>1, HeadTailProperties
    <3>3. n + 1 - 1 = n
      BY <1>2
    <3> QED
      BY <1>2, <3>2, <3>3
  <2>2. CASE ~(n + 1 > MaxSnapshots)
    <3>1. shots' = all /\ n + 1 - 0 = n + 1 /\ n + 1 <= MaxSnapshots /\ \A j \in 1..(n + 1) : j + 0 = j
      BY <1>2, <1>7, <2>2, LimitsAssumption
    <3> QED
      BY <1>6, <3>1
  <2> QED
    BY <2>1, <2>2
<1>12. DOMAIN shots' = 1..(n + 1 - d) /\ \A j \in 1..(n + 1 - d) : j + d \in 1..(n + 1)
  BY <1>2, <1>11, LenProperties
<1>13. ASSUME NEW j \in DOMAIN shots', NEW k \in DOMAIN shots', shots'[j].id = shots'[k].id PROVE j = k
  <2>1. j + d \in 1..(n + 1) /\ k + d \in 1..(n + 1) /\ all[j + d].id = all[k + d].id
    BY <1>11, <1>12, <1>13
  <2>2. j + d = k + d
    BY <1>10, <2>1
  <2> QED
    BY <1>2, <1>11, <1>12, <2>2
<1>14. ASSUME NEW j \in DOMAIN shots' PROVE (shots[j].id <= issued /\ Sorted(shots[j].seen))'
  <2>1. j + d \in 1..(n + 1) /\ shots'[j] = all[j + d]
    BY <1>11, <1>12
  <2>2. PICK old : old = all[j + d].seen
    OBVIOUS
  <2>3. Sorted(old) /\ all[j + d].id <= issued'
    BY <1>4, <1>9, <2>1, <2>2
  <2>4. Sorted(old)'
    BY <2>3, SortedKept
  <2>5. shots'[j].seen = old /\ shots'[j].id <= issued'
    BY <2>1, <2>2, <2>3
  <2> QED
    BY <2>4, <2>5 DEF Sorted
<1> QED
  BY <1>4, <1>11, <1>13, <1>14 DEF ShotInv

(* Snapshots stay sound when nothing happens to them.                                      *)
LEMMA ShotsKept ==
    ASSUME ShotInv, Kept, UNCHANGED <<shots, issued>>
    PROVE  ShotInv'
<1>1. ASSUME NEW s \in DOMAIN shots PROVE Sorted(shots[s].seen)'
  <2>1. PICK seen : seen = shots[s].seen
    OBVIOUS
  <2>2. Sorted(seen)'
    BY <2>1, SortedKept DEF ShotInv
  <2> QED
    BY <2>1, <2>2 DEF Sorted
<1> QED
  BY <1>1 DEF ShotInv

(* Every step keeps the snapshots sound.                                                   *)
LEMMA ShotSteps ==
    ASSUME MessageInv, ShotInv, Kept, [Next]_vars
    PROVE  ShotInv'
<1>1. ASSUME NEW c \in Clients, Scan(c) PROVE ShotInv'
  <2>1. CASE issued < MaxScans /\ Add(Ordered(Scanned(c)))
    <3>1. PICK read : read = Scanned(c)
      OBVIOUS
    <3>2. read \in SUBSET Ids /\ read \subseteq Existing
      BY <3>1, ScansWhatIsReady DEF MessageInv
    <3>3. PICK seen : seen = Ordered(read)
      OBVIOUS
    <3>4. seen \in Seq(read) /\ \A p, r \in DOMAIN seen : p < r => seen[p] < seen[r]
      BY <3>2, <3>3, OrderedIsSorted
    <3>5. Sorted(seen)
      BY <3>2, <3>4, SeqMonotonic DEF Sorted
    <3> QED
      BY <2>1, <3>1, <3>3, <3>5, AddKeeps
  <2>2. CASE UNCHANGED <<shots, issued>>
    BY <2>2, ShotsKept
  <2> QED
    BY <1>1, <2>1, <2>2 DEF Scan
<1>2. ASSUME NEW c \in Clients, NEW f \in Prints, NEW job, NEW id, Act(c, job, f, id) PROVE ShotInv'
  BY <1>2, TouchKeeps DEF Act
<1>3. ASSUME NEW id, Page(id) PROVE ShotInv'
  BY <1>3, TouchKeeps DEF Page
<1>4. CASE Expire
  BY <1>4, ExpireKeeps
<1>5. CASE Restart
  <2>1. /\ <<>> \in Seq(Shot) /\ Len(<<>>) = 0 /\ 0 <= MaxSnapshots
        /\ DOMAIN <<>> = {}
    BY LimitsAssumption
  <2> QED
    BY <1>5, <2>1 DEF Restart, ShotInv
<1>6. ASSUME NEW c \in Clients,
             \/ Guard(c) \/ GuardFails(c) \/ Start(c) \/ Operate(c) \/ Publish(c) \/ Record(c)
             \/ \E job \in {"head", "snapshot"} : Read(c, job)
             \/ \E f \in Prints : Compose(c, f)
      PROVE UNCHANGED <<shots, issued>>
  BY <1>6 DEF Guard, GuardFails, Start, Operate, Publish, Record, Read, Compose
<1>7. CASE (\E f \in Prints : Produce(f)) \/ ListQueues \/ Consume \/ Administer \/ UNCHANGED vars
  BY <1>7, ShotsKept DEF Produce, ListQueues, Consume, Administer, vars
<1> QED
  BY <1>1, <1>2, <1>3, <1>4, <1>5, <1>6, <1>7, ShotsKept DEF Next
(******************************* The requests ******************************)

(* What a request holds stays sound while it waits.                                        *)
LEMMA SoundKept ==
    ASSUME Kept, queue'.kind = queue.kind, queue'.argument = queue.argument,
           known # None => known' = known, NEW t, Sound(t)
    PROVE  Sound(t)'
<1>1. Sorted(t.seen)'
  <2>1. PICK seen : seen = t.seen
    OBVIOUS
  <2> QED
    BY <2>1, SortedKept DEF Sound
<1>2. AtOf(t.seen, t.print)' = AtOf(t.seen, t.print)
  <2>1. \A p \in DOMAIN t.seen : t.seen[p] \in Existing
    BY ElementOfSeq, LenProperties DEF Sound, Sorted
  <2>2. \A p \in DOMAIN t.seen : messages'.print[t.seen[p]] = messages.print[t.seen[p]]
    BY <2>1 DEF Kept
  <2> QED
    BY <2>2 DEF AtOf
<1>3. Reaches(t)'
  BY <1>2 DEF Reaches, Sound
<1>4. Allowed(t)'
  BY DEF Allowed, Sound, Configured
<1>5. Addressed(t)'
  BY DEF Addressed, Sound
<1> QED
  BY <1>1, <1>3, <1>4, <1>5 DEF Sound

(* A request that goes on with what it holds, though not into a scan, holds it soundly.     *)
LEMMA StillSound ==
    ASSUME NEW s, NEW t, Sound(s), t.seen = s.seen, t.job = s.job, t.print = s.print,
           t.scan = s.scan, s.pc # "idle", t.pc # "scanning", t.pc = "publishing" => t.job = "publish"
    PROVE  Sound(t)
<1>1. Sorted(t.seen) /\ Reaches(t)
  BY DEF Sound, Reaches
<1>2. Allowed(t) /\ Addressed(t)
  BY DEF Sound, Allowed, Addressed
<1> QED
  BY <1>1, <1>2 DEF Sound

(* No request holds anything.                                                              *)
LEMMA IdleIsSound == Idle \in Task /\ Sound(Idle)
<1>1. /\ Idle.pc = "idle" /\ Idle.job = None /\ Idle.print = None /\ Idle.seen = <<>>
      /\ Idle.scan = 0 /\ Idle.judged = None /\ Idle.outcome = None
  BY DEF Idle
<1>2. Idle \in Task
  <2>1. <<>> \in Seq(Ids) /\ 0 \in 0..Depth
    BY LimitsAssumption
  <2> QED
    BY <2>1 DEF Idle, Task
<1>3. Sorted(<<>>) /\ DOMAIN <<>> = {}
  BY DEF Sorted
<1>4. Reaches(Idle)
  BY <1>1, <1>3 DEF Reaches, AtOf
<1>5. Allowed(Idle) /\ Addressed(Idle)
  BY <1>1 DEF Allowed, Addressed
<1> QED
  BY <1>1, <1>2, <1>3, <1>4, <1>5 DEF Sound

(* The deepest copy that was shown stands as deep as any.                                  *)
LEMMA DeepestIsDeepest ==
    ASSUME NEW seen, Sorted(seen), NEW f, NEW p \in AtOf(seen, f)
    PROVE  /\ p \in Nat /\ Deepest(seen, f) \in Nat /\ p <= Deepest(seen, f)
<1>1. PICK n : n = Len(seen)
  OBVIOUS
<1>2. PICK A : A = AtOf(seen, f)
  OBVIOUS
<1>3. n \in Nat /\ A \subseteq 1..n /\ p \in A
  BY <1>1, <1>2, LenProperties DEF Sorted, AtOf
<1>4. PICK Q : Q = {n - a : a \in A}
  OBVIOUS
<1>5. Q \in SUBSET Nat /\ Q # {}
  BY <1>3, <1>4
<1>6. PICK a \in A : Least(Q) = n - a
  BY <1>4, <1>5, LeastIsLeast
<1>7. \A b \in A : b <= a
  <2>1. \A b \in A : n - a <= n - b
    BY <1>4, <1>5, <1>6, LeastIsLeast
  <2> QED
    BY <1>3, <2>1
<1>8. Deepest(seen, f) = CHOOSE b \in A : \A r \in A : r <= b
  BY <1>2, <1>3 DEF Deepest
<1>9. Deepest(seen, f) \in A /\ \A r \in A : r <= Deepest(seen, f)
  BY <1>7, <1>8
<1>10. \A b \in A : b \in Nat
  BY <1>3
<1> QED
  BY <1>3, <1>9, <1>10

(* One request changes at a time.                                                          *)
LEMMA OneTask ==
    ASSUME TaskInv, Kept, queue'.kind = queue.kind, queue'.argument = queue.argument,
           known # None => known' = known, NEW c \in Clients, NEW t, t \in Task, Sound(t)',
           task' = [task EXCEPT ![c] = t]
    PROVE  TaskInv'
<1>1. task' \in [Clients -> Task]
  BY DEF TaskInv
<1>2. ASSUME NEW d \in Clients PROVE Sound(task[d])'
  <2>1. PICK s : s = task[d]
    OBVIOUS
  <2>2. Sound(s)'
    BY <2>1, SoundKept DEF TaskInv
  <2>3. task'[d] = IF d = c THEN t ELSE s
    BY <2>1 DEF TaskInv
  <2>4. PICK u : u = task'[d]
    OBVIOUS
  <2>5. Sound(u)'
    BY <2>2, <2>3, <2>4
  <2> QED
    BY <2>4, <2>5 DEF Sound, Sorted, Reaches, Allowed, Addressed, AtOf
<1> QED
  BY <1>1, <1>2 DEF TaskInv

(* Without a step of theirs requests stay sound.                                           *)
LEMMA NoTask ==
    ASSUME TaskInv, Kept, queue'.kind = queue.kind, queue'.argument = queue.argument,
           known # None => known' = known, task' = task
    PROVE  TaskInv'
<1>1. ASSUME NEW d \in Clients PROVE Sound(task[d])'
  <2>1. PICK s : s = task[d]
    OBVIOUS
  <2>2. Sound(s)'
    BY <2>1, SoundKept DEF TaskInv
  <2> QED
    BY <2>1, <2>2 DEF Sound, Sorted, Reaches, Allowed, Addressed, AtOf
<1> QED
  BY <1>1 DEF TaskInv
(* A request that ends, or goes on with what it holds, leaves the requests sound.           *)
LEMMA RequestMoves ==
    ASSUME TaskInv, Kept, queue'.kind = queue.kind, queue'.argument = queue.argument,
           known # None => known' = known, NEW c \in Clients, NEW t, t \in Task,
           \/ t = Idle
           \/ /\ t.seen = task[c].seen /\ t.job = task[c].job /\ t.print = task[c].print
              /\ t.scan = task[c].scan /\ task[c].pc # "idle" /\ t.pc # "scanning"
              /\ t.pc = "publishing" => t.job = "publish",
           task' = [task EXCEPT ![c] = t]
    PROVE  TaskInv'
<1>1. Sound(t)
  <2>1. PICK s : s = task[c]
    OBVIOUS
  <2>2. Sound(s)
    BY <2>1 DEF TaskInv
  <2> QED
    BY <2>1, <2>2, IdleIsSound, StillSound
<1>2. Sound(t)'
  BY <1>1, SoundKept
<1> QED
  BY <1>2, OneTask

(* The guard's word: the queue may be scanned, by what it was judged by.                   *)
LEMMA GuardKeeps ==
    ASSUME QueueInv, TaskInv, Kept, NEW c \in Clients, Guard(c)
    PROVE  TaskInv'
<1>1. PICK version \in IF known = None THEN {queue.version} ELSE {known} :
          /\ known' = version
          /\ task' = [task EXCEPT ![c] =
               IF Browsable(version)
               THEN [task[c] EXCEPT !.pc = "scanning", !.judged = <<queue.policy, queue.version>>,
                                    !.scan = IF queue.kind = "quorum" THEN Depth ELSE @]
               ELSE IF task[c].job \in {"head", "snapshot"} THEN Idle
               ELSE [task[c] EXCEPT !.pc = "recording", !.outcome = "failed"]]
  BY DEF Guard
<1>2. /\ task \in [Clients -> Task] /\ queue' = queue /\ task[c].pc = "guarding"
      /\ known # None => known' = known
      /\ version \in {3, 4} /\ version # None
      /\ queue.policy \in Values /\ queue.version \in {3, 4}
  BY <1>1, NoneAssumption DEF Guard, TaskInv, QueueInv
<1>3. CASE Browsable(version)
  <2>1. PICK t : t = [task[c] EXCEPT !.pc = "scanning", !.judged = <<queue.policy, queue.version>>,
                                     !.scan = IF queue.kind = "quorum" THEN Depth ELSE @]
    OBVIOUS
  <2>2. task' = [task EXCEPT ![c] = t]
    BY <1>1, <1>3, <2>1
  <2>3. /\ t \in Task /\ t.pc = "scanning" /\ t.judged = <<queue.policy, queue.version>>
        /\ t.scan = IF queue.kind = "quorum" THEN Depth ELSE task[c].scan
        /\ t.seen = task[c].seen /\ t.job = task[c].job /\ t.print = task[c].print
    <3>1. task[c] \in Task /\ Depth \in 0..Depth /\ <<queue.policy, queue.version>> \in Values \X {3, 4}
      BY <1>2, LimitsAssumption
    <3> QED
      BY <2>1, <3>1 DEF Task
  <2>4. PICK s : s = task[c]
    OBVIOUS
  <2>5. Sound(s)'
    BY <1>2, <2>4, SoundKept DEF TaskInv
  <2>6. Sorted(t.seen)' /\ Addressed(t)'
    BY <1>2, <2>3, <2>4, <2>5 DEF Sound, Sorted, Addressed
  <2>7. Reaches(t)'
    <3>1. CASE queue.kind = "quorum"
      BY <2>3, <3>1, LimitsAssumption DEF Reaches
    <3>2. CASE queue.kind # "quorum"
      BY <2>3, <2>4, <2>5, <3>2 DEF Sound, Reaches, AtOf
    <3> QED
      BY <3>1, <3>2
  <2>8. Allowed(t)'
    <3>1. t.judged \in Values \X {3, 4} /\ t.judged[1] = queue.policy
      BY <1>2, <2>3
    <3>2. queue.kind = "quorum" => DeliveryLimit(Configured(queue.policy), version) = None
      BY <1>3 DEF Browsable
    <3> QED
      BY <1>1, <1>2, <3>1, <3>2 DEF Allowed, Configured
  <2>9. Sound(t)'
    BY <2>6, <2>7, <2>8 DEF Sound
  <2> QED
    BY <1>2, <2>2, <2>3, <2>9, OneTask
<1>4. CASE ~Browsable(version) /\ task[c].job \in {"head", "snapshot"}
  BY <1>1, <1>2, <1>4, IdleIsSound, RequestMoves
<1>5. CASE ~Browsable(version) /\ task[c].job \notin {"head", "snapshot"}
  <2>1. PICK t : t = [task[c] EXCEPT !.pc = "recording", !.outcome = "failed"]
    OBVIOUS
  <2>2. task' = [task EXCEPT ![c] = t]
    BY <1>1, <1>5, <2>1
  <2>3. /\ t \in Task /\ t.pc = "recording" /\ t.scan = task[c].scan
        /\ t.seen = task[c].seen /\ t.job = task[c].job /\ t.print = task[c].print
    BY <1>2, <2>1 DEF Task
  <2> QED
    BY <1>2, <2>2, <2>3, RequestMoves
<1> QED
  BY <1>3, <1>4, <1>5

(* A new action holds what its snapshot showed, and how deep to look for it.                *)
LEMMA ActKeeps ==
    ASSUME QueueInv, ShotInv, TaskInv, Kept, NEW c \in Clients, NEW job \in {"copy", "remove"},
           NEW f \in Prints, NEW id, Act(c, job, f, id)
    PROVE  TaskInv'
<1>1. PICK t : t = [Idle EXCEPT !.pc = "starting", !.job = job, !.print = f, !.seen = Shown(id),
                                !.scan = ScanDepth(Found(id), Deepest(Shown(id), f))]
  OBVIOUS
<1>2. /\ task' = [task EXCEPT ![c] = t] /\ UNCHANGED <<queue, known>>
      /\ t.pc = "starting" /\ t.job = job /\ t.print = f /\ t.seen = Shown(id)
      /\ t.scan = ScanDepth(Found(id), Deepest(Shown(id), f))
      /\ t.judged = None /\ t.outcome = None
  BY <1>1 DEF Act, Idle
<1>3. Sorted(Shown(id))
  <2>1. CASE Found(id)
    BY <2>1, FoundIsKept
  <2>2. CASE ~Found(id)
    BY <2>2 DEF Shown, Sorted
  <2> QED
    BY <2>1, <2>2
<1>4. Window \in Nat \ {0} /\ Depth \in Nat \ {0}
  BY LimitsAssumption
<1>5. \A p \in AtOf(Shown(id), f) : t.scan >= p + Window \/ t.scan >= Depth
  <2>1. SUFFICES ASSUME NEW p \in AtOf(Shown(id), f) PROVE t.scan >= p + Window \/ t.scan >= Depth
    OBVIOUS
  <2>2. PICK d : d = Deepest(Shown(id), f)
    OBVIOUS
  <2>3. p \in Nat /\ d \in Nat /\ p <= d
    BY <1>3, <2>2, DeepestIsDeepest
  <2>4. Found(id)
    BY DEF AtOf, Shown
  <2>5. t.scan = IF d + Window < Depth THEN d + Window ELSE Depth
    BY <1>2, <2>2, <2>4 DEF ScanDepth
  <2> QED
    BY <1>4, <2>3, <2>5
<1>6. t.scan \in 0..Depth \cup {Window}
  <2>1. CASE ~Found(id)
    BY <1>2, <2>1 DEF ScanDepth
  <2>2. CASE Found(id)
    <3>1. PICK d : d = Deepest(Shown(id), f)
      OBVIOUS
    <3>2. t.scan = IF d + Window < Depth THEN d + Window ELSE Depth
      BY <1>2, <2>2, <3>1 DEF ScanDepth
    <3>3. d \in Nat
      <4>1. CASE AtOf(Shown(id), f) = {}
        BY <3>1, <4>1 DEF Deepest
      <4>2. CASE AtOf(Shown(id), f) # {}
        BY <1>3, <3>1, <4>2, DeepestIsDeepest
      <4> QED
        BY <4>1, <4>2
    <3> QED
      BY <1>4, <3>2, <3>3
  <2> QED
    BY <2>1, <2>2
<1>7. t \in Task
  <2>1. Shown(id) \in Seq(Ids)
    BY <1>3, SeqMonotonic DEF Sorted, Existing
  <2> QED
    BY <1>1, <1>2, <1>6, <2>1 DEF Task, Idle, Jobs
<1>8. Sound(t)
  <2>1. Reaches(t)
    BY <1>2, <1>5 DEF Reaches
  <2> QED
    BY <1>2, <1>3, <2>1 DEF Sound, Allowed, Addressed
<1>9. Sound(t)'
  BY <1>2, <1>8, SoundKept
<1> QED
  BY <1>2, <1>7, <1>9, OneTask
(* Every step keeps the requests sound.                                                    *)
LEMMA TaskSteps ==
    ASSUME QueueInv, ShotInv, TaskInv, Kept, [Next]_vars
    PROVE  TaskInv'
<1>1. queue'.kind = queue.kind /\ queue'.argument = queue.argument
  BY QueueSteps
<1>2. \A c \in Clients : task[c] \in Task
  BY DEF TaskInv
<1>3. ASSUME NEW c \in Clients, GuardFails(c) PROVE TaskInv'
  <2>1. CASE task[c].job \in {"head", "snapshot"}
    BY <1>1, <1>3, <2>1, IdleIsSound, RequestMoves DEF GuardFails
  <2>2. CASE task[c].job \notin {"head", "snapshot"}
    <3>1. PICK t : t = [task[c] EXCEPT !.pc = "recording", !.outcome = "failed"]
      OBVIOUS
    <3>2. task' = [task EXCEPT ![c] = t] /\ known' = known /\ task[c].pc = "guarding"
      BY <1>3, <2>2, <3>1 DEF GuardFails
    <3>3. /\ t \in Task /\ t.pc = "recording" /\ t.scan = task[c].scan
          /\ t.seen = task[c].seen /\ t.job = task[c].job /\ t.print = task[c].print
      BY <1>2, <3>1 DEF Task
    <3> QED
      BY <1>1, <3>2, <3>3, RequestMoves
  <2> QED
    BY <2>1, <2>2
<1>4. ASSUME NEW c \in Clients, Scan(c) \/ Record(c) PROVE TaskInv'
  <2>1. task' = [task EXCEPT ![c] = Idle] /\ known' = known
    BY <1>4 DEF Scan, Record
  <2> QED
    BY <1>1, <2>1, IdleIsSound, RequestMoves
<1>5. ASSUME NEW c \in Clients, Start(c) PROVE TaskInv'
  <2>1. CASE task' = [task EXCEPT ![c] = Idle]
    BY <1>1, <1>5, <2>1, IdleIsSound, RequestMoves DEF Start
  <2>2. CASE task' = [task EXCEPT ![c].pc = IF task[c].job = "publish" THEN "publishing"
                                                                       ELSE "guarding"]
    <3>1. PICK pc : pc = IF task[c].job = "publish" THEN "publishing" ELSE "guarding"
      OBVIOUS
    <3>2. PICK t : t = [task[c] EXCEPT !.pc = pc]
      OBVIOUS
    <3>3. task' = [task EXCEPT ![c] = t] /\ known' = known /\ task[c].pc = "starting"
      BY <1>5, <2>2, <3>1, <3>2 DEF Start
    <3>4. /\ t \in Task /\ t.pc = pc /\ t.scan = task[c].scan
          /\ t.seen = task[c].seen /\ t.job = task[c].job /\ t.print = task[c].print
      BY <1>2, <3>1, <3>2 DEF Task
    <3> QED
      BY <1>1, <3>1, <3>3, <3>4, RequestMoves
  <2> QED
    BY <1>5, <2>1, <2>2 DEF Start
<1>6. ASSUME NEW c \in Clients, Operate(c) \/ Publish(c) PROVE TaskInv'
  <2>1. PICK outcome \in {"success", "not_found", "ambiguous", "failed"} : End(c, outcome)
    BY <1>6 DEF Operate, Publish
  <2>2. PICK t : t = [task[c] EXCEPT !.pc = "recording", !.outcome = outcome]
    OBVIOUS
  <2>3. task' = [task EXCEPT ![c] = t] /\ known' = known /\ task[c].pc \in {"scanning", "publishing"}
    BY <1>6, <2>1, <2>2 DEF End, Operate, Publish, TaskInv
  <2>4. /\ t \in Task /\ t.pc = "recording" /\ t.scan = task[c].scan
        /\ t.seen = task[c].seen /\ t.job = task[c].job /\ t.print = task[c].print
    BY <1>2, <2>2 DEF Task
  <2> QED
    BY <1>1, <2>3, <2>4, RequestMoves
<1>7. ASSUME NEW c \in Clients, NEW job \in {"head", "snapshot"}, Read(c, job) PROVE TaskInv'
  <2>1. PICK t : t = [Idle EXCEPT !.pc = "guarding", !.job = job,
                                  !.scan = IF job = "head" THEN Window ELSE Depth]
    OBVIOUS
  <2>2. task' = [task EXCEPT ![c] = t] /\ UNCHANGED <<queue, known>>
    BY <1>7, <2>1 DEF Read
  <2>3. t.pc = "guarding" /\ t.job = job /\ t.seen = <<>> /\ t \in Task
    <3>1. (IF job = "head" THEN Window ELSE Depth) \in 0..Depth \cup {Window}
      BY LimitsAssumption
    <3>2. t \in Task
      BY <2>1, <3>1, IdleIsSound DEF Task, Jobs
    <3> QED
      BY <2>1, <3>2 DEF Idle
  <2>4. Sound(t)
    BY <2>3 DEF Sound, Sorted, Reaches, AtOf, Allowed, Addressed
  <2> QED
    BY <2>2, <2>3, <2>4, SoundKept, OneTask
<1>8. ASSUME NEW c \in Clients, NEW f \in Prints, Compose(c, f) PROVE TaskInv'
  <2>1. PICK t : t = [Idle EXCEPT !.pc = "starting", !.job = "publish", !.print = f]
    OBVIOUS
  <2>2. task' = [task EXCEPT ![c] = t] /\ UNCHANGED <<queue, known>>
    BY <1>8, <2>1 DEF Compose
  <2>3. t.pc = "starting" /\ t.job = "publish" /\ t.seen = <<>> /\ t.print = f /\ t \in Task
    <3>1. t \in Task
      BY <2>1, IdleIsSound DEF Task, Jobs
    <3> QED
      BY <2>1, <3>1 DEF Idle
  <2>4. Sound(t)
    BY <2>3 DEF Sound, Sorted, Reaches, Allowed, Addressed
  <2> QED
    BY <2>2, <2>3, <2>4, SoundKept, OneTask
<1>9. CASE ListQueues
  BY <1>1, <1>9, NoTask DEF ListQueues
<1>10. CASE Restart
  <2>1. task' = [c \in Clients |-> Idle]
    BY <1>10 DEF Restart
  <2>2. known' = None /\ queue' = queue
    BY <1>10 DEF Restart
  <2>3. Sound(Idle)'
    <3>1. Sorted(<<>>)' /\ DOMAIN <<>> = {}
      BY DEF Sorted
    <3>2. /\ Idle.pc = "idle" /\ Idle.job = None /\ Idle.seen = <<>>
      BY DEF Idle
    <3> QED
      BY <3>1, <3>2 DEF Sound, Sorted, Reaches, AtOf, Allowed, Addressed
  <2>4. task' \in [Clients -> Task]
    BY <2>1, IdleIsSound
  <2>5. ASSUME NEW c \in Clients PROVE Sound(task[c])'
    <3>1. task'[c] = Idle
      BY <2>1
    <3> QED
      BY <2>3, <3>1 DEF Sound, Sorted, Reaches, Allowed, Addressed, AtOf
  <2> QED
    BY <2>4, <2>5 DEF TaskInv
<1>11. CASE (\E id \in 1..issued : Page(id)) \/ (\E f \in Prints : Produce(f)) \/ Expire
              \/ Consume \/ Administer \/ UNCHANGED vars
  BY <1>1, <1>11, NoTask DEF Page, Produce, Expire, Consume, Administer, vars
<1> QED
  BY <1>3, <1>4, <1>5, <1>6, <1>7, <1>8, <1>9, <1>10, <1>11, GuardKeeps, ActKeeps DEF Next
(******************************* The audit trail ***************************)

(* A set of requests in which one changes.                                                 *)
LEMMA OneMember ==
    ASSUME NEW A \in SUBSET Clients, NEW B \in SUBSET Clients, NEW c, A \ {c} = B \ {c}
    PROVE  /\ Cardinality(A) \in Nat /\ Cardinality(B) \in Nat
           /\ Cardinality(B) = Cardinality(A) + (IF c \in B THEN 1 ELSE 0) - (IF c \in A THEN 1 ELSE 0)
<1>1. /\ IsFiniteSet(A) /\ IsFiniteSet(B)
      /\ Cardinality(A) \in Nat /\ Cardinality(B) \in Nat
  BY ClientsAssumption, FS_Subset, FS_CardinalityType
<1>2. /\ Cardinality(A \ {c}) = IF c \in A THEN Cardinality(A) - 1 ELSE Cardinality(A)
      /\ Cardinality(B \ {c}) = IF c \in B THEN Cardinality(B) - 1 ELSE Cardinality(B)
  BY <1>1, FS_RemoveElement
<1> QED
  BY <1>1, <1>2

(* An operation that is under way, and one that reports a success.                         *)
UnderWay(t) == t.pc \in {"guarding", "scanning", "publishing"} /\ t.job \in {"copy", "remove", "publish"}
Succeeds(t) == t.outcome = "success"
One(b) == IF b THEN 1 ELSE 0

(* One request moves, and the rows and the operations move with it.                        *)
LEMMA CountMoves ==
    ASSUME TaskInv, CountInv, NEW c \in Clients, NEW t, t \in Task, task' = [task EXCEPT ![c] = t],
           rows' \in [{"started", "success"} -> Nat], acted' \in Nat,
           acted' + One(UnderWay(t)) + rows["started"]
              <= acted + One(UnderWay(task[c])) + rows'["started"],
           rows'["success"] + One(Succeeds(t)) + acted
              <= rows["success"] + One(Succeeds(task[c])) + acted'
    PROVE  CountInv'
<1>1. PICK A : A = {d \in Clients : UnderWay(task[d])}
  OBVIOUS
<1>2. PICK B : B = {d \in Clients : UnderWay(task'[d])}
  OBVIOUS
<1>3. PICK F : F = {d \in Clients : Succeeds(task[d])}
  OBVIOUS
<1>4. PICK G : G = {d \in Clients : Succeeds(task'[d])}
  OBVIOUS
<1>5. \A d \in Clients : task'[d] = IF d = c THEN t ELSE task[d]
  BY DEF TaskInv
<1>6. A \ {c} = B \ {c} /\ F \ {c} = G \ {c}
  BY <1>1, <1>2, <1>3, <1>4, <1>5
<1>7. /\ (c \in A <=> UnderWay(task[c])) /\ (c \in B <=> UnderWay(t))
      /\ (c \in F <=> Succeeds(task[c])) /\ (c \in G <=> Succeeds(t))
  BY <1>1, <1>2, <1>3, <1>4, <1>5
<1>8. /\ Cardinality(A) \in Nat /\ Cardinality(B) \in Nat
      /\ Cardinality(B) = Cardinality(A) + One(UnderWay(t)) - One(UnderWay(task[c]))
  BY <1>1, <1>2, <1>6, <1>7, OneMember DEF One
<1>9. /\ Cardinality(F) \in Nat /\ Cardinality(G) \in Nat
      /\ Cardinality(G) = Cardinality(F) + One(Succeeds(t)) - One(Succeeds(task[c]))
  BY <1>3, <1>4, <1>6, <1>7, OneMember DEF One
<1>10. /\ acted + Cardinality(A) <= rows["started"] /\ rows["success"] + Cardinality(F) <= acted
  BY <1>1, <1>3 DEF CountInv, ActedIsOnRecord, UnderWay, Succeeds
<1>11. /\ {rows["started"], rows["success"], acted, acted'} \subseteq Nat
       /\ {rows'["started"], rows'["success"]} \subseteq Nat
  BY DEF CountInv
<1>12. {One(UnderWay(t)), One(UnderWay(task[c])), One(Succeeds(t)), One(Succeeds(task[c]))} \subseteq Nat
  BY DEF One
<1>13. acted' + Cardinality(B) <= rows'["started"]
  BY <1>8, <1>10, <1>11, <1>12
<1>14. rows'["success"] + Cardinality(G) <= acted'
  BY <1>9, <1>10, <1>11, <1>12
<1>15. ActedIsOnRecord'
  BY <1>2, <1>4, <1>13, <1>14 DEF ActedIsOnRecord, UnderWay, Succeeds
<1> QED
  BY <1>15 DEF CountInv

(* A request that goes on without a row and without an operation: it is no more under way   *)
(* than it was, and reports no success that it did not report before.                      *)
LEMMA NothingCounts ==
    ASSUME TaskInv, CountInv, NEW c \in Clients, NEW t, t \in Task, task' = [task EXCEPT ![c] = t],
           UNCHANGED <<rows, acted>>,
           UnderWay(t) => UnderWay(task[c]), Succeeds(t) => Succeeds(task[c])
    PROVE  CountInv'
<1>1. {rows["started"], rows["success"], acted} \subseteq Nat
  BY DEF CountInv
<1>2. /\ {One(UnderWay(t)), One(UnderWay(task[c])), One(Succeeds(t)), One(Succeeds(task[c]))} \subseteq Nat
      /\ One(UnderWay(t)) <= One(UnderWay(task[c])) /\ One(Succeeds(t)) <= One(Succeeds(task[c]))
  BY DEF One
<1>3. /\ acted' + One(UnderWay(t)) + rows["started"]
            <= acted + One(UnderWay(task[c])) + rows'["started"]
      /\ rows'["success"] + One(Succeeds(t)) + acted
            <= rows["success"] + One(Succeeds(task[c])) + acted'
  BY <1>1, <1>2
<1> QED
  BY <1>3, CountMoves DEF CountInv

(* A row is one more row.                                                                  *)
LEMMA OneRow ==
    ASSUME CountInv, NEW result \in {"started", "success"}, Row(result)
    PROVE  /\ rows' \in [{"started", "success"} -> Nat] /\ rows'[result] = rows[result] + 1
           /\ \A other \in {"started", "success"} \ {result} : rows'[other] = rows[other]
BY DEF Row, CountInv
(* What no request holds counts for nothing.                                               *)
LEMMA IdleCountsNot == Idle \in Task /\ ~UnderWay(Idle) /\ ~Succeeds(Idle)
BY IdleIsSound, NoneAssumption DEF Idle, UnderWay, Succeeds

(* The guard's word is no row and no operation.                                            *)
LEMMA GuardCounts ==
    ASSUME QueueInv, TaskInv, CountInv, NEW c \in Clients, Guard(c) \/ GuardFails(c)
    PROVE  CountInv'
<1>1. /\ task[c] \in Task /\ task[c].pc = "guarding" /\ UNCHANGED <<rows, acted>>
      /\ queue.policy \in Values /\ queue.version \in {3, 4}
  BY DEF TaskInv, Guard, GuardFails, QueueInv
<1>2. CASE task' = [task EXCEPT ![c] = Idle]
  BY <1>1, <1>2, IdleCountsNot, NothingCounts
<1>3. PICK t : t = [task[c] EXCEPT !.pc = "recording", !.outcome = "failed"]
  OBVIOUS
<1>4. t \in Task /\ ~UnderWay(t) /\ ~Succeeds(t)
  <2>1. t \in Task /\ t.pc = "recording" /\ t.outcome = "failed"
    BY <1>1, <1>3 DEF Task
  <2> QED
    BY <2>1 DEF UnderWay, Succeeds
<1>5. CASE task' = [task EXCEPT ![c] = t]
  BY <1>1, <1>4, <1>5, NothingCounts
<1>6. PICK u : u = [task[c] EXCEPT !.pc = "scanning", !.judged = <<queue.policy, queue.version>>,
                                   !.scan = IF queue.kind = "quorum" THEN Depth ELSE @]
  OBVIOUS
<1>7. u \in Task /\ (UnderWay(u) => UnderWay(task[c])) /\ (Succeeds(u) => Succeeds(task[c]))
  <2>1. Depth \in 0..Depth /\ <<queue.policy, queue.version>> \in Values \X {3, 4}
    BY <1>1, LimitsAssumption
  <2>2. /\ u \in Task /\ u.pc = "scanning" /\ u.job = task[c].job /\ u.outcome = task[c].outcome
    BY <1>1, <1>6, <2>1 DEF Task
  <2> QED
    BY <1>1, <2>2 DEF UnderWay, Succeeds
<1>8. CASE task' = [task EXCEPT ![c] = u]
  BY <1>1, <1>7, <1>8, NothingCounts
<1>9. GuardFails(c) => task' = [task EXCEPT ![c] = Idle] \/ task' = [task EXCEPT ![c] = t]
  BY <1>3 DEF GuardFails
<1>10. Guard(c) => \/ task' = [task EXCEPT ![c] = Idle] \/ task' = [task EXCEPT ![c] = t]
                   \/ task' = [task EXCEPT ![c] = u]
  <2>1. SUFFICES ASSUME Guard(c)
                 PROVE  \/ task' = [task EXCEPT ![c] = Idle] \/ task' = [task EXCEPT ![c] = t]
                        \/ task' = [task EXCEPT ![c] = u]
    OBVIOUS
  <2>2. PICK version :
          task' = [task EXCEPT ![c] =
               IF Browsable(version)
               THEN [task[c] EXCEPT !.pc = "scanning", !.judged = <<queue.policy, queue.version>>,
                                    !.scan = IF queue.kind = "quorum" THEN Depth ELSE @]
               ELSE IF task[c].job \in {"head", "snapshot"} THEN Idle
               ELSE [task[c] EXCEPT !.pc = "recording", !.outcome = "failed"]]
    BY <2>1 DEF Guard
  <2> QED
    BY <1>3, <1>6, <2>2
<1> QED
  BY <1>2, <1>5, <1>8, <1>9, <1>10

(* An operation has its row, and acts once at most.                                        *)
LEMMA OperationCounts ==
    ASSUME TaskInv, CountInv, NEW c \in Clients, Operate(c) \/ Publish(c)
    PROVE  CountInv'
<1>1. PICK outcome \in {"success", "not_found", "ambiguous", "failed"} :
          /\ End(c, outcome) /\ acted' \in {acted, acted + 1}
          /\ outcome = "success" => acted' = acted + 1
  BY DEF Operate, Publish
<1>2. task[c] \in Task /\ UnderWay(task[c]) /\ rows' = rows
  BY DEF TaskInv, Sound, Addressed, Operate, Publish, UnderWay
<1>3. PICK t : t = [task[c] EXCEPT !.pc = "recording", !.outcome = outcome]
  OBVIOUS
<1>4. task' = [task EXCEPT ![c] = t]
  BY <1>1, <1>3 DEF End, TaskInv
<1>5. /\ t \in Task /\ t.pc = "recording" /\ t.outcome = outcome
  BY <1>2, <1>3 DEF Task
<1>6. ~UnderWay(t) /\ (Succeeds(t) => outcome = "success")
  BY <1>5 DEF UnderWay, Succeeds
<1>7. /\ acted \in Nat /\ acted' \in Nat /\ rows["started"] \in Nat /\ rows["success"] \in Nat
      /\ acted' = acted \/ acted' = acted + 1
  <2>1. acted \in Nat /\ rows["started"] \in Nat /\ rows["success"] \in Nat
    BY DEF CountInv
  <2>2. acted' \in {acted, acted + 1}
    BY <1>1
  <2>3. CASE acted' = acted
    BY <2>1, <2>3
  <2>4. CASE acted' = acted + 1
    BY <2>1, <2>4
  <2> QED
    BY <2>2, <2>3, <2>4
<1>8. PICK won \in {0, 1} : won = One(Succeeds(t)) /\ (won = 1 => outcome = "success")
  BY <1>6 DEF One
<1>9. PICK had \in {0, 1} : had = One(Succeeds(task[c]))
  BY DEF One
<1>10. One(UnderWay(t)) = 0 /\ One(UnderWay(task[c])) = 1
  BY <1>2, <1>6 DEF One
<1>11. acted' + 0 + rows["started"] <= acted + 1 + rows["started"]
  BY <1>7
<1>12. rows["success"] + won + acted <= rows["success"] + had + acted'
  <2>1. CASE won = 0
    BY <1>7, <1>9, <2>1
  <2>2. CASE won = 1
    <3>1. acted' = acted + 1
      BY <1>1, <1>8, <2>2
    <3> QED
      BY <1>7, <1>9, <2>2, <3>1
  <2> QED
    BY <1>8, <2>1, <2>2
<1>13. rows'["started"] = rows["started"] /\ rows'["success"] = rows["success"]
  BY <1>2
<1> QED
  BY <1>2, <1>4, <1>5, <1>7, <1>8, <1>9, <1>10, <1>11, <1>12, <1>13, CountMoves DEF CountInv

(* A start is one row, or nothing starts; a success that is recorded was one.               *)
LEMMA RowsCount ==
    ASSUME TaskInv, CountInv, NEW c \in Clients, Start(c) \/ Record(c)
    PROVE  CountInv'
<1>1. task[c] \in Task /\ acted' = acted /\ acted \in Nat
      /\ {rows["started"], rows["success"]} \subseteq Nat
  BY DEF TaskInv, CountInv, Start, Record
<1>2. \A b \in BOOLEAN : One(b) \in {0, 1}
  BY DEF One
<1>3. CASE task' = [task EXCEPT ![c] = Idle] /\ rows' = rows
  BY <1>1, <1>3, IdleCountsNot, NothingCounts
<1>4. CASE Record(c) /\ task[c].outcome = "success" /\ Row("success")
  <2>1. /\ rows' \in [{"started", "success"} -> Nat]
        /\ rows'["success"] = rows["success"] + 1 /\ rows'["started"] = rows["started"]
    BY <1>4, OneRow
  <2>2. /\ One(UnderWay(Idle)) = 0 /\ One(Succeeds(Idle)) = 0 /\ One(Succeeds(task[c])) = 1
        /\ One(UnderWay(task[c])) \in {0, 1}
    BY <1>4, IdleCountsNot DEF One, Succeeds
  <2>3. /\ acted' + One(UnderWay(Idle)) + rows["started"]
              <= acted + One(UnderWay(task[c])) + rows'["started"]
        /\ rows'["success"] + One(Succeeds(Idle)) + acted
              <= rows["success"] + One(Succeeds(task[c])) + acted'
    BY <1>1, <2>1, <2>2
  <2> QED
    BY <1>1, <1>4, <2>1, <2>3, IdleCountsNot, CountMoves DEF Record
<1>5. CASE Start(c) /\ Row("started")
                    /\ task' = [task EXCEPT ![c].pc = IF task[c].job = "publish" THEN "publishing"
                                                                                 ELSE "guarding"]
  <2>1. /\ rows' \in [{"started", "success"} -> Nat]
        /\ rows'["started"] = rows["started"] + 1 /\ rows'["success"] = rows["success"]
    BY <1>5, OneRow
  <2>2. PICK pc : pc = IF task[c].job = "publish" THEN "publishing" ELSE "guarding"
    OBVIOUS
  <2>3. PICK t : t = [task[c] EXCEPT !.pc = pc]
    OBVIOUS
  <2>4. task' = [task EXCEPT ![c] = t]
    BY <1>5, <2>2, <2>3
  <2>5. t \in Task /\ t.outcome = task[c].outcome
    BY <1>1, <2>2, <2>3 DEF Task
  <2>6. /\ One(UnderWay(t)) \in {0, 1} /\ One(UnderWay(task[c])) \in {0, 1}
        /\ One(Succeeds(t)) = One(Succeeds(task[c])) /\ One(Succeeds(t)) \in {0, 1}
    BY <2>5 DEF One, Succeeds
  <2>7. /\ acted' + One(UnderWay(t)) + rows["started"]
              <= acted + One(UnderWay(task[c])) + rows'["started"]
        /\ rows'["success"] + One(Succeeds(t)) + acted
              <= rows["success"] + One(Succeeds(task[c])) + acted'
    BY <1>1, <2>1, <2>6
  <2> QED
    BY <1>1, <2>1, <2>4, <2>5, <2>7, CountMoves
<1> QED
  BY <1>3, <1>4, <1>5 DEF Start, Record

(* Every step keeps the counts of the audit trail.                                         *)
LEMMA CountSteps ==
    ASSUME QueueInv, ShotInv, TaskInv, TaskInv', CountInv, [Next]_vars
    PROVE  CountInv'
<1>1. ASSUME NEW c \in Clients, Scan(c) PROVE CountInv'
  BY <1>1, IdleCountsNot, NothingCounts DEF Scan
<1>2. ASSUME NEW c \in Clients,
             \/ \E job \in {"head", "snapshot"} : Read(c, job)
             \/ \E f \in Prints : \/ Compose(c, f)
                                  \/ \E job \in {"copy", "remove"}, id \in 0..issued : Act(c, job, f, id)
      PROVE CountInv'
  <2>1. UNCHANGED <<rows, acted>>
    BY <1>2 DEF Read, Compose, Act
  <2>2. ASSUME NEW t, task' = [task EXCEPT ![c] = t], t.outcome = None,
               t.pc = "starting" \/ t.job \in {"head", "snapshot"}
        PROVE  CountInv'
    <3>1. t \in Task
      BY <2>2 DEF TaskInv
    <3>2. ~UnderWay(t) /\ ~Succeeds(t)
      BY <2>2, NoneAssumption DEF UnderWay, Succeeds
    <3> QED
      BY <2>1, <2>2, <3>1, <3>2, NothingCounts
  <2>3. ASSUME NEW job \in {"head", "snapshot"}, Read(c, job) PROVE CountInv'
    <3>1. PICK t : t = [Idle EXCEPT !.pc = "guarding", !.job = job,
                                    !.scan = IF job = "head" THEN Window ELSE Depth]
      OBVIOUS
    <3>2. task' = [task EXCEPT ![c] = t] /\ t.job = job /\ t.outcome = None
      BY <2>3, <3>1 DEF Read, Idle
    <3> QED
      BY <2>2, <3>2
  <2>4. ASSUME NEW f \in Prints, Compose(c, f) PROVE CountInv'
    <3>1. PICK t : t = [Idle EXCEPT !.pc = "starting", !.job = "publish", !.print = f]
      OBVIOUS
    <3>2. task' = [task EXCEPT ![c] = t] /\ t.pc = "starting" /\ t.outcome = None
      BY <2>4, <3>1 DEF Compose, Idle
    <3> QED
      BY <2>2, <3>2
  <2>5. ASSUME NEW f \in Prints, NEW job, NEW id, Act(c, job, f, id) PROVE CountInv'
    <3>1. PICK t : t = [Idle EXCEPT !.pc = "starting", !.job = job, !.print = f, !.seen = Shown(id),
                                    !.scan = ScanDepth(Found(id), Deepest(Shown(id), f))]
      OBVIOUS
    <3>2. task' = [task EXCEPT ![c] = t] /\ t.pc = "starting" /\ t.outcome = None
      BY <2>5, <3>1 DEF Act, Idle
    <3> QED
      BY <2>2, <3>2
  <2> QED
    BY <1>2, <2>3, <2>4, <2>5
<1>3. CASE Restart
  <2>1. /\ task' = [c \in Clients |-> Idle] /\ UNCHANGED <<rows, acted>>
    BY <1>3 DEF Restart
  <2>2. /\ {c \in Clients : UnderWay(task'[c])} = {} /\ {c \in Clients : Succeeds(task'[c])} = {}
    BY <2>1, IdleCountsNot
  <2>3. PICK A : A = {c \in Clients : UnderWay(task[c])}
    OBVIOUS
  <2>4. PICK F : F = {c \in Clients : Succeeds(task[c])}
    OBVIOUS
  <2>5. Cardinality(A) \in Nat /\ Cardinality(F) \in Nat
    <3>1. A \in SUBSET Clients /\ F \in SUBSET Clients
      BY <2>3, <2>4
    <3> QED
      BY <3>1, ClientsAssumption, FS_Subset, FS_CardinalityType
  <2>6. acted + Cardinality(A) <= rows["started"] /\ rows["success"] + Cardinality(F) <= acted
    BY <2>3, <2>4 DEF CountInv, ActedIsOnRecord, UnderWay, Succeeds
  <2>7. {rows["started"], rows["success"], acted} \subseteq Nat
    BY DEF CountInv
  <2>8. acted + 0 <= rows["started"] /\ rows["success"] + 0 <= acted
    BY <2>5, <2>6, <2>7
  <2>9. ActedIsOnRecord'
    BY <2>1, <2>2, <2>8, FS_EmptySet DEF ActedIsOnRecord, UnderWay, Succeeds
  <2> QED
    BY <2>1, <2>9 DEF CountInv
<1>4. CASE (\E id \in 1..issued : Page(id)) \/ (\E f \in Prints : Produce(f)) \/ Expire \/ ListQueues
              \/ Consume \/ Administer \/ UNCHANGED vars
  <2>1. UNCHANGED <<task, rows, acted>>
    BY <1>4 DEF Page, Produce, Expire, ListQueues, Consume, Administer, vars
  <2> QED
    BY <2>1 DEF CountInv, ActedIsOnRecord
<1> QED
  BY <1>1, <1>2, <1>3, <1>4, GuardCounts, OperationCounts, RowsCount DEF Next
(******************************** The theorems *****************************)

(* No request, no message and no snapshot at first.                                        *)
LEMMA InitIsSound == Init => BrowseInv
<1> SUFFICES ASSUME Init PROVE BrowseInv
  OBVIOUS
<1>1. QueueInv
  BY DEF Init, QueueInv
<1>2. MessageInv
  <2>1. Existing = {}
    BY DEF Init, Existing
  <2>2. 0 \in 0..MaxMessages /\ Existing = 1..0 /\ 0 \in 0..MaxReturns
    BY <2>1, LimitsAssumption
  <2>3. \E n \in 0..MaxMessages : Existing = 1..n
    BY <2>2
  <2>4. /\ messages \in [print : [Ids -> Prints \cup {None}], ready : SUBSET Ids, held : SUBSET Ids]
        /\ messages.ready = {} /\ messages.held = {} /\ dropped = {}
    BY DEF Init
  <2>5. returns \in [Ids -> 0..MaxReturns]
    BY <2>2 DEF Init
  <2> QED
    BY <2>1, <2>3, <2>4, <2>5 DEF MessageInv
<1>3. ShotInv
  <2>1. /\ <<>> \in Seq(Shot) /\ Len(<<>>) = 0 /\ DOMAIN <<>> = {}
        /\ 0 <= MaxSnapshots /\ 0 \in 0..MaxScans
    BY LimitsAssumption
  <2> QED
    BY <2>1 DEF Init, ShotInv
<1>4. TaskInv
  BY IdleIsSound DEF Init, TaskInv
<1>5. CountInv
  <2>1. /\ {c \in Clients : UnderWay(task[c])} = {} /\ {c \in Clients : Succeeds(task[c])} = {}
    BY IdleCountsNot DEF Init
  <2>2. acted = 0 /\ rows = [r \in {"started", "success"} |-> 0]
    BY DEF Init
  <2>3. acted + 0 <= rows["started"] /\ rows["success"] + 0 <= acted
    BY <2>2
  <2>4. ActedIsOnRecord
    BY <2>1, <2>3, FS_EmptySet DEF ActedIsOnRecord, UnderWay, Succeeds
  <2> QED
    BY <2>2, <2>4 DEF CountInv
<1> QED
  BY <1>1, <1>2, <1>3, <1>4, <1>5 DEF BrowseInv

(* Every step keeps the invariant, and the past.                                           *)
LEMMA NextIsSound == BrowseInv /\ [Next]_vars => BrowseInv' /\ Kept
<1> SUFFICES ASSUME BrowseInv, [Next]_vars PROVE BrowseInv' /\ Kept
  OBVIOUS
<1>1. QueueInv /\ MessageInv /\ ShotInv /\ TaskInv /\ CountInv
  BY DEF BrowseInv
<1>2. QueueInv' /\ MessageInv' /\ Kept
  BY <1>1, QueueSteps, MessageSteps
<1>3. ShotInv' /\ TaskInv'
  BY <1>1, <1>2, ShotSteps, TaskSteps
<1>4. CountInv'
  BY <1>1, <1>3, CountSteps
<1> QED
  BY <1>2, <1>3, <1>4 DEF BrowseInv

(* What the program keeps of a queue is sound at all times: snapshots are sorted and few,   *)
(* actions reach what they were shown, scans were allowed, and the trail counts right.      *)
THEOREM InductiveInvariant == Spec => []BrowseInv
BY InitIsSound, NextIsSound, PTL DEF Spec

(* Every variable keeps its type, whatever requests, brokers and administrators do.         *)
THEOREM TypeCorrect == Spec => []TypeOK
<1>1. BrowseInv => TypeOK
  BY DEF BrowseInv, QueueInv, MessageInv, ShotInv, TaskInv, CountInv, TypeOK
<1> QED
  BY <1>1, InductiveInvariant, PTL

(* "no audit trail -> no publish" (actions.py:333): whatever fails, an operation has its    *)
(* row, and no row claims a success that was none.                                          *)
THEOREM ActsAreOnRecord == Spec => []ActedIsOnRecord
<1>1. BrowseInv => ActedIsOnRecord
  BY DEF BrowseInv, CountInv
<1> QED
  BY <1>1, InductiveInvariant, PTL

(* The smallest of one or two limits is one of them.                                       *)
LEMMA LeastOfTwo ==
    ASSUME NEW a, NEW b, NEW S, S \subseteq {a, b}, S \subseteq Int, S # {}
    PROVE  Least(S) \in S
<1>1. \E v \in S : \A w \in S : v <= w
  <2>1. CASE a \in S /\ b \in S
    BY <2>1
  <2>2. CASE a \in S /\ b \notin S
    BY <2>2
  <2>3. CASE a \notin S
    <3>1. S = {b} /\ b \in Int
      BY <2>3
    <3> QED
      BY <3>1
  <2> QED
    BY <2>1, <2>2, <2>3
<1> QED
  BY <1>1 DEF Least

(* Where the guard sees no limit, the broker drops nothing for being returned.              *)
LEMMA GuardIsRight ==
    ASSUME QueueInv, DeliveryLimit(Configured(queue.policy), queue.version) = None, NEW n \in Nat
    PROVE  ~TooMany(n)
<1>1. PICK values : values = Configured(queue.policy)
  OBVIOUS
<1>2. values \subseteq {queue.argument, queue.policy} /\ values \subseteq Limits /\ values \subseteq Int
  BY <1>1, LimitsAssumption DEF QueueInv, Configured, Values
<1>3. PICK limits : limits = {v \in values : v >= 0}
  OBVIOUS
<1>4. limits \subseteq {queue.argument, queue.policy} /\ limits \subseteq Int
  BY <1>2, <1>3
<1>5. None \notin Int /\ DefaultLimit \in Int /\ 0 \in Int
  BY NoneAssumption, LimitsAssumption
<1>6. values # {} => Least(values) # None
  BY <1>2, <1>5, LeastOfTwo
<1>7. limits # {} => Least(limits) # None
  BY <1>4, <1>5, LeastOfTwo
<1>8. IF queue.version = 3
      THEN (IF values = {} THEN None ELSE IF limits = values THEN Least(values) ELSE 0) = None
      ELSE (IF limits # {} THEN Least(limits) ELSE IF values = {} THEN DefaultLimit ELSE None) = None
  BY <1>1, <1>3 DEF DeliveryLimit
<1>9. CASE queue.version = 3
  <2>1. values = {}
    BY <1>5, <1>6, <1>8, <1>9
  <2> QED
    BY <1>1, <1>9, <2>1 DEF TooMany
<1>10. CASE queue.version # 3
  <2>1. limits = {} /\ values # {}
    BY <1>5, <1>7, <1>8, <1>10
  <2> QED
    BY <1>1, <1>3, <1>10, <2>1 DEF TooMany
<1> QED
  BY <1>9, <1>10

(* What a scan of a request drops was judged by other rules than those of the broker now.    *)
LEMMA ScanDropsNothing ==
    ASSUME QueueInv, MessageInv, TaskInv, NEW c \in Clients, task[c].pc = "scanning",
           task[c].judged = <<queue.policy, queue.version>>, known = queue.version,
           NEW taken, Return(Scanned(c), taken)
    PROVE  dropped' = dropped
<1>1. CASE queue.kind = "quorum"
  <2>1. DeliveryLimit(Configured(queue.policy), queue.version) = None
    <3>1. PICK t : t = task[c]
      OBVIOUS
    <3>2. Allowed(t) /\ t.pc = "scanning" /\ t.judged[1] = queue.policy
      BY <3>1 DEF TaskInv, Sound
    <3> QED
      BY <1>1, <3>2 DEF Allowed
  <2>2. PICK back : back = Scanned(c) \ taken
    OBVIOUS
  <2>3. dropped' = dropped \cup {i \in back : TooMany(returns[i] + 1)}
    BY <1>1, <2>2 DEF Return
  <2>4. \A i \in back : returns[i] + 1 \in Nat
    BY <2>2, ScansWhatIsReady, LimitsAssumption DEF MessageInv
  <2> QED
    BY <2>1, <2>3, <2>4, GuardIsRight
<1>2. CASE queue.kind # "quorum"
  BY <1>2 DEF Return
<1> QED
  BY <1>1, <1>2

(* Browsing and acting lose no message of a quorum queue (queue_service.py:53): one is only  *)
(* dropped for a return when its limit or its broker changed after the guard had judged it.  *)
THEOREM OnlyOvertakenDrop == Spec => DropsOnlyWhenOvertaken
<1>1. ASSUME BrowseInv, [Next]_vars, dropped' # dropped
      PROVE  \E c \in Clients : /\ task[c].pc = "scanning" /\ task'[c].pc # "scanning"
                                /\ \/ task[c].judged # <<queue.policy, queue.version>>
                                   \/ known # queue.version
  <2>1. QueueInv /\ MessageInv /\ TaskInv
    BY <1>1 DEF BrowseInv
  <2>2. PICK c \in Clients : Scan(c) \/ Operate(c)
    BY <1>1 DEF Next, vars, Guard, GuardFails, Start, Publish, Record, Read, Compose, Act, Page,
               Produce, Expire, ListQueues, Consume, Administer, Restart
  <2>3. task[c].pc = "scanning" /\ \E taken : Return(Scanned(c), taken)
    BY <2>2 DEF Scan, Operate
  <2>4. task'[c].pc # "scanning"
    <3>1. CASE Scan(c)
      BY <2>1, <3>1 DEF Scan, TaskInv, Idle
    <3>2. CASE Operate(c)
      <4>1. \E outcome : End(c, outcome)
        BY <3>2 DEF Operate
      <4>2. task[c] \in Task /\ task \in [Clients -> Task]
        BY <2>1 DEF TaskInv
      <4> QED
        BY <4>1, <4>2 DEF End, Task
    <3> QED
      BY <2>2, <3>1, <3>2
  <2> QED
    BY <1>1, <2>1, <2>3, <2>4, ScanDropsNothing
<1>2. BrowseInv /\ [Next]_vars
        => [dropped' # dropped =>
              \E c \in Clients : /\ task[c].pc = "scanning" /\ task'[c].pc # "scanning"
                                 /\ \/ task[c].judged # <<queue.policy, queue.version>>
                                    \/ known # queue.version]_vars
  BY <1>1
<1> QED
  BY <1>2, InductiveInvariant, PTL DEF Spec, DropsOnlyWhenOvertaken
(* An action ends its scan in one step, with one operation.                                *)
LEMMA EndsOperates ==
    ASSUME TaskInv, [Next]_vars, NEW c \in Clients, Ends(c)
    PROVE  Operate(c)
<1>1. task[c].pc = "scanning" /\ task'[c].pc = "recording" /\ task \in [Clients -> Task]
  BY DEF Ends, TaskInv
<1>2. task' # task
  BY <1>1
<1>3. ASSUME NEW d \in Clients, NEW t, task' = [task EXCEPT ![d] = t] PROVE d = c /\ t.pc = "recording"
  BY <1>1, <1>3
<1>4. Idle.pc # "recording"
  BY DEF Idle
<1>5. ASSUME NEW d \in Clients, Guard(d) \/ GuardFails(d) \/ Start(d) \/ Publish(d) \/ Record(d)
      PROVE  FALSE
  <2>1. \E t : task' = [task EXCEPT ![d] = t]
    BY <1>1, <1>5 DEF Guard, GuardFails, Start, Publish, Record, End
  <2>2. task[d].pc # "scanning"
    BY <1>5 DEF Guard, GuardFails, Start, Publish, Record
  <2> QED
    BY <1>1, <1>3, <2>1, <2>2
<1>6. ASSUME NEW d \in Clients,
             \/ \E job \in {"head", "snapshot"} : Read(d, job)
             \/ \E f \in Prints : \/ Compose(d, f)
                                  \/ \E job \in {"copy", "remove"}, id \in 0..issued : Act(d, job, f, id)
      PROVE  FALSE
  <2>1. (\E t : task' = [task EXCEPT ![d] = t]) /\ task[d].pc = "idle"
    BY <1>6 DEF Read, Compose, Act
  <2> QED
    BY <1>1, <1>3, <2>1
<1>7. ASSUME NEW d \in Clients, Scan(d) PROVE FALSE
  BY <1>3, <1>4, <1>7 DEF Scan
<1>8. ASSUME NEW d \in Clients, Operate(d) PROVE d = c
  <2>1. \E t : task' = [task EXCEPT ![d] = t]
    BY <1>1, <1>8 DEF Operate, End
  <2> QED
    BY <1>3, <2>1
<1>9. ~Restart
  BY <1>1, <1>4 DEF Restart
<1>10. ((\E id \in 1..issued : Page(id)) \/ (\E f \in Prints : Produce(f)) \/ Expire \/ ListQueues
              \/ Consume \/ Administer \/ UNCHANGED vars) => task' = task
  BY DEF Page, Produce, Expire, ListQueues, Consume, Administer, vars
<1> QED
  BY <1>2, <1>5, <1>6, <1>7, <1>8, <1>9, <1>10 DEF Next

(* A message in reach is read by the action's scan, and so is what was shown above it.      *)
LEMMA InReachIsRead ==
    ASSUME MessageInv, TaskInv, NEW c \in Clients, queue.kind = "classic",
           task[c].job \in {"copy", "remove"}, NEW r \in DOMAIN task[c].seen, InReach(c, r),
           NEW p \in DOMAIN task[c].seen, p <= r, task[c].seen[p] \in messages.ready
    PROVE  task[c].seen[p] \in Scanned(c)
<1>1. PICK seen : seen = task[c].seen
  OBVIOUS
<1>2. /\ Sorted(seen) /\ Reaches(task[c]) /\ task[c] \in Task
  BY <1>1 DEF TaskInv, Sound
<1>3. /\ seen \in Seq(Ids) /\ DOMAIN seen = 1..Len(seen) /\ Len(seen) \in Nat
      /\ \A q \in DOMAIN seen : seen[q] \in Ids
  BY <1>2, SeqMonotonic, LenProperties, ElementOfSeq DEF Sorted, Existing
<1>4. p \in DOMAIN seen /\ r \in DOMAIN seen /\ p \in Nat /\ r \in Nat
  BY <1>1, <1>3
<1>5. /\ seen[r] \in messages.ready /\ seen[p] \in messages.ready /\ messages.ready \in SUBSET Ids
      /\ r \in AtOf(seen, task[c].print)
      /\ GivenBack(seen, r) <= Window /\ r + GivenBack(seen, r) <= Depth
  BY <1>1 DEF InReach, MessageInv
<1>6. /\ GivenBack(seen, r) \in Nat /\ RankIn(messages.ready, seen[r]) \in Nat
      /\ RankIn(messages.ready, seen[r]) <= r + GivenBack(seen, r)
  BY <1>3, <1>4, <1>5, RankOfShown DEF GivenBack
<1>7. task[c].scan >= r + Window \/ task[c].scan >= Depth
  BY <1>1, <1>2, <1>5 DEF Reaches
<1>8. task[c].scan \in Nat /\ Window \in Nat /\ Depth \in Nat
  BY <1>2, LimitsAssumption DEF Task
<1>9. RankIn(messages.ready, seen[r]) <= task[c].scan
  BY <1>4, <1>5, <1>6, <1>7, <1>8
<1>10. seen[p] <= seen[r]
  <2>1. seen[p] \in Nat /\ seen[r] \in Nat
    BY <1>3, <1>4, IdsAreNumbers
  <2>2. p = r \/ p < r
    BY <1>4
  <2>3. p < r => seen[p] < seen[r]
    BY <1>2, <1>4 DEF Sorted
  <2> QED
    BY <2>1, <2>2, <2>3
<1>11. RankIn(messages.ready, seen[p]) <= RankIn(messages.ready, seen[r])
       /\ RankIn(messages.ready, seen[p]) \in Nat
  BY <1>5, <1>10, RanksGrow
<1>12. Rank(seen[p]) <= task[c].scan
  <2>1. RankIn(messages.ready, seen[p]) <= task[c].scan
    BY <1>6, <1>8, <1>9, <1>11
  <2> QED
    BY <2>1 DEF Rank, RankIn
<1> QED
  BY <1>1, <1>5, <1>12 DEF Scanned, First

(* "anything a snapshot showed can be acted on" (messages.py:53): however a classic queue    *)
(* moved meanwhile, within the slack of the window, an action on it finds it.                *)
THEOREM ShownAreFound == Spec => ShownIsFound
<1>1. ASSUME BrowseInv, [Next]_vars, NEW c \in Clients, Ends(c), queue.kind = "classic",
             NEW p \in DOMAIN task[c].seen, InReach(c, p)
      PROVE  task'[c].outcome # "not_found"
  <2>1. MessageInv /\ TaskInv
    BY <1>1 DEF BrowseInv
  <2>2. Operate(c)
    BY <1>1, <2>1, EndsOperates
  <2>3. PICK i : i = task[c].seen[p]
    OBVIOUS
  <2>4. /\ p \in Nat /\ i \in messages.ready /\ messages.print[i] = task[c].print
    <3>1. DOMAIN task[c].seen \subseteq Nat
      BY <2>1, LenProperties DEF TaskInv, Sound, Sorted
    <3> QED
      BY <1>1, <2>3, <3>1 DEF InReach, AtOf
  <2>5. i \in Scanned(c)
    <3>1. task[c].job \in {"copy", "remove"} /\ p <= p
      BY <2>2, <2>4 DEF Operate
    <3> QED
      BY <1>1, <2>1, <2>3, <2>4, <3>1, InReachIsRead
  <2>6. {j \in Scanned(c) : messages.print[j] = task[c].print} # {}
    BY <2>4, <2>5
  <2>7. PICK outcome \in {"success", "ambiguous", "failed"} : End(c, outcome)
    BY <2>2, <2>6 DEF Operate
  <2>8. task'[c].outcome = outcome
    <3>1. task[c] \in Task /\ task \in [Clients -> Task]
      BY <2>1 DEF TaskInv
    <3> QED
      BY <2>7, <3>1 DEF End, Task
  <2> QED
    BY <2>7, <2>8
<1>2. BrowseInv /\ [Next]_vars
        => [\A c \in Clients :
              (Ends(c) /\ queue.kind = "classic" /\ \E p \in DOMAIN task[c].seen : InReach(c, p))
                 => task'[c].outcome # "not_found"]_vars
  BY <1>1
<1> QED
  BY <1>2, InductiveInvariant, PTL DEF Spec, ShownIsFound

(* Of a message that a snapshot showed twice neither copy is acted on while both are in       *)
(* reach (snapshots.py:37): the scan goes down to the deepest, and sees that they are two.    *)
THEOREM CopiesAreSeen == Spec => CopiesAreRefused
<1>1. ASSUME BrowseInv, [Next]_vars, NEW c \in Clients, Ends(c), queue.kind = "classic",
             NEW p \in DOMAIN task[c].seen, NEW r \in DOMAIN task[c].seen, p < r, InReach(c, r),
             messages.print[task[c].seen[p]] = task[c].print, task[c].seen[p] \in messages.ready
      PROVE  acted' = acted
  <2>1. MessageInv /\ TaskInv
    BY <1>1 DEF BrowseInv
  <2>2. Operate(c) /\ task[c].job \in {"copy", "remove"}
    <3>1. Operate(c)
      BY <1>1, <2>1, EndsOperates
    <3> QED
      BY <3>1 DEF Operate
  <2>3. PICK i : i = task[c].seen[p]
    OBVIOUS
  <2>4. PICK k : k = task[c].seen[r]
    OBVIOUS
  <2>5. /\ i \in messages.ready /\ messages.print[i] = task[c].print
        /\ k \in messages.ready /\ messages.print[k] = task[c].print
    BY <1>1, <2>3, <2>4 DEF InReach, AtOf
  <2>6. p \in Nat /\ r \in Nat /\ i \in Nat /\ k \in Nat /\ i < k
    <3>1. Sorted(task[c].seen)
      BY <2>1 DEF TaskInv, Sound
    <3>2. i < k
      BY <1>1, <2>3, <2>4, <3>1 DEF Sorted
    <3>3. DOMAIN task[c].seen \subseteq Nat
      BY <3>1, LenProperties DEF Sorted
    <3>4. messages.ready \subseteq Nat
      BY <2>1, IdsAreNumbers DEF MessageInv
    <3> QED
      BY <2>5, <3>2, <3>3, <3>4
  <2>7. i \in Scanned(c)
    <3>1. p <= r
      BY <1>1, <2>6
    <3> QED
      BY <1>1, <2>1, <2>2, <2>3, <2>5, <3>1, InReachIsRead
  <2>8. k \in Scanned(c)
    <3>1. r <= r
      BY <2>6
    <3> QED
      BY <1>1, <2>1, <2>2, <2>4, <2>5, <3>1, InReachIsRead
  <2>9. PICK matches : matches = {j \in Scanned(c) : messages.print[j] = task[c].print}
    OBVIOUS
  <2>10. i \in matches /\ k \in matches /\ i # k
    BY <2>5, <2>6, <2>7, <2>8, <2>9
  <2>11. IsFiniteSet(matches)
    <3>1. matches \in SUBSET Ids
      BY <2>1, <2>9, ScansWhatIsReady
    <3> QED
      BY <3>1, PartsAreFinite
  <2>12. Cardinality(matches) # 1
    BY <2>10, <2>11, FS_Singleton
  <2> QED
    BY <2>2, <2>9, <2>12 DEF Operate
<1>2. BrowseInv /\ [Next]_vars
        => [\A c \in Clients :
              (Ends(c) /\ queue.kind = "classic"
                 /\ \E p, r \in DOMAIN task[c].seen : p < r /\ InReach(c, r)
                       /\ messages.print[task[c].seen[p]] = task[c].print
                       /\ task[c].seen[p] \in messages.ready)
                 => acted' = acted]_vars
  BY <1>1
<1> QED
  BY <1>2, InductiveInvariant, PTL DEF Spec, CopiesAreRefused
===============================================================================
