----------------------------- MODULE BulkRunsProofs -----------------------------
(***************************************************************************)
(* A token executes once, on what was approved, on the record: the safety  *)
(* properties of BulkRuns hold for any fingerprints, tokens, runs,         *)
(* replicas and scopes, and whatever fails; and BulkRuns implements the    *)
(* abstract promise BulkPromise.                                           *)
(*                                                                         *)
(* The invariant that is inductive, IInv, follows one run: what the checks *)
(* of the route have established is still true when the batch is taken,    *)
(* because a row that is gone or expired never comes back (WorldMoves);    *)
(* what a run took no longer has a row, so that nobody else can take it;   *)
(* and from then on its report, what it acted on and the rows it wrote say *)
(* the same.                                                               *)
(***************************************************************************)
EXTENDS BulkRuns, FiniteSetTheorems, TLAPS

(* What every step keeps of the batches that were stored: what they say, and *)
(* that a row once gone or expired does not come back.                       *)
WorldMoves ==
    /\ \A t \in Tokens : dry[t].pc = "stored" => /\ dry'[t] = dry[t]
                                                 /\ t \in rows' => t \in rows
    /\ now' \in Nat /\ now' >= now

(* A batch that can be taken could be taken before. *)
LEMMA ValidOnlyFades ==
    ASSUME TypeOK, WorldMoves, NEW t \in Tokens, dry[t].pc = "stored", Valid(t)'
    PROVE  Valid(t)
<1>1. dry'[t] = dry[t] /\ t \in rows
  BY DEF WorldMoves, Valid
<1>2. now \in Int /\ dry[t].expires \in Int
  BY ClockAssumption DEF TypeOK, DryRuns
<1> QED
  BY <1>1, <1>2 DEF WorldMoves, Valid

(* The token of a run, and the batch it took, are stored. *)
LEMMA TokensStored ==
    ASSUME TypeOK, NEW c \in Runs, RunInv(c)
    PROVE  /\ run[c].pc # "idle" => run[c].token \in Tokens /\ dry[run[c].token].pc = "stored"
           /\ run[c].took # None => /\ run[c].took \in Tokens /\ dry[run[c].took].pc = "stored"
                                    /\ run[c].pc # "idle"
BY DEF RunInv, Requested, Spent, BeforeTake

(* A run whose own state is as before keeps its part of the invariant. *)
LEMMA Untouched ==
    ASSUME TypeOK, WorldMoves, NEW x \in Runs, RunInv(x),
           run'[x] = run[x], acted'[x] = acted[x], trail'[x] = trail[x]
    PROVE  RunInv(x)'
<1>1. /\ run[x].pc # "idle" => dry'[run[x].token] = dry[run[x].token]
      /\ run[x].took # None => /\ dry'[run[x].took] = dry[run[x].took]
                               /\ run[x].took \in rows' => run[x].took \in rows
  BY TokensStored DEF WorldMoves
<1>2. ASSUME NEW t \in Tokens, run[x].pc # "idle", run[x].token = t, Valid(t)'
      PROVE  Valid(t)
  BY <1>2, TokensStored, ValidOnlyFades
<1>3. Requested(x)'
  BY <1>1 DEF RunInv, Requested, At
<1>4. Cleared(x)'
  <2>1. CASE run[x].pc = "idle"
    BY <2>1 DEF Cleared
  <2>2. CASE run[x].pc # "idle"
    <3>1. PICK t \in Tokens : run[x].token = t
      BY <2>2, TokensStored
    <3>2. /\ run[x].pc \in {"peek", "attempt", "wait", "take"} /\ Valid(t) =>
               (dry[t].action = "delete" => x \in Admins)
          /\ run[x].pc \in {"wait", "take"} /\ Valid(t) => Started \in trail[x]
      BY <3>1 DEF RunInv, Cleared
    <3>3. Valid(t)' => Valid(t)
      BY <1>2, <2>2, <3>1
    <3>4. /\ run'[x].pc \in {"peek", "attempt", "wait", "take"} /\ Valid(t)' =>
               (dry'[t].action = "delete" => x \in Admins)
          /\ run'[x].pc \in {"wait", "take"} /\ Valid(t)' => Started \in trail'[x]
      BY <1>1, <2>2, <3>1, <3>2, <3>3
    <3> QED
      BY <3>1, <3>4 DEF Cleared, Started, Valid
  <2> QED
    BY <2>1, <2>2
<1>5. Spent(x)'
  BY <1>1 DEF RunInv, Spent, Batch, Started
<1>6. Reported(x)'
  BY <1>1 DEF RunInv, Reported, Batch, Undone, At
<1>7. Told(x)'
  <2>1. run[x].took # None => (Outcome(x) => Outcome(x)')
    BY <1>1 DEF Outcome, Batch, Started
  <2> QED
    BY <1>1, <2>1 DEF RunInv, Requested, Told, Batch, At, Started, Row
<1> QED
  BY <1>3, <1>4, <1>5, <1>6, <1>7 DEF RunInv

(* A step of one run keeps the invariant when it keeps that run's part, and *)
(* takes, if anything, a batch that had a row.                              *)
LEMMA StepOfRun ==
    ASSUME IInv, NEW c \in Runs, NEW r \in RunStates, Become(c, r),
           TypeOK', RunInv(c)',
           UNCHANGED <<now, dry>>, rows' \subseteq rows,
           r.took = run[c].took \/ r.took \in rows,
           \A x \in Runs : x # c => acted'[x] = acted[x] /\ trail'[x] = trail[x]
    PROVE  IInv'
<1> USE DEF IInv
<1>1. run' = [run EXCEPT ![c] = r] /\ run'[c] = r
  BY DEF Become, TypeOK
<1>2. WorldMoves
  BY ClockAssumption DEF WorldMoves, TypeOK
<1>3. \A x \in Runs : x # c => RunInv(x)'
  BY <1>1, <1>2, Untouched DEF TypeOK
<1>4. DryInv'
  BY DEF DryInv
<1>5. OneExecution'
  BY <1>1 DEF OneExecution, RunInv, Spent, TypeOK
<1> QED
  BY <1>3, <1>4, <1>5

(* The same, for a step that changes nothing else. *)
LEMMA ContinueStep ==
    ASSUME IInv, NEW c \in Runs, NEW r \in RunStates, Continue(c, r),
           r.took = run[c].took, RunInv(c)'
    PROVE  IInv'
<1>1. TypeOK'
  BY DEF IInv, TypeOK, Continue, Become, service, locks
<1> QED
  BY <1>1, StepOfRun DEF Continue, service, locks

(* What Become does to a run, and what is known of it before. *)
LEMMA BecomeIs ==
    ASSUME IInv, NEW c \in Runs, NEW r, Become(c, r)
    PROVE  /\ run'[c] = r
           /\ run[c] \in RunStates
           /\ RunInv(c)
BY DEF Become, IInv, TypeOK

-------------------------------------------------------------------------------
(* Time, other users of the queues, and dry runs. *)

LEMMA EnvironmentPreserves ==
    ASSUME IInv, \/ Tick
                 \/ \E s \in Scopes, f \in Fps : Produce(s, f) \/ Consume(s, f)
    PROVE  IInv'
<1> USE DEF IInv
<1>1. UNCHANGED <<dry, rows, run, acted, trail>>
  BY DEF Tick, Produce, Consume
<1>2. TypeOK'
  <2>1. CASE Tick
    BY <2>1, ClockAssumption DEF Tick, TypeOK, locks
  <2>2. ASSUME NEW s \in Scopes, NEW f \in Fps, Produce(s, f) PROVE TypeOK'
    <3>1. queued[s][f] + 1 \in 0..MaxCopies /\ changes + 1 \in 0..MaxChanges
      BY <2>2, ClockAssumption DEF Produce, TypeOK
    <3> QED
      BY <2>2, <3>1 DEF Produce, TypeOK, locks
  <2>3. ASSUME NEW s \in Scopes, NEW f \in Fps, Consume(s, f) PROVE TypeOK'
    <3>1. queued[s][f] - 1 \in 0..MaxCopies /\ changes + 1 \in 0..MaxChanges
      BY <2>3, ClockAssumption DEF Consume, TypeOK
    <3> QED
      BY <2>3, <3>1 DEF Consume, TypeOK, locks
  <2> QED
    BY <2>1, <2>2, <2>3
<1>3. WorldMoves
  BY <1>1, ClockAssumption DEF Tick, Produce, Consume, WorldMoves, TypeOK
<1>4. \A x \in Runs : RunInv(x)'
  BY <1>1, <1>3, Untouched
<1>5. DryInv' /\ OneExecution'
  BY <1>1 DEF DryInv, OneExecution
<1> QED
  BY <1>2, <1>4, <1>5

LEMMA DryRunPreserves ==
    ASSUME IInv, NEW t \in Tokens,
           \/ DryStore(t)
           \/ \E s \in Scopes, a \in Dryable, S \in SUBSET Fps : DryScan(t, s, a, S)
    PROVE  IInv'
<1> USE DEF IInv
<1>1. UNCHANGED <<now, run, acted, trail>>
  BY DEF DryStore, DryScan
<1>2. TypeOK' /\ DryInv'
  <2>1. CASE DryStore(t)
    <3> DEFINE d == [dry[t] EXCEPT !.pc = "stored"]
    <3>1. d \in DryRuns /\ d.action = dry[t].action /\ d.scope = dry[t].scope
          /\ d.fps = dry[t].fps /\ d.seen = dry[t].seen /\ d.pc = "stored"
      BY DEF TypeOK, DryRuns
    <3> HIDE DEF d
    <3>2. dry' = [dry EXCEPT ![t] = d]
      BY <2>1 DEF DryStore, d
    <3>3. TypeOK'
      BY <2>1, <3>1, <3>2 DEF DryStore, TypeOK, locks
    <3>4. DryInv'
      BY <2>1, <3>1, <3>2 DEF DryStore, TypeOK, DryInv
    <3> QED
      BY <3>3, <3>4
  <2>2. ASSUME NEW s \in Scopes, NEW a \in Dryable, NEW S \in SUBSET Fps, DryScan(t, s, a, S)
        PROVE  TypeOK' /\ DryInv'
    <3> DEFINE d == [pc |-> "scanned", action |-> a, scope |-> s,
                     seen |-> {f \in Fps : queued[s][f] > 0}, fps |-> S, expires |-> now + Ttl]
    <3>1. dry' = [dry EXCEPT ![t] = d] /\ S \subseteq d.seen
      BY <2>2 DEF DryScan
    <3>2. now + Ttl \in Nat
      BY ClockAssumption DEF TypeOK
    <3>3. d \in DryRuns
      BY <3>2 DEF DryRuns
    <3>4. TypeOK'
      BY <2>2, <3>1, <3>3 DEF DryScan, TypeOK, locks
    <3> QED
      BY <2>2, <3>1, <3>4 DEF DryScan, TypeOK, DryInv
  <2> QED
    BY <2>1, <2>2
<1>3. WorldMoves
  BY <1>1, ClockAssumption DEF DryStore, DryScan, WorldMoves, TypeOK
<1>4. \A x \in Runs : RunInv(x)'
  BY <1>1, <1>3, Untouched
<1>5. OneExecution'
  BY <1>1 DEF OneExecution
<1> QED
  BY <1>2, <1>4, <1>5

-------------------------------------------------------------------------------
(* The steps of a run before it takes its batch. *)

LEMMA RoutePreserves ==
    ASSUME IInv, NEW c \in Runs,
           Route(c) \/ \E t \in Tokens, s \in Scopes : Present(c, t, s)
    PROVE  IInv'
<1> run[c] \in RunStates /\ RunInv(c)
  BY DEF IInv, TypeOK
<1> USE DEF At
<1>1. ASSUME NEW t \in Tokens, NEW s \in Scopes, Present(c, t, s) PROVE IInv'
  <2> DEFINE r == [run[c] EXCEPT !.token = t, !.scope = s, !.pc = "route"]
  <2>1. r \in RunStates /\ Continue(c, r)
    BY <1>1 DEF Present, RunStates, Locations
  <2>2. run'[c] = r
    BY <2>1, BecomeIs DEF Continue
  <2>3. run[c].reply = "none" /\ run[c].took = None /\ trail[c] = {}
    BY <1>1 DEF Present, RunInv, Requested, Told, BeforeTake
  <2>4. /\ run'[c].pc = "route" /\ run'[c].token = t /\ run'[c].scope = s
        /\ run'[c].took = None /\ run'[c].reply = "none" /\ run'[c].results = run[c].results
        /\ UNCHANGED <<dry, acted, trail>>
    BY <2>1, <2>2, <2>3 DEF Continue, service, RunStates
  <2>5. RunInv(c)'
    BY <1>1, <2>3, <2>4 DEF Present, RunInv, Requested, Cleared, Spent, Reported, Told, BeforeTake
  <2> QED
    BY <2>1, <2>5, ContinueStep DEF RunStates
<1>2. CASE CheckRole(c)
  <2> DEFINE forbidden == /\ Valid(run[c].token)
                          /\ dry[run[c].token].action = "delete"
                          /\ c \notin Admins
  <2> DEFINE r == IF forbidden THEN Answer(run[c], "forbidden") ELSE Goto(run[c], "peek")
  <2>1. r \in RunStates /\ Continue(c, r)
    BY <1>2 DEF CheckRole, RunStates, Locations, Replies, Answer, Goto
  <2>2. run'[c] = r
    BY <2>1, BecomeIs DEF Continue
  <2>3. /\ run'[c].token = run[c].token /\ run'[c].scope = run[c].scope /\ run'[c].took = None
        /\ run'[c].results = run[c].results /\ run[c].pc = "route" /\ trail[c] = {} /\ run[c].took = None
        /\ UNCHANGED <<now, dry, rows, acted, trail>>
        /\ IF forbidden THEN run'[c].pc = "done" /\ run'[c].reply = "forbidden"
                        ELSE run'[c].pc = "peek" /\ run'[c].reply = "none"
    BY <1>2, <2>1, <2>2 DEF CheckRole, RunInv, Requested, Told, BeforeTake, Continue, service, RunStates,
       Answer, Goto
  <2>4. Cleared(c)'
    BY <2>3 DEF Cleared, Valid
  <2>5. RunInv(c)'
    BY <2>3, <2>4 DEF RunInv, Requested, Spent, Reported, Told, BeforeTake
  <2> QED
    BY <2>1, <2>5, ContinueStep DEF RunStates, Answer, Goto
<1>3. CASE Peek(c)
  <2> DEFINE r == Goto(run[c], IF Valid(run[c].token) THEN "attempt" ELSE "wait")
  <2>1. r \in RunStates /\ Continue(c, r)
    BY <1>3 DEF Peek, RunStates, Locations, Goto
  <2>2. run'[c] = r
    BY <2>1, BecomeIs DEF Continue
  <2>3. RunInv(c)'
    BY <1>3, <2>1, <2>2 DEF Peek, RunInv, Requested, Cleared, Spent, Reported, Told, BeforeTake,
       Continue, service, RunStates, Goto, Valid
  <2> QED
    BY <2>1, <2>3, ContinueStep DEF RunStates, Goto
<1>4. CASE RecordAttempt(c)
  <2> DEFINE r == Goto(run[c], "wait")
  <2>1. r \in RunStates /\ Become(c, r)
    BY <1>4 DEF RecordAttempt, RunStates, Locations, Goto
  <2>2. run'[c] = r
    BY <2>1, BecomeIs
  <2>3. trail' = [trail EXCEPT ![c] = @ \cup {Started}]
    BY <1>4 DEF RecordAttempt, Write, Started
  <2>4. TypeOK'
    BY <1>4, <2>1, <2>3 DEF RecordAttempt, IInv, TypeOK, Become, service, locks, Started, Row, Entries
  <2>5. trail[c] = {} /\ trail'[c] = {Started}
    BY <1>4, <2>3 DEF RecordAttempt, RunInv, Told, IInv, TypeOK
  <2>6. RunInv(c)'
    BY <1>4, <2>1, <2>2, <2>5 DEF RecordAttempt, RunInv, Requested, Cleared, Spent, Reported, Told,
       BeforeTake, service, RunStates, Goto, Valid
  <2> QED
    BY <1>4, <2>1, <2>3, <2>4, <2>6, StepOfRun DEF RecordAttempt, service, RunStates, Goto, IInv, TypeOK
<1>5. CASE AttemptRefused(c)
  <2> DEFINE r == Answer(run[c], "error")
  <2>1. r \in RunStates /\ Continue(c, r)
    BY <1>5 DEF AttemptRefused, RunStates, Locations, Replies, Answer
  <2>2. run'[c] = r
    BY <2>1, BecomeIs DEF Continue
  <2>3. RunInv(c)'
    BY <1>5, <2>1, <2>2 DEF AttemptRefused, RunInv, Requested, Cleared, Spent, Reported, Told, BeforeTake,
       Continue, service, RunStates, Answer
  <2> QED
    BY <2>1, <2>3, ContinueStep DEF RunStates, Answer
<1> QED
  BY <1>1, <1>2, <1>3, <1>4, <1>5 DEF Route

(* Entering the service, and leaving it, keep the locks well typed. *)
LEMMA LocksType ==
    ASSUME TypeOK, NEW c \in Runs, NEW x \in Runs \cup {None},
           busy' = [busy EXCEPT ![ReplicaOf[c]][run[c].scope] = x]
    PROVE  busy' \in [Replicas -> [Scopes -> Runs \cup {None}]]
BY DEF TypeOK

LEMMA TakePreserves ==
    ASSUME IInv, NEW c \in Runs, Execute(c)
    PROVE  IInv'
<1> run[c] \in RunStates /\ RunInv(c)
  BY DEF IInv, TypeOK
<1> USE DEF At
<1>1. CASE Enter(c)
  <2> DEFINE r == Goto(run[c], "take")
  <2>1. r \in RunStates /\ Become(c, r)
    BY <1>1 DEF Enter, RunStates, Locations, Goto
  <2>2. run'[c] = r
    BY <2>1, BecomeIs
  <2>3. busy' \in [Replicas -> [Scopes -> Runs \cup {None}]]
    BY <1>1, LocksType DEF Enter, IInv
  <2>4. TypeOK'
    BY <1>1, <2>1, <2>3 DEF Enter, IInv, TypeOK, Become, service
  <2>5. RunInv(c)'
    BY <1>1, <2>1, <2>2 DEF Enter, RunInv, Requested, Cleared, Spent, Reported, Told, BeforeTake,
       service, RunStates, Goto, Valid
  <2> QED
    BY <1>1, <2>1, <2>4, <2>5, StepOfRun DEF Enter, service, RunStates, Goto
<1>2. CASE Take(c)
  <2> DEFINE r == [run[c] EXCEPT !.took = run[c].token, !.at = now, !.pc = "guard"]
  <2>1. r \in RunStates /\ Become(c, r)
    <3>1. run[c].token \in Tokens /\ now \in Nat
      BY <1>2, ClockAssumption DEF Take, RunInv, Requested, IInv, TypeOK
    <3> QED
      BY <1>2, <3>1 DEF Take, RunStates, Locations
  <2>2. run'[c] = r
    BY <2>1, BecomeIs
  <2>3. TypeOK'
    BY <1>2, <2>1 DEF Take, IInv, TypeOK, Become, locks
  <2>4. RunInv(c)'
    <3> DEFINE t == run[c].token
    <3>1. /\ t \in Tokens /\ t # None /\ dry[t].pc = "stored" /\ run[c].scope \in Scopes
          /\ t \in rows /\ now <= dry[t].expires /\ dry[t].scope = run[c].scope
          /\ run[c].reply = "none" /\ run[c].took = None
      BY <1>2, NoneAssumption, ClockAssumption
         DEF Take, Valid, RunInv, Requested, BeforeTake, IInv, TypeOK, DryRuns
    <3>2. /\ run'[c].pc = "guard" /\ run'[c].token = t /\ run'[c].took = t /\ run'[c].at = now
          /\ run'[c].scope = run[c].scope /\ run'[c].reply = "none"
          /\ run'[c].results = run[c].results
          /\ t \notin rows' /\ UNCHANGED <<dry, acted, trail>>
      BY <1>2, <2>2, <3>1 DEF Take, RunStates
    <3>3. Requested(c)' /\ Cleared(c)'
      BY <3>1, <3>2 DEF Requested, Cleared, BeforeTake
    <3>4. Spent(c)'
      BY <1>2, <3>1, <3>2 DEF Take, Valid, RunInv, Cleared, Spent, Batch, Started
    <3>5. Reported(c)'
      BY <3>1, <3>2 DEF RunInv, Spent, Reported, Batch, At, IInv, TypeOK, DryRuns
    <3>6. Told(c)'
      BY <1>2, <3>1, <3>2 DEF Take, RunInv, Told, Started
    <3> QED
      BY <3>3, <3>4, <3>5, <3>6 DEF RunInv
  <2> QED
    BY <1>2, <2>1, <2>3, <2>4, StepOfRun DEF Take, Valid, RunStates
<1>3. CASE Unknown(c)
  <2> DEFINE r == Answer(run[c], "unknown")
  <2>1. r \in RunStates /\ Become(c, r)
    BY <1>3 DEF Unknown, RunStates, Locations, Replies, Answer
  <2>2. run'[c] = r
    BY <2>1, BecomeIs
  <2>3. busy' \in [Replicas -> [Scopes -> Runs \cup {None}]]
    BY <1>3, LocksType DEF Unknown, FreeService, IInv
  <2>4. rows' \subseteq rows
    BY <1>3 DEF Unknown
  <2>5. TypeOK'
    BY <1>3, <2>1, <2>3, <2>4 DEF Unknown, IInv, TypeOK, Become
  <2>6. RunInv(c)'
    BY <1>3, <2>1, <2>2 DEF Unknown, RunInv, Requested, Cleared, Spent, Reported, Told, BeforeTake,
       RunStates, Answer
  <2> QED
    BY <1>3, <2>1, <2>4, <2>5, <2>6, StepOfRun DEF Unknown, RunStates, Answer
<1>4. CASE TakeFails(c)
  <2> DEFINE r == Goto(run[c], "excuse")
  <2>1. r \in RunStates /\ Become(c, r)
    BY <1>4 DEF TakeFails, RunStates, Locations, Goto
  <2>2. run'[c] = r
    BY <2>1, BecomeIs
  <2>3. busy' \in [Replicas -> [Scopes -> Runs \cup {None}]]
    BY <1>4, LocksType DEF TakeFails, FreeService, IInv
  <2>4. rows' \subseteq rows
    BY <1>4 DEF TakeFails
  <2>5. TypeOK'
    BY <1>4, <2>1, <2>3, <2>4 DEF TakeFails, IInv, TypeOK, Become
  <2>6. RunInv(c)'
    BY <1>4, <2>1, <2>2 DEF TakeFails, RunInv, Requested, Cleared, Spent, Reported, Told, BeforeTake,
       RunStates, Goto
  <2> QED
    BY <1>4, <2>1, <2>4, <2>5, <2>6, StepOfRun DEF TakeFails, RunStates, Goto
<1>5. CASE GuardAllows(c)
  <2> DEFINE r == Goto(run[c], "queue")
  <2>1. r \in RunStates /\ Continue(c, r)
    BY <1>5 DEF GuardAllows, RunStates, Locations, Goto
  <2>2. run'[c] = r
    BY <2>1, BecomeIs DEF Continue
  <2>3. RunInv(c)'
    BY <1>5, <2>1, <2>2 DEF GuardAllows, RunInv, Requested, Cleared, Spent, Reported, Told, BeforeTake,
       Continue, service, RunStates, Goto, Batch, Undone
  <2> QED
    BY <2>1, <2>3, ContinueStep DEF RunStates, Goto
<1>6. CASE GuardRefuses(c)
  <2> DEFINE r == Goto(run[c], "excuse")
  <2>1. r \in RunStates /\ Become(c, r)
    BY <1>6 DEF GuardRefuses, RunStates, Locations, Goto
  <2>2. run'[c] = r
    BY <2>1, BecomeIs
  <2>3. busy' \in [Replicas -> [Scopes -> Runs \cup {None}]]
    BY <1>6, LocksType DEF GuardRefuses, FreeService, IInv
  <2>4. TypeOK'
    BY <1>6, <2>1, <2>3 DEF GuardRefuses, IInv, TypeOK, Become, service
  <2>5. RunInv(c)'
    BY <1>6, <2>1, <2>2 DEF GuardRefuses, RunInv, Requested, Cleared, Spent, Reported, Told, BeforeTake,
       service, RunStates, Goto, Batch, Undone
  <2> QED
    BY <1>6, <2>1, <2>4, <2>5, StepOfRun DEF GuardRefuses, service, RunStates, Goto
<1> QED
  BY <1>1, <1>2, <1>3, <1>4, <1>5, <1>6 DEF Execute

-------------------------------------------------------------------------------
(* operate_bulk. *)

(* Where it acts, a run has taken its batch, and has acted exactly on what it *)
(* reports as a success.                                                      *)
InBatch(c) ==
    /\ run[c] \in RunStates
    /\ run[c].took \in Tokens /\ run[c].took = run[c].token /\ run[c].took # None
    /\ run[c].reply = "none" /\ run[c].pc = "act"
    /\ run[c].scope \in Scopes /\ run[c].scope = Batch(c).scope
    /\ Batch(c).fps \subseteq Fps
    /\ Requested(c) /\ Cleared(c) /\ Spent(c) /\ Reported(c) /\ Told(c)
    /\ acted[c] \subseteq Batch(c).fps
    /\ \A f \in Batch(c).fps : run[c].results[f] = "success" <=> f \in acted[c]
    /\ Undone(c) \subseteq Batch(c).fps \ acted[c]

LEMMA ActingIs ==
    ASSUME IInv, NEW c \in Runs, At(c, "act")
    PROVE  InBatch(c)
<1>1. run[c] \in RunStates /\ RunInv(c) /\ dry \in [Tokens -> DryRuns]
  BY DEF IInv, TypeOK
<1>2. /\ run[c].took \in Tokens /\ run[c].took = run[c].token /\ run[c].took # None
      /\ run[c].reply = "none"
  BY <1>1 DEF At, RunInv, Requested, Spent
<1>3. Batch(c).fps \subseteq Fps
  BY <1>1, <1>2 DEF Batch, DryRuns
<1>4. /\ acted[c] \subseteq Batch(c).fps
      /\ \A f \in Batch(c).fps : run[c].results[f] = "success" <=> f \in acted[c]
      /\ Undone(c) \subseteq Batch(c).fps \ acted[c]
  BY <1>1, <1>2 DEF RunInv, Reported, Undone
<1> QED
  BY <1>1, <1>2, <1>3, <1>4 DEF At, RunInv, Requested, Spent, InBatch

(* A report that says success exactly of what was acted on keeps the run's part *)
(* of the invariant.                                                            *)
LEMMA ReportStep ==
    ASSUME IInv, NEW c \in Runs, At(c, "act"), NEW res \in [Fps -> Statuses \cup {"none"}],
           Become(c, [run[c] EXCEPT !.results = res]),
           UNCHANGED <<now, dry, rows, trail>>,
           acted'[c] \subseteq Batch(c).fps,
           \A f \in Batch(c).fps : res[f] = "success" <=> f \in acted'[c]
    PROVE  /\ [run[c] EXCEPT !.results = res] \in RunStates
           /\ RunInv(c)'
<1> DEFINE r == [run[c] EXCEPT !.results = res]
<1> InBatch(c)
  BY ActingIs
<1> USE DEF InBatch
<1>1. r \in RunStates
  BY DEF RunStates
<1>2. run'[c] = r
  BY BecomeIs
<1>3. /\ run'[c].pc = "act" /\ run'[c].token = run[c].token /\ run'[c].took = run[c].took
      /\ run'[c].scope = run[c].scope /\ run'[c].at = run[c].at /\ run'[c].reply = "none"
      /\ run'[c].results = res
  BY <1>2 DEF RunStates
<1>4. Requested(c)'
  BY <1>3 DEF Requested, BeforeTake
<1>5. Cleared(c)'
  BY <1>3 DEF Cleared
<1>6. Spent(c)'
  BY <1>3, NoneAssumption DEF Spent, Batch, Started
<1>7. Reported(c)'
  BY <1>3 DEF Reported, Batch, At
<1>8. Told(c)'
  BY <1>3 DEF Told, At, Started
<1> QED
  BY <1>1, <1>4, <1>5, <1>6, <1>7, <1>8 DEF RunInv

LEMMA SkipPreserves ==
    ASSUME IInv, NEW c \in Runs, NEW f \in Fps, NEW status \in Statuses \ {"success"},
           Acting(c, f), Skip(c, f, status)
    PROVE  IInv'
<1> DEFINE res == [run[c].results EXCEPT ![f] = status]
<1> InBatch(c)
  BY ActingIs DEF Acting
<1> USE DEF Acting, InBatch
<1>1. res \in [Fps -> Statuses \cup {"none"}]
  BY DEF RunStates
<1>2. Continue(c, [run[c] EXCEPT !.results = res])
  BY DEF Skip, Report, RunStates
<1>3. \A g \in Batch(c).fps : res[g] = "success" <=> g \in acted'[c]
  BY <1>2 DEF Continue, RunStates
<1>4. /\ [run[c] EXCEPT !.results = res] \in RunStates
      /\ RunInv(c)'
  BY <1>1, <1>2, <1>3, ReportStep DEF Continue, service
<1> QED
  BY <1>2, <1>4, ContinueStep DEF RunStates

LEMMA MovePreserves ==
    ASSUME IInv, NEW c \in Runs, NEW f \in Fps, Move(c, f)
    PROVE  IInv'
<1> DEFINE res == [run[c].results EXCEPT ![f] = "success"]
<1> DEFINE r == [run[c] EXCEPT !.results = res]
<1> At(c, "act") /\ f \in Undone(c)
  BY DEF Move, Acting
<1> InBatch(c)
  BY ActingIs
<1> USE DEF InBatch
<1>1. res \in [Fps -> Statuses \cup {"none"}]
  BY DEF RunStates, Statuses
<1>2. Become(c, r)
  BY DEF Move, Report, RunStates
<1>3. acted' = [acted EXCEPT ![c] = @ \cup {f}] /\ acted'[c] = acted[c] \cup {f}
  BY DEF Move, IInv, TypeOK
<1>4. r \in RunStates /\ RunInv(c)'
  <2>1. \A g \in Batch(c).fps : res[g] = "success" <=> g \in acted'[c]
    BY <1>3 DEF RunStates
  <2>2. acted'[c] \subseteq Batch(c).fps
    BY <1>3
  <2> HIDE DEF res
  <2> QED
    BY <1>1, <1>2, <2>1, <2>2, ReportStep DEF Move
<1>5. TypeOK'
  <2>1. queued[run[c].scope][f] - 1 \in 0..MaxCopies
    BY ClockAssumption DEF Move, IInv, TypeOK
  <2>2. queued' \in [Scopes -> [Fps -> 0..MaxCopies]]
    BY <2>1 DEF Move, IInv, TypeOK
  <2>3. acted' \in [Runs -> SUBSET Fps]
    BY <1>3 DEF IInv, TypeOK
  <2>4. run' \in [Runs -> RunStates]
    <3> HIDE DEF r
    <3> QED
      BY <1>2, <1>4 DEF IInv, TypeOK, Become
  <2> QED
    BY <2>2, <2>3, <2>4 DEF Move, IInv, TypeOK, locks
<1>6. \A x \in Runs : x # c => acted'[x] = acted[x] /\ trail'[x] = trail[x]
  BY <1>3 DEF Move, IInv, TypeOK
<1> QED
  BY <1>2, <1>4, <1>5, <1>6, StepOfRun DEF Move, RunStates

(* What a halt makes of the report, whether or not its message was acted on. *)
LEMMA HaltPreserves ==
    ASSUME IInv, NEW c \in Runs, NEW f \in Fps, At(c, "act"), f \in Undone(c),
           NEW status \in {"success", "failed"},
           Become(c, Halt(run[c], Undone(c), f, status)),
           UNCHANGED <<service, locks, trail>>,
           acted' = IF status = "success" THEN [acted EXCEPT ![c] = @ \cup {f}] ELSE acted
    PROVE  IInv'
<1> DEFINE res == [g \in Fps |-> IF g = f THEN status
                                 ELSE IF g \in Undone(c) THEN "not_attempted" ELSE run[c].results[g]]
<1> DEFINE r == [run[c] EXCEPT !.results = res]
<1> InBatch(c)
  BY ActingIs
<1> USE DEF InBatch
<1>1. res \in [Fps -> Statuses \cup {"none"}]
  BY DEF RunStates, Statuses
<1>2. Become(c, r)
  BY DEF Halt
<1>3. acted'[c] = (IF status = "success" THEN acted[c] \cup {f} ELSE acted[c])
  BY DEF IInv, TypeOK
<1>4. r \in RunStates /\ RunInv(c)'
  <2>1. acted'[c] \subseteq Batch(c).fps
    BY <1>3
  <2>2. \A g \in Batch(c).fps : res[g] = "success" <=> g \in acted'[c]
    BY <1>3
  <2> HIDE DEF res
  <2> QED
    BY <1>1, <1>2, <2>1, <2>2, ReportStep DEF service
<1>5. TypeOK'
  <2>1. acted' \in [Runs -> SUBSET Fps]
    BY DEF IInv, TypeOK
  <2> HIDE DEF res
  <2> QED
    BY <1>2, <1>4, <2>1 DEF IInv, TypeOK, Become, service, locks
<1>6. \A x \in Runs : x # c => acted'[x] = acted[x] /\ trail'[x] = trail[x]
  BY DEF IInv, TypeOK
<1>7. r.took = run[c].took
  BY DEF RunStates
<1> QED
  BY <1>2, <1>4, <1>5, <1>6, <1>7, StepOfRun DEF service

(* Leaving the queue, with a report or with an exception. *)
LEMMA LeavePreserves ==
    ASSUME IInv, NEW c \in Runs, At(c, "act"), LeaveQueue(c), NEW location \in {"entries", "excuse"},
           location = "entries" => Undone(c) = {},
           Become(c, Goto(run[c], location))
    PROVE  IInv'
<1> DEFINE r == Goto(run[c], location)
<1> InBatch(c)
  BY ActingIs
<1> USE DEF InBatch
<1>1. r \in RunStates
  BY DEF RunStates, Locations, Goto
<1>2. run'[c] = r
  BY BecomeIs
<1>3. busy' \in [Replicas -> [Scopes -> Runs \cup {None}]]
  BY LocksType DEF LeaveQueue, FreeService, IInv
<1>4. queue' \in [Scopes -> Runs \cup {None}]
  BY DEF LeaveQueue, IInv, TypeOK
<1>5. TypeOK'
  BY <1>1, <1>3, <1>4 DEF LeaveQueue, IInv, TypeOK, Become, service
<1>6. /\ run'[c].pc = location /\ run'[c].token = run[c].token /\ run'[c].took = run[c].took
      /\ run'[c].scope = run[c].scope /\ run'[c].at = run[c].at /\ run'[c].reply = "none"
      /\ run'[c].results = run[c].results
      /\ UNCHANGED <<now, dry, rows, acted, trail>>
  BY <1>2 DEF RunStates, Goto, LeaveQueue, service
<1>7. Requested(c)' /\ Cleared(c)'
  BY <1>6 DEF Requested, Cleared, BeforeTake
<1>8. Spent(c)'
  BY <1>6, NoneAssumption DEF Spent, Batch, Started
<1>9. Reported(c)'
  BY <1>6 DEF Reported, Batch, At, Undone
<1>10. Told(c)'
  BY <1>6 DEF Told, At, Started
<1>11. RunInv(c)'
  BY <1>7, <1>8, <1>9, <1>10 DEF RunInv
<1> QED
  BY <1>1, <1>5, <1>6, <1>11, StepOfRun DEF RunStates, Goto, IInv, TypeOK

LEMMA OperatePreserves ==
    ASSUME IInv, NEW c \in Runs, Operate(c)
    PROVE  IInv'
<1>1. CASE LockQueue(c)
  <2> run[c] \in RunStates /\ RunInv(c)
    BY DEF IInv, TypeOK
  <2> DEFINE r == Goto(run[c], "act")
  <2>1. r \in RunStates /\ Become(c, r)
    BY <1>1 DEF LockQueue, RunStates, Locations, Goto
  <2>2. run'[c] = r
    BY <2>1, BecomeIs
  <2>3. TypeOK'
    BY <1>1, <2>1 DEF LockQueue, IInv, TypeOK, Become, service
  <2>4. RunInv(c)'
    BY <1>1, <2>1, <2>2 DEF LockQueue, RunInv, Requested, Cleared, Spent, Reported, Told, BeforeTake,
       service, RunStates, Goto, Batch, Undone, At
  <2> QED
    BY <1>1, <2>1, <2>3, <2>4, StepOfRun DEF LockQueue, service, RunStates, Goto
<1>2. CASE BatchReturns(c)
  BY <1>2, LeavePreserves DEF BatchReturns
<1>3. CASE BatchRaises(c)
  BY <1>3, LeavePreserves DEF BatchRaises
<1>4. ASSUME NEW f \in Fps, Absent(c, f) \/ Duplicated(c, f) \/ Undelivered(c, f) PROVE IInv'
  BY <1>4, SkipPreserves DEF Absent, Duplicated, Undelivered, Statuses
<1>5. ASSUME NEW f \in Fps, Move(c, f) PROVE IInv'
  BY <1>5, MovePreserves
<1>6. ASSUME NEW f \in Fps, HaltPublished(c, f) PROVE IInv'
  <2>1. CASE Batch(c).action = "copy"
    BY <1>6, <2>1, HaltPreserves DEF HaltPublished, Acting
  <2>2. CASE Batch(c).action # "copy"
    BY <1>6, <2>2, HaltPreserves DEF HaltPublished, Acting
  <2> QED
    BY <2>1, <2>2
<1>7. ASSUME NEW f \in Fps, HaltUnpublished(c, f) PROVE IInv'
  BY <1>7, HaltPreserves DEF HaltUnpublished, Acting, Continue
<1> QED
  BY <1>1, <1>2, <1>3, <1>4, <1>5, <1>6, <1>7 DEF Operate

-------------------------------------------------------------------------------
(* The record, a crash, and the whole. *)

(* At the end of the record, each approved fingerprint has the row of its result. *)
LEMMA EntriesAreResults ==
    ASSUME IInv, NEW c \in Runs, At(c, "entries"), Batch(c).fps \subseteq Entered(c)
    PROVE  trail[c] = {Started} \cup {Row(f, run[c].results[f]) : f \in Batch(c).fps}
<1>1. Started \in trail[c] /\ Told(c)
  BY DEF IInv, RunInv, Requested, Spent, At
<1>2. \A e \in trail[c] : e # Started => e.fp \in Batch(c).fps /\ e = Row(e.fp, run[c].results[e.fp])
  BY <1>1 DEF Told
<1>3. ASSUME NEW f \in Batch(c).fps PROVE Row(f, run[c].results[f]) \in trail[c]
  <2>1. f \in Fps /\ f # None
    BY <1>3, NoneAssumption DEF Entered
  <2>2. PICK e \in trail[c] : e.fp = f
    BY <1>3 DEF Entered
  <2>3. e # Started
    BY <2>1, <2>2 DEF Started, Row
  <2> QED
    BY <1>2, <2>2, <2>3
<1> QED
  BY <1>1, <1>2, <1>3

LEMMA RecordPreserves ==
    ASSUME IInv, NEW c \in Runs, Record(c)
    PROVE  IInv'
<1> run[c] \in RunStates /\ RunInv(c)
  BY DEF IInv, TypeOK
<1>1. ASSUME NEW f \in Fps, RecordEntry(c, f) PROVE IInv'
  <2> DEFINE row == Row(f, run[c].results[f])
  <2>1. /\ run[c].pc = "entries" /\ run[c].took # None /\ run[c].took \in Tokens /\ run[c].reply = "none"
        /\ f \in Batch(c).fps
    BY <1>1 DEF RecordEntry, At, RunInv, Requested, Spent
  <2>2. run'[c] = run[c] /\ Become(c, run[c])
    BY <1>1 DEF RecordEntry, Become, IInv, TypeOK
  <2>3. run[c].results[f] \in Statuses
    BY <2>1 DEF RunInv, Reported, Undone, At, RunStates
  <2>4. row \in Entries
    BY <2>3 DEF Row, Entries
  <2>5. trail' = [trail EXCEPT ![c] = @ \cup {row}]
    BY <1>1 DEF RecordEntry, Write
  <2>6. TypeOK'
    BY <1>1, <2>2, <2>4, <2>5 DEF RecordEntry, Become, IInv, TypeOK, service, locks
  <2>7. trail'[c] = trail[c] \cup {row}
    BY <2>5 DEF IInv, TypeOK
  <2>8. UNCHANGED <<now, dry, rows, acted>>
    BY <1>1 DEF RecordEntry, service
  <2>9. RunInv(c)'
    <3>1. Requested(c)' /\ Cleared(c)'
      BY <2>1, <2>2, <2>8 DEF RunInv, Requested, Cleared, BeforeTake, At
    <3>2. Spent(c)'
      BY <2>1, <2>2, <2>7, <2>8 DEF RunInv, Spent, Batch, Started
    <3>3. Reported(c)'
      BY <2>1, <2>2, <2>8 DEF RunInv, Reported, Batch, Undone, At
    <3>4. Told(c)'
      BY <2>1, <2>2, <2>7, <2>8 DEF RunInv, Told, Batch, At, Started, Row
    <3> QED
      BY <3>1, <3>2, <3>3, <3>4 DEF RunInv
  <2> QED
    BY <2>2, <2>5, <2>6, <2>8, <2>9, StepOfRun DEF IInv, TypeOK
<1>2. CASE RecordEnvelope(c)
  <2> DEFINE whole == IF Failures(c) = {} THEN "success" ELSE "partial"
  <2> DEFINE row == Row(None, whole)
  <2> DEFINE r == Answer(run[c], "outcome")
  <2>1. /\ run[c].pc = "entries" /\ run[c].took # None /\ run[c].took \in Tokens
        /\ run[c].token = run[c].took
    BY <1>2 DEF RecordEnvelope, At, RunInv, Requested, Spent
  <2>2. r \in RunStates /\ Become(c, r)
    BY <1>2 DEF RecordEnvelope, RunStates, Locations, Replies, Answer
  <2>3. run'[c] = r
    BY <2>2, BecomeIs
  <2>4. row \in Entries
    BY DEF Row, Entries, Statuses
  <2>5. trail' = [trail EXCEPT ![c] = @ \cup {row}]
    BY <1>2 DEF RecordEnvelope, Write
  <2>6. TypeOK'
    BY <1>2, <2>2, <2>4, <2>5 DEF RecordEnvelope, Become, IInv, TypeOK, service, locks
  <2>7. trail'[c] = trail[c] \cup {row}
    BY <2>5 DEF IInv, TypeOK
  <2>8. /\ UNCHANGED <<now, dry, rows, acted>>
        /\ run'[c].pc = "done" /\ run'[c].reply = "outcome" /\ run'[c].token = run[c].token
        /\ run'[c].took = run[c].took /\ run'[c].scope = run[c].scope /\ run'[c].at = run[c].at
        /\ run'[c].results = run[c].results
    BY <1>2, <2>3 DEF RecordEnvelope, service, RunStates, Answer
  <2>9. RunInv(c)'
    <3>1. Requested(c)' /\ Cleared(c)'
      BY <2>1, <2>8 DEF RunInv, Requested, Cleared, BeforeTake, At
    <3>2. Spent(c)'
      BY <2>1, <2>7, <2>8 DEF RunInv, Spent, Batch, Started
    <3>3. Reported(c)'
      BY <2>1, <2>8 DEF RunInv, Reported, Batch, Undone, At
    <3>4. trail'[c] = {Started, row} \cup {Row(f, run[c].results[f]) : f \in Batch(c).fps}
      BY <1>2, <2>7, EntriesAreResults DEF RecordEnvelope
    <3>5. whole \in {"success", "partial"}
      OBVIOUS
    <3>6. Outcome(c)'
      <4> HIDE DEF whole
      <4>1. Batch(c)' = Batch(c)
        BY <2>8 DEF Batch
      <4> QED
        BY <2>8, <3>4, <3>5, <4>1 DEF Outcome, Started, Row
    <3>7. Told(c)'
      BY <2>1, <2>8, <3>6 DEF Told, At
    <3> QED
      BY <3>1, <3>2, <3>3, <3>7 DEF RunInv
  <2> QED
    BY <2>2, <2>5, <2>6, <2>8, <2>9, StepOfRun DEF IInv, TypeOK, RunStates, Answer
<1>3. CASE RecordFailure(c)
  <2> DEFINE r == Answer(run[c], "error")
  <2> DEFINE row == Row(None, "failed")
  <2>1. r \in RunStates /\ Become(c, r)
    BY <1>3 DEF RecordFailure, RunStates, Locations, Replies, Answer
  <2>2. run'[c] = r
    BY <2>1, BecomeIs
  <2>3. trail' = [trail EXCEPT ![c] = @ \cup {row}]
    BY <1>3 DEF RecordFailure, Write
  <2>4. TypeOK'
    BY <1>3, <2>1, <2>3 DEF RecordFailure, IInv, TypeOK, Become, service, locks, Row, Entries, Statuses
  <2>5. trail'[c] = trail[c] \cup {row}
    BY <2>3 DEF IInv, TypeOK
  <2>6. RunInv(c)'
    BY <1>3, <2>1, <2>2, <2>5 DEF RecordFailure, RunInv, Requested, Cleared, Spent, Reported, Told,
       BeforeTake, service, RunStates, Answer, At, Batch, Undone, Started
  <2> QED
    BY <1>3, <2>1, <2>3, <2>4, <2>6, StepOfRun DEF RecordFailure, service, RunStates, Answer, IInv, TypeOK
<1>4. CASE AuditFails(c)
  <2> DEFINE r == Answer(run[c], "error")
  <2>1. r \in RunStates /\ Continue(c, r)
    BY <1>4 DEF AuditFails, RunStates, Locations, Replies, Answer
  <2>2. run'[c] = r
    BY <2>1, BecomeIs DEF Continue
  <2>3. RunInv(c)'
    BY <1>4, <2>1, <2>2 DEF AuditFails, RunInv, Requested, Cleared, Spent, Reported, Told, BeforeTake,
       Continue, service, RunStates, Answer, At, Batch, Undone, Started
  <2> QED
    BY <2>1, <2>3, ContinueStep DEF RunStates, Answer
<1> QED
  BY <1>1, <1>2, <1>3, <1>4 DEF Record

LEMMA CrashPreserves ==
    ASSUME IInv, NEW r \in Replicas, Crash(r)
    PROVE  IInv'
<1> USE DEF IInv
<1>1. UNCHANGED <<now, dry, rows, acted, trail>>
  BY DEF Crash, service
<1>2. \A c \in Runs : run'[c] = IF ReplicaOf[c] = r /\ Active(c) THEN Goto(run[c], "crashed") ELSE run[c]
  BY DEF Crash
<1>3. run' \in [Runs -> RunStates]
  <2>1. ASSUME NEW c \in Runs PROVE Goto(run[c], "crashed") \in RunStates
    <3>1. run[c] \in RunStates
      BY DEF TypeOK
    <3> QED
      BY <3>1 DEF RunStates, Goto, Locations
  <2> QED
    BY <2>1 DEF Crash, TypeOK
<1>4. busy' \in [Replicas -> [Scopes -> Runs \cup {None}]]
  BY DEF Crash, TypeOK
<1>5. queue' \in [Scopes -> Runs \cup {None}]
  BY DEF Crash, TypeOK
<1>6. TypeOK'
  BY <1>3, <1>4, <1>5 DEF Crash, TypeOK, service
<1>7. WorldMoves
  BY <1>1, ClockAssumption DEF WorldMoves, TypeOK
<1>8. ASSUME NEW c \in Runs, run'[c] # run[c] PROVE RunInv(c)'
  <2>1. /\ run[c] \in RunStates /\ RunInv(c) /\ Active(c)
        /\ run'[c] = Goto(run[c], "crashed")
    BY <1>2, <1>8 DEF TypeOK
  <2>2. /\ run'[c].pc = "crashed" /\ run'[c].token = run[c].token /\ run'[c].took = run[c].took
        /\ run'[c].scope = run[c].scope /\ run'[c].at = run[c].at /\ run'[c].reply = "none"
        /\ run'[c].results = run[c].results
    BY <2>1 DEF RunStates, Goto, Active, RunInv, Requested, At
  <2>3. Requested(c)' /\ Cleared(c)' /\ Spent(c)' /\ Reported(c)' /\ Told(c)'
    BY <1>1, <2>1, <2>2 DEF RunInv, Requested, Cleared, Spent, Reported, Told, BeforeTake, Active,
       At, Batch, Undone, Started
  <2> QED
    BY <2>3 DEF RunInv
<1>9. \A c \in Runs : RunInv(c)'
  BY <1>1, <1>7, <1>8, Untouched
<1>10. DryInv'
  BY <1>1 DEF DryInv
<1>11. OneExecution'
  <2>1. \A c \in Runs : run'[c].took = run[c].took
    BY <1>2 DEF TypeOK, RunStates, Goto
  <2> QED
    BY <2>1 DEF OneExecution
<1> QED
  BY <1>6, <1>9, <1>10, <1>11

LEMMA InitIsSafe == Init => IInv
<1> SUFFICES ASSUME Init PROVE IInv
  OBVIOUS
<1>1. NewRun \in RunStates
  BY DEF NewRun, RunStates, Locations, Replies
<1>2. NoDryRun \in DryRuns
  BY DEF NoDryRun, DryRuns
<1>3. TypeOK
  BY <1>1, <1>2, ClockAssumption, BacklogAssumption DEF Init, TypeOK
<1>4. ASSUME NEW c \in Runs PROVE RunInv(c)
  BY <1>4, NoneAssumption DEF Init, NewRun, RunInv, Requested, Cleared, Spent, Reported, Told, At, BeforeTake
<1>5. DryInv /\ OneExecution
  BY DEF Init, DryInv, OneExecution, NoDryRun, NewRun
<1> QED
  BY <1>3, <1>4, <1>5 DEF IInv

LEMMA NextIsSafe == IInv /\ [Next]_vars => IInv'
<1> SUFFICES ASSUME IInv, [Next]_vars PROVE IInv'
  OBVIOUS
<1>1. CASE UNCHANGED vars
  BY <1>1 DEF vars, IInv, TypeOK, DryInv, OneExecution, RunInv, Requested, Cleared, Spent, Reported, Told,
     Outcome, At, Batch, Undone, Valid, Started, Row, BeforeTake
<1>2. CASE Tick \/ \E s \in Scopes, f \in Fps : Produce(s, f) \/ Consume(s, f)
  BY <1>2, EnvironmentPreserves
<1>3. ASSUME NEW t \in Tokens,
             DryStore(t) \/ \E s \in Scopes, a \in Dryable, S \in SUBSET Fps : DryScan(t, s, a, S)
      PROVE  IInv'
  BY <1>3, DryRunPreserves
<1>4. ASSUME NEW c \in Runs, Step(c) \/ \E t \in Tokens, s \in Scopes : Present(c, t, s)
      PROVE  IInv'
  BY <1>4, RoutePreserves, TakePreserves, OperatePreserves, RecordPreserves DEF Step
<1>5. ASSUME NEW r \in Replicas, Crash(r) PROVE IInv'
  BY <1>5, CrashPreserves
<1> QED
  BY <1>1, <1>2, <1>3, <1>4, <1>5 DEF Next, Terminated

(* The invariant behind all that follows. *)
THEOREM InductiveInvariant == Spec => []IInv
BY InitIsSafe, NextIsSafe, PTL DEF Spec

-------------------------------------------------------------------------------
(* What follows from it. *)

(* Every state of every run is well typed. *)
THEOREM TypeCorrect == Spec => []TypeOK
BY InductiveInvariant, PTL DEF IInv

(* A token executes once, however many requests race for it on however many   *)
(* replicas.                                                                  *)
THEOREM ExecutedOnce == Spec => []OneExecution
BY InductiveInvariant, PTL DEF IInv

(* A run acts only on what its dry run saw, where it saw it, and takes its     *)
(* batch before it expires.                                                    *)
THEOREM ActsOnApproved == Spec => []OnlyApproved
<1>1. IInv => OnlyApproved
  <2> SUFFICES ASSUME IInv, NEW c \in Runs
               PROVE  /\ acted[c] # {} => run[c].took # None
                      /\ run[c].took # None =>
                           /\ acted[c] \subseteq Batch(c).seen
                           /\ run[c].scope = Batch(c).scope
                           /\ run[c].at <= Batch(c).expires
    BY DEF OnlyApproved
  <2>1. TypeOK /\ DryInv /\ RunInv(c)
    BY DEF IInv
  <2>2. run[c].took # None => Batch(c).fps \subseteq Batch(c).seen
    BY <2>1, TokensStored DEF DryInv, Batch
  <2> QED
    BY <2>1, <2>2 DEF RunInv, Spent, Reported
<1> QED
  BY <1>1, InductiveInvariant, PTL

(* No audit, no action: a run that has acted has its attempt on record, which  *)
(* the route wrote before it went for the batch.                               *)
THEOREM AuditedFirst == Spec => []NoAuditNoAction
<1>1. IInv => NoAuditNoAction
  BY DEF IInv, RunInv, Spent, NoAuditNoAction, Started
<1> QED
  BY <1>1, InductiveInvariant, PTL

(* Only an Admin's run takes a batch that deletes. *)
THEOREM AdminsDelete == Spec => []OnlyAdminsDelete
<1>1. IInv => OnlyAdminsDelete
  BY DEF IInv, RunInv, Spent, OnlyAdminsDelete
<1> QED
  BY <1>1, InductiveInvariant, PTL

(* A run that answers with an outcome has one row for each approved            *)
(* fingerprint, which says success exactly when its message was acted on.      *)
THEOREM AuditIsTrue == Spec => []AuditTells
<1>1. IInv => AuditTells
  <2> SUFFICES ASSUME IInv, NEW c \in Runs, run[c].reply = "outcome"
               PROVE  /\ \A f \in Batch(c).fps :
                            /\ Cardinality({e \in trail[c] : e.fp = f}) = 1
                            /\ Row(f, "success") \in trail[c] <=> f \in acted[c]
                      /\ Row(None, "failed") \notin trail[c]
                      /\ Cardinality({e \in trail[c] : e.fp = None}) = 2
    BY DEF AuditTells
  <2>1. RunInv(c) /\ run[c].took # None /\ Outcome(c) /\ TypeOK
    BY DEF IInv, RunInv, Told
  <2>2. PICK whole \in {"success", "partial"} :
          trail[c] = {Started, Row(None, whole)} \cup {Row(f, run[c].results[f]) : f \in Batch(c).fps}
    BY <2>1 DEF Outcome
  <2>3. Batch(c).fps \subseteq Fps
    BY <2>1, TokensStored DEF Batch, TypeOK, DryRuns
  <2>4. None \notin Batch(c).fps
    BY <2>3, NoneAssumption
  <2>5. ASSUME NEW f \in Batch(c).fps
        PROVE  /\ Cardinality({e \in trail[c] : e.fp = f}) = 1
               /\ Row(f, "success") \in trail[c] <=> f \in acted[c]
    <3>1. {e \in trail[c] : e.fp = f} = {Row(f, run[c].results[f])}
      BY <2>2, <2>4, <2>5 DEF Row, Started
    <3>2. Row(f, "success") \in trail[c] <=> run[c].results[f] = "success"
      BY <2>2, <2>4, <2>5 DEF Row, Started
    <3> QED
      BY <2>1, <3>1, <3>2, FS_Singleton DEF RunInv, Reported
  <2>6. Row(None, "failed") \notin trail[c]
    BY <2>2, <2>4 DEF Row, Started
  <2>7. {e \in trail[c] : e.fp = None} = {Started, Row(None, whole)}
    BY <2>2, <2>4 DEF Row, Started
  <2>8. Cardinality({Started, Row(None, whole)}) = 2
    <3>1. Started # Row(None, whole)
      BY <2>2 DEF Started, Row
    <3>2. IsFiniteSet({Started}) /\ Cardinality({Started}) = 1
      BY FS_Singleton
    <3>3. Cardinality({Started} \cup {Row(None, whole)}) = 1 + 1
      <4>1. Row(None, whole) \notin {Started}
        BY <3>1
      <4> HIDE DEF Started
      <4> QED
        BY <3>2, <4>1, FS_AddElement
    <3>4. {Started} \cup {Row(None, whole)} = {Started, Row(None, whole)}
      OBVIOUS
    <3> QED
      BY <3>3, <3>4
  <2> QED
    BY <2>5, <2>6, <2>7, <2>8
<1> QED
  BY <1>1, InductiveInvariant, PTL

-------------------------------------------------------------------------------
(* The refinement: every step of BulkRuns is a step of BulkPromise, or nothing *)
(* that it can see.                                                            *)

absVars == <<Approval, Stage, Done>>

(* One run took a batch, and its row is gone. *)
LEMMA TakerIsAlone ==
    ASSUME IInv, NEW c \in Runs, run[c].took # None
    PROVE  /\ TakenBy(run[c].took) = {c}
           /\ run[c].took \in Tokens \ rows
           /\ dry[run[c].took].pc = "stored"
<1>1. run[c].took \in Tokens \ rows /\ dry[run[c].took].pc = "stored"
  BY TokensStored DEF IInv, RunInv, Spent
<1> QED
  BY <1>1 DEF IInv, OneExecution, TakenBy

(* A step that stores nothing, takes nothing and acts on nothing can only end *)
(* approvals: by the loss of a row, or because the run at work stops.         *)
LEMMA OnlyEnds ==
    ASSUME IInv,
           \A t \in Tokens : /\ dry'[t].pc = "stored" <=> dry[t].pc = "stored"
                             /\ dry[t].pc = "stored" => dry'[t] = dry[t],
           rows' \subseteq rows, acted' = acted,
           \A c \in Runs : /\ run'[c].took = run[c].took
                           /\ run[c].took # None => /\ run'[c].scope = run[c].scope
                                                    /\ Working(c)' => Working(c)
    PROVE  [Promise!Next]_absVars
<1>1. \A t \in Tokens : TakenBy(t)' = TakenBy(t) /\ \A c \in TakenBy(t) : run[c].took # None
  BY NoneAssumption DEF TakenBy
<1>2. Approval' = Approval
  BY DEF Approval
<1>3. Done' = Done
  <2>1. ASSUME NEW t \in Tokens PROVE Done'[t] = Done[t]
    <3>1. \A c \in TakenBy(t) : run'[c].scope = run[c].scope /\ acted'[c] = acted[c]
      BY <1>1 DEF TakenBy
    <3> QED
      BY <1>1, <3>1 DEF Done
  <2> QED
    BY <2>1 DEF Done
<1> DEFINE ended == {t \in Tokens : Stage'[t] # Stage[t]}
<1>4. ASSUME NEW t \in ended
      PROVE  Stage[t] \in {"approved", "running"} /\ Stage'[t] = "over"
  <2>1. CASE t \in rows
    <3>1. TakenBy(t) = {}
      BY <2>1, TakerIsAlone, NoneAssumption DEF TakenBy
    <3> QED
      BY <1>1, <1>4, <2>1, <3>1 DEF Stage
  <2>2. CASE t \notin rows
    BY <1>1, <1>4, <2>2 DEF Stage, TakenBy
  <2> QED
    BY <2>1, <2>2
<1>5. Stage' = [t \in Tokens |-> IF t \in ended THEN "over" ELSE Stage[t]]
  BY <1>4 DEF Stage
<1>6. CASE ended = {}
  BY <1>2, <1>3, <1>5, <1>6 DEF absVars, Stage
<1>7. CASE ended # {}
  <2> HIDE DEF ended
  <2>1. Promise!Finish(ended)
    BY <1>2, <1>3, <1>4, <1>5, <1>7 DEF Promise!Finish
  <2>2. ended \in SUBSET Tokens
    BY DEF ended
  <2> QED
    BY <2>1, <2>2 DEF Promise!Next
<1> QED
  BY <1>6, <1>7

(* Storing a dry run approves what it selected. *)
LEMMA StoreApproves ==
    ASSUME IInv, NEW t \in Tokens, DryStore(t)
    PROVE  Promise!Approve(t)
<1> DEFINE a == [scope |-> dry[t].scope, fps |-> dry[t].fps]
<1>1. /\ dry[t].pc = "scanned" /\ dry'[t].pc = "stored"
      /\ dry'[t].scope = dry[t].scope /\ dry'[t].fps = dry[t].fps
      /\ \A u \in Tokens : u # t => dry'[u] = dry[u]
      /\ rows' = rows \cup {t} /\ run' = run /\ acted' = acted
  BY DEF DryStore, IInv, TypeOK, DryRuns
<1>2. a \in Promise!Approvals
  BY <1>1 DEF IInv, TypeOK, DryInv, DryRuns, Promise!Approvals
<1>3. Stage[t] = "none"
  BY <1>1 DEF Stage
<1>4. Approval' = [Approval EXCEPT ![t] = a]
  BY <1>1 DEF Approval
<1>5. Stage' = [Stage EXCEPT ![t] = "approved"]
  BY <1>1 DEF Stage, TakenBy, Working
<1>6. Done' = Done
  BY <1>1 DEF Done, TakenBy
<1> HIDE DEF a
<1> QED
  BY <1>2, <1>3, <1>4, <1>5, <1>6 DEF Promise!Approve

(* Taking the batch begins the use of its approval. *)
LEMMA TakeBegins ==
    ASSUME IInv, NEW c \in Runs, Take(c)
    PROVE  run[c].token \in Tokens /\ Promise!Begin(run[c].token)
<1>1. PICK t \in Tokens : t = run[c].token /\ dry[t].pc = "stored" /\ t \in rows /\ run[c].took = None
                          /\ acted[c] = {} /\ run[c] \in RunStates
  BY DEF IInv, TypeOK, RunInv, Requested, Spent, BeforeTake, Take, At, Valid
<1>2. /\ run' = [run EXCEPT ![c] = [run[c] EXCEPT !.took = t, !.at = now, !.pc = "guard"]]
      /\ rows' = rows \ {t} /\ dry' = dry /\ acted' = acted
  BY <1>1 DEF Take, Become
<1>3. /\ run'[c].took = t /\ run'[c].pc = "guard"
      /\ \A x \in Runs : x # c => run'[x] = run[x]
  BY <1>1, <1>2 DEF RunStates, IInv, TypeOK
<1>4. TakenBy(t) = {} /\ TakenBy(t)' = {c}
  <2>1. \A x \in Runs : run[x].took # t
    BY <1>1, TakerIsAlone, NoneAssumption
  <2> QED
    BY <1>3, <2>1 DEF TakenBy
<1>5. ASSUME NEW u \in Tokens, u # t
      PROVE  TakenBy(u)' = TakenBy(u) /\ \A x \in TakenBy(u) : run'[x] = run[x]
  BY <1>1, <1>3, <1>5, NoneAssumption DEF TakenBy
<1>6. Approval' = Approval
  BY <1>2 DEF Approval
<1>7. Stage[t] = "approved"
  BY <1>1 DEF Stage
<1>8. Stage' = [Stage EXCEPT ![t] = "running"]
  <2>1. Stage'[t] = "running"
    BY <1>1, <1>2, <1>3, <1>4 DEF Stage, Working
  <2>2. ASSUME NEW u \in Tokens, u # t PROVE Stage'[u] = Stage[u]
    <3>1. (\E x \in TakenBy(u) : Working(x))' <=> \E x \in TakenBy(u) : Working(x)
      BY <1>5, <2>2 DEF Working
    <3>2. dry'[u] = dry[u] /\ (u \in rows' <=> u \in rows)
      BY <1>2, <2>2
    <3> QED
      BY <3>1, <3>2 DEF Stage
  <2> QED
    BY <2>1, <2>2 DEF Stage
<1>9. Done' = Done
  <2>1. Done[t] = {} /\ Done'[t] = {}
    BY <1>1, <1>2, <1>4 DEF Done
  <2>2. ASSUME NEW u \in Tokens, u # t PROVE Done'[u] = Done[u]
    BY <1>2, <1>5, <2>2 DEF Done
  <2> QED
    BY <2>1, <2>2 DEF Done
<1> QED
  BY <1>1, <1>6, <1>7, <1>8, <1>9 DEF Promise!Begin

(* What a run at work does to one of its messages is one act for its token. *)
LEMMA ActActs ==
    ASSUME IInv, NEW c \in Runs, NEW f \in Fps, Acting(c, f),
           UNCHANGED <<dry, rows>>, acted' = [acted EXCEPT ![c] = @ \cup {f}],
           \A x \in Runs : /\ run'[x].took = run[x].took /\ run'[x].scope = run[x].scope
                           /\ run'[x].pc = run[x].pc
    PROVE  run[c].took \in Tokens /\ Promise!Act(run[c].took, f)
<1>1. InBatch(c) /\ f \in Undone(c) /\ f \in Batch(c).fps /\ f \notin acted[c]
  BY ActingIs DEF Acting, InBatch
<1>2. PICK t \in Tokens : t = run[c].took /\ TakenBy(t) = {c} /\ t \notin rows /\ dry[t].pc = "stored"
  BY <1>1, TakerIsAlone DEF InBatch
<1>3. \A u \in Tokens : TakenBy(u)' = TakenBy(u)
  BY DEF TakenBy
<1>4. Approval' = Approval /\ Approval[t] = [scope |-> run[c].scope, fps |-> Batch(c).fps]
  BY <1>1, <1>2 DEF Approval, InBatch, Batch
<1>5. Stage' = Stage
  BY <1>3 DEF Stage, Working, TakenBy
<1>6. Stage[t] = "running"
  BY <1>1, <1>2 DEF Stage, Working, InBatch
<1>7. acted'[c] = acted[c] \cup {f} /\ \A x \in Runs : x # c => acted'[x] = acted[x]
  BY DEF IInv, TypeOK
<1>8. Done[t] = {run[c].scope} \X acted[c] /\ Done'[t] = {run[c].scope} \X (acted[c] \cup {f})
  BY <1>2, <1>3, <1>7 DEF Done
<1>9. ASSUME NEW u \in Tokens, u # t PROVE Done'[u] = Done[u]
  <2>1. \A x \in TakenBy(u) : x \in Runs /\ x # c
    BY <1>2, <1>9 DEF TakenBy
  <2> QED
    BY <1>3, <1>7, <2>1 DEF Done
<1>10. Done' = [Done EXCEPT ![t] = @ \cup {<<run[c].scope, f>>}]
  <2>1. Done'[t] = Done[t] \cup {<<run[c].scope, f>>}
    BY <1>8
  <2> QED
    BY <1>9, <2>1 DEF Done
<1>11. <<run[c].scope, f>> \notin Done[t]
  BY <1>1, <1>8
<1> QED
  BY <1>1, <1>2, <1>4, <1>5, <1>6, <1>10, <1>11 DEF Promise!Act

(* The steps of a run, told apart by what the promise sees of them. *)
LEMMA StepIsPromised ==
    ASSUME IInv, NEW c \in Runs, Step(c) \/ \E t \in Tokens, s \in Scopes : Present(c, t, s)
    PROVE  [Promise!Next]_absVars
<1>1. run \in [Runs -> RunStates] /\ run[c] \in RunStates /\ RunInv(c)
  BY DEF IInv, TypeOK
<1>2. CASE Take(c)
  BY <1>2, TakeBegins DEF Promise!Next
<1>3. ASSUME NEW f \in Fps, Move(c, f) PROVE [Promise!Next]_absVars
  <2>1. \A x \in Runs : /\ run'[x].took = run[x].took /\ run'[x].scope = run[x].scope
                        /\ run'[x].pc = run[x].pc
    BY <1>1, <1>3 DEF Move, Become, Report, RunStates
  <2> QED
    BY <1>3, <2>1, ActActs DEF Move, Promise!Next
<1>4. ASSUME NEW f \in Fps, HaltPublished(c, f), Batch(c).action = "copy" PROVE [Promise!Next]_absVars
  <2>1. \A x \in Runs : /\ run'[x].took = run[x].took /\ run'[x].scope = run[x].scope
                        /\ run'[x].pc = run[x].pc
    BY <1>1, <1>4 DEF HaltPublished, Become, Halt, RunStates
  <2> QED
    BY <1>4, <2>1, ActActs DEF HaltPublished, service, Promise!Next
<1>5. ASSUME NEW r, Become(c, r), dry' = dry, acted' = acted, rows' \subseteq rows,
             r.took = run[c].took,
             run[c].took # None => /\ r.scope = run[c].scope
                                   /\ r.pc \in {"guard", "queue", "act"} => Working(c)
      PROVE  [Promise!Next]_absVars
  <2>1. \A x \in Runs : run'[x] = IF x = c THEN r ELSE run[x]
    BY <1>1, <1>5 DEF Become
  <2> QED
    BY <1>5, <2>1, OnlyEnds DEF Working
<1>6. CASE Route(c) \/ Record(c)
  BY <1>1, <1>5, <1>6 DEF Route, Record, CheckRole, Peek, RecordAttempt, AttemptRefused, RecordEntry,
     RecordEnvelope, RecordFailure, AuditFails, Continue, service, Goto, Answer, RunStates, At, Working
<1>7. ASSUME NEW t \in Tokens, NEW s \in Scopes, Present(c, t, s) PROVE [Promise!Next]_absVars
  BY <1>1, <1>5, <1>7 DEF Present, RunInv, Requested, BeforeTake, Continue, service, RunStates, At, Working
<1>8. CASE Enter(c) \/ Unknown(c) \/ TakeFails(c) \/ GuardAllows(c) \/ GuardRefuses(c)
  BY <1>1, <1>5, <1>8 DEF Enter, Unknown, TakeFails, GuardAllows, GuardRefuses, Continue, service, Goto,
     Answer, RunStates, At, Working
<1>9. CASE LockQueue(c) \/ BatchReturns(c) \/ BatchRaises(c)
  BY <1>1, <1>5, <1>9 DEF LockQueue, BatchReturns, BatchRaises, LeaveQueue, service, Goto, RunStates,
     At, Working
<1>10. ASSUME NEW f \in Fps,
              \/ Absent(c, f) \/ Duplicated(c, f) \/ Undelivered(c, f) \/ HaltUnpublished(c, f)
              \/ HaltPublished(c, f) /\ Batch(c).action # "copy"
       PROVE  [Promise!Next]_absVars
  BY <1>1, <1>5, <1>10 DEF Absent, Duplicated, Undelivered, HaltUnpublished, HaltPublished, Skip, Report,
     Halt, Acting, Continue, service, RunStates, At, Working
<1>11. CASE Execute(c)
  BY <1>2, <1>8, <1>11 DEF Execute
<1>12. CASE Operate(c)
  <2>1. ASSUME NEW f \in Fps, HaltPublished(c, f) PROVE [Promise!Next]_absVars
    BY <1>4, <1>10, <2>1
  <2>2. ASSUME NEW f \in Fps,
               \/ Absent(c, f) \/ Duplicated(c, f) \/ Move(c, f) \/ Undelivered(c, f)
               \/ HaltPublished(c, f) \/ HaltUnpublished(c, f)
        PROVE  [Promise!Next]_absVars
    BY <1>3, <1>10, <2>1, <2>2
  <2> QED
    BY <1>9, <1>12, <2>2 DEF Operate
<1> QED
  BY <1>6, <1>7, <1>11, <1>12 DEF Step

LEMMA NextIsPromised == IInv /\ [Next]_vars => [Promise!Next]_absVars
<1> SUFFICES ASSUME IInv, [Next]_vars PROVE [Promise!Next]_absVars
  OBVIOUS
<1>1. CASE UNCHANGED <<dry, rows, run, acted>>
  BY <1>1, OnlyEnds DEF Working
<1>2. ASSUME NEW t \in Tokens, DryStore(t) PROVE [Promise!Next]_absVars
  BY <1>2, StoreApproves DEF Promise!Next
<1>3. ASSUME NEW t \in Tokens, NEW s \in Scopes, NEW a \in Dryable, NEW S \in SUBSET Fps,
             DryScan(t, s, a, S)
      PROVE  [Promise!Next]_absVars
  <2>1. \A u \in Tokens : /\ dry'[u].pc = "stored" <=> dry[u].pc = "stored"
                          /\ dry[u].pc = "stored" => dry'[u] = dry[u]
    BY <1>3 DEF DryScan, IInv, TypeOK
  <2> QED
    BY <1>3, <2>1, OnlyEnds DEF DryScan, Working
<1>4. ASSUME NEW c \in Runs, Step(c) \/ \E t \in Tokens, s \in Scopes : Present(c, t, s)
      PROVE  [Promise!Next]_absVars
  BY <1>4, StepIsPromised
<1>5. ASSUME NEW r \in Replicas, Crash(r) PROVE [Promise!Next]_absVars
  <2>1. ASSUME NEW c \in Runs
        PROVE  /\ run'[c].took = run[c].took /\ run'[c].scope = run[c].scope
               /\ Working(c)' => Working(c)
    <3>1. run[c] \in RunStates
      BY DEF IInv, TypeOK
    <3> QED
      BY <1>5, <3>1 DEF Crash, Goto, RunStates, Working
  <2> QED
    BY <1>5, <2>1, OnlyEnds DEF Crash, service
<1> QED
  BY <1>1, <1>2, <1>3, <1>4, <1>5 DEF Next, Tick, Produce, Consume, Terminated, vars

LEMMA InitIsPromised == Init => Promise!Init
BY NoneAssumption DEF Init, NoDryRun, NewRun, Promise!Init, Approval, Stage, Done, TakenBy

(* Bulk runs keep the abstract promise: what a token approves is used once, in  *)
(* its own queue, each message at most once, and never after its use has ended. *)
THEOREM KeepsPromise == Spec => PromiseSpec
<1>1. Init => Promise!Init
  BY InitIsPromised
<1>2. IInv /\ [Next]_vars => [Promise!Next]_<<Approval, Stage, Done>>
  BY NextIsPromised DEF absVars
<1> QED
  BY <1>1, <1>2, InductiveInvariant, PTL DEF Spec, PromiseSpec, Promise!Spec
================================================================================
