-------------------------------- MODULE BulkRuns --------------------------------
(***************************************************************************)
(* Bulk actions in two phases.  A dry run scans a queue and stores what it *)
(* saw, and a person or a policy selected, as a batch behind a token       *)
(* (BulkActionService.dry_run, BulkBatchRepository).  A run presents a     *)
(* token: the route and execute_audited look at the batch, record the      *)
(* attempt, take the batch, act on its fingerprints one by one             *)
(* (operate_bulk, seen here only through what it does and reports), and    *)
(* record each outcome and the whole.                                      *)
(*                                                                         *)
(* Runs are served by several replicas, in several scopes (an environment  *)
(* and a vhost, each with a queue of the same name), over one database.    *)
(***************************************************************************)
EXTENDS Integers, FiniteSets

CONSTANTS
    Fps,         \* fingerprints
    Tokens,      \* dry runs, and the batch each of them stores
    Runs,        \* executions
    Replicas,
    ReplicaOf,   \* ReplicaOf[c]: the process that serves run c
    Admins,      \* runs that an Admin asks for; the others are Operators
    Scopes,
    Backlog,     \* Backlog[s][f]: messages queued at the start
    Dryable,     \* what dry runs ask for: their operator action
    Ttl,         \* bulk_dry_run_ttl_seconds
    MaxNow,      \* bound: the clock stops there
    MaxCopies,   \* bound: messages with one fingerprint in one queue
    MaxChanges,  \* bound: messages that others add or take, in all
    Faults,      \* "database", "delivery", "refused", "connection", "crash"
    None

OperatorActions == {"copy", "move", "park", "delete"}

ASSUME ReplicaAssumption == ReplicaOf \in [Runs -> Replicas]
ASSUME AdminsAssumption == Admins \subseteq Runs
ASSUME DryableAssumption == Dryable \subseteq OperatorActions
ASSUME ClockAssumption == {Ttl, MaxNow, MaxCopies, MaxChanges} \subseteq Nat
ASSUME BacklogAssumption == Backlog \in [Scopes -> [Fps -> 0..MaxCopies]]
ASSUME FaultsAssumption ==
    Faults \subseteq {"database", "delivery", "refused", "connection", "crash"}
ASSUME NoneAssumption == None \notin Tokens \cup Runs \cup Scopes \cup Fps

VARIABLES
    now,     \* the clock
    queued,  \* queued[s][f]: messages with fingerprint f in the queue of scope s
    changes, \* how many messages others have added or taken
    dry,     \* dry[t]: what the dry run of token t has seen and selected
    rows,    \* tokens with a row in the bulk_batches table
    busy,    \* busy[r][s]: the run that holds the service's own asyncio lock
    queue,   \* queue[s]: the run that holds the lock on the queue
    run,     \* run[c]: the request's own state
    acted,   \* acted[c]: fingerprints whose message c has copied or taken out
    trail    \* trail[c]: the audit rows c has written

vars == <<now, queued, changes, dry, rows, busy, queue, run, acted, trail>>

Statuses == {"success", "failed", "not_found", "skipped_duplicate", "not_attempted"}
Locations == {"idle", "route", "peek", "attempt", "wait", "take", "guard", "queue", "act",
              "entries", "excuse", "done", "crashed"}
Replies == {"none", "outcome", "forbidden", "unknown", "error"}

(* An audit row: about the batch (fp = None) or one of its messages. *)
Row(fp, result) == [fp |-> fp, result |-> result]
Entries == [fp : Fps \cup {None}, result : Statuses \cup {"started", "partial"}]

NoDryRun == [pc |-> "idle", action |-> None, scope |-> None, seen |-> {}, fps |-> {}, expires |-> 0]
DryRuns ==
    [pc : {"idle", "scanned", "stored"}, action : Dryable \cup {None}, scope : Scopes \cup {None},
     seen : SUBSET Fps, fps : SUBSET Fps, expires : Nat]

NewRun ==
    [pc |-> "idle", token |-> None, scope |-> None,
     took |-> None, at |-> 0, results |-> [f \in Fps |-> "none"], reply |-> "none"]
RunStates ==
    [pc : Locations, token : Tokens \cup {None}, scope : Scopes \cup {None},
     took : Tokens \cup {None},   \* the batch it took
     at : Nat,                    \* and when
     results : [Fps -> Statuses \cup {"none"}],
     reply : Replies]

TypeOK ==
    /\ now \in 0..MaxNow
    /\ queued \in [Scopes -> [Fps -> 0..MaxCopies]]
    /\ changes \in 0..MaxChanges
    /\ dry \in [Tokens -> DryRuns]
    /\ rows \subseteq Tokens
    /\ busy \in [Replicas -> [Scopes -> Runs \cup {None}]]
    /\ queue \in [Scopes -> Runs \cup {None}]
    /\ run \in [Runs -> RunStates]
    /\ acted \in [Runs -> SUBSET Fps]
    /\ trail \in [Runs -> SUBSET Entries]

Init ==
    /\ now = 0
    /\ queued = Backlog
    /\ changes = 0
    /\ dry = [t \in Tokens |-> NoDryRun]
    /\ rows = {}
    /\ busy = [r \in Replicas |-> [s \in Scopes |-> None]]
    /\ queue = [s \in Scopes |-> None]
    /\ run = [c \in Runs |-> NewRun]
    /\ acted = [c \in Runs |-> {}]
    /\ trail = [c \in Runs |-> {}]

-------------------------------------------------------------------------------
At(c, location) == run[c].pc = location
Batch(c) == dry[run[c].took]
Undone(c) == {f \in Batch(c).fps : run[c].results[f] = "none"}
Entered(c) == {f \in Fps : \E e \in trail[c] : e.fp = f}

(* A row is found only before it expires. *)
Valid(t) == t \in rows /\ dry[t].expires >= now

Become(c, r) == run' = [run EXCEPT ![c] = r]
Goto(r, location) == [r EXCEPT !.pc = location]
Answer(r, reply) == [r EXCEPT !.reply = reply, !.pc = "done"]
Report(r, f, status) == [r EXCEPT !.results[f] = status]
Write(c, row) == trail' = [trail EXCEPT ![c] = @ \cup {row}]

service == <<now, queued, changes, dry, rows>>
locks == <<busy, queue>>

Continue(c, r) == Become(c, r) /\ UNCHANGED <<service, locks, acted, trail>>

(* The asyncio lock of the bulk service that serves c. *)
FreeService(c) == busy' = [busy EXCEPT ![ReplicaOf[c]][run[c].scope] = None]

-------------------------------------------------------------------------------
(* The environment: time, producers, other consumers of the queues.  What    *)
(* happens to a queue while a run holds it is not seen by that run: it is as *)
(* if it happened after.                                                     *)

Tick ==
    /\ now < MaxNow
    /\ now' = now + 1
    /\ UNCHANGED <<queued, changes, dry, rows, locks, run, acted, trail>>

Produce(s, f) ==
    /\ queue[s] = None
    /\ queued[s][f] < MaxCopies
    /\ changes < MaxChanges
    /\ queued' = [queued EXCEPT ![s][f] = @ + 1]
    /\ changes' = changes + 1
    /\ UNCHANGED <<now, dry, rows, locks, run, acted, trail>>

Consume(s, f) ==
    /\ queue[s] = None
    /\ queued[s][f] > 0
    /\ changes < MaxChanges
    /\ queued' = [queued EXCEPT ![s][f] = @ - 1]
    /\ changes' = changes + 1
    /\ UNCHANGED <<now, dry, rows, locks, run, acted, trail>>

-------------------------------------------------------------------------------
(* dry_run: scan, keep what is selected among the messages seen, store. *)

DryScan(t, s, action, fps) ==
    /\ dry[t].pc = "idle"
    /\ queue[s] = None
    /\ LET seen == {f \in Fps : queued[s][f] > 0}
       IN /\ fps \subseteq seen
          /\ dry' = [dry EXCEPT ![t] = [pc |-> "scanned", action |-> action, scope |-> s,
                                        seen |-> seen, fps |-> fps, expires |-> now + Ttl]]
    /\ UNCHANGED <<now, queued, changes, rows, locks, run, acted, trail>>

DryStore(t) ==
    /\ dry[t].pc = "scanned"
    /\ dry' = [dry EXCEPT ![t].pc = "stored"]
    /\ rows' = rows \cup {t}
    /\ UNCHANGED <<now, queued, changes, locks, run, acted, trail>>

-------------------------------------------------------------------------------
(* The execute route. *)

(* Someone who was given the token presents it, confirmed. *)
Present(c, t, s) ==
    /\ At(c, "idle")
    /\ dry[t].pc = "stored"
    /\ Continue(c, [run[c] EXCEPT !.token = t, !.scope = s, !.pc = "route"])

(* Mutant: the role is not looked at. *)
AnyoneDeletes(c) ==
    /\ At(c, "route")
    /\ Continue(c, Goto(run[c], "peek"))

(* The first look: deleting takes the Admin role. *)
CheckRole(c) ==
    /\ At(c, "route")
    /\ LET forbidden == /\ Valid(run[c].token)
                        /\ dry[run[c].token].action = "delete"
                        /\ c \notin Admins
       IN Continue(c, IF forbidden THEN Answer(run[c], "forbidden") ELSE Goto(run[c], "peek"))

(* execute_audited looks again: only a batch it finds has its attempt recorded. *)
Peek(c) ==
    /\ At(c, "peek")
    /\ Continue(c, Goto(run[c], IF Valid(run[c].token) THEN "attempt" ELSE "wait"))

RecordAttempt(c) ==
    /\ At(c, "attempt")
    /\ Write(c, Row(None, "started"))
    /\ Become(c, Goto(run[c], "wait"))
    /\ UNCHANGED <<service, locks, acted>>

(* Mutant: an attempt that could not be recorded goes on. *)
AttemptNotNeeded(c) ==
    /\ "database" \in Faults
    /\ At(c, "attempt")
    /\ Continue(c, Goto(run[c], "wait"))

(* No audit, no action. *)
AttemptRefused(c) ==
    /\ "database" \in Faults
    /\ At(c, "attempt")
    /\ Continue(c, Answer(run[c], "error"))

-------------------------------------------------------------------------------
(* BulkActionService.execute. *)

(* One execution at a time on this service. *)
Enter(c) ==
    /\ At(c, "wait")
    /\ busy[ReplicaOf[c]][run[c].scope] = None
    /\ busy' = [busy EXCEPT ![ReplicaOf[c]][run[c].scope] = c]
    /\ Become(c, Goto(run[c], "take"))
    /\ UNCHANGED <<service, queue, acted, trail>>

(* Mutant: the row is read, and deleted by someone else. *)
TakeLeavesRow(c) ==
    /\ At(c, "take")
    /\ Valid(run[c].token)
    /\ dry[run[c].token].scope = run[c].scope
    /\ Become(c, [run[c] EXCEPT !.took = run[c].token, !.at = now, !.pc = "guard"])
    /\ UNCHANGED <<service, locks, acted, trail>>

(* Mutant: the batch is executed wherever its token is presented. *)
TakeAnywhere(c) ==
    /\ At(c, "take")
    /\ Valid(run[c].token)
    /\ rows' = rows \ {run[c].token}
    /\ Become(c, [run[c] EXCEPT !.took = run[c].token, !.at = now, !.pc = "guard"])
    /\ UNCHANGED <<now, queued, changes, dry, locks, acted, trail>>

(* One statement deletes the row and returns the batch. *)
Take(c) ==
    /\ At(c, "take")
    /\ Valid(run[c].token)
    /\ dry[run[c].token].scope = run[c].scope
    /\ rows' = rows \ {run[c].token}
    /\ Become(c, [run[c] EXCEPT !.took = run[c].token, !.at = now, !.pc = "guard"])
    /\ UNCHANGED <<now, queued, changes, dry, locks, acted, trail>>

(* No such batch any more, or it is another scope's (its token is spent then). *)
Unknown(c) ==
    /\ At(c, "take")
    /\ ~(Valid(run[c].token) /\ dry[run[c].token].scope = run[c].scope)
    /\ rows' = IF Valid(run[c].token) THEN rows \ {run[c].token} ELSE rows
    /\ FreeService(c)
    /\ Become(c, Answer(run[c], "unknown"))
    /\ UNCHANGED <<now, queued, changes, dry, queue, acted, trail>>

(* The database fails before or after it deleted the row. *)
TakeFails(c) ==
    /\ "database" \in Faults
    /\ At(c, "take")
    /\ rows' \in {rows, rows \ {run[c].token}}
    /\ FreeService(c)
    /\ Become(c, Goto(run[c], "excuse"))
    /\ UNCHANGED <<now, queued, changes, dry, queue, acted, trail>>

GuardAllows(c) ==
    /\ At(c, "guard")
    /\ Continue(c, Goto(run[c], "queue"))

(* The guard refuses the queue, or the Management API does not answer. *)
GuardRefuses(c) ==
    /\ "refused" \in Faults
    /\ At(c, "guard")
    /\ FreeService(c)
    /\ Become(c, Goto(run[c], "excuse"))
    /\ UNCHANGED <<service, queue, acted, trail>>

-------------------------------------------------------------------------------
(* operate_bulk, under the lock on the queue. *)

LockQueue(c) ==
    /\ At(c, "queue")
    /\ queue[run[c].scope] = None
    /\ queue' = [queue EXCEPT ![run[c].scope] = c]
    /\ Become(c, Goto(run[c], "act"))
    /\ UNCHANGED <<service, busy, acted, trail>>

Acting(c, f) == At(c, "act") /\ f \in Undone(c)
Skip(c, f, status) == Continue(c, Report(run[c], f, status))

Absent(c, f) ==
    /\ Acting(c, f)
    /\ queued[run[c].scope][f] = 0
    /\ Skip(c, f, "not_found")

Duplicated(c, f) ==
    /\ Acting(c, f)
    /\ queued[run[c].scope][f] > 1
    /\ Skip(c, f, "skipped_duplicate")

(* Published and settled: the message is copied, or is gone from the queue. *)
Move(c, f) ==
    /\ Acting(c, f)
    /\ queued[run[c].scope][f] = 1
    /\ queued' = [queued EXCEPT ![run[c].scope][f] = IF Batch(c).action = "copy" THEN @ ELSE @ - 1]
    /\ acted' = [acted EXCEPT ![c] = @ \cup {f}]
    /\ Become(c, Report(run[c], f, "success"))
    /\ UNCHANGED <<now, changes, dry, rows, locks, trail>>

Undelivered(c, f) ==
    /\ "delivery" \in Faults
    /\ Acting(c, f)
    /\ queued[run[c].scope][f] = 1
    /\ Batch(c).action # "delete"
    /\ Skip(c, f, "failed")

(* What _halted and the not_attempted of the rest make of the report. *)
Halt(r, todo, f, status) ==
    [r EXCEPT !.results = [g \in Fps |-> IF g = f THEN status
                                         ELSE IF g \in todo THEN "not_attempted" ELSE r.results[g]]]

(* Mutant: what was published counts as moved, whether or not it was acked. *)
HaltPublishedOptimistic(c, f) ==
    /\ "connection" \in Faults
    /\ Acting(c, f)
    /\ queued[run[c].scope][f] = 1
    /\ Batch(c).action # "delete"
    /\ acted' = IF Batch(c).action = "copy" THEN [acted EXCEPT ![c] = @ \cup {f}] ELSE acted
    /\ Become(c, Halt(run[c], Undone(c), f, "success"))
    /\ UNCHANGED <<service, locks, trail>>

(* The channel goes after the publish was confirmed: a copy is made all the   *)
(* same, a move has left its message in the queue.                            *)
HaltPublished(c, f) ==
    /\ "connection" \in Faults
    /\ Acting(c, f)
    /\ queued[run[c].scope][f] = 1
    /\ Batch(c).action # "delete"
    /\ acted' = IF Batch(c).action = "copy" THEN [acted EXCEPT ![c] = @ \cup {f}] ELSE acted
    /\ Become(c, Halt(run[c], Undone(c), f,
                      IF Batch(c).action = "copy" THEN "success" ELSE "failed"))
    /\ UNCHANGED <<service, locks, trail>>

(* The channel goes before anything was done for this message. *)
HaltUnpublished(c, f) ==
    /\ "connection" \in Faults
    /\ Acting(c, f)
    /\ queued[run[c].scope][f] = 1
    /\ Continue(c, Halt(run[c], Undone(c), f, "failed"))

LeaveQueue(c) ==
    /\ queue' = [queue EXCEPT ![run[c].scope] = None]
    /\ FreeService(c)
    /\ UNCHANGED <<service, acted, trail>>

(* Mutant: the batch stops without a word about what it did not attempt. *)
BatchStops(c) ==
    /\ At(c, "act")
    /\ LeaveQueue(c)
    /\ Become(c, Goto(run[c], "entries"))

BatchReturns(c) ==
    /\ At(c, "act")
    /\ Undone(c) = {}
    /\ LeaveQueue(c)
    /\ Become(c, Goto(run[c], "entries"))

(* operate_bulk raises: a missing target, a lost connection or lock. *)
BatchRaises(c) ==
    /\ "connection" \in Faults
    /\ At(c, "act")
    /\ LeaveQueue(c)
    /\ Become(c, Goto(run[c], "excuse"))

-------------------------------------------------------------------------------
(* The rest of execute_audited. *)

RecordEntry(c, f) ==
    /\ At(c, "entries")
    /\ f \in Batch(c).fps \ Entered(c)
    /\ Write(c, Row(f, run[c].results[f]))
    /\ Become(c, run[c])
    /\ UNCHANGED <<service, locks, acted>>

Failures(c) == {f \in Batch(c).fps : run[c].results[f] = "failed"}

RecordEnvelope(c) ==
    /\ At(c, "entries")
    /\ Batch(c).fps \subseteq Entered(c)
    /\ Write(c, Row(None, IF Failures(c) = {} THEN "success" ELSE "partial"))
    /\ Become(c, Answer(run[c], "outcome"))
    /\ UNCHANGED <<service, locks, acted>>

(* except Exception: the failure is recorded and raised again. *)
RecordFailure(c) ==
    /\ At(c, "excuse")
    /\ Write(c, Row(None, "failed"))
    /\ Become(c, Answer(run[c], "error"))
    /\ UNCHANGED <<service, locks, acted>>

(* The database refuses an audit row after the batch: the request fails. *)
AuditFails(c) ==
    /\ "database" \in Faults
    /\ At(c, "entries") \/ At(c, "excuse")
    /\ Continue(c, Answer(run[c], "error"))

-------------------------------------------------------------------------------
Active(c) == run[c].pc \notin {"idle", "done", "crashed"}

(* A replica dies; the broker and PostgreSQL take back what its runs held. *)
Crash(r) ==
    /\ "crash" \in Faults
    /\ \E c \in Runs : ReplicaOf[c] = r /\ Active(c)
    /\ run' = [c \in Runs |-> IF ReplicaOf[c] = r /\ Active(c) THEN Goto(run[c], "crashed")
                              ELSE run[c]]
    /\ busy' = [busy EXCEPT ![r] = [s \in Scopes |-> None]]
    /\ queue' = [s \in Scopes |-> IF queue[s] \in Runs /\ ReplicaOf[queue[s]] = r THEN None
                                  ELSE queue[s]]
    /\ UNCHANGED <<service, acted, trail>>

Route(c) == CheckRole(c) \/ Peek(c) \/ RecordAttempt(c) \/ AttemptRefused(c)
Execute(c) == Enter(c) \/ Take(c) \/ Unknown(c) \/ TakeFails(c) \/ GuardAllows(c) \/ GuardRefuses(c)
Operate(c) ==
    \/ LockQueue(c) \/ BatchReturns(c) \/ BatchRaises(c)
    \/ \E f \in Fps : \/ Absent(c, f) \/ Duplicated(c, f) \/ Move(c, f) \/ Undelivered(c, f)
                      \/ HaltPublished(c, f) \/ HaltUnpublished(c, f)
Record(c) ==
    \/ RecordEnvelope(c) \/ RecordFailure(c) \/ AuditFails(c)
    \/ \E f \in Fps : RecordEntry(c, f)
Step(c) == Route(c) \/ Execute(c) \/ Operate(c) \/ Record(c)

Terminated ==
    /\ \A c \in Runs : run[c].pc \in {"idle", "done", "crashed"}
    /\ UNCHANGED vars

Next ==
    \/ Tick
    \/ \E s \in Scopes, f \in Fps : Produce(s, f) \/ Consume(s, f)
    \/ \E t \in Tokens : \/ DryStore(t)
                         \/ \E s \in Scopes, a \in Dryable, S \in SUBSET Fps : DryScan(t, s, a, S)
    \/ \E c \in Runs :
        \/ Step(c)
        \/ \E t \in Tokens, s \in Scopes : Present(c, t, s)
    \/ \E r \in Replicas : Crash(r)
    \/ Terminated

Spec == Init /\ [][Next]_vars

-------------------------------------------------------------------------------
(* Properties. *)

(* A token executes once, however many requests race for it on however many   *)
(* replicas: the batch of a token is taken by one run.                        *)
OneExecution ==
    \A c, d \in Runs : run[c].took # None /\ run[c].took = run[d].took => c = d

(* A run acts only on what its dry run saw, in the scope it saw it, and takes *)
(* its batch before it expires.                                               *)
OnlyApproved ==
    \A c \in Runs :
        /\ acted[c] # {} => run[c].took # None
        /\ run[c].took # None =>
            /\ acted[c] \subseteq Batch(c).seen
            /\ run[c].scope = Batch(c).scope
            /\ run[c].at <= Batch(c).expires

(* No audit, no action: whatever a run has done, its attempt is on record.    *)
NoAuditNoAction == \A c \in Runs : acted[c] # {} => Row(None, "started") \in trail[c]

(* Only an Admin's run deletes: the role is checked on the first look, the    *)
(* batch is taken later.                                                      *)
OnlyAdminsDelete ==
    \A c \in Runs :
        run[c].took # None /\ Batch(c).action = "delete" => c \in Admins

(* A run that answers with an outcome has one audit row for each approved     *)
(* fingerprint, and that row says success exactly when the message was acted  *)
(* on; a run that failed has not written an outcome of the whole.             *)
AuditTells ==
    \A c \in Runs :
        run[c].reply = "outcome" =>
            /\ \A f \in Batch(c).fps :
                   /\ Cardinality({e \in trail[c] : e.fp = f}) = 1
                   /\ Row(f, "success") \in trail[c] <=> f \in acted[c]
            /\ Row(None, "failed") \notin trail[c]
            /\ Cardinality({e \in trail[c] : e.fp = None}) = 2

(* The abstract promise, kept by every run on every replica: what a token     *)
(* approves is begun once, each of its messages is acted on at most once and  *)
(* where it was approved, and nothing happens for it after its run has left   *)
(* the queue, failed or died (bulk_service.py:207-250).                       *)
TakenBy(t) == {c \in Runs : run[c].took = t}
Working(c) == run[c].pc \in {"guard", "queue", "act"}
Approval == [t \in Tokens |-> IF dry[t].pc = "stored"
                              THEN [scope |-> dry[t].scope, fps |-> dry[t].fps] ELSE None]
Stage == [t \in Tokens |-> IF dry[t].pc # "stored" THEN "none"
                           ELSE IF t \in rows THEN "approved"
                           ELSE IF \E c \in TakenBy(t) : Working(c) THEN "running" ELSE "over"]
Done == [t \in Tokens |-> UNION {{run[c].scope} \X acted[c] : c \in TakenBy(t)}]
Promise == INSTANCE BulkPromise WITH approval <- Approval, stage <- Stage, done <- Done
PromiseSpec == Promise!Spec

-------------------------------------------------------------------------------
(* The inductive invariant behind these. *)

(* What a dry run has selected it has seen, and only stored batches have rows. *)
DryInv ==
    /\ \A t \in Tokens : dry[t].pc # "idle" =>
           dry[t].action \in Dryable /\ dry[t].scope \in Scopes /\ dry[t].fps \subseteq dry[t].seen
    /\ \A t \in rows : dry[t].pc = "stored"

Started == Row(None, "started")
BeforeTake == {"idle", "route", "peek", "attempt", "wait", "take"}

(* A run has a token that was given out, and a batch from Take on. *)
Requested(c) ==
    /\ run[c].pc # "idle" => /\ run[c].token \in Tokens /\ dry[run[c].token].pc = "stored"
                             /\ run[c].scope \in Scopes
    /\ run[c].pc \in BeforeTake => run[c].took = None
    /\ run[c].pc \in {"guard", "queue", "act", "entries"} => run[c].took # None
    /\ run[c].reply # "none" => At(c, "done")

(* As long as its batch may still be taken, a run that has passed a check of the *)
(* route has the right it asks for: the role, and the row of its attempt.        *)
Cleared(c) ==
    /\ run[c].pc \in {"peek", "attempt", "wait", "take"} /\ Valid(run[c].token) =>
           (dry[run[c].token].action = "delete" => c \in Admins)
    /\ run[c].pc \in {"wait", "take"} /\ Valid(run[c].token) => Started \in trail[c]

(* What a run took is nobody else's any more, and it had the right to take it. *)
Spent(c) ==
    IF run[c].took = None
    THEN acted[c] = {} /\ \A f \in Fps : run[c].results[f] = "none"
    ELSE /\ run[c].took = run[c].token /\ run[c].took \notin rows
         /\ run[c].scope = Batch(c).scope
         /\ run[c].at <= Batch(c).expires
         /\ Started \in trail[c]
         /\ Batch(c).action = "delete" => c \in Admins

(* The report and what was done tell the same of each approved message. *)
Reported(c) ==
    run[c].took # None =>
        /\ acted[c] \subseteq Batch(c).fps
        /\ \A f \in Batch(c).fps : run[c].results[f] = "success" <=> f \in acted[c]
        /\ At(c, "entries") \/ run[c].reply = "outcome" => Undone(c) = {}

(* The rows of a run that has answered with an outcome. *)
Outcome(c) ==
    \E whole \in {"success", "partial"} :
        trail[c] = {Started, Row(None, whole)}
                     \cup {Row(f, run[c].results[f]) : f \in Batch(c).fps}

(* The rows that a run has written, by where it is. *)
Told(c) ==
    /\ run[c].pc \in {"idle", "route", "peek", "attempt"} => trail[c] = {}
    /\ run[c].pc \in {"wait", "take", "guard", "queue", "act"} => trail[c] \subseteq {Started}
    /\ At(c, "entries") =>
           \A e \in trail[c] :
               e # Started => e.fp \in Batch(c).fps /\ e = Row(e.fp, run[c].results[e.fp])
    /\ run[c].reply = "outcome" => run[c].took # None /\ Outcome(c)

RunInv(c) == Requested(c) /\ Cleared(c) /\ Spent(c) /\ Reported(c) /\ Told(c)
IInv == TypeOK /\ DryInv /\ OneExecution /\ \A c \in Runs : RunInv(c)
===============================================================================
