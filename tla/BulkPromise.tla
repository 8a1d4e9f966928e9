------------------------------- MODULE BulkPromise -------------------------------
(***************************************************************************)
(* What a bulk action promises, whoever runs it and whatever fails.  A dry *)
(* run approves some messages of one queue under a token.  The approval is *)
(* used once: while it is in use each approved message is acted on at most *)
(* once, in the queue it was approved in, and nothing else is; once it is  *)
(* over, finished or cut short, nothing more happens for it.               *)
(***************************************************************************)
EXTENDS FiniteSets

CONSTANTS Fps, Tokens, Scopes, None

VARIABLES
    approval,   \* approval[t]: the scope and fingerprints that token t stands for
    stage,      \* stage[t]: what became of it
    done        \* done[t]: what was done for it, and in which scope

Approvals == [scope : Scopes, fps : SUBSET Fps]

Init ==
    /\ approval = [t \in Tokens |-> None]
    /\ stage = [t \in Tokens |-> "none"]
    /\ done = [t \in Tokens |-> {}]

Approve(t) ==
    /\ stage[t] = "none"
    /\ \E a \in Approvals : approval' = [approval EXCEPT ![t] = a]
    /\ stage' = [stage EXCEPT ![t] = "approved"]
    /\ UNCHANGED done

Begin(t) ==
    /\ stage[t] = "approved"
    /\ stage' = [stage EXCEPT ![t] = "running"]
    /\ UNCHANGED <<approval, done>>

Act(t, f) ==
    /\ stage[t] = "running"
    /\ f \in approval[t].fps /\ <<approval[t].scope, f>> \notin done[t]
    /\ done' = [done EXCEPT ![t] = @ \cup {<<approval[t].scope, f>>}]
    /\ UNCHANGED <<approval, stage>>

(* Approvals end when they are used up, refused, or cut short, several at once in a crash. *)
Finish(ended) ==
    /\ ended # {}
    /\ \A t \in ended : stage[t] \in {"approved", "running"}
    /\ stage' = [t \in Tokens |-> IF t \in ended THEN "over" ELSE stage[t]]
    /\ UNCHANGED <<approval, done>>

Next ==
    \/ \E t \in Tokens : Approve(t) \/ Begin(t) \/ \E f \in Fps : Act(t, f)
    \/ \E ended \in SUBSET Tokens : Finish(ended)

Spec == Init /\ [][Next]_<<approval, stage, done>>
==================================================================================
