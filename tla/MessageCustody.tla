---------------------------- MODULE MessageCustody ----------------------------
(***************************************************************************)
(* What QueueLens promises about the messages of one queue, whatever its   *)
(* requests, its replicas, the broker and the network do: a message leaves *)
(* the queue only on behalf of a request that was approved to take it out, *)
(* and, unless that request deletes, only after the request has stored a   *)
(* copy at its target.  A request stores at most one copy of a message.    *)
(* MessageOperator is shown to implement this module.                      *)
(***************************************************************************)
EXTENDS Naturals

CONSTANTS Msgs,     \* the messages of the queue
          Clients   \* the requests

\* What an approved request may do with a message it names.
Purposes == {"nothing", "copy", "replace", "destroy"}

VARIABLES where,    \* where[m]: the message's custody
          asked,    \* asked[c]: the messages the request was approved for
          purpose,  \* purpose[c]: what it was approved to do with them
          stored    \* stored[c][m]: copies of m the request stored elsewhere

vars == <<where, asked, purpose, stored>>

TypeOK == /\ where \in [Msgs -> {"absent", "queued", "gone"}]
          /\ asked \in [Clients -> SUBSET Msgs]
          /\ purpose \in [Clients -> Purposes]
          /\ stored \in [Clients -> [Msgs -> Nat]]

Init == /\ where \in [Msgs -> {"absent", "queued"}]
        /\ asked = [c \in Clients |-> {}]
        /\ purpose = [c \in Clients |-> "nothing"]
        /\ stored = [c \in Clients |-> [m \in Msgs |-> 0]]

(* A producer publishes m to the queue. *)
Arrive(m) == /\ where[m] = "absent"
             /\ where' = [where EXCEPT ![m] = "queued"]
             /\ UNCHANGED <<asked, purpose, stored>>

(* An operator, or a policy, approves a request once. *)
Approve(c, S, p) == /\ purpose[c] = "nothing"
                    /\ p # "nothing"
                    /\ asked' = [asked EXCEPT ![c] = S]
                    /\ purpose' = [purpose EXCEPT ![c] = p]
                    /\ UNCHANGED <<where, stored>>

(* The target stores the request's one copy of m. *)
Store(c, m) == /\ m \in asked[c]
               /\ purpose[c] \in {"copy", "replace"}
               /\ stored[c][m] = 0
               /\ stored' = [stored EXCEPT ![c][m] = 1]
               /\ UNCHANGED <<where, asked, purpose>>

(* m leaves the queue for good. *)
Remove(c, m) == /\ where[m] = "queued"
                /\ m \in asked[c]
                /\ \/ purpose[c] = "replace" /\ stored[c][m] > 0
                   \/ purpose[c] = "destroy"
                /\ where' = [where EXCEPT ![m] = "gone"]
                /\ UNCHANGED <<asked, purpose, stored>>

Next == \/ \E m \in Msgs : Arrive(m)
        \/ \E c \in Clients, S \in SUBSET Msgs, p \in Purposes : Approve(c, S, p)
        \/ \E c \in Clients, m \in Msgs : Store(c, m) \/ Remove(c, m)

Spec == Init /\ [][Next]_vars
===============================================================================
