---------------------------- MODULE BoundedBuffer ----------------------------
(***************************************************************************)
(* What the consumer/producer server promises its clients (spec.md 4.3,   *)
(* 4.5), with no threads, reply caps or notifications: once every client  *)
(* has sent INIT all are released at once; after that a waiting PRODUCER   *)
(* request is served, in one step, by adding an item to a buffer that is   *)
(* not full, a waiting CONSUMER request by taking one from a buffer that   *)
(* is not empty.  Waiting requests are served in any order.                *)
(*                                                                         *)
(* GreenCPServer and Sel4CPServer are shown to implement this module.     *)
(***************************************************************************)
EXTENDS Integers, FiniteSets

CONSTANTS Producers, Consumers, Work, BufferLimit, None

Clients == Producers \cup Consumers
Role(c) == IF c \in Producers THEN "PRODUCER" ELSE "CONSUMER"

VARIABLES
    cst,     \* a client's state: start, waitInit, run, waitOp, done
    req,     \* the label of its last request
    got,     \* the label of the last answer it received
    left,    \* requests it has still to send
    buffer   \* items in the buffer

vars == <<cst, req, got, left, buffer>>

Init ==
    /\ cst = [c \in Clients |-> "start"]
    /\ req = [c \in Clients |-> None]
    /\ got = [c \in Clients |-> None]
    /\ left = [c \in Clients |-> Work[c]]
    /\ buffer = 0

\* A client sends INIT, one of its requests, or TMNT.
Send(c) ==
    \/ /\ cst[c] = "start"
       /\ cst' = [cst EXCEPT ![c] = "waitInit"]
       /\ req' = [req EXCEPT ![c] = "INIT"]
       /\ UNCHANGED left
    \/ /\ cst[c] = "run"
       /\ left[c] > 0
       /\ cst' = [cst EXCEPT ![c] = "waitOp"]
       /\ req' = [req EXCEPT ![c] = Role(c)]
       /\ left' = [left EXCEPT ![c] = @ - 1]
    \/ /\ cst[c] = "run"
       /\ left[c] = 0
       /\ cst' = [cst EXCEPT ![c] = "done"]
       /\ req' = [req EXCEPT ![c] = "TMNT"]
       /\ UNCHANGED left

\* The barrier: every client waits on its INIT, and all are released.
Ready ==
    /\ \A c \in Clients : cst[c] = "waitInit"
    /\ cst' = [c \in Clients |-> "run"]
    /\ got' = [c \in Clients |-> "INIT"]
    /\ UNCHANGED <<req, left, buffer>>

\* A waiting request is served against the buffer and answered.
Serve(c) ==
    /\ cst[c] = "waitOp"
    /\ IF Role(c) = "PRODUCER" THEN buffer < BufferLimit ELSE buffer > 0
    /\ buffer' = IF Role(c) = "PRODUCER" THEN buffer + 1 ELSE buffer - 1
    /\ cst' = [cst EXCEPT ![c] = "run"]
    /\ got' = [got EXCEPT ![c] = Role(c)]
    /\ UNCHANGED <<req, left>>

Next ==
    \/ \E c \in Clients : Send(c) /\ UNCHANGED <<got, buffer>>
    \/ Ready
    \/ \E c \in Clients : Serve(c)

Spec == Init /\ [][Next]_vars

=============================================================================
