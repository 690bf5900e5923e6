------------------------------- MODULE Handoff -------------------------------
(***************************************************************************)
(* What the WAIT / SEND_WAIT server promises its clients (spec.md 4.1,    *)
(* 4.5), with no green threads, reply caps or primitive.  The server       *)
(* registers each INIT, giving ids in order; the last INIT releases the    *)
(* client with id 0.  A WAIT it accepts blocks its sender and releases     *)
(* every other client still waiting on its INIT.  A SEND_WAIT it accepts   *)
(* releases exactly one blocked client and blocks its sender in the same   *)
(* step; one is accepted only while some client is blocked.  Nothing else  *)
(* releases a client.                                                      *)
(*                                                                         *)
(* GreenHandoffServer is shown to implement this module.                  *)
(***************************************************************************)
EXTENDS Integers, FiniteSets

CONSTANTS Clients, Rounds, EveryClientWaits, None

Population == Cardinality(Clients)

VARIABLES
    cst,      \* a client's state: start, wait, run, done
    req,      \* the label of its last request
    got,      \* how its last request was answered: "ready" or "sync"
    sent,     \* SEND_WAITs it has sent
    regId,    \* the id the server gave it
    blocked   \* clients whose WAIT or SEND_WAIT the server holds

vars == <<cst, req, got, sent, regId, blocked>>

\* The request a released client sends next.
NextRequest(c) ==
    CASE req[c] = "INIT" /\ (EveryClientWaits \/ regId[c] = 0) -> "WAIT"
      [] sent[c] < Rounds -> "SEND_WAIT"
      [] OTHER -> "TMNT"

Init ==
    /\ cst = [c \in Clients |-> "start"]
    /\ req = [c \in Clients |-> None]
    /\ got = [c \in Clients |-> None]
    /\ sent = [c \in Clients |-> 0]
    /\ regId = [c \in Clients |-> None]
    /\ blocked = {}

\* A client sends INIT, or, once released, its next request.
Send(c) ==
    \/ /\ cst[c] = "start"
       /\ cst' = [cst EXCEPT ![c] = "wait"]
       /\ req' = [req EXCEPT ![c] = "INIT"]
       /\ UNCHANGED sent
    \/ /\ cst[c] = "run"
       /\ LET lbl == NextRequest(c)
          IN /\ cst' = [cst EXCEPT ![c] = IF lbl = "TMNT" THEN "done" ELSE "wait"]
             /\ req' = [req EXCEPT ![c] = lbl]
             /\ sent' = [sent EXCEPT ![c] = IF lbl = "SEND_WAIT" THEN @ + 1 ELSE @]

\* The clients in the set rel are released with an answer of kind k.
Release(rel, k) ==
    /\ cst' = [c \in Clients |-> IF c \in rel THEN "run" ELSE cst[c]]
    /\ got' = [c \in Clients |-> IF c \in rel THEN k ELSE got[c]]

\* The server registers an INIT; the last one releases id 0.
Register(c) ==
    /\ cst[c] = "wait" /\ req[c] = "INIT" /\ regId[c] = None
    /\ LET id == Cardinality({d \in Clients : regId[d] # None})
           ids == [regId EXCEPT ![c] = id]
       IN /\ regId' = ids
          /\ Release(IF id = Population - 1 THEN {d \in Clients : ids[d] = 0} ELSE {},
                     "ready")
    /\ UNCHANGED <<req, sent, blocked>>

\* The server accepts a WAIT: its sender blocks, every other client still
\* waiting on its INIT is released.
AcceptWait(c) ==
    /\ cst[c] = "wait" /\ req[c] = "WAIT" /\ c \notin blocked
    /\ blocked' = blocked \cup {c}
    /\ Release({d \in Clients : cst[d] = "wait" /\ req[d] = "INIT"
                                  /\ regId[d] \notin {0, None}},
               "ready")
    /\ UNCHANGED <<req, sent, regId>>

\* The server accepts a SEND_WAIT: one blocked client is released and the
\* sender takes its place.
AcceptSendWait(c) ==
    /\ cst[c] = "wait" /\ req[c] = "SEND_WAIT" /\ c \notin blocked
    /\ \E b \in blocked :
          /\ blocked' = (blocked \ {b}) \cup {c}
          /\ Release({b}, "sync")
    /\ UNCHANGED <<req, sent, regId>>

Next ==
    \/ \E c \in Clients : Send(c) /\ UNCHANGED <<got, regId, blocked>>
    \/ \E c \in Clients : Register(c) \/ AcceptWait(c) \/ AcceptSendWait(c)

Spec == Init /\ [][Next]_vars

=============================================================================
