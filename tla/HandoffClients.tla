---------------------------- MODULE HandoffClients ----------------------------
(***************************************************************************)
(* The client processes of the builds without CONSUMER_PRODUCER, and the   *)
(* endpoint they share.  The client program (sel4test-tests) is not in the *)
(* repository; per spec.md 4.5 and 8 a client sends INIT, then WAIT, then  *)
(* Rounds SEND_WAITs, then TMNT, each with seL4_Call but TMNT, which is a  *)
(* seL4_Send.  With EveryClientWaits FALSE only the client given id 0      *)
(* sends WAIT and the others start with SEND_WAIT.                         *)
(*                                                                         *)
(* GreenHandoffServer and Sel4HandoffServer extend this module with the    *)
(* server of their build.                                                  *)
(***************************************************************************)
EXTENDS Integers, Sequences, FiniteSets

CONSTANTS
    Clients,          \* client processes
    Rounds,           \* SEND_WAITs each client sends
    EveryClientWaits, \* every client starts with WAIT
    None

ASSUME /\ Rounds \in Nat
       /\ EveryClientWaits \in BOOLEAN

Population == Cardinality(Clients)
Ids == 0 .. Population - 1

Labels == {"INIT", "WAIT", "SEND_WAIT", "TMNT"}

VARIABLES
    ep,            \* clients queued on env.endpoint: <<client, label>>
    cst,           \* each client's state
    req,           \* label of the client's last request
    got,           \* how its last reply came: "ready" (INIT) or "sync"
    sent,          \* SEND_WAITs the client has sent
    regId          \* id initial_client gave the client

clients == <<cst, req, got, sent, regId>>

\* The request a released client sends next.
NextRequest(c) ==
    CASE req[c] = "INIT" /\ (EveryClientWaits \/ regId[c] = 0) -> "WAIT"
      [] sent[c] < Rounds -> "SEND_WAIT"
      [] OTHER -> "TMNT"

ClientInit(c) ==
    /\ cst[c] = "start"
    /\ ep' = Append(ep, <<c, "INIT">>)
    /\ cst' = [cst EXCEPT ![c] = "wait"]
    /\ req' = [req EXCEPT ![c] = "INIT"]
    /\ UNCHANGED <<got, sent, regId>>

ClientNext(c) ==
    /\ cst[c] = "run"
    /\ LET lbl == NextRequest(c)
       IN /\ ep' = Append(ep, <<c, lbl>>)
          /\ cst' = [cst EXCEPT ![c] = IF lbl = "TMNT" THEN "done" ELSE "wait"]
          /\ req' = [req EXCEPT ![c] = lbl]
          /\ sent' = [sent EXCEPT ![c] = IF lbl = "SEND_WAIT" THEN @ + 1 ELSE @]
    /\ UNCHANGED <<got, regId>>

ClientStep(c) == ClientInit(c) \/ ClientNext(c)

\* The clients in the set ans get a reply of kind k.
Deliver(ans, k) ==
    /\ cst' = [c \in Clients |-> IF c \in ans THEN "run" ELSE cst[c]]
    /\ got' = [c \in Clients |-> IF c \in ans THEN k ELSE got[c]]

ClientsInit ==
    /\ ep = <<>>
    /\ cst = [c \in Clients |-> "start"]
    /\ req = [c \in Clients |-> None]
    /\ got = [c \in Clients |-> None]
    /\ sent = [c \in Clients |-> 0]
    /\ regId = [c \in Clients |-> None]

ClientsTypeOK ==
    /\ ep \in Seq(Clients \X Labels)
    /\ cst \in [Clients -> {"start", "wait", "run", "done"}]
    /\ req \in [Clients -> Labels \cup {None}]
    /\ got \in [Clients -> {"ready", "sync", None}]
    /\ sent \in [Clients -> 0 .. Rounds]
    /\ regId \in [Clients -> Ids \cup {None}]

=============================================================================
