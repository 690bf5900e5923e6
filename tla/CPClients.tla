----------------------------- MODULE CPClients -----------------------------
(***************************************************************************)
(* The client processes of the consumer/producer benchmark and the         *)
(* endpoint they share with the server (env.endpoint in src/main.c).  The  *)
(* client program is the sel4test-tests application, which is not part of *)
(* this repository: its behaviour is the protocol of spec.md section 4.5.  *)
(* Each client sends INIT, then its Work[c] requests (PRODUCER or          *)
(* CONSUMER), each with seL4_Call, and finally TMNT with seL4_Send.        *)
(* The server modules extend this one and answer the clients.             *)
(***************************************************************************)
EXTENDS Integers, Sequences, FiniteSets, Functions

CONSTANTS
    Producers,    \* client processes that send PRODUCER requests
    Consumers,    \* client processes that send CONSUMER requests
    Work,         \* requests each client sends before TMNT
    None          \* a client has received no reply yet

Clients == Producers \cup Consumers
Population == Cardinality(Clients)      \* client_count, the barrier size
Ids == 0 .. Population - 1              \* client ids given by initial_client

ASSUME /\ Producers \cap Consumers = {}
       /\ Work \in [Clients -> Nat \ {0}]
       \* the consumers take exactly what the producers put
       /\ SumFunctionOnSet(Work, Producers) = SumFunctionOnSet(Work, Consumers)

Labels == {"INIT", "PRODUCER", "CONSUMER", "TMNT"}
Role(c) == IF c \in Producers THEN "PRODUCER" ELSE "CONSUMER"

VARIABLES
    ep,            \* clients queued on env.endpoint: <<client, label>>
    cst,           \* each client's state
    req,           \* label of the client's last request
    got,           \* label of the last reply the client received
    mr,            \* message words of the client's INIT reply
    left,          \* requests the client has still to send
    regId          \* id initial_client gave the client (history)

clients == <<cst, req, got, mr, left, regId>>

\* The two message words of the "ready" reply to client id i: client 0 is
\* sent (0, 1) by the INIT handler, the others (i, 0) by
\* process_message_multicast.
Payload(i) == IF i = 0 THEN <<0, 1>> ELSE <<i, 0>>

ClientInit(c) ==
    /\ cst[c] = "start"
    /\ ep' = Append(ep, <<c, "INIT">>)
    /\ cst' = [cst EXCEPT ![c] = "waitInit"]
    /\ req' = [req EXCEPT ![c] = "INIT"]
    /\ UNCHANGED <<got, mr, left, regId>>

ClientRequest(c) ==
    /\ cst[c] = "run"
    /\ left[c] > 0
    /\ ep' = Append(ep, <<c, Role(c)>>)
    /\ cst' = [cst EXCEPT ![c] = "waitOp"]
    /\ req' = [req EXCEPT ![c] = Role(c)]
    /\ left' = [left EXCEPT ![c] = @ - 1]
    /\ UNCHANGED <<got, mr, regId>>

ClientTerminate(c) ==
    /\ cst[c] = "run"
    /\ left[c] = 0
    /\ ep' = Append(ep, <<c, "TMNT">>)
    /\ cst' = [cst EXCEPT ![c] = "done"]
    /\ req' = [req EXCEPT ![c] = "TMNT"]
    /\ UNCHANGED <<got, mr, left, regId>>

ClientStep(c) == ClientInit(c) \/ ClientRequest(c) \/ ClientTerminate(c)

ClientsInit ==
    /\ ep = <<>>
    /\ cst = [c \in Clients |-> "start"]
    /\ req = [c \in Clients |-> None]
    /\ got = [c \in Clients |-> None]
    /\ mr = [c \in Clients |-> None]
    /\ left = [c \in Clients |-> Work[c]]
    /\ regId = [c \in Clients |-> None]

ClientsTypeOK ==
    /\ ep \in Seq(Clients \X Labels)
    /\ cst \in [Clients -> {"start", "waitInit", "run", "waitOp", "done"}]
    /\ req \in [Clients -> Labels \cup {None}]
    /\ got \in [Clients -> Labels \cup {None}]
    /\ mr \in [Clients -> (Ids \X {0, 1}) \cup {None}]
    /\ left \in [Clients -> Nat]
    /\ \A c \in Clients : left[c] <= Work[c]
    /\ regId \in [Clients -> Ids \cup {None}]

\* Requests of client c the server has answered.
Completed == [c \in Clients |->
                Work[c] - left[c] - (IF cst[c] = "waitOp" THEN 1 ELSE 0)]

\* client_barrier(): the arrival that makes the count reach client_count
\* returns true.
BarrierReached(n) == n = Population

(* Properties of the server as the clients see it.                          *)

\* spec.md section 8 (at-most-one broadcast): the INIT replies are sent
\* after the Nth INIT and never before, and the one broadcast, the
\* seL4_Send to reply_eps[0] and process_message_multicast to ids 1 .. N-1,
\* answers every client at once: once any client has had a reply, no client
\* is still to send INIT or blocked in its INIT call.  It fails if the
\* barrier opens early or the broadcast misses a saved reply cap.
ReadyReleasesEveryClient ==
    (\E c \in Clients : got[c] # None)
        => \A d \in Clients : cst[d] \notin {"start", "waitInit"}

\* spec.md section 8: the "ready" broadcast reaches clients 1 .. N-1 with
\* the payload words (index, 1).  process_message_multicast sends
\* seL4_SetMR(0, i), seL4_SetMR(1, 0).
ReadyPayloadAsSpecified ==
    \A c \in Clients : mr[c] # None /\ regId[c] # 0 => mr[c] = <<regId[c], 1>>

\* Every reply a client gets answers the request it was waiting on: a
\* saved reply cap is never used to answer another request.
ReplyMatchesRequest ==
    \A c \in Clients : cst[c] = "run" => got[c] = req[c]

\* Every request a client sends with seL4_Call is eventually answered.
EveryRequestAnswered ==
    \A c \in Clients : cst[c] \in {"waitInit", "waitOp"} ~> cst[c] = "run"

=============================================================================
