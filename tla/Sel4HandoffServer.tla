------------------------- MODULE Sel4HandoffServer -------------------------
(***************************************************************************)
(* The synchronization server of src/main.c as built with SEL4_THREAD and  *)
(* without CONSUMER_PRODUCER: process_message (lines 1189-1381), run by    *)
(* the preemptive seL4 threads of server_loop (1387-1442) that             *)
(* sel4_threads_initial starts (1446-1508).                                *)
(*                                                                         *)
(* As written this build does not compile: server_loop calls               *)
(* process_message(info, &slot, &reply, sync_prim, lock) (line 1404), the  *)
(* consumer/producer signature, and this process_message takes no slot.    *)
(* The model reads the call without &slot, the one change that makes it    *)
(* compile, and keeps every other line as it is.                           *)
(*                                                                         *)
(* Each thread answers through the reply path the build chooses:           *)
(*   ReplyPath = "slow": SEL4_SLOW or SEL4_FAST, seL4_Reply with the       *)
(*     thread's own caller cap (seL4_ReplyRecv routes the same);           *)
(*   ReplyPath = "green": SEL4_GREEN, seL4_Send on server_loop's slot.     *)
(* The primitive sync_prim is THREAD_LOCK (a libsel4sync mutex: a          *)
(* notification, seL4_Signal to unlock and seL4_Wait to lock) or           *)
(* THREAD_SEMAPHORE (a counting semaphore); libsel4sync is not in the      *)
(* repository.  THREAD_CV is left out: its sync_cv_wait takes a bin_sem     *)
(* the handlers never hold.                                                *)
(***************************************************************************)
EXTENDS HandoffClients

CONSTANTS
    Threads,    \* the server threads (client_count of them)
    ReplyPath,  \* "slow" (SEL4_SLOW, SEL4_FAST) or "green" (SEL4_GREEN)
    Primitive,  \* "lock" (THREAD_LOCK) or "semaphore" (THREAD_SEMAPHORE)
    NoCaller

ASSUME /\ ReplyPath \in {"slow", "green"}
       /\ Primitive \in {"lock", "semaphore"}
       /\ Threads # {}

VARIABLES
    pc,            \* where each server thread is
    rcap,          \* the client each thread's own caller cap answers
    slots,         \* the slot of each INIT, by client id: whose cap it holds
    reply_eps,     \* reply_eps[id] was written
    stranded,      \* clients whose cap was saved into a slot no code sends on
    prim,          \* sync_prim: n, the bit or count; q, the threads waiting
    client_num,    \* clients registered by initial_client
    arrived,       \* barrier arrivals counted by client_barrier
    terminate_num  \* terminate_num

server == <<pc, rcap, slots, reply_eps, stranded, prim, client_num, arrived,
            terminate_num>>
vars == <<ep, clients, server>>

Pcs == {"recv", "barrier", "unlock", "lock", "blocked", "reply"}

-----------------------------------------------------------------------------
(* The primitive.  sel4_threads_initial makes it held by the main thread   *)
(* (sync_mutex_init primes the notification and sync_mutex_lock takes it;  *)
(* sync_sem_new starts at 0), and the main thread never releases it.       *)

\* sync_mutex_unlock / sync_sem_post: the first waiter returns from its
\* seL4_Wait; with none, a mutex's notification bit is set (signals merge)
\* and a semaphore counts up.
Release(p) ==
    IF p.q # <<>> THEN [p EXCEPT !.q = Tail(@)]
    ELSE [p EXCEPT !.n = IF Primitive = "lock" THEN 1 ELSE @ + 1]
Woken(p) == IF p.q # <<>> THEN {Head(p.q)} ELSE {}

-----------------------------------------------------------------------------
(* The threads.                                                             *)

\* Thread t is in seL4_Recv and the first queued client sent lbl; the
\* kernel gives t that client's caller cap if it was a seL4_Call.
Receiving(t, lbl) ==
    /\ pc[t] = "recv"
    /\ ep # <<>>
    /\ Head(ep)[2] = lbl

\* case INIT: initial_client(), allocman_cspace_alloc(&slot),
\* vka_cnode_saveCaller(&slot) (a new slot: it succeeds and moves the cap
\* out of the thread), reply_eps[client_id] = slot.
RecvInit(t) ==
    /\ Receiving(t, "INIT")
    /\ client_num < Population
    /\ LET c == Head(ep)[1]
       IN /\ ep' = Tail(ep)
          /\ slots' = [slots EXCEPT ![client_num] = c]
          /\ regId' = [regId EXCEPT ![c] = client_num]
    /\ reply_eps' = [reply_eps EXCEPT ![client_num] = TRUE]
    /\ client_num' = client_num + 1
    /\ rcap' = [rcap EXCEPT ![t] = NoCaller]
    /\ pc' = [pc EXCEPT ![t] = "barrier"]
    /\ UNCHANGED <<stranded, prim, arrived, terminate_num, cst, req, got, sent>>

\* if (client_barrier()) seL4_Send(reply_eps[0]); return 0.  Only id 0 is
\* answered: this build calls process_message_multicast only in case WAIT
\* under SEL4_GREEN.
Barrier(t) ==
    /\ pc[t] = "barrier"
    /\ arrived' = arrived + 1
    /\ IF arrived + 1 = Population /\ reply_eps[0] /\ slots[0] \in Clients
       THEN /\ slots' = [slots EXCEPT ![0] = NoCaller]
            /\ Deliver({slots[0]}, "ready")
       ELSE UNCHANGED <<slots, cst, got>>
    /\ pc' = [pc EXCEPT ![t] = "recv"]
    /\ UNCHANGED <<ep, rcap, reply_eps, stranded, prim, client_num,
                   terminate_num, req, sent, regId>>

\* process_message_multicast(): seL4_Send on reply_eps[1 .. client_num-1],
\* each answering the client whose INIT cap that slot holds.
Multicast ==
    LET live == {i \in 1 .. client_num - 1 : reply_eps[i] /\ slots[i] \in Clients}
    IN /\ slots' = [i \in Ids |-> IF i \in live THEN NoCaller ELSE slots[i]]
       /\ Deliver({slots[i] : i \in live}, "ready")

\* The caller's cap on arrival of a WAIT or SEND_WAIT: kept by the thread
\* for seL4_Reply, or under SEL4_GREEN saved into the handler's local slot,
\* which nothing sends on (server_loop sends on its own slot).
TakeCaller(t, c) ==
    IF ReplyPath = "slow"
    THEN /\ rcap' = [rcap EXCEPT ![t] = c]
         /\ UNCHANGED stranded
    ELSE /\ rcap' = [rcap EXCEPT ![t] = NoCaller]
         /\ stranded' = stranded \cup {c}

\* case WAIT: under SEL4_GREEN process_message_multicast() and the save;
\* then the lock of sync_prim.
RecvWait(t) ==
    /\ Receiving(t, "WAIT")
    /\ ep' = Tail(ep)
    /\ TakeCaller(t, Head(ep)[1])
    /\ IF ReplyPath = "green" THEN Multicast ELSE UNCHANGED <<slots, cst, got>>
    /\ pc' = [pc EXCEPT ![t] = "lock"]
    /\ UNCHANGED <<reply_eps, prim, client_num, arrived, terminate_num,
                   req, sent, regId>>

\* case SEND_WAIT: under SEL4_GREEN the save (and global_reply_ep, which
\* nothing reads); then the unlock and the lock of sync_prim.
RecvSendWait(t) ==
    /\ Receiving(t, "SEND_WAIT")
    /\ ep' = Tail(ep)
    /\ TakeCaller(t, Head(ep)[1])
    /\ pc' = [pc EXCEPT ![t] = "unlock"]
    /\ UNCHANGED <<slots, reply_eps, prim, client_num, arrived, terminate_num,
                   clients>>

\* sync_mutex_unlock(sync_prim) / sync_sem_post(sync_prim).
Unlock(t) ==
    /\ pc[t] = "unlock"
    /\ prim' = Release(prim)
    /\ pc' = [u \in Threads |-> CASE u = t -> "lock"
                                  [] u \in Woken(prim) -> "reply"
                                  [] OTHER -> pc[u]]
    /\ UNCHANGED <<ep, rcap, slots, reply_eps, stranded, client_num, arrived,
                   terminate_num, clients>>

\* sync_mutex_lock(sync_prim) / sync_sem_wait(sync_prim): seL4_Wait takes
\* a set bit (or a count) at once, else the thread joins the queue.
Lock(t) ==
    /\ pc[t] = "lock"
    /\ IF prim.n > 0
       THEN /\ prim' = [prim EXCEPT !.n = @ - 1]
            /\ pc' = [pc EXCEPT ![t] = "reply"]
       ELSE /\ prim' = [prim EXCEPT !.q = Append(@, t)]
            /\ pc' = [pc EXCEPT ![t] = "blocked"]
    /\ UNCHANGED <<ep, rcap, slots, reply_eps, stranded, client_num, arrived,
                   terminate_num, clients>>

\* return 1 (or slot.offset); server_loop answers and goes back to
\* seL4_Recv.  seL4_Reply uses the thread's caller cap; under SEL4_GREEN
\* seL4_Send(slot.offset) goes to server_loop's slot, which was allocated
\* (line 1400) but never filled, and answers nobody.
Reply(t) ==
    /\ pc[t] = "reply"
    /\ IF ReplyPath = "slow"
       THEN Deliver({rcap[t]} \cap Clients, "sync")
       ELSE UNCHANGED <<cst, got>>
    /\ rcap' = [rcap EXCEPT ![t] = NoCaller]
    /\ pc' = [pc EXCEPT ![t] = "recv"]
    /\ UNCHANGED <<ep, slots, reply_eps, stranded, prim, client_num, arrived,
                   terminate_num, req, sent, regId>>

\* case TMNT: terminate_num ++.  Nothing in this build reads terminate_num
\* (the test is under BENCHMARK_ENTIRE), so the lost update of two racing
\* increments is not split into a load and a store here.
RecvTmnt(t) ==
    /\ Receiving(t, "TMNT")
    /\ ep' = Tail(ep)
    /\ terminate_num' = terminate_num + 1
    /\ rcap' = [rcap EXCEPT ![t] = NoCaller]
    /\ UNCHANGED <<pc, slots, reply_eps, stranded, prim, client_num, arrived,
                   clients>>

-----------------------------------------------------------------------------

Init ==
    /\ ClientsInit
    /\ pc = [t \in Threads |-> "recv"]
    /\ rcap = [t \in Threads |-> NoCaller]
    /\ slots = [i \in Ids |-> NoCaller]
    /\ reply_eps = [i \in Ids |-> FALSE]
    /\ stranded = {}
    /\ prim = [n |-> 0, q |-> <<>>]
    /\ client_num = 0
    /\ arrived = 0
    /\ terminate_num = 0

Thread(t) ==
    \/ RecvInit(t) \/ Barrier(t)
    \/ RecvWait(t) \/ RecvSendWait(t) \/ Unlock(t) \/ Lock(t) \/ Reply(t)
    \/ RecvTmnt(t)

Next ==
    \/ \E t \in Threads : Thread(t)
    \/ \E c \in Clients : ClientStep(c) /\ UNCHANGED server

\* The kernel schedules every runnable thread; the clients keep running.
Spec ==
    /\ Init
    /\ [][Next]_vars
    /\ \A t \in Threads : WF_vars(Thread(t))
    /\ \A c \in Clients : WF_vars(ClientStep(c) /\ UNCHANGED server)

-----------------------------------------------------------------------------
(* Properties.                                                              *)

TypeOK ==
    /\ ClientsTypeOK
    /\ pc \in [Threads -> Pcs]
    /\ rcap \in [Threads -> Clients \cup {NoCaller}]
    /\ slots \in [Ids -> Clients \cup {NoCaller}]
    /\ reply_eps \in [Ids -> BOOLEAN]
    /\ stranded \subseteq Clients
    /\ prim \in [n : Nat, q : Seq(Threads)]
    /\ client_num \in 0 .. Population
    /\ arrived \in 0 .. Population
    /\ terminate_num \in 0 .. Population

\* spec.md 4.5 and 8: once the population has sent INIT, the "ready"
\* message reaches every client (to id 0 from the barrier, to ids 1 .. N-1
\* from the multicast), so every client gets its INIT answered.
ReadyReachesEveryClient == <>(\A c \in Clients : got[c] # None)

=============================================================================
