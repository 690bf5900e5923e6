---------------------------- MODULE Sel4CPServer ----------------------------
(***************************************************************************)
(* The synchronization server of src/main.c as built with SEL4_THREAD and  *)
(* CONSUMER_PRODUCER: process_message (lines 979-1185), server_loop        *)
(* (1387-1442) and the threads sel4_threads_initial starts (1446-1508).    *)
(*                                                                         *)
(* Here every server thread is an seL4 thread of its own, preempted at any *)
(* point, and all of them wait on env.endpoint.  Shared are the buffer     *)
(* (guarded by the mutex lock_global), the notifications producer_list and *)
(* consumer_list, reply_eps and the counters.  Each thread answers through *)
(* its own reply cap: its TCB's caller cap (SEL4_SLOW, SEL4_FAST) or the   *)
(* slot it saved it into (SEL4_GREEN); the three reply paths route alike   *)
(* and are one variable, rcap, here.                                       *)
(*                                                                         *)
(* A step is one statement that touches shared state.  The buffer is only  *)
(* read and written under lock_global, so taking the lock and testing the *)
(* buffer are one step, as are buffer++ and the signal that follows it.    *)
(***************************************************************************)
EXTENDS CPClients

CONSTANTS
    Threads,      \* the server threads (client_count of them)
    BufferLimit,  \* buffer_limit
    NoCaller,     \* no reply cap
    NoThread,     \* lock_global is free
    CountWaits    \* model the wait_count statistic

ASSUME /\ BufferLimit \in Nat \ {0}
       /\ Threads # {}
       /\ CountWaits \in BOOLEAN

Lists == {"producer_list", "consumer_list"}

VARIABLES
    pc,            \* where each server thread is
    msg,           \* the label of the request the thread is handling
    rcap,          \* the client each thread's reply cap answers
    held,          \* the holder of lock_global
    note,          \* producer_list, consumer_list: word bit and waiters
    buffer,        \* buffer occupancy
    slots,         \* the slot_temp of each INIT, by client id
    reply_eps,     \* reply_eps[id] was written
    client_num,    \* clients registered by initial_client
    arrived,       \* barrier arrivals counted by client_barrier
    terminate_num, \* terminate_num
    tmp,           \* the value of terminate_num a thread has loaded
    finalized,     \* times "terminate_num == client_num" was found true
    wait_count,    \* wait_count
    wtmp,          \* the value of wait_count a thread has loaded
    waits          \* times seL4_Wait has returned to a server thread

server == <<pc, msg, rcap, held, note, buffer, slots, reply_eps, client_num,
            arrived, terminate_num, tmp, finalized>>
stats == <<wait_count, wtmp, waits>>
vars == <<ep, server, stats, clients>>

Pcs == {"recv", "barrier", "lock", "unlock", "wait", "blocked", "put",
        "reply", "load", "store", "test", "wcload", "wcstore"}

-----------------------------------------------------------------------------
(* The request a thread handles decides which list it sleeps on, which it  *)
(* signals, and how it moves the buffer.                                   *)

WaitList(lbl) == IF lbl = "PRODUCER" THEN "producer_list" ELSE "consumer_list"
SignalList(lbl) == IF lbl = "PRODUCER" THEN "consumer_list" ELSE "producer_list"
\* the while condition: buffer == buffer_limit, or buffer == 0
MustWait(lbl) == IF lbl = "PRODUCER" THEN buffer = BufferLimit ELSE buffer = 0
Step(lbl) == IF lbl = "PRODUCER" THEN 1 ELSE -1

\* A reply to client c's waiting seL4_Call.
Answer(c, lbl) ==
    /\ cst' = [cst EXCEPT ![c] = "run"]
    /\ got' = [got EXCEPT ![c] = lbl]

\* Thread t is in seL4_Recv and the first queued client sent lbl.
Receiving(t, lbl) ==
    /\ pc[t] = "recv"
    /\ ep # <<>>
    /\ Head(ep)[2] = lbl

-----------------------------------------------------------------------------
(* case INIT                                                                *)

\* initial_client(), allocman_cspace_alloc(&slot_temp),
\* vka_cnode_saveCaller(&slot_temp), reply_eps[client_id] = slot_temp.
RecvInit(t) ==
    /\ Receiving(t, "INIT")
    /\ client_num < Population
    /\ LET c == Head(ep)[1]
       IN /\ ep' = Tail(ep)
          /\ slots' = [slots EXCEPT ![client_num] = c]
          /\ reply_eps' = [reply_eps EXCEPT ![client_num] = TRUE]
          /\ regId' = [regId EXCEPT ![c] = client_num]
    /\ client_num' = client_num + 1
    /\ pc' = [pc EXCEPT ![t] = "barrier"]
    /\ msg' = [msg EXCEPT ![t] = "INIT"]
    /\ rcap' = [rcap EXCEPT ![t] = NoCaller]
    /\ UNCHANGED <<held, note, buffer, arrived, terminate_num, tmp, finalized,
                   cst, req, got, mr, left>>

\* The INIT reply sent to every id in ids whose slot holds a reply cap.
ReadySent(ids) ==
    LET live == {i \in ids : reply_eps[i] /\ slots[i] \in Clients}
        answered == {slots[i] : i \in live}
        idOf(c) == CHOOSE i \in live : slots[i] = c
    IN /\ slots' = [i \in Ids |-> IF i \in live THEN NoCaller ELSE slots[i]]
       /\ cst' = [c \in Clients |-> IF c \in answered THEN "run" ELSE cst[c]]
       /\ got' = [c \in Clients |-> IF c \in answered THEN "INIT" ELSE got[c]]
       /\ mr' = [c \in Clients |->
                   IF c \in answered THEN Payload(idOf(c)) ELSE mr[c]]

\* The barrier with process_message_multicast alone, the
\* seL4_Send(reply_eps[0]) before it left out.
BarrierMulticastOnly(t) ==
    /\ pc[t] = "barrier"
    /\ arrived' = arrived + 1
    /\ IF BarrierReached(arrived + 1)
       THEN ReadySent(1 .. client_num - 1)
       ELSE UNCHANGED <<slots, cst, got, mr>>
    /\ pc' = [pc EXCEPT ![t] = "recv"]
    /\ UNCHANGED <<ep, msg, rcap, held, note, buffer, reply_eps, client_num,
                   terminate_num, tmp, finalized, req, left, regId>>

\* if (client_barrier()) { seL4_Send(reply_eps[0]); multicast } -- the
\* sends go to every registered id whose slot holds a reply cap.
Barrier(t) ==
    /\ pc[t] = "barrier"
    /\ arrived' = arrived + 1
    /\ IF BarrierReached(arrived + 1)
       THEN ReadySent(0 .. client_num - 1)
       ELSE UNCHANGED <<slots, cst, got, mr>>
    /\ pc' = [pc EXCEPT ![t] = "recv"]
    /\ UNCHANGED <<ep, msg, rcap, held, note, buffer, reply_eps, client_num,
                   terminate_num, tmp, finalized, req, left, regId>>

-----------------------------------------------------------------------------
(* case PRODUCER and case CONSUMER                                          *)

\* The request arrives; under SEL4_GREEN vka_cnode_saveCaller(slot) keeps
\* the caller's reply cap in the thread's slot.  A slot still holding an
\* unused cap makes it fail (seL4_DeleteFirst), and the reply then goes
\* to the client of that old cap.
RecvRequest(t) ==
    /\ \E lbl \in {"PRODUCER", "CONSUMER"} : Receiving(t, lbl)
    /\ ep' = Tail(ep)
    /\ msg' = [msg EXCEPT ![t] = Head(ep)[2]]
    /\ rcap' = [rcap EXCEPT ![t] = IF @ = NoCaller THEN Head(ep)[1] ELSE @]
    /\ pc' = [pc EXCEPT ![t] = "lock"]
    /\ UNCHANGED <<held, note, buffer, slots, reply_eps, client_num, arrived,
                   terminate_num, tmp, finalized, clients>>

\* The loop with the sync_mutex_unlock lost: the thread waits holding
\* lock_global.
UnlockKeepingLock(t) ==
    /\ pc[t] = "unlock"
    /\ pc' = [pc EXCEPT ![t] = "wait"]
    /\ UNCHANGED <<ep, msg, rcap, held, note, buffer, slots, reply_eps,
                   client_num, arrived, terminate_num, tmp, finalized, clients>>

\* The lock with the while test lost: the thread always goes on to put.
LockWithoutTest(t) ==
    /\ pc[t] = "lock"
    /\ held = NoThread
    /\ held' = t
    /\ pc' = [pc EXCEPT ![t] = "put"]
    /\ UNCHANGED <<ep, msg, rcap, note, buffer, slots, reply_eps, client_num,
                   arrived, terminate_num, tmp, finalized, clients>>

\* sync_mutex_lock(&lock_global), then the while test.
Lock(t) ==
    /\ pc[t] = "lock"
    /\ held = NoThread
    /\ held' = t
    /\ pc' = [pc EXCEPT ![t] = IF MustWait(msg[t]) THEN "unlock" ELSE "put"]
    /\ UNCHANGED <<ep, msg, rcap, note, buffer, slots, reply_eps, client_num,
                   arrived, terminate_num, tmp, finalized, clients>>

\* In the loop: sync_mutex_unlock(&lock_global).
Unlock(t) ==
    /\ pc[t] = "unlock"
    /\ held' = NoThread
    /\ pc' = [pc EXCEPT ![t] = "wait"]
    /\ UNCHANGED <<ep, msg, rcap, note, buffer, slots, reply_eps, client_num,
                   arrived, terminate_num, tmp, finalized, clients>>

\* A thread seL4_Wait returns to goes on to wait_count++ and then back to
\* the lock; without CountWaits the statistic, which steers nothing, is
\* left out and the thread goes straight to the lock.
AfterWait == IF CountWaits THEN "wcload" ELSE "lock"
WaitReturned ==
    /\ waits' = IF CountWaits THEN waits + 1 ELSE waits
    /\ UNCHANGED <<wait_count, wtmp>>

\* seL4_Wait(list): a pending signal is taken at once and cleared; else the
\* thread joins the notification's queue.
Wait(t) ==
    /\ pc[t] = "wait"
    /\ LET n == WaitList(msg[t])
       IN IF note[n].bit
          THEN /\ note' = [note EXCEPT ![n].bit = FALSE]
               /\ pc' = [pc EXCEPT ![t] = AfterWait]
               /\ WaitReturned
          ELSE /\ note' = [note EXCEPT ![n].q = Append(@, t)]
               /\ pc' = [pc EXCEPT ![t] = "blocked"]
               /\ UNCHANGED stats
    /\ UNCHANGED <<ep, msg, rcap, held, buffer, slots, reply_eps, client_num,
                   arrived, terminate_num, tmp, finalized, clients>>

\* Variants of the put: with no seL4_Signal, and with the woken waiter
\* going on to put without taking the lock and re-testing the buffer
\* (an "if" where the code has "while").
PutNoSignal(t) ==
    /\ pc[t] = "put"
    /\ buffer' = buffer + Step(msg[t])
    /\ pc' = [pc EXCEPT ![t] = "reply"]
    /\ UNCHANGED <<ep, msg, rcap, held, note, slots, reply_eps, client_num,
                   arrived, terminate_num, tmp, finalized, clients, stats>>
PutNoRecheck(t) ==
    /\ pc[t] = "put"
    /\ buffer' = buffer + Step(msg[t])
    /\ LET n == SignalList(msg[t])
       IN IF note[n].q # <<>>
          THEN /\ note' = [note EXCEPT ![n].q = Tail(@)]
               /\ pc' = [pc EXCEPT ![t] = "reply", ![Head(note[n].q)] = "put"]
               /\ WaitReturned
          ELSE /\ note' = [note EXCEPT ![n].bit = TRUE]
               /\ pc' = [pc EXCEPT ![t] = "reply"]
               /\ UNCHANGED stats
    /\ UNCHANGED <<ep, msg, rcap, held, slots, reply_eps, client_num, arrived,
                   terminate_num, tmp, finalized, clients>>

\* The put with a signal that does not latch: it wakes a queued waiter but
\* is dropped when none is queued yet, as a condition-variable notify is.
PutSignalOnlyWaiters(t) ==
    /\ pc[t] = "put"
    /\ buffer' = buffer + Step(msg[t])
    /\ LET n == SignalList(msg[t])
       IN IF note[n].q # <<>>
          THEN /\ note' = [note EXCEPT ![n].q = Tail(@)]
               /\ pc' = [pc EXCEPT ![t] = "reply", ![Head(note[n].q)] = AfterWait]
               /\ WaitReturned
          ELSE /\ pc' = [pc EXCEPT ![t] = "reply"]
               /\ UNCHANGED <<note, stats>>
    /\ UNCHANGED <<ep, msg, rcap, held, slots, reply_eps, client_num, arrived,
                   terminate_num, tmp, finalized, clients>>

\* buffer++ (or buffer--), then seL4_Signal(other list): the first waiter
\* of the list returns from seL4_Wait; with no waiter the notification's
\* bit is set, however many signals it already holds.
Put(t) ==
    /\ pc[t] = "put"
    /\ buffer' = buffer + Step(msg[t])
    /\ LET n == SignalList(msg[t])
       IN IF note[n].q # <<>>
          THEN /\ note' = [note EXCEPT ![n].q = Tail(@)]
               /\ pc' = [pc EXCEPT ![t] = "reply", ![Head(note[n].q)] = AfterWait]
               /\ WaitReturned
          ELSE /\ note' = [note EXCEPT ![n].bit = TRUE]
               /\ pc' = [pc EXCEPT ![t] = "reply"]
               /\ UNCHANGED stats
    /\ UNCHANGED <<ep, msg, rcap, held, slots, reply_eps, client_num, arrived,
                   terminate_num, tmp, finalized, clients>>

\* The reply with the reply cap left in place, as if not consumed.
ReplyKeepingCap(t) ==
    /\ pc[t] = "reply"
    /\ held' = NoThread
    /\ Answer(rcap[t], msg[t])
    /\ pc' = [pc EXCEPT ![t] = "recv"]
    /\ UNCHANGED <<ep, msg, rcap, note, buffer, slots, reply_eps, client_num,
                   arrived, terminate_num, tmp, finalized, req, mr, left, regId>>

\* sync_mutex_unlock(&lock_global); return 1; server_loop answers through
\* the thread's reply cap and goes back to seL4_Recv.
Reply(t) ==
    /\ pc[t] = "reply"
    /\ held' = NoThread
    /\ Answer(rcap[t], msg[t])
    /\ rcap' = [rcap EXCEPT ![t] = NoCaller]
    /\ pc' = [pc EXCEPT ![t] = "recv"]
    /\ UNCHANGED <<ep, msg, note, buffer, slots, reply_eps, client_num,
                   arrived, terminate_num, tmp, finalized, req, mr, left, regId>>

-----------------------------------------------------------------------------
(* case TMNT: terminate_num ++ with no lock, so the load and the store of  *)
(* two threads can interleave; then if (terminate_num == client_num).      *)

RecvTmnt(t) ==
    /\ Receiving(t, "TMNT")
    /\ ep' = Tail(ep)
    /\ msg' = [msg EXCEPT ![t] = "TMNT"]
    /\ rcap' = [rcap EXCEPT ![t] = NoCaller]
    /\ pc' = [pc EXCEPT ![t] = "load"]
    /\ UNCHANGED <<held, note, buffer, slots, reply_eps, client_num, arrived,
                   terminate_num, tmp, finalized, clients>>

LoadTerminate(t) ==
    /\ pc[t] = "load"
    /\ tmp' = [tmp EXCEPT ![t] = terminate_num]
    /\ pc' = [pc EXCEPT ![t] = "store"]
    /\ UNCHANGED <<ep, msg, rcap, held, note, buffer, slots, reply_eps,
                   client_num, arrived, terminate_num, finalized, clients>>

StoreTerminate(t) ==
    /\ pc[t] = "store"
    /\ terminate_num' = tmp[t] + 1
    /\ pc' = [pc EXCEPT ![t] = "test"]
    /\ UNCHANGED <<ep, msg, rcap, held, note, buffer, slots, reply_eps,
                   client_num, arrived, tmp, finalized, clients>>

\* The compiler may test the value it just stored or load terminate_num
\* again: both are outcomes of the build.
TestTerminate(t) ==
    /\ pc[t] = "test"
    /\ \E v \in {terminate_num, tmp[t] + 1} :
          finalized' = IF v = client_num THEN finalized + 1 ELSE finalized
    /\ pc' = [pc EXCEPT ![t] = "recv"]
    /\ UNCHANGED <<ep, msg, rcap, held, note, buffer, slots, reply_eps,
                   client_num, arrived, terminate_num, tmp, clients>>

-----------------------------------------------------------------------------
(* wait_count ++ after seL4_Wait returns, outside lock_global: the load    *)
(* and the store of two woken threads can interleave.                      *)

LoadWaitCount(t) ==
    /\ pc[t] = "wcload"
    /\ wtmp' = [wtmp EXCEPT ![t] = wait_count]
    /\ pc' = [pc EXCEPT ![t] = "wcstore"]
    /\ UNCHANGED <<ep, msg, rcap, held, note, buffer, slots, reply_eps, client_num,
                   arrived, terminate_num, tmp, finalized, clients, wait_count, waits>>

StoreWaitCount(t) ==
    /\ pc[t] = "wcstore"
    /\ wait_count' = wtmp[t] + 1
    /\ pc' = [pc EXCEPT ![t] = "lock"]
    /\ UNCHANGED <<ep, msg, rcap, held, note, buffer, slots, reply_eps, client_num,
                   arrived, terminate_num, tmp, finalized, clients, wtmp, waits>>

-----------------------------------------------------------------------------

Init ==
    /\ ClientsInit
    /\ pc = [t \in Threads |-> "recv"]
    /\ msg = [t \in Threads |-> None]
    /\ rcap = [t \in Threads |-> NoCaller]
    /\ held = NoThread
    /\ note = [n \in Lists |-> [bit |-> FALSE, q |-> <<>>]]
    /\ buffer = 0
    /\ slots = [i \in Ids |-> NoCaller]
    /\ reply_eps = [i \in Ids |-> FALSE]
    /\ client_num = 0
    /\ arrived = 0
    /\ terminate_num = 0
    /\ tmp = [t \in Threads |-> 0]
    /\ finalized = 0
    /\ wait_count = 0
    /\ wtmp = [t \in Threads |-> 0]
    /\ waits = 0

Thread(t) ==
    \/ /\ \/ RecvInit(t) \/ Barrier(t)
          \/ RecvRequest(t) \/ Lock(t) \/ Unlock(t) \/ Reply(t)
          \/ RecvTmnt(t) \/ LoadTerminate(t) \/ StoreTerminate(t) \/ TestTerminate(t)
       /\ UNCHANGED stats
    \/ Wait(t) \/ Put(t) \/ LoadWaitCount(t) \/ StoreWaitCount(t)

Next ==
    \/ \E t \in Threads : Thread(t)
    \/ \E c \in Clients : ClientStep(c) /\ UNCHANGED <<server, stats>>

\* The kernel schedules every runnable thread (WF); lock_global is a
\* notification whose waiters are woken in turn, so a thread that finds it
\* free again and again gets it (SF); the clients keep running (WF).
Spec ==
    /\ Init
    /\ [][Next]_vars
    /\ \A t \in Threads : WF_vars(Thread(t))
    /\ \A t \in Threads : SF_vars(Lock(t) /\ UNCHANGED stats)
    /\ \A c \in Clients : WF_vars(ClientStep(c) /\ UNCHANGED <<server, stats>>)

-----------------------------------------------------------------------------
(* Properties.                                                              *)

TypeOK ==
    /\ ClientsTypeOK
    /\ pc \in [Threads -> Pcs]
    /\ msg \in [Threads -> Labels \cup {None}]
    /\ rcap \in [Threads -> Clients \cup {NoCaller}]
    /\ held \in Threads \cup {NoThread}
    /\ note \in [Lists -> [bit : BOOLEAN, q : Seq(Threads)]]
    /\ buffer \in 0 .. BufferLimit
    /\ slots \in [Ids -> Clients \cup {NoCaller}]
    /\ reply_eps \in [Ids -> BOOLEAN]
    /\ client_num \in 0 .. Population
    /\ arrived \in 0 .. Population
    /\ terminate_num \in 0 .. Population
    /\ tmp \in [Threads -> 0 .. Population]
    /\ finalized \in Nat
    /\ wait_count \in Nat
    /\ wtmp \in [Threads -> Nat]
    /\ waits \in Nat

\* Items put by a thread that has not yet answered its client.
InFlight(lbl) == Cardinality({t \in Threads : pc[t] = "reply" /\ msg[t] = lbl})

\* The buffer holds the items of the answered and in-flight PRODUCER
\* requests minus those of the CONSUMER ones, whatever the preemptions
\* between unlocking, waiting on the notification and re-locking.
BufferAccounting ==
    buffer = SumFunctionOnSet(Completed, Producers) + InFlight("PRODUCER")
               - SumFunctionOnSet(Completed, Consumers) - InFlight("CONSUMER")

\* Every client has sent TMNT, every message is handled, every thread is
\* back in seL4_Recv: the benchmark is over.
Quiescent ==
    /\ \A c \in Clients : cst[c] = "done"
    /\ ep = <<>>
    /\ \A t \in Threads : pc[t] = "recv"

\* The server never hangs before the benchmark is over: some thread or
\* client can always move.  A thread left blocked on producer_list or
\* consumer_list while the buffer would let it go on, because two
\* seL4_Signals merged into one bit, shows up here.
NoHang == Quiescent \/ ENABLED Next

\* The benchmark ends: under the kernel's scheduling every run reaches the
\* state where every client has had each seL4_Call answered and has sent
\* TMNT, every TMNT is handled and every server thread is back in
\* seL4_Recv.  With three threads, two of one role can wait on the same
\* notification at once; a signal that merged into the bit while one of
\* them was between sync_mutex_unlock and seL4_Wait (line 1064) must still
\* leave a way for both to finish.
BenchmarkEnds == <>Quiescent

\* The end of the run is detected exactly once (spec.md section 8): the
\* test "terminate_num == client_num" never succeeds twice, and once every
\* client's TMNT has been handled it has succeeded.
TerminationDetectedOnce ==
    /\ finalized <= 1
    /\ Quiescent => finalized = 1

\* wait_count, printed with the run's statistics at line 1171, counts the
\* returns from seL4_Wait of the producer and consumer loops: every
\* return whose wait_count++ is done is counted once.  spec.md section 5
\* names the buffer and the barrier and terminate counters as the only
\* shared mutable state, all protected; wait_count is shared too, and
\* its ++ is outside lock_global.
WaitCountExact ==
    wait_count = waits - Cardinality({t \in Threads : pc[t] \in {"wcload", "wcstore"}})

\* Refinement: the seL4-thread server implements BoundedBuffer.  A thread
\* between Put and Reply has moved the buffer for its client but not yet
\* answered it; the mapping counts that client as already served, with the
\* label the thread will reply, so Put is the abstract Serve and Reply a
\* stutter.
Serving(c) == {t \in Threads : pc[t] = "reply" /\ rcap[t] = c}
absCst == [c \in Clients |-> IF Serving(c) # {} THEN "run" ELSE cst[c]]
absGot == [c \in Clients |->
             IF Serving(c) # {} THEN msg[CHOOSE t \in Serving(c) : TRUE]
                                ELSE got[c]]
AbstractBuffer == INSTANCE BoundedBuffer WITH cst <- absCst, got <- absGot

\* The behaviours of the preemptive consumer/producer server, seen by the
\* clients, are behaviours of the abstract bounded buffer: every buffer
\* move serves one waiting client of the right role, within the bounds.
ImplementsBoundedBuffer == AbstractBuffer!Spec

=============================================================================
