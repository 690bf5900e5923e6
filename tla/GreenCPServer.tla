--------------------------- MODULE GreenCPServer ---------------------------
(***************************************************************************)
(* The synchronization server of src/main.c as built with GREEN_THREAD and *)
(* CONSUMER_PRODUCER: process_message (lines 558-725), the green-thread    *)
(* server_loop (938-970) and process_message_multicast (459-474).          *)
(*                                                                         *)
(* Several green threads run server_loop on ONE seL4 thread.  Scheduling   *)
(* is cooperative: a green thread runs until it calls thread_sleep or      *)
(* thread_exit, and while it sits in seL4_Recv the whole seL4 thread, and  *)
(* with it every other green thread, is blocked in the kernel.  A handler  *)
(* segment between two such points is therefore one atomic step here; the *)
(* clients, separate processes, interleave with it freely.                 *)
(*                                                                         *)
(* The kernel keeps one caller (reply) cap per seL4 thread, replaced by    *)
(* every seL4_Recv.  A handler that answers later first moves it into a    *)
(* cspace slot (vka_cnode_saveCaller) and answers with seL4_Send on that   *)
(* slot, which consumes the cap.  These slots are the continuation store. *)
(***************************************************************************)
EXTENDS CPClients

CONSTANTS
    Threads,      \* the green threads made by thread_creation (client_count)
    BufferLimit,  \* buffer_limit
    NoCaller,     \* an empty caller cap or cspace slot
    NoSlot,       \* a reply_eps entry not yet written
    NoThread      \* no green thread is running

\* Each green thread owns a slot made by thread_create(allocman, ...); every
\* INIT allocates a fresh slot, named here by the id it is allocated for.
Slots == Threads \cup Ids

ASSUME /\ BufferLimit \in Nat \ {0}
       /\ Threads # {}

VARIABLES
    caller,        \* the seL4 thread's caller cap: the client it answers
    cnode,         \* cspace slot -> client whose reply cap it holds
    tslot,         \* pool->t_running->t->slot of each green thread
    reply_eps,     \* reply_eps[id]: the slot saved for client id
    client_num,    \* clients registered by initial_client
    arrived,       \* barrier arrivals counted by client_barrier
    terminate_num, \* TMNT messages handled
    buffer,        \* buffer occupancy
    ts,            \* where each green thread is
    running        \* the green thread holding the seL4 thread

server == <<caller, cnode, tslot, reply_eps, client_num, arrived,
            terminate_num, buffer, ts, running>>
vars == <<ep, server, clients>>

ThreadStates == {"new", "recv", "sleepP", "sleepC", "readyP", "readyC", "exited"}
Runnable == {"new", "readyP", "readyC"}

-----------------------------------------------------------------------------
(* Kernel and thread-library primitives the handlers use.                  *)

\* vka_cnode_saveCaller(slot): moves the caller cap into an empty slot; an
\* occupied slot makes it fail (seL4_DeleteFirst) and the cap stays put.
SaveCaller(cn, s, cl) == IF cn[s] = NoCaller THEN [cn EXCEPT ![s] = cl] ELSE cn
CallerAfterSave(cn, s, cl) == IF cn[s] = NoCaller THEN NoCaller ELSE cl

\* A send that left the reply cap in the slot, as if it were not consumed.
SendReplyKeepingCap(cn, s, lbl) ==
    IF cn[s] \in Clients
    THEN /\ cnode' = cn
         /\ cst' = [cst EXCEPT ![cn[s]] = "run"]
         /\ got' = [got EXCEPT ![cn[s]] = lbl]
    ELSE /\ cnode' = cn
         /\ UNCHANGED <<cst, got>>

\* seL4_Send(slot, reply) on a slot holding a reply cap: the waiting client
\* gets the reply and the cap is used up.  On an empty slot it does nothing.
SendReply(cn, s, lbl) ==
    IF cn[s] \in Clients
    THEN /\ cnode' = [cn EXCEPT ![s] = NoCaller]
         /\ cst' = [cst EXCEPT ![cn[s]] = "run"]
         /\ got' = [got EXCEPT ![cn[s]] = lbl]
    ELSE /\ cnode' = cn
         /\ UNCHANGED <<cst, got>>

\* The INIT reply sent on the saved slot of every id in ids that still
\* holds a reply cap.
ReplyToIds(cn, rep, ids) ==
    LET live == {i \in ids : rep[i] # NoSlot /\ cn[rep[i]] \in Clients}
        answered == {cn[rep[i]] : i \in live}
        idOf(c) == CHOOSE i \in live : cn[rep[i]] = c
    IN /\ cnode' = [s \in Slots |->
                      IF \E i \in live : rep[i] = s THEN NoCaller ELSE cn[s]]
       /\ cst' = [c \in Clients |-> IF c \in answered THEN "run" ELSE cst[c]]
       /\ got' = [c \in Clients |-> IF c \in answered THEN "INIT" ELSE got[c]]
       /\ mr' = [c \in Clients |->
                   IF c \in answered THEN Payload(idOf(c)) ELSE mr[c]]

\* The barrier branch with process_message_multicast alone, the
\* seL4_Send(reply_eps[0]) before it left out.
BroadcastMulticastOnly(cn, rep, n) == ReplyToIds(cn, rep, 1 .. n - 1)

\* seL4_Send(reply_eps[0]) followed by process_message_multicast(), which
\* sends on reply_eps[1 .. client_num - 1].
Broadcast(cn, rep, n) == ReplyToIds(cn, rep, 0 .. n - 1)

\* thread_wakeup(list): one sleeper of the list, if any, becomes runnable.
WakeOne(tsv, list, woken) ==
    IF \E w \in Threads : tsv[w] = list
    THEN {[tsv EXCEPT ![w] = woken] : w \in {x \in Threads : tsv[x] = list}}
    ELSE {tsv}

-----------------------------------------------------------------------------
(* The server.                                                              *)

\* Green thread t is the one running and is blocked in seL4_Recv, and a
\* client is queued: the kernel hands it the message (and, for a seL4_Call,
\* the caller cap) and the handler for its label runs.
Receiving(t, lbl) ==
    /\ running = t
    /\ ts[t] = "recv"
    /\ ep # <<>>
    /\ Head(ep)[2] = lbl

\* The thread library starts a green thread at server_loop, whose first
\* statement is seL4_Recv.
StartThread(t) ==
    /\ running = t
    /\ ts[t] = "new"
    /\ ts' = [ts EXCEPT ![t] = "recv"]
    /\ UNCHANGED <<ep, caller, cnode, tslot, reply_eps, client_num, arrived,
                   terminate_num, buffer, running, clients>>

\* thread_sleep / thread_exit left no green thread running: the library
\* switches to a runnable one.
Schedule(r) ==
    /\ running = NoThread
    /\ ts[r] \in Runnable
    /\ running' = r
    /\ UNCHANGED <<ep, caller, cnode, tslot, reply_eps, client_num, arrived,
                   terminate_num, buffer, ts, clients>>

\* case INIT: register the client, save its caller cap in a fresh slot
\* recorded in reply_eps, and once the last client has arrived answer all
\* of them.  Returns -1: no reply now, back to seL4_Recv.
HandleInit(t) ==
    /\ Receiving(t, "INIT")
    /\ client_num < Population
    /\ LET c == Head(ep)[1]
           id == client_num
           s == id
           cn == SaveCaller(cnode, s, c)
           rep == [reply_eps EXCEPT ![id] = s]
       IN /\ ep' = Tail(ep)
          /\ caller' = CallerAfterSave(cnode, s, c)
          /\ tslot' = [tslot EXCEPT ![t] = s]
          /\ reply_eps' = rep
          /\ client_num' = id + 1
          /\ arrived' = arrived + 1
          /\ regId' = [regId EXCEPT ![c] = id]
          /\ IF BarrierReached(arrived + 1)
             THEN Broadcast(cn, rep, id + 1)
             ELSE /\ cnode' = cn
                  /\ UNCHANGED <<cst, got, mr>>
    /\ UNCHANGED <<terminate_num, buffer, ts, running, req, left>>

\* Variants of the producer's exit path: without thread_wakeup, and with
\* the reply sent on the TCB's caller cap (seL4_Reply), which saveCaller
\* has already moved out, instead of on t's slot.
ProduceNoWakeup(t, cn) ==
    /\ buffer' = buffer + 1
    /\ ts' = [ts EXCEPT ![t] = "recv"]
    /\ SendReply(cn, tslot[t], "PRODUCER")
    /\ UNCHANGED running
ProduceReplyingToCaller(t, cn) ==
    /\ buffer' = buffer + 1
    /\ ts' \in WakeOne([ts EXCEPT ![t] = "recv"], "sleepC", "readyC")
    /\ cnode' = cn
    /\ UNCHANGED <<cst, got, running>>

\* The part of case PRODUCER after the while loop: buffer++, wake a
\* consumer, and server_loop's seL4_Send(t->slot) with label PRODUCER,
\* after which t is back in seL4_Recv.
Produce(t, cn) ==
    /\ buffer' = buffer + 1
    /\ ts' \in WakeOne([ts EXCEPT ![t] = "recv"], "sleepC", "readyC")
    /\ SendReply(cn, tslot[t], "PRODUCER")
    /\ UNCHANGED running

\* The consumer's exit path without thread_wakeup(producer_list).
ConsumeNoWakeup(t, cn) ==
    /\ buffer' = buffer - 1
    /\ ts' = [ts EXCEPT ![t] = "recv"]
    /\ SendReply(cn, tslot[t], "CONSUMER")
    /\ UNCHANGED running

Consume(t, cn) ==
    /\ buffer' = buffer - 1
    /\ ts' \in WakeOne([ts EXCEPT ![t] = "recv"], "sleepP", "readyP")
    /\ SendReply(cn, tslot[t], "CONSUMER")
    /\ UNCHANGED running

\* thread_sleep(list): t leaves the seL4 thread to another green thread.
Sleep(t, cn, list) ==
    /\ ts' = [ts EXCEPT ![t] = list]
    /\ running' = NoThread
    /\ cnode' = cn
    /\ UNCHANGED <<buffer, cst, got>>

\* case PRODUCER with the while loop lost: it produces into a full buffer.
HandleProducerNoWait(t) ==
    /\ Receiving(t, "PRODUCER")
    /\ LET cn == SaveCaller(cnode, tslot[t], Head(ep)[1])
       IN /\ ep' = Tail(ep)
          /\ caller' = CallerAfterSave(cnode, tslot[t], Head(ep)[1])
          /\ Produce(t, cn)
    /\ UNCHANGED <<tslot, reply_eps, client_num, arrived, terminate_num,
                   mr, req, left, regId>>

\* case PRODUCER: save the caller cap in t's slot, then wait while the
\* buffer is full.
HandleProducer(t) ==
    /\ Receiving(t, "PRODUCER")
    /\ LET cn == SaveCaller(cnode, tslot[t], Head(ep)[1])
       IN /\ ep' = Tail(ep)
          /\ caller' = CallerAfterSave(cnode, tslot[t], Head(ep)[1])
          /\ IF buffer = BufferLimit THEN Sleep(t, cn, "sleepP")
                                     ELSE Produce(t, cn)
    /\ UNCHANGED <<tslot, reply_eps, client_num, arrived, terminate_num,
                   mr, req, left, regId>>

\* case CONSUMER with the while loop lost: it takes from an empty buffer.
HandleConsumerNoWait(t) ==
    /\ Receiving(t, "CONSUMER")
    /\ LET cn == SaveCaller(cnode, tslot[t], Head(ep)[1])
       IN /\ ep' = Tail(ep)
          /\ caller' = CallerAfterSave(cnode, tslot[t], Head(ep)[1])
          /\ Consume(t, cn)
    /\ UNCHANGED <<tslot, reply_eps, client_num, arrived, terminate_num,
                   mr, req, left, regId>>

HandleConsumer(t) ==
    /\ Receiving(t, "CONSUMER")
    /\ LET cn == SaveCaller(cnode, tslot[t], Head(ep)[1])
       IN /\ ep' = Tail(ep)
          /\ caller' = CallerAfterSave(cnode, tslot[t], Head(ep)[1])
          /\ IF buffer = 0 THEN Sleep(t, cn, "sleepC")
                           ELSE Consume(t, cn)
    /\ UNCHANGED <<tslot, reply_eps, client_num, arrived, terminate_num,
                   mr, req, left, regId>>

\* A producer woken by thread_wakeup resumes in its while loop: it
\* re-acquires the lock and re-tests the buffer.
ResumeProducer(t) ==
    /\ running = t
    /\ ts[t] = "readyP"
    /\ IF buffer = BufferLimit THEN Sleep(t, cnode, "sleepP")
                               ELSE Produce(t, cnode)
    /\ UNCHANGED <<ep, caller, tslot, reply_eps, client_num, arrived,
                   terminate_num, mr, req, left, regId>>

ResumeConsumer(t) ==
    /\ running = t
    /\ ts[t] = "readyC"
    /\ IF buffer = 0 THEN Sleep(t, cnode, "sleepC")
                     ELSE Consume(t, cnode)
    /\ UNCHANGED <<ep, caller, tslot, reply_eps, client_num, arrived,
                   terminate_num, mr, req, left, regId>>

\* case TMNT: count it and thread_exit(); the client expects no reply.
HandleTmnt(t) ==
    /\ Receiving(t, "TMNT")
    /\ ep' = Tail(ep)
    /\ caller' = NoCaller
    /\ terminate_num' = terminate_num + 1
    /\ ts' = [ts EXCEPT ![t] = "exited"]
    /\ running' = NoThread
    /\ UNCHANGED <<cnode, tslot, reply_eps, client_num, arrived, buffer,
                   clients>>

-----------------------------------------------------------------------------

Init ==
    /\ ep = <<>>
    /\ caller = NoCaller
    /\ cnode = [s \in Slots |-> NoCaller]
    /\ tslot = [t \in Threads |-> t]
    /\ reply_eps = [i \in Ids |-> NoSlot]
    /\ client_num = 0
    /\ arrived = 0
    /\ terminate_num = 0
    /\ buffer = 0
    \* main_continued: thread_resume(t_id) runs one of the new threads.
    /\ running \in Threads
    /\ ts = [t \in Threads |-> "new"]
    /\ ClientsInit

ServerStep ==
    \E t \in Threads :
        \/ StartThread(t)
        \/ HandleInit(t)
        \/ HandleProducer(t)
        \/ HandleConsumer(t)
        \/ ResumeProducer(t)
        \/ ResumeConsumer(t)
        \/ HandleTmnt(t)

Next ==
    \/ ServerStep
    \/ \E r \in Threads : Schedule(r)
    \/ \E c \in Clients : ClientStep(c) /\ UNCHANGED server

\* The seL4 thread never stops while a green thread can run (WF); the
\* library's ready list is served in turn, so a thread that is runnable
\* whenever a switch happens is eventually switched to (SF); every client
\* keeps running its test program (WF).
Spec ==
    /\ Init
    /\ [][Next]_vars
    /\ WF_vars(ServerStep)
    /\ \A r \in Threads : SF_vars(Schedule(r))
    /\ \A c \in Clients : WF_vars(ClientStep(c) /\ UNCHANGED server)

-----------------------------------------------------------------------------
(* Properties.                                                              *)

TypeOK ==
    /\ ClientsTypeOK
    /\ caller \in Clients \cup {NoCaller}
    /\ cnode \in [Slots -> Clients \cup {NoCaller}]
    /\ tslot \in [Threads -> Slots]
    /\ reply_eps \in [Ids -> Slots \cup {NoSlot}]
    /\ client_num \in 0 .. Population
    /\ arrived \in 0 .. Population
    /\ terminate_num \in 0 .. Population
    /\ buffer \in 0 .. BufferLimit
    /\ ts \in [Threads -> ThreadStates]
    /\ running \in Threads \cup {NoThread}

\* The buffer holds exactly the items of the PRODUCER requests that were
\* answered minus those of the answered CONSUMER requests: no handler path
\* (first try, or after being woken) answers a request without moving the
\* buffer, or moves it without answering.
BufferAccounting ==
    buffer = SumFunctionOnSet(Completed, Producers)
               - SumFunctionOnSet(Completed, Consumers)

\* No lost wakeup: while a consumer sleeps on consumer_list, every item in
\* the buffer has a woken consumer on its way to take it; while a producer
\* sleeps on producer_list, every free place has a woken producer on its
\* way.  thread_wakeup in the PRODUCER and CONSUMER cases keeps this.
NoLostWakeup ==
    LET n(st) == Cardinality({t \in Threads : ts[t] = st})
    IN /\ n("sleepC") > 0 => buffer <= n("readyC")
       /\ n("sleepP") > 0 => BufferLimit - buffer <= n("readyP")


\* Refinement: the green server implements BoundedBuffer.  The mapping is
\* the identity, because a green handler segment changes the buffer and
\* sends its reply in one step: every answer to a PRODUCER or CONSUMER
\* request is one Serve of the abstract buffer, taken only when the buffer
\* allows it and answering the client whose reply cap was used, and the
\* INIT broadcast of HandleInit is the abstract Ready.
AbstractBuffer == INSTANCE BoundedBuffer

\* The behaviours of the green consumer/producer server, seen by the
\* clients, are behaviours of the abstract bounded buffer.
ImplementsBoundedBuffer == AbstractBuffer!Spec

=============================================================================
