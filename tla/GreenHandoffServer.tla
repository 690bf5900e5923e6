------------------------- MODULE GreenHandoffServer -------------------------
(***************************************************************************)
(* The synchronization server of src/main.c as built with GREEN_THREAD and *)
(* without CONSUMER_PRODUCER: process_message (lines 727-933) and the      *)
(* green server_loop (938-970).  The clients hand a token on: WAIT blocks  *)
(* on the primitive sync_prim, SEND_WAIT releases it and blocks again, and *)
(* the reply to either is sent when the thread gets the primitive back.    *)
(*                                                                         *)
(* Scheduling is as in GreenCPServer: one seL4 thread, cooperative green   *)
(* threads, a handler segment between yield points is one step.  The      *)
(* primitive is one of THREAD_LOCK, THREAD_SEMAPHORE, THREAD_CV (constant  *)
(* Primitive); its library is not in the repository and follows spec.md   *)
(* 4.3: a lock or semaphore release hands on to a sleeper if there is one, *)
(* a condition-variable signal with no sleeper is lost.                    *)
(*                                                                         *)
(* The clients are those of HandoffClients.                                *)
(***************************************************************************)
EXTENDS HandoffClients

CONSTANTS
    Threads,          \* green threads made by thread_creation
    Primitive,        \* "lock", "semaphore" or "cv"
    NoCaller, NoSlot, NoThread

Slots == Threads \cup Ids

ASSUME Primitive \in {"lock", "semaphore", "cv"}

VARIABLES
    caller,        \* the seL4 thread's caller cap
    cnode,         \* cspace slot -> client whose reply cap it holds
    tslot,         \* pool->t_running->t->slot of each green thread
    reply_eps,     \* reply_eps[id]
    client_num,    \* clients registered by initial_client
    arrived,       \* barrier arrivals
    terminate_num, \* TMNT messages handled
    held,          \* THREAD_LOCK: sync_prim->held; THREAD_SEMAPHORE: count
    sleepers,      \* green threads asleep on sync_prim
    ts,            \* where each green thread is
    running        \* the green thread holding the seL4 thread

server == <<caller, cnode, tslot, reply_eps, client_num, arrived,
            terminate_num, held, sleepers, ts, running>>
vars == <<ep, clients, server>>

-----------------------------------------------------------------------------
(* Kernel operations on the continuation store.                             *)

\* vka_cnode_saveCaller(slot): fails with seL4_DeleteFirst on an occupied
\* slot, leaving the cap with the seL4 thread.
SaveCaller(cn, s, cl) == IF cn[s] = NoCaller THEN [cn EXCEPT ![s] = cl] ELSE cn
CallerAfterSave(cn, s, cl) == IF cn[s] = NoCaller THEN NoCaller ELSE cl

\* The clients answered by seL4_Send on each slot of the set ss (each slot
\* holding a reply cap), and the cnode with those caps used up.
Answered(cn, ss) == {cn[s] : s \in {x \in ss : cn[x] \in Clients}}
Consume(cn, ss) == [s \in Slots |-> IF s \in ss THEN NoCaller ELSE cn[s]]

-----------------------------------------------------------------------------
(* The primitive sync_prim.  held is 1 or 0 for THREAD_LOCK (main_continued *)
(* creates it held, line 1635), the count for THREAD_SEMAPHORE, unused for  *)
(* THREAD_CV.                                                               *)

\* A release that frees the primitive without waking its sleeper.
ReleaseNoWake(h, sl, tsv) ==
    {[h |-> IF Primitive = "lock" THEN 0 ELSE h + 1, sl |-> sl, ts |-> tsv]}

\* thread_lock_release / thread_semaphore_V / thread_cv_signal: wake one
\* sleeper, handing the primitive on; with none, a lock is freed, a
\* semaphore counts up, a signal is lost.  The outcomes, as records.
Release(h, sl, tsv) ==
    IF sl # {}
    THEN {[h |-> h, sl |-> sl \ {w}, ts |-> [tsv EXCEPT ![w] = "ready"]] : w \in sl}
    ELSE {[h |-> CASE Primitive = "lock" -> 0
                   [] Primitive = "semaphore" -> h + 1
                   [] OTHER -> h,
           sl |-> sl, ts |-> tsv]}

\* thread_lock_acquire / thread_semaphore_P succeed at once; a
\* thread_cv_wait always sleeps.
CanTake(h) == CASE Primitive = "lock" -> h = 0
                [] Primitive = "semaphore" -> h > 0
                [] OTHER -> FALSE
Take(h) == IF Primitive = "lock" THEN 1 ELSE h - 1

\* A handler end whose thread_sleep does not give up the seL4 thread.
FinishNoYield(t, cn, ready, h, sl, tsv) ==
    LET go == CanTake(h)
        syncSlots == IF go THEN {tslot[t]} ELSE {}
        sync == Answered(cn, syncSlots)
    IN /\ cnode' = Consume(cn, syncSlots)
       /\ cst' = [c \in Clients |-> IF c \in ready \cup sync THEN "run" ELSE cst[c]]
       /\ got' = [c \in Clients |-> CASE c \in sync -> "sync"
                                      [] c \in ready -> "ready"
                                      [] OTHER -> got[c]]
       /\ held' = IF go THEN Take(h) ELSE h
       /\ sleepers' = IF go THEN sl ELSE sl \cup {t}
       /\ ts' = IF go THEN tsv ELSE [tsv EXCEPT ![t] = "asleep"]
       /\ running' = running

\* The end of a WAIT or SEND_WAIT handler: acquire the primitive; on
\* success return 1 and server_loop sends the reply on t's slot, else t
\* sleeps on sync_prim and gives up the seL4 thread.  cn is the cnode after
\* the handler's sends and save, ready the clients its multicast answered.
Finish(t, cn, ready, h, sl, tsv) ==
    LET go == CanTake(h)
        syncSlots == IF go THEN {tslot[t]} ELSE {}
        sync == Answered(cn, syncSlots)
    IN /\ cnode' = Consume(cn, syncSlots)
       /\ cst' = [c \in Clients |-> IF c \in ready \cup sync THEN "run" ELSE cst[c]]
       /\ got' = [c \in Clients |-> CASE c \in sync -> "sync"
                                      [] c \in ready -> "ready"
                                      [] OTHER -> got[c]]
       /\ held' = IF go THEN Take(h) ELSE h
       /\ sleepers' = IF go THEN sl ELSE sl \cup {t}
       /\ ts' = IF go THEN tsv ELSE [tsv EXCEPT ![t] = "asleep"]
       /\ running' = IF go THEN running ELSE NoThread

-----------------------------------------------------------------------------
(* The server.                                                              *)

Receiving(t, lbl) ==
    /\ running = t
    /\ ts[t] = "recv"
    /\ ep # <<>>
    /\ Head(ep)[2] = lbl

StartThread(t) ==
    /\ running = t
    /\ ts[t] = "new"
    /\ ts' = [ts EXCEPT ![t] = "recv"]
    /\ UNCHANGED <<ep, clients, caller, cnode, tslot, reply_eps, client_num,
                   arrived, terminate_num, held, sleepers, running>>

Schedule(r) ==
    /\ running = NoThread
    /\ ts[r] \in {"new", "ready"}
    /\ running' = r
    /\ UNCHANGED <<ep, clients, caller, cnode, tslot, reply_eps, client_num,
                   arrived, terminate_num, held, sleepers, ts>>

\* case INIT: as in the CONSUMER_PRODUCER build, but the barrier answers
\* only reply_eps[0]; the others are answered by the multicast of WAIT.
HandleInit(t) ==
    /\ Receiving(t, "INIT")
    /\ client_num < Population
    /\ LET c == Head(ep)[1]
           id == client_num
           cn == SaveCaller(cnode, id, c)
           rep == [reply_eps EXCEPT ![id] = id]
           ans == IF arrived + 1 = Population THEN {rep[0]} ELSE {}
       IN /\ ep' = Tail(ep)
          /\ caller' = CallerAfterSave(cnode, id, c)
          /\ tslot' = [tslot EXCEPT ![t] = id]
          /\ reply_eps' = rep
          /\ client_num' = id + 1
          /\ arrived' = arrived + 1
          /\ regId' = [regId EXCEPT ![c] = id]
          /\ cnode' = Consume(cn, ans)
          /\ Deliver(Answered(cn, ans), "ready")
    /\ UNCHANGED <<terminate_num, held, sleepers, ts, running, req, sent>>

\* case WAIT with the save moved before the multicast.
HandleWaitSaveFirst(t) ==
    /\ Receiving(t, "WAIT")
    /\ LET c == Head(ep)[1]
           mslots == {reply_eps[i] : i \in {i \in 1 .. client_num - 1 :
                                              reply_eps[i] # NoSlot}}
           saved == SaveCaller(cnode, tslot[t], c)
       IN /\ ep' = Tail(ep)
          /\ caller' = CallerAfterSave(cnode, tslot[t], c)
          /\ Finish(t, Consume(saved, mslots), Answered(saved, mslots),
                    held, sleepers, ts)
    /\ UNCHANGED <<tslot, reply_eps, client_num, arrived, terminate_num,
                   req, sent, regId>>

\* case WAIT: process_message_multicast(), save the caller in t's slot,
\* then acquire sync_prim.
HandleWait(t) ==
    /\ Receiving(t, "WAIT")
    /\ LET c == Head(ep)[1]
           mslots == {reply_eps[i] : i \in {i \in 1 .. client_num - 1 :
                                              reply_eps[i] # NoSlot}}
           cn == Consume(cnode, mslots)
       IN /\ ep' = Tail(ep)
          /\ caller' = CallerAfterSave(cn, tslot[t], c)
          /\ Finish(t, SaveCaller(cn, tslot[t], c), Answered(cnode, mslots),
                    held, sleepers, ts)
    /\ UNCHANGED <<tslot, reply_eps, client_num, arrived, terminate_num,
                   req, sent, regId>>

\* case SEND_WAIT with the multicast of case WAIT copied into it.
HandleSendWaitMulticast(t) ==
    /\ Receiving(t, "SEND_WAIT")
    /\ LET c == Head(ep)[1]
           mslots == {reply_eps[i] : i \in {i \in 1 .. client_num - 1 :
                                              reply_eps[i] # NoSlot}}
           cn == Consume(cnode, mslots)
       IN /\ ep' = Tail(ep)
          /\ caller' = CallerAfterSave(cn, tslot[t], c)
          /\ \E r \in Release(held, sleepers, ts) :
                Finish(t, SaveCaller(cn, tslot[t], c), Answered(cnode, mslots),
                       r.h, r.sl, r.ts)
    /\ UNCHANGED <<tslot, reply_eps, client_num, arrived, terminate_num,
                   req, sent, regId>>

\* case SEND_WAIT: save the caller in t's slot, then
\* thread_lock_release_acquire (V then P, signal then wait).
HandleSendWait(t) ==
    /\ Receiving(t, "SEND_WAIT")
    /\ LET c == Head(ep)[1]
       IN /\ ep' = Tail(ep)
          /\ caller' = CallerAfterSave(cnode, tslot[t], c)
          /\ \E r \in Release(held, sleepers, ts) :
                Finish(t, SaveCaller(cnode, tslot[t], c), {}, r.h, r.sl, r.ts)
    /\ UNCHANGED <<tslot, reply_eps, client_num, arrived, terminate_num,
                   req, sent, regId>>

\* A thread woken on sync_prim holds it: process_message returns 1 and
\* server_loop sends the reply on its slot, then t is back in seL4_Recv.
Resume(t) ==
    /\ running = t
    /\ ts[t] = "ready"
    /\ cnode' = Consume(cnode, {tslot[t]})
    /\ Deliver(Answered(cnode, {tslot[t]}), "sync")
    /\ ts' = [ts EXCEPT ![t] = "recv"]
    /\ UNCHANGED <<ep, caller, tslot, reply_eps, client_num, arrived,
                   terminate_num, held, sleepers, running, req, sent, regId>>

\* case TMNT: count it and thread_exit().
HandleTmnt(t) ==
    /\ Receiving(t, "TMNT")
    /\ ep' = Tail(ep)
    /\ caller' = NoCaller
    /\ terminate_num' = terminate_num + 1
    /\ ts' = [ts EXCEPT ![t] = "exited"]
    /\ running' = NoThread
    /\ UNCHANGED <<clients, cnode, tslot, reply_eps, client_num, arrived,
                   held, sleepers>>

-----------------------------------------------------------------------------

Init ==
    /\ ClientsInit
    /\ caller = NoCaller
    /\ cnode = [s \in Slots |-> NoCaller]
    /\ tslot = [t \in Threads |-> t]
    /\ reply_eps = [i \in Ids |-> NoSlot]
    /\ client_num = 0
    /\ arrived = 0
    /\ terminate_num = 0
    \* sync_prim->held = 1 for THREAD_LOCK; a new semaphore counts 0
    /\ held = IF Primitive = "lock" THEN 1 ELSE 0
    /\ sleepers = {}
    /\ ts = [t \in Threads |-> "new"]
    /\ running \in Threads

ServerStep ==
    \E t \in Threads :
        \/ StartThread(t)
        \/ HandleInit(t)
        \/ HandleWait(t)
        \/ HandleSendWait(t)
        \/ Resume(t)
        \/ HandleTmnt(t)

Next ==
    \/ ServerStep
    \/ \E r \in Threads : Schedule(r)
    \/ \E c \in Clients : ClientStep(c) /\ UNCHANGED server

\* As in GreenCPServer: the seL4 thread runs while a green thread can, the
\* ready list is served in turn, the clients keep running.
Spec ==
    /\ Init
    /\ [][Next]_vars
    /\ WF_vars(ServerStep)
    /\ \A r \in Threads : SF_vars(Schedule(r))
    /\ \A c \in Clients : WF_vars(ClientStep(c) /\ UNCHANGED server)

-----------------------------------------------------------------------------
(* Properties.                                                              *)

TypeOK ==
    /\ ClientsTypeOK
    /\ caller \in Clients \cup {NoCaller}
    /\ cnode \in [Slots -> Clients \cup {NoCaller}]
    /\ tslot \in [Threads -> Slots]
    /\ reply_eps \in [Ids -> Slots \cup {NoSlot}]
    /\ client_num \in 0 .. Population
    /\ arrived \in 0 .. Population
    /\ terminate_num \in 0 .. Population
    /\ held \in 0 .. Population
    /\ sleepers \subseteq Threads
    /\ ts \in [Threads -> {"new", "recv", "asleep", "ready", "exited"}]
    /\ running \in Threads \cup {NoThread}
    \* the green thread holding the seL4 thread is one that can run
    /\ running # NoThread => ts[running] \in {"new", "recv", "ready"}

\* A client is released only by the reply to the request it waits on: the
\* INIT barrier or multicast answers INIT, and a WAIT or SEND_WAIT is
\* answered only when its own thread has got sync_prim.
ReplyMatchesRequest ==
    \A c \in Clients :
        cst[c] = "run" => got[c] = IF req[c] = "INIT" THEN "ready" ELSE "sync"

\* While a green thread sleeps on sync_prim, or is woken and about to
\* reply, its slot still holds the reply cap of the client whose WAIT or
\* SEND_WAIT it is handling, and that client still waits.
ContinuationIntact ==
    \A t \in Threads :
        ts[t] \in {"asleep", "ready"} =>
            /\ cnode[tslot[t]] \in Clients
            /\ cst[cnode[tslot[t]]] = "wait"
            /\ req[cnode[tslot[t]]] \in {"WAIT", "SEND_WAIT"}

\* A client blocked in WAIT or SEND_WAIT is released by a later
\* SEND_WAIT's hand-on.  Only the last SEND_WAIT may stay blocked, once
\* every other client has finished and nobody is left to hand sync_prim on.
WaitersReleased ==
    \A c \in Clients :
        cst[c] = "wait" ~> \/ cst[c] = "run"
                           \/ /\ req[c] = "SEND_WAIT"
                              /\ \A d \in Clients \ {c} : cst[d] = "done"

\* spec.md 4.1: the server's run ends when every client has sent its TMNT
\* (terminate_num == client_count, line 916).  Every client gets to send
\* it: none stays blocked in a WAIT or SEND_WAIT for good.
EveryClientTerminates == <>(\A c \in Clients : cst[c] = "done")


-----------------------------------------------------------------------------
(* Refinement of Handoff.  A client whose green thread has been woken on  *)
(* sync_prim is already released: only server_loop's seL4_Send of its    *)
(* reply is left.  The clients the server holds are those of the threads  *)
(* asleep on sync_prim, each in the slot of its thread.                   *)

Woken(c) == \E t \in Threads : ts[t] = "ready" /\ cnode[tslot[t]] = c
absCst == [c \in Clients |-> IF Woken(c) THEN "run" ELSE cst[c]]
absGot == [c \in Clients |-> IF Woken(c) THEN "sync" ELSE got[c]]
absBlocked == {cnode[tslot[t]] : t \in {u \in Threads : ts[u] = "asleep"}}

AbstractHandoff == INSTANCE Handoff WITH cst <- absCst, got <- absGot,
                                         blocked <- absBlocked

\* The server implements Handoff: every release of a client is the barrier
\* releasing id 0, the multicast of a WAIT releasing the clients still on
\* their INIT, or the hand-on of a SEND_WAIT releasing exactly one blocked
\* client while its sender blocks; and no SEND_WAIT is accepted while no
\* client is blocked (thread_lock_release_acquire always finds a sleeper).
ImplementsHandoff == AbstractHandoff!Spec

=============================================================================
