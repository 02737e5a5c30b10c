------------------------------ MODULE OnvifCli ------------------------------
(***************************************************************************)
(* The ONVIF client cache of the onvif process (mod/onvif/src/msg_func.c): *)
(* a hash from host url to a reference-counted connection context, used by *)
(* the workers of the process's reply endpoint at the same time.           *)
(*                                                                         *)
(* C_OPEN looks the host up under ctxs_mutex; on a miss it drops the lock, *)
(* talks to the camera and takes the lock again to publish what it built.  *)
(* C_PTZCTL takes a reference under the lock, uses the device without it   *)
(* and gives the reference back.  C_CLOSE gives back the reference of a    *)
(* former C_OPEN.  A caller waits a limited time for its answer (6000 ms   *)
(* in mod/app/src/nvr_live.c); when it stops waiting the worker goes on.   *)
(*                                                                         *)
(* refcnt and where describe the heap objects, table the hash.  lostRefs   *)
(* is a history variable: the references of each host that nobody is left  *)
(* to give back.                                                           *)
(***************************************************************************)
EXTENDS Integers, FiniteSets

CONSTANTS
    Hosts,      \* the urls a caller opens
    Workers,    \* the workers of the reply endpoint (NM_REP_MAX_WORKERS)
    Clients,    \* the callers, here the channels of the NVR's live task
    Ctxs,       \* addresses calloc can return
    None,       \* NULL, and "no caller", "no host"
    MaxLost     \* bound on the references that are lost, per host

ASSUME OnvifAssumption ==
    /\ IsFiniteSet(Workers)
    /\ IsFiniteSet(Clients)
    /\ Workers \cap Clients = {}
    /\ None \notin Hosts \cup Ctxs \cup Clients
    /\ MaxLost \in Nat

VARIABLES
    table,      \* ctxs_hash: host -> context, or None
    refcnt,     \* ctx->refcnt
    where,      \* "free", "priv" (being built), "hash", "leaked"
    pc,         \* what a worker is doing
    host,       \* the name in the request a worker serves
    ctx,        \* the local variable ctx of a worker
    caller,     \* the client that waits for a worker's answer, or None
    held,       \* gmng.onvif[i] of the client, with the host it opened
    lostRefs

heapVars == <<table, refcnt, where>>
workVars == <<pc, host, ctx, caller>>
vars == <<table, refcnt, where, pc, host, ctx, caller, held, lostRefs>>

-----------------------------------------------------------------------------
Init ==
    /\ table = [h \in Hosts |-> None]
    /\ refcnt = [c \in Ctxs |-> 0]
    /\ where = [c \in Ctxs |-> "free"]
    /\ pc = [w \in Workers |-> "idle"]
    /\ host = [w \in Workers |-> None]
    /\ ctx = [w \in Workers |-> None]
    /\ caller = [w \in Workers |-> None]
    /\ held = [cl \in Clients |-> None]
    /\ lostRefs = [h \in Hosts |-> 0]

Waiting(cl) == \E w \in Workers : caller[w] = cl

\* Worker w starts on a request for host h on behalf of caller cl.
Serve(w, state, h, c, cl) ==
    /\ pc[w] = "idle"
    /\ pc' = [pc EXCEPT ![w] = state]
    /\ host' = [host EXCEPT ![w] = h]
    /\ ctx' = [ctx EXCEPT ![w] = c]
    /\ caller' = [caller EXCEPT ![w] = cl]

\* Worker w returns from msg_func_proc.
Return(w) ==
    /\ pc' = [pc EXCEPT ![w] = "idle"]
    /\ host' = [host EXCEPT ![w] = None]
    /\ ctx' = [ctx EXCEPT ![w] = None]
    /\ caller' = [caller EXCEPT ![w] = None]

\* The heap after --ctx->refcnt of c, the entry of host h, and what follows
\* when it reaches zero: HASH_DEL, nvc_dev_close, free.
Unref(h, c) ==
    /\ refcnt' = [refcnt EXCEPT ![c] = @ - 1]
    /\ IF refcnt[c] = 1
         THEN /\ table' = [table EXCEPT ![h] = None]
              /\ where' = [where EXCEPT ![c] = "free"]
         ELSE UNCHANGED <<table, where>>

-----------------------------------------------------------------------------
(* C_OPEN *)

\* Mutant: a hit does not count the new user.
OpenHitUncounted(w, cl, h) ==
    /\ held[cl] = None /\ ~Waiting(cl)
    /\ table[h] # None
    /\ Serve(w, "answer", h, None, cl)
    /\ UNCHANGED <<heapVars, held, lostRefs>>

\* The host is in the hash: one more reference, and its media urls.
OpenHit(w, cl, h) ==
    /\ held[cl] = None /\ ~Waiting(cl)
    /\ table[h] # None
    /\ refcnt' = [refcnt EXCEPT ![table[h]] = @ + 1]
    /\ Serve(w, "answer", h, None, cl)
    /\ UNCHANGED <<table, where, held, lostRefs>>

\* Mutant: calloc leaves the count at 0 and nobody counts the first user.
OpenMissUncounted(w, cl, h, c) ==
    /\ held[cl] = None /\ ~Waiting(cl)
    /\ table[h] = None
    /\ where[c] = "free"
    /\ where' = [where EXCEPT ![c] = "priv"]
    /\ refcnt' = [refcnt EXCEPT ![c] = 0]
    /\ Serve(w, "dev", h, c, cl)
    /\ UNCHANGED <<table, held, lostRefs>>

\* The host is not in the hash: the lock is dropped and a context allocated.
OpenMiss(w, cl, h, c) ==
    /\ held[cl] = None /\ ~Waiting(cl)
    /\ table[h] = None
    /\ where[c] = "free"
    /\ where' = [where EXCEPT ![c] = "priv"]
    /\ refcnt' = [refcnt EXCEPT ![c] = 1]
    /\ Serve(w, "dev", h, c, cl)
    /\ UNCHANGED <<table, held, lostRefs>>

\* nvc_dev_open returns NULL: the error answer; the context is not freed.
DevOpenFails(w) ==
    /\ pc[w] = "dev"
    /\ where' = [where EXCEPT ![ctx[w]] = "leaked"]
    /\ Return(w)
    /\ UNCHANGED <<table, refcnt, held, lostRefs>>

\* The device opens but the first media url does not come.
MediaUrlFails(w) ==
    /\ pc[w] = "dev"
    /\ where' = [where EXCEPT ![ctx[w]] = "free"]
    /\ Return(w)
    /\ UNCHANGED <<table, refcnt, held, lostRefs>>

MediaUrlGot(w) ==
    /\ pc[w] = "dev"
    /\ pc' = [pc EXCEPT ![w] = "add"]
    /\ UNCHANGED <<heapVars, host, ctx, caller, held, lostRefs>>

\* Mutant: no second lookup when the lock is taken again.
HashAddUnchecked(w) ==
    /\ pc[w] = "add"
    /\ table' = [table EXCEPT ![host[w]] = ctx[w]]
    /\ where' = [where EXCEPT ![ctx[w]] = "hash"]
    /\ pc' = [pc EXCEPT ![w] = "answer"]
    /\ ctx' = [ctx EXCEPT ![w] = None]
    /\ UNCHANGED <<refcnt, host, caller, held, lostRefs>>

\* Still nobody else's context under that name: it goes into the hash.
HashAdd(w) ==
    /\ pc[w] = "add"
    /\ table[host[w]] = None
    /\ table' = [table EXCEPT ![host[w]] = ctx[w]]
    /\ where' = [where EXCEPT ![ctx[w]] = "hash"]
    /\ pc' = [pc EXCEPT ![w] = "answer"]
    /\ ctx' = [ctx EXCEPT ![w] = None]
    /\ UNCHANGED <<refcnt, host, caller, held, lostRefs>>

\* Another worker was faster: the context is freed, the answer is an error.
HashAddLoses(w) ==
    /\ pc[w] = "add"
    /\ table[host[w]] # None
    /\ where' = [where EXCEPT ![ctx[w]] = "free"]
    /\ Return(w)
    /\ UNCHANGED <<table, refcnt, held, lostRefs>>

\* The answer reaches a caller that waits: it holds a reference now.
Answer(w) ==
    /\ pc[w] = "answer"
    /\ caller[w] # None
    /\ held' = [held EXCEPT ![caller[w]] = host[w]]
    /\ Return(w)
    /\ UNCHANGED <<heapVars, lostRefs>>

\* The answer finds nobody waiting: the reference will never be given back.
AnswerLost(w) ==
    /\ pc[w] = "answer"
    /\ caller[w] = None
    /\ lostRefs' = [lostRefs EXCEPT ![host[w]] = @ + 1]
    /\ Return(w)
    /\ UNCHANGED <<heapVars, held>>

\* The caller's timeout expires.  MaxLost bounds how often this happens.
Abandoned(h) ==
    {w \in Workers : /\ host[w] = h
                     /\ caller[w] = None
                     /\ pc[w] \in {"dev", "add", "answer"}}

GiveUp(w) ==
    /\ caller[w] # None
    /\ lostRefs[host[w]] + Cardinality(Abandoned(host[w])) < MaxLost
    /\ caller' = [caller EXCEPT ![w] = None]
    /\ UNCHANGED <<heapVars, pc, host, ctx, held, lostRefs>>

-----------------------------------------------------------------------------
(* C_CLOSE and C_PTZCTL *)

\* The live task closes a channel: flag cleared, request on its way.
SendClose(w, cl) ==
    /\ held[cl] # None
    /\ held' = [held EXCEPT ![cl] = None]
    /\ Serve(w, "close", held[cl], None, None)
    /\ UNCHANGED <<heapVars, lostRefs>>

\* Mutant: C_CLOSE frees the context whatever its count.
CloseFrees(w) ==
    /\ pc[w] = "close"
    /\ table[host[w]] # None
    /\ where' = [where EXCEPT ![table[host[w]]] = "free"]
    /\ table' = [table EXCEPT ![host[w]] = None]
    /\ Return(w)
    /\ UNCHANGED <<refcnt, held, lostRefs>>

Close(w) ==
    /\ pc[w] = "close"
    /\ IF table[host[w]] # None
         THEN Unref(host[w], table[host[w]])
         ELSE UNCHANGED heapVars
    /\ Return(w)
    /\ UNCHANGED <<held, lostRefs>>

\* live_clear_onvif blanked the host of the channel: the live task sends
\* C_CLOSE with an empty name, which finds nothing, and clears its flag.
CloseBlank(cl) ==
    /\ held[cl] # None
    /\ lostRefs[held[cl]] + Cardinality(Abandoned(held[cl])) < MaxLost
    /\ lostRefs' = [lostRefs EXCEPT ![held[cl]] = @ + 1]
    /\ held' = [held EXCEPT ![cl] = None]
    /\ UNCHANGED <<heapVars, workVars>>

\* Mutant: the device is used without a reference.
PtzFindUnpinned(w, h) ==
    /\ table[h] # None
    /\ Serve(w, "ptz", h, table[h], None)
    /\ UNCHANGED <<heapVars, held, lostRefs>>

\* The first locked section of msg_func_ptzctl, when the host is found.
PtzFind(w, h) ==
    /\ table[h] # None
    /\ refcnt' = [refcnt EXCEPT ![table[h]] = @ + 1]
    /\ Serve(w, "ptz", h, table[h], None)
    /\ UNCHANGED <<table, where, held, lostRefs>>

\* The host is not in the hash: found stays 0 and nothing happens.
PtzMiss(w, h) ==
    /\ pc[w] = "idle"
    /\ table[h] = None
    /\ UNCHANGED vars

\* Mutant: the worker that leaves PTZ frees the context if it can, without
\* asking whether it was the last.
PtzDoneFrees(w) ==
    /\ pc[w] = "ptz"
    /\ table' = [table EXCEPT ![host[w]] = None]
    /\ where' = [where EXCEPT ![ctx[w]] = "free"]
    /\ Return(w)
    /\ UNCHANGED <<refcnt, held, lostRefs>>

\* nvc_ptz_ctl has returned: the second locked section.
PtzDone(w) ==
    /\ pc[w] = "ptz"
    /\ Unref(host[w], ctx[w])
    /\ Return(w)
    /\ UNCHANGED <<held, lostRefs>>

-----------------------------------------------------------------------------
OpenStep(w) ==
    \/ DevOpenFails(w) \/ MediaUrlFails(w) \/ MediaUrlGot(w)
    \/ HashAdd(w) \/ HashAddLoses(w) \/ Answer(w) \/ AnswerLost(w)

Next ==
    \/ \E w \in Workers :
          \/ \E cl \in Clients, h \in Hosts :
                \/ OpenHit(w, cl, h)
                \/ \E c \in Ctxs : OpenMiss(w, cl, h, c)
          \/ OpenStep(w)
          \/ GiveUp(w)
          \/ \E cl \in Clients : SendClose(w, cl)
          \/ Close(w)
          \/ \E h \in Hosts : PtzFind(w, h) \/ PtzMiss(w, h)
          \/ PtzDone(w)
    \/ \E cl \in Clients : CloseBlank(cl)

Spec == Init /\ [][Next]_vars

-----------------------------------------------------------------------------
(* Properties *)

\* Types.
TypeOK ==
    /\ table \in [Hosts -> Ctxs \cup {None}]
    /\ refcnt \in [Ctxs -> Nat]
    /\ where \in [Ctxs -> {"free", "priv", "hash", "leaked"}]
    /\ pc \in [Workers -> {"idle", "dev", "add", "answer", "close", "ptz"}]
    /\ host \in [Workers -> Hosts \cup {None}]
    /\ ctx \in [Workers -> Ctxs \cup {None}]
    /\ caller \in [Workers -> Clients \cup {None}]
    /\ held \in [Clients -> Hosts \cup {None}]
    /\ lostRefs \in [Hosts -> Nat]

\* Who will still give back a reference on host h: the clients that opened
\* it, a worker whose answer or C_CLOSE is under way, a worker inside PTZ.
Claims(h) ==
    {cl \in Clients : held[cl] = h}
      \cup {w \in Workers : host[w] = h /\ pc[w] \in {"answer", "close", "ptz"}}

Refs(h) == IF table[h] = None THEN 0 ELSE refcnt[table[h]]

\* The count of a context in the hash is exact: one for every claim on the
\* host and one for every reference whose owner is gone, whatever the order
\* in which the workers take the lock.
RefsExact == \A h \in Hosts : Refs(h) = Cardinality(Claims(h)) + lostRefs[h]

\* While a worker drives the camera outside the lock, the context it works
\* with is the one the hash holds under the name of its request, so no
\* C_CLOSE of the last opener can free it.
PtzCtxLive ==
    \A w \in Workers : pc[w] = "ptz" =>
        /\ table[host[w]] = ctx[w]
        /\ where[ctx[w]] = "hash"

\* A client that holds a host finds it in the hash, even after other
\* clients of the same host have closed and reopened it.
HeldInHash == \A cl \in Clients : held[cl] # None => table[held[cl]] # None

\* A context has exactly one owner: the one entry of the hash that reaches
\* it, or the one worker that builds it.  Two workers that build the same
\* host at once do not push a context out of the hash.
Building(w) == pc[w] \in {"dev", "add"}
OneOwner ==
    /\ \A h1, h2 \in Hosts :
          table[h1] # None /\ table[h1] = table[h2] => h1 = h2
    /\ \A c \in Ctxs : where[c] = "hash" <=> \E h \in Hosts : table[h] = c
    /\ \A w \in Workers : Building(w) => where[ctx[w]] = "priv"
    /\ \A w1, w2 \in Workers :
          Building(w1) /\ Building(w2) /\ ctx[w1] = ctx[w2] => w1 = w2

\* What holds of a worker between two of its steps: a request in hand names a
\* host, a context that is being built counts its builder, a caller that
\* waits has nothing yet and waits for one worker only.
WorkerOK ==
    \A w \in Workers :
        /\ pc[w] # "idle" => host[w] \in Hosts
        /\ pc[w] \in {"dev", "add", "ptz"} => ctx[w] \in Ctxs
        /\ Building(w) => refcnt[ctx[w]] = 1
        /\ caller[w] # None =>
              /\ pc[w] \in {"dev", "add", "answer"}
              /\ held[caller[w]] = None
              /\ \A v \in Workers : caller[v] = caller[w] => v = w

\* The inductive invariant: whether the last reference is the last depends
\* on the exact count, and the count on every context having one owner.
IInv == TypeOK /\ WorkerOK /\ OneOwner /\ PtzCtxLive /\ RefsExact

\* The cache implements SharedRes: a context is closed and freed only by the
\* claim that gives the last reference back, an answer or a C_CLOSE under
\* way carries the claim between client and worker, and no interleaving of
\* the workers takes a host from somebody who has a claim on it.
Avail == {h \in Hosts : table[h] # None}
UsersOf == [h \in Hosts |-> Claims(h)]
Cache == INSTANCE SharedRes WITH
    Res <- Hosts, Users <- Clients \cup Workers,
    avail <- Avail, users <- UsersOf
CacheSpec == Cache!Spec
=============================================================================
