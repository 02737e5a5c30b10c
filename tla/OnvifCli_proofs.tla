--------------------------- MODULE OnvifCli_proofs --------------------------
(***************************************************************************)
(* Proofs about the onvif client cache, for any number of workers, callers *)
(* and hosts: the inductive invariant IInv of OnvifCli, and with it that   *)
(* the cache implements SharedRes.                                         *)
(***************************************************************************)
EXTENDS OnvifCli, FiniteSetTheorems, TLAPS

\* Nothing but the clients and the workers can have a claim.
LEMMA ClaimsFinite ==
    ASSUME NEW h \in Hosts
    PROVE  IsFiniteSet(Claims(h)) /\ Cardinality(Claims(h)) \in Nat
<1>1. IsFiniteSet(Clients \cup Workers)
  BY OnvifAssumption, FS_Union DEF OnvifAssumption
<1>2. Claims(h) \subseteq Clients \cup Workers
  BY DEF Claims
<1> QED
  BY <1>1, <1>2, FS_Subset, FS_CardinalityType

\* One claim more, one less.
LEMMA CardinalityMoves ==
    ASSUME NEW S, IsFiniteSet(S), NEW x
    PROVE  /\ x \notin S => Cardinality(S \cup {x}) = Cardinality(S) + 1
           /\ x \in S => Cardinality(S \ {x}) = Cardinality(S) - 1
           /\ x \in S => Cardinality(S) >= 1
<1>1. Cardinality(S) \in Nat /\ Cardinality(S \ {x}) \in Nat
  BY FS_RemoveElement, FS_CardinalityType
<1> QED
  BY <1>1, FS_AddElement, FS_RemoveElement

\* A claim handed over.
LEMMA CardinalityHandOver ==
    ASSUME NEW S, IsFiniteSet(S), NEW x \in S, NEW y, y \notin S
    PROVE  Cardinality((S \ {x}) \cup {y}) = Cardinality(S)
<1>1. IsFiniteSet(S \ {x}) /\ Cardinality(S \ {x}) = Cardinality(S) - 1
  BY FS_RemoveElement
<1>2. Cardinality((S \ {x}) \cup {y}) = Cardinality(S \ {x}) + 1
  BY <1>1, FS_AddElement
<1> QED
  BY <1>1, <1>2, FS_CardinalityType

\* Initially there is nothing.
LEMMA InitIInv == Init => IInv
<1> SUFFICES ASSUME Init PROVE IInv
  OBVIOUS
<1>1. TypeOK /\ WorkerOK
  BY DEF Init, TypeOK, WorkerOK, Building
<1>2. OneOwner /\ PtzCtxLive
  BY OnvifAssumption DEF Init, OneOwner, PtzCtxLive, Building, OnvifAssumption
<1>3. RefsExact
  <2> SUFFICES ASSUME NEW h \in Hosts
               PROVE  Refs(h) = Cardinality(Claims(h)) + lostRefs[h]
    BY DEF RefsExact
  <2>1. Claims(h) = {}
    BY OnvifAssumption DEF Init, Claims, OnvifAssumption
  <2> QED
    BY <2>1, FS_EmptySet DEF Init, Refs
<1> QED
  BY <1>1, <1>2, <1>3 DEF IInv

\* A step of the cache, seen through the mapping of OnvifCli.
CacheStep == [Cache!Next]_(Cache!resVars)

\* A hit: the worker has the new claim.
LEMMA OpenHitIInv ==
    ASSUME IInv, NEW w \in Workers, NEW cl \in Clients, NEW h \in Hosts,
           OpenHit(w, cl, h)
    PROVE  IInv' /\ CacheStep
<1> USE OnvifAssumption DEF OnvifAssumption
<1>c. w \notin Claims(h) /\ Claims(h)' = Claims(h) \cup {w}
  BY DEF IInv, TypeOK, WorkerOK, Claims, OpenHit, Serve
<1>d. \A g \in Hosts \ {h} : Claims(g)' = Claims(g)
  BY DEF IInv, TypeOK, WorkerOK, Claims, OpenHit, Serve
<1>f. IsFiniteSet(Claims(h)) /\ Cardinality(Claims(h)) \in Nat
  BY ClaimsFinite
<1>n. Cardinality(Claims(h)') = Cardinality(Claims(h)) + 1
  BY <1>c, <1>f, CardinalityMoves
<1>1. TypeOK'
  BY DEF IInv, TypeOK, WorkerOK, OpenHit, Serve
<1>2. WorkerOK'
  BY DEF IInv, TypeOK, WorkerOK, OneOwner, Building, PtzCtxLive, Waiting,
       OpenHit, Serve
<1>3. OneOwner'
  BY DEF IInv, TypeOK, WorkerOK, OneOwner, Building, PtzCtxLive, OpenHit,
       Serve
<1>4. PtzCtxLive'
  BY DEF IInv, TypeOK, WorkerOK, OneOwner, Building, PtzCtxLive, OpenHit,
       Serve
<1>5. RefsExact'
  <2>1. ASSUME NEW g \in Hosts, g # h
        PROVE  (Refs(g) = Cardinality(Claims(g)) + lostRefs[g])'
    BY <1>d, <2>1 DEF IInv, TypeOK, WorkerOK, OneOwner, Building, RefsExact,
         Refs, OpenHit, Serve
  <2>2. (Refs(h) = Cardinality(Claims(h)) + lostRefs[h])'
    BY <1>f, <1>n DEF IInv, TypeOK, WorkerOK, OneOwner, Building, RefsExact,
         Refs, OpenHit, Serve
  <2> QED
    BY <2>1, <2>2 DEF RefsExact
<1>6. Cache!Acquire(h, w)
  <2>1. UsersOf' = [UsersOf EXCEPT ![h] = @ \cup {w}]
    BY <1>c, <1>d DEF UsersOf
  <2>2. h \in Avail /\ Avail' = Avail
    BY DEF IInv, TypeOK, WorkerOK, OpenHit, Serve, Avail
  <2>3. UsersOf[h] = Claims(h)
    BY DEF UsersOf
  <2> QED
    BY <2>1, <2>2, <2>3, <1>c DEF Cache!Acquire
<1> QED
  BY <1>1, <1>2, <1>3, <1>4, <1>5, <1>6 DEF IInv, CacheStep, Cache!Next

\* A miss: a context of the worker's own, no claim yet.
LEMMA OpenMissIInv ==
    ASSUME IInv, NEW w \in Workers, NEW cl \in Clients, NEW h \in Hosts,
           NEW c \in Ctxs, OpenMiss(w, cl, h, c)
    PROVE  IInv' /\ CacheStep
<1> USE OnvifAssumption DEF OnvifAssumption
<1>c. \A g \in Hosts : Claims(g)' = Claims(g)
  BY DEF IInv, TypeOK, WorkerOK, Claims, OpenMiss, Serve
<1>1. TypeOK'
  BY DEF IInv, TypeOK, WorkerOK, OpenMiss, Serve
<1>2. WorkerOK'
  BY DEF IInv, TypeOK, WorkerOK, OneOwner, Building, PtzCtxLive, Waiting,
       OpenMiss, Serve
<1>3. OneOwner'
  BY DEF IInv, TypeOK, WorkerOK, OneOwner, Building, PtzCtxLive, OpenMiss,
       Serve
<1>4. PtzCtxLive'
  BY DEF IInv, TypeOK, WorkerOK, OneOwner, Building, PtzCtxLive, OpenMiss,
       Serve
<1>5. RefsExact'
  BY <1>c DEF IInv, TypeOK, WorkerOK, OneOwner, Building, RefsExact, Refs,
       OpenMiss, Serve
<1>6. UNCHANGED Cache!resVars
  BY <1>c DEF IInv, TypeOK, WorkerOK, OpenMiss, Serve, Cache!resVars, Avail,
       UsersOf
<1> QED
  BY <1>1, <1>2, <1>3, <1>4, <1>5, <1>6 DEF IInv, CacheStep

\* The device does not open: the context is leaked, no claim was made.
LEMMA DevOpenFailsIInv ==
    ASSUME IInv, NEW w \in Workers, DevOpenFails(w)
    PROVE  IInv' /\ CacheStep
<1> USE OnvifAssumption DEF OnvifAssumption
<1>c. \A g \in Hosts : Claims(g)' = Claims(g)
  BY DEF IInv, TypeOK, WorkerOK, Claims, DevOpenFails, Return
<1>1. TypeOK'
  BY DEF IInv, TypeOK, WorkerOK, DevOpenFails, Return
<1>2. WorkerOK'
  BY DEF IInv, TypeOK, WorkerOK, OneOwner, Building, PtzCtxLive, DevOpenFails,
       Return
<1>3. OneOwner'
  BY DEF IInv, TypeOK, WorkerOK, OneOwner, Building, PtzCtxLive, DevOpenFails,
       Return
<1>4. PtzCtxLive'
  BY DEF IInv, TypeOK, WorkerOK, OneOwner, Building, PtzCtxLive, DevOpenFails,
       Return
<1>5. RefsExact'
  BY <1>c DEF IInv, TypeOK, WorkerOK, OneOwner, Building, RefsExact, Refs,
       DevOpenFails, Return
<1>6. UNCHANGED Cache!resVars
  BY <1>c DEF IInv, TypeOK, WorkerOK, DevOpenFails, Return, Cache!resVars,
       Avail, UsersOf
<1> QED
  BY <1>1, <1>2, <1>3, <1>4, <1>5, <1>6 DEF IInv, CacheStep

\* No media url: the context goes back to the heap.
LEMMA MediaUrlFailsIInv ==
    ASSUME IInv, NEW w \in Workers, MediaUrlFails(w)
    PROVE  IInv' /\ CacheStep
<1> USE OnvifAssumption DEF OnvifAssumption
<1>c. \A g \in Hosts : Claims(g)' = Claims(g)
  BY DEF IInv, TypeOK, WorkerOK, Claims, MediaUrlFails, Return
<1>1. TypeOK'
  BY DEF IInv, TypeOK, WorkerOK, MediaUrlFails, Return
<1>2. WorkerOK'
  BY DEF IInv, TypeOK, WorkerOK, OneOwner, Building, PtzCtxLive,
       MediaUrlFails, Return
<1>3. OneOwner'
  BY DEF IInv, TypeOK, WorkerOK, OneOwner, Building, PtzCtxLive,
       MediaUrlFails, Return
<1>4. PtzCtxLive'
  BY DEF IInv, TypeOK, WorkerOK, OneOwner, Building, PtzCtxLive,
       MediaUrlFails, Return
<1>5. RefsExact'
  BY <1>c DEF IInv, TypeOK, WorkerOK, OneOwner, Building, RefsExact, Refs,
       MediaUrlFails, Return
<1>6. UNCHANGED Cache!resVars
  BY <1>c DEF IInv, TypeOK, WorkerOK, MediaUrlFails, Return, Cache!resVars,
       Avail, UsersOf
<1> QED
  BY <1>1, <1>2, <1>3, <1>4, <1>5, <1>6 DEF IInv, CacheStep

\* The worker is ready to publish.
LEMMA MediaUrlGotIInv ==
    ASSUME IInv, NEW w \in Workers, MediaUrlGot(w)
    PROVE  IInv' /\ CacheStep
<1> USE OnvifAssumption DEF OnvifAssumption
<1>c. \A g \in Hosts : Claims(g)' = Claims(g)
  BY DEF IInv, TypeOK, WorkerOK, Claims, MediaUrlGot, heapVars
<1>1. TypeOK'
  BY DEF IInv, TypeOK, WorkerOK, MediaUrlGot, heapVars
<1>2. WorkerOK'
  BY DEF IInv, TypeOK, WorkerOK, OneOwner, Building, PtzCtxLive, MediaUrlGot,
       heapVars
<1>3. OneOwner'
  BY DEF IInv, TypeOK, WorkerOK, OneOwner, Building, PtzCtxLive, MediaUrlGot,
       heapVars
<1>4. PtzCtxLive'
  BY DEF IInv, TypeOK, WorkerOK, OneOwner, Building, PtzCtxLive, MediaUrlGot,
       heapVars
<1>5. RefsExact'
  BY <1>c DEF IInv, TypeOK, WorkerOK, OneOwner, Building, RefsExact, Refs,
       MediaUrlGot, heapVars
<1>6. UNCHANGED Cache!resVars
  BY <1>c DEF IInv, TypeOK, WorkerOK, MediaUrlGot, heapVars, Cache!resVars,
       Avail, UsersOf
<1> QED
  BY <1>1, <1>2, <1>3, <1>4, <1>5, <1>6 DEF IInv, CacheStep

\* The hash gets the context, whose count of 1 is the worker's claim.
LEMMA HashAddIInv ==
    ASSUME IInv, NEW w \in Workers, HashAdd(w)
    PROVE  IInv' /\ CacheStep
<1> USE OnvifAssumption DEF OnvifAssumption
<1>k. PICK k \in Hosts : k = host[w]
  BY DEF IInv, TypeOK, WorkerOK, HashAdd
<1>c. w \notin Claims(k) /\ Claims(k)' = Claims(k) \cup {w}
  BY <1>k DEF IInv, TypeOK, WorkerOK, Claims, HashAdd
<1>d. \A g \in Hosts \ {k} : Claims(g)' = Claims(g)
  BY <1>k DEF IInv, TypeOK, WorkerOK, Claims, HashAdd
<1>f. IsFiniteSet(Claims(k)) /\ Cardinality(Claims(k)) \in Nat
  BY ClaimsFinite
<1>n. Cardinality(Claims(k)') = Cardinality(Claims(k)) + 1
  BY <1>c, <1>f, CardinalityMoves
<1>e. Claims(k) = {}
  BY <1>k, <1>f, FS_EmptySet DEF IInv, TypeOK, RefsExact, Refs, HashAdd
<1>1. TypeOK'
  BY <1>k DEF IInv, TypeOK, WorkerOK, HashAdd
<1>2. WorkerOK'
  BY <1>k DEF IInv, TypeOK, WorkerOK, OneOwner, Building, PtzCtxLive, HashAdd
<1>3. OneOwner'
  BY <1>k DEF IInv, TypeOK, WorkerOK, OneOwner, Building, PtzCtxLive, HashAdd
<1>4. PtzCtxLive'
  BY <1>k DEF IInv, TypeOK, WorkerOK, OneOwner, Building, PtzCtxLive, HashAdd
<1>5. RefsExact'
  <2>1. ASSUME NEW g \in Hosts, g # k
        PROVE  (Refs(g) = Cardinality(Claims(g)) + lostRefs[g])'
    BY <1>d, <2>1, <1>k DEF IInv, TypeOK, WorkerOK, OneOwner, Building,
         RefsExact, Refs, HashAdd
  <2>2. (Refs(k) = Cardinality(Claims(k)) + lostRefs[k])'
    BY <1>f, <1>n, <1>k DEF IInv, TypeOK, WorkerOK, OneOwner, Building,
         RefsExact, Refs, HashAdd
  <2> QED
    BY <2>1, <2>2 DEF RefsExact
<1>6. Cache!Provide(k, w)
  <2>1. UsersOf' = [UsersOf EXCEPT ![k] = {w}]
    BY <1>c, <1>d, <1>e DEF UsersOf
  <2>2. k \notin Avail /\ Avail' = Avail \cup {k}
    BY <1>k DEF IInv, TypeOK, WorkerOK, HashAdd, Avail
  <2> QED
    BY <2>1, <2>2 DEF Cache!Provide
<1> QED
  BY <1>1, <1>2, <1>3, <1>4, <1>5, <1>6 DEF IInv, CacheStep, Cache!Next

\* The context of the slower worker goes back to the heap.
LEMMA HashAddLosesIInv ==
    ASSUME IInv, NEW w \in Workers, HashAddLoses(w)
    PROVE  IInv' /\ CacheStep
<1> USE OnvifAssumption DEF OnvifAssumption
<1>c. \A g \in Hosts : Claims(g)' = Claims(g)
  BY DEF IInv, TypeOK, WorkerOK, Claims, HashAddLoses, Return
<1>1. TypeOK'
  BY DEF IInv, TypeOK, WorkerOK, HashAddLoses, Return
<1>2. WorkerOK'
  BY DEF IInv, TypeOK, WorkerOK, OneOwner, Building, PtzCtxLive, HashAddLoses,
       Return
<1>3. OneOwner'
  BY DEF IInv, TypeOK, WorkerOK, OneOwner, Building, PtzCtxLive, HashAddLoses,
       Return
<1>4. PtzCtxLive'
  BY DEF IInv, TypeOK, WorkerOK, OneOwner, Building, PtzCtxLive, HashAddLoses,
       Return
<1>5. RefsExact'
  BY <1>c DEF IInv, TypeOK, WorkerOK, OneOwner, Building, RefsExact, Refs,
       HashAddLoses, Return
<1>6. UNCHANGED Cache!resVars
  BY <1>c DEF IInv, TypeOK, WorkerOK, HashAddLoses, Return, Cache!resVars,
       Avail, UsersOf
<1> QED
  BY <1>1, <1>2, <1>3, <1>4, <1>5, <1>6 DEF IInv, CacheStep

\* The worker's claim becomes the client's.
LEMMA AnswerIInv ==
    ASSUME IInv, NEW w \in Workers, Answer(w)
    PROVE  IInv' /\ CacheStep
<1> USE OnvifAssumption DEF OnvifAssumption
<1>k. PICK k \in Hosts : k = host[w]
  BY DEF IInv, TypeOK, WorkerOK, Answer, Return, heapVars
<1>c. /\ w \in Claims(k) /\ caller[w] \notin Claims(k)
      /\ Claims(k)' = (Claims(k) \ {w}) \cup {caller[w]}
  BY <1>k DEF IInv, TypeOK, WorkerOK, Claims, Answer, Return, heapVars
<1>d. \A g \in Hosts \ {k} : Claims(g)' = Claims(g)
  BY <1>k DEF IInv, TypeOK, WorkerOK, Claims, Answer, Return, heapVars
<1>f. IsFiniteSet(Claims(k)) /\ Cardinality(Claims(k)) \in Nat
  BY ClaimsFinite
<1>n. Cardinality(Claims(k)') = Cardinality(Claims(k))
  BY <1>c, <1>f, CardinalityHandOver
<1>1. TypeOK'
  BY <1>k DEF IInv, TypeOK, WorkerOK, Answer, Return, heapVars
<1>2. WorkerOK'
  BY <1>k DEF IInv, TypeOK, WorkerOK, OneOwner, Building, PtzCtxLive, Answer,
       Return, heapVars
<1>3. OneOwner'
  BY <1>k DEF IInv, TypeOK, WorkerOK, OneOwner, Building, PtzCtxLive, Answer,
       Return, heapVars
<1>4. PtzCtxLive'
  BY <1>k DEF IInv, TypeOK, WorkerOK, OneOwner, Building, PtzCtxLive, Answer,
       Return, heapVars
<1>5. RefsExact'
  <2>1. ASSUME NEW g \in Hosts, g # k
        PROVE  (Refs(g) = Cardinality(Claims(g)) + lostRefs[g])'
    BY <1>d, <2>1, <1>k DEF IInv, TypeOK, WorkerOK, OneOwner, Building,
         RefsExact, Refs, Answer, Return, heapVars
  <2>2. (Refs(k) = Cardinality(Claims(k)) + lostRefs[k])'
    BY <1>f, <1>n, <1>k DEF IInv, TypeOK, WorkerOK, OneOwner, Building,
         RefsExact, Refs, Answer, Return, heapVars
  <2> QED
    BY <2>1, <2>2 DEF RefsExact
<1>6. Cache!HandOver(k, w, caller[w])
  <2>1. UsersOf' = [UsersOf EXCEPT ![k] = (@ \ {w}) \cup {caller[w]}]
    BY <1>c, <1>d DEF UsersOf
  <2>2. Avail' = Avail
    BY <1>k DEF IInv, TypeOK, WorkerOK, Answer, Return, heapVars, Avail
  <2>3. UsersOf[k] = Claims(k)
    BY DEF UsersOf
  <2> QED
    BY <2>1, <2>2, <2>3, <1>c DEF Cache!HandOver
<1>7. w \in Clients \cup Workers /\ caller[w] \in Clients \cup Workers
  BY DEF IInv, TypeOK, WorkerOK, Answer, Return, heapVars
<1> QED
  BY <1>1, <1>2, <1>3, <1>4, <1>5, <1>6, <1>7 DEF IInv, CacheStep, Cache!Next

\* The worker's claim is lost.
LEMMA AnswerLostIInv ==
    ASSUME IInv, NEW w \in Workers, AnswerLost(w)
    PROVE  IInv' /\ CacheStep
<1> USE OnvifAssumption DEF OnvifAssumption
<1>k. PICK k \in Hosts : k = host[w]
  BY DEF IInv, TypeOK, WorkerOK, AnswerLost, Return, heapVars
<1>c. w \in Claims(k) /\ Claims(k)' = Claims(k) \ {w}
  BY <1>k DEF IInv, TypeOK, WorkerOK, Claims, AnswerLost, Return, heapVars
<1>d. \A g \in Hosts \ {k} : Claims(g)' = Claims(g)
  BY <1>k DEF IInv, TypeOK, WorkerOK, Claims, AnswerLost, Return, heapVars
<1>f. IsFiniteSet(Claims(k)) /\ Cardinality(Claims(k)) \in Nat
  BY ClaimsFinite
<1>n. Cardinality(Claims(k)') = Cardinality(Claims(k)) - 1
  BY <1>c, <1>f, CardinalityMoves
<1>1. TypeOK'
  BY <1>k DEF IInv, TypeOK, WorkerOK, AnswerLost, Return, heapVars
<1>2. WorkerOK'
  BY <1>k DEF IInv, TypeOK, WorkerOK, OneOwner, Building, PtzCtxLive,
       AnswerLost, Return, heapVars
<1>3. OneOwner'
  BY <1>k DEF IInv, TypeOK, WorkerOK, OneOwner, Building, PtzCtxLive,
       AnswerLost, Return, heapVars
<1>4. PtzCtxLive'
  BY <1>k DEF IInv, TypeOK, WorkerOK, OneOwner, Building, PtzCtxLive,
       AnswerLost, Return, heapVars
<1>5. RefsExact'
  <2>1. ASSUME NEW g \in Hosts, g # k
        PROVE  (Refs(g) = Cardinality(Claims(g)) + lostRefs[g])'
    BY <1>d, <2>1, <1>k DEF IInv, TypeOK, WorkerOK, OneOwner, Building,
         RefsExact, Refs, AnswerLost, Return, heapVars
  <2>2. (Refs(k) = Cardinality(Claims(k)) + lostRefs[k])'
    BY <1>f, <1>n, <1>k DEF IInv, TypeOK, WorkerOK, OneOwner, Building,
         RefsExact, Refs, AnswerLost, Return, heapVars
  <2> QED
    BY <2>1, <2>2 DEF RefsExact
<1>6. Cache!Release(k, w)
  <2>1. UsersOf' = [UsersOf EXCEPT ![k] = @ \ {w}]
    BY <1>c, <1>d DEF UsersOf
  <2>2. Avail' = Avail
    BY <1>k DEF IInv, TypeOK, WorkerOK, AnswerLost, Return, heapVars, Avail
  <2>3. UsersOf[k] = Claims(k)
    BY DEF UsersOf
  <2> QED
    BY <2>1, <2>2, <2>3, <1>c DEF Cache!Release
<1> QED
  BY <1>1, <1>2, <1>3, <1>4, <1>5, <1>6 DEF IInv, CacheStep, Cache!Next

\* The client leaves; the worker's claim, if any, stays.
LEMMA GiveUpIInv ==
    ASSUME IInv, NEW w \in Workers, GiveUp(w)
    PROVE  IInv' /\ CacheStep
<1> USE OnvifAssumption DEF OnvifAssumption
<1>c. \A g \in Hosts : Claims(g)' = Claims(g)
  BY DEF IInv, TypeOK, WorkerOK, Claims, GiveUp, heapVars
<1>1. TypeOK'
  BY DEF IInv, TypeOK, WorkerOK, GiveUp, heapVars
<1>2. WorkerOK'
  BY DEF IInv, TypeOK, WorkerOK, OneOwner, Building, PtzCtxLive, GiveUp,
       heapVars
<1>3. OneOwner'
  BY DEF IInv, TypeOK, WorkerOK, OneOwner, Building, PtzCtxLive, GiveUp,
       heapVars
<1>4. PtzCtxLive'
  BY DEF IInv, TypeOK, WorkerOK, OneOwner, Building, PtzCtxLive, GiveUp,
       heapVars
<1>5. RefsExact'
  BY <1>c DEF IInv, TypeOK, WorkerOK, OneOwner, Building, RefsExact, Refs,
       GiveUp, heapVars
<1>6. UNCHANGED Cache!resVars
  BY <1>c DEF IInv, TypeOK, WorkerOK, GiveUp, heapVars, Cache!resVars, Avail,
       UsersOf
<1> QED
  BY <1>1, <1>2, <1>3, <1>4, <1>5, <1>6 DEF IInv, CacheStep

\* The client's claim becomes the worker's.
LEMMA SendCloseIInv ==
    ASSUME IInv, NEW w \in Workers, NEW cl \in Clients, SendClose(w, cl)
    PROVE  IInv' /\ CacheStep
<1> USE OnvifAssumption DEF OnvifAssumption
<1>k. PICK k \in Hosts : k = held[cl]
  BY DEF IInv, TypeOK, WorkerOK, SendClose, Serve, heapVars
<1>c. /\ cl \in Claims(k) /\ w \notin Claims(k)
      /\ Claims(k)' = (Claims(k) \ {cl}) \cup {w}
  BY <1>k DEF IInv, TypeOK, WorkerOK, Claims, SendClose, Serve, heapVars
<1>d. \A g \in Hosts \ {k} : Claims(g)' = Claims(g)
  BY <1>k DEF IInv, TypeOK, WorkerOK, Claims, SendClose, Serve, heapVars
<1>f. IsFiniteSet(Claims(k)) /\ Cardinality(Claims(k)) \in Nat
  BY ClaimsFinite
<1>n. Cardinality(Claims(k)') = Cardinality(Claims(k))
  BY <1>c, <1>f, CardinalityHandOver
<1>1. TypeOK'
  BY <1>k DEF IInv, TypeOK, WorkerOK, SendClose, Serve, heapVars
<1>2. WorkerOK'
  BY <1>k DEF IInv, TypeOK, WorkerOK, OneOwner, Building, PtzCtxLive,
       SendClose, Serve, heapVars
<1>3. OneOwner'
  BY <1>k DEF IInv, TypeOK, WorkerOK, OneOwner, Building, PtzCtxLive,
       SendClose, Serve, heapVars
<1>4. PtzCtxLive'
  BY <1>k DEF IInv, TypeOK, WorkerOK, OneOwner, Building, PtzCtxLive,
       SendClose, Serve, heapVars
<1>5. RefsExact'
  <2>1. ASSUME NEW g \in Hosts, g # k
        PROVE  (Refs(g) = Cardinality(Claims(g)) + lostRefs[g])'
    BY <1>d, <2>1, <1>k DEF IInv, TypeOK, WorkerOK, OneOwner, Building,
         RefsExact, Refs, SendClose, Serve, heapVars
  <2>2. (Refs(k) = Cardinality(Claims(k)) + lostRefs[k])'
    BY <1>f, <1>n, <1>k DEF IInv, TypeOK, WorkerOK, OneOwner, Building,
         RefsExact, Refs, SendClose, Serve, heapVars
  <2> QED
    BY <2>1, <2>2 DEF RefsExact
<1>6. Cache!HandOver(k, cl, w)
  <2>1. UsersOf' = [UsersOf EXCEPT ![k] = (@ \ {cl}) \cup {w}]
    BY <1>c, <1>d DEF UsersOf
  <2>2. Avail' = Avail
    BY <1>k DEF IInv, TypeOK, WorkerOK, SendClose, Serve, heapVars, Avail
  <2>3. UsersOf[k] = Claims(k)
    BY DEF UsersOf
  <2> QED
    BY <2>1, <2>2, <2>3, <1>c DEF Cache!HandOver
<1>7. cl \in Clients \cup Workers /\ w \in Clients \cup Workers
  BY DEF IInv, TypeOK, WorkerOK, SendClose, Serve, heapVars
<1> QED
  BY <1>1, <1>2, <1>3, <1>4, <1>5, <1>6, <1>7 DEF IInv, CacheStep, Cache!Next

\* The worker gives its claim back; the context goes with the last one.
LEMMA CloseIInv ==
    ASSUME IInv, NEW w \in Workers, Close(w)
    PROVE  IInv' /\ CacheStep
<1> USE OnvifAssumption DEF OnvifAssumption
<1>k. PICK k \in Hosts : k = host[w]
  BY DEF IInv, TypeOK, WorkerOK, Close, Unref, Return, heapVars
<1>c. w \in Claims(k) /\ Claims(k)' = Claims(k) \ {w}
  BY <1>k DEF IInv, TypeOK, WorkerOK, Claims, Close, Unref, Return, heapVars
<1>d. \A g \in Hosts \ {k} : Claims(g)' = Claims(g)
  BY <1>k DEF IInv, TypeOK, WorkerOK, Claims, Close, Unref, Return, heapVars
<1>f. IsFiniteSet(Claims(k)) /\ Cardinality(Claims(k)) \in Nat
  BY ClaimsFinite
<1>n. Cardinality(Claims(k)') = Cardinality(Claims(k)) - 1
  BY <1>c, <1>f, CardinalityMoves
<1>r. table[k] # None /\ refcnt[table[k]] >= 1
  <2>1. Cardinality(Claims(k)) >= 1
    BY <1>c, <1>f, CardinalityMoves
  <2> QED
    BY <2>1, <1>f DEF IInv, TypeOK, RefsExact, Refs
<1>s. refcnt[table[k]] = 1 => Claims(k) = {w}
  <2>1. SUFFICES ASSUME refcnt[table[k]] = 1 PROVE Cardinality(Claims(k)) = 1
    BY <1>c, <1>f, FS_Singleton
  <2>2. Cardinality(Claims(k)) >= 1
    BY <1>c, <1>f, CardinalityMoves
  <2> QED
    BY <1>r, <1>f, <2>1, <2>2 DEF IInv, TypeOK, RefsExact, Refs
<1>1. TypeOK'
  BY <1>k, <1>r, <1>s DEF IInv, TypeOK, WorkerOK, Close, Unref, Return,
       heapVars
<1>2. WorkerOK'
  BY <1>k, <1>r, <1>s DEF IInv, TypeOK, WorkerOK, OneOwner, Building,
       PtzCtxLive, Close, Unref, Return, heapVars
<1>3. OneOwner'
  BY <1>k, <1>r, <1>s DEF IInv, TypeOK, WorkerOK, OneOwner, Building,
       PtzCtxLive, Close, Unref, Return, heapVars
<1>4. PtzCtxLive'
  BY <1>k, <1>r, <1>s DEF IInv, TypeOK, WorkerOK, OneOwner, Building,
       PtzCtxLive, Claims, Close, Unref, Return, heapVars
<1>5. RefsExact'
  <2>1. ASSUME NEW g \in Hosts, g # k
        PROVE  (Refs(g) = Cardinality(Claims(g)) + lostRefs[g])'
    BY <1>d, <2>1, <1>k, <1>r, <1>s DEF IInv, TypeOK, WorkerOK, OneOwner,
         Building, RefsExact, Refs, Close, Unref, Return, heapVars
  <2>2. (Refs(k) = Cardinality(Claims(k)) + lostRefs[k])'
    BY <1>f, <1>n, <1>k, <1>r, <1>s DEF IInv, TypeOK, WorkerOK, OneOwner,
         Building, RefsExact, Refs, Close, Unref, Return, heapVars
  <2> QED
    BY <2>1, <2>2 DEF RefsExact
<1>6. Cache!Release(k, w)
  <2>1. UsersOf' = [UsersOf EXCEPT ![k] = @ \ {w}]
    BY <1>c, <1>d DEF UsersOf
  <2>t. \/ refcnt[table[k]] = 1 /\ table' = [table EXCEPT ![k] = None]
        \/ table' = table
    BY <1>k, <1>r DEF Close, Unref, Return, heapVars
  <2>a. table' = table => Avail' = Avail
    BY DEF Avail
  <2>b. table' = [table EXCEPT ![k] = None] => Avail' = Avail \ {k}
    BY DEF IInv, TypeOK, Avail
  <2>2. \/ Avail' = Avail
        \/ Claims(k) = {w} /\ Avail' = Avail \ {k}
    BY <1>s, <2>t, <2>a, <2>b
  <2>3. UsersOf[k] = Claims(k)
    BY DEF UsersOf
  <2> QED
    BY <2>1, <2>2, <2>3, <1>c DEF Cache!Release
<1> QED
  BY <1>1, <1>2, <1>3, <1>4, <1>5, <1>6 DEF IInv, CacheStep, Cache!Next

\* The client's claim is lost.
LEMMA CloseBlankIInv ==
    ASSUME IInv, NEW cl \in Clients, CloseBlank(cl)
    PROVE  IInv' /\ CacheStep
<1> USE OnvifAssumption DEF OnvifAssumption
<1>k. PICK k \in Hosts : k = held[cl]
  BY DEF IInv, TypeOK, WorkerOK, CloseBlank, heapVars, workVars
<1>c. cl \in Claims(k) /\ Claims(k)' = Claims(k) \ {cl}
  BY <1>k DEF IInv, TypeOK, WorkerOK, Claims, CloseBlank, heapVars, workVars
<1>d. \A g \in Hosts \ {k} : Claims(g)' = Claims(g)
  BY <1>k DEF IInv, TypeOK, WorkerOK, Claims, CloseBlank, heapVars, workVars
<1>f. IsFiniteSet(Claims(k)) /\ Cardinality(Claims(k)) \in Nat
  BY ClaimsFinite
<1>n. Cardinality(Claims(k)') = Cardinality(Claims(k)) - 1
  BY <1>c, <1>f, CardinalityMoves
<1>1. TypeOK'
  BY <1>k DEF IInv, TypeOK, WorkerOK, CloseBlank, heapVars, workVars
<1>2. WorkerOK'
  BY <1>k DEF IInv, TypeOK, WorkerOK, OneOwner, Building, PtzCtxLive,
       CloseBlank, heapVars, workVars
<1>3. OneOwner'
  BY <1>k DEF IInv, TypeOK, WorkerOK, OneOwner, Building, PtzCtxLive,
       CloseBlank, heapVars, workVars
<1>4. PtzCtxLive'
  BY <1>k DEF IInv, TypeOK, WorkerOK, OneOwner, Building, PtzCtxLive,
       CloseBlank, heapVars, workVars
<1>5. RefsExact'
  <2>1. ASSUME NEW g \in Hosts, g # k
        PROVE  (Refs(g) = Cardinality(Claims(g)) + lostRefs[g])'
    BY <1>d, <2>1, <1>k DEF IInv, TypeOK, WorkerOK, OneOwner, Building,
         RefsExact, Refs, CloseBlank, heapVars, workVars
  <2>2. (Refs(k) = Cardinality(Claims(k)) + lostRefs[k])'
    BY <1>f, <1>n, <1>k DEF IInv, TypeOK, WorkerOK, OneOwner, Building,
         RefsExact, Refs, CloseBlank, heapVars, workVars
  <2> QED
    BY <2>1, <2>2 DEF RefsExact
<1>6. Cache!Release(k, cl)
  <2>1. UsersOf' = [UsersOf EXCEPT ![k] = @ \ {cl}]
    BY <1>c, <1>d DEF UsersOf
  <2>2. Avail' = Avail
    BY <1>k DEF IInv, TypeOK, WorkerOK, CloseBlank, heapVars, workVars, Avail
  <2>3. UsersOf[k] = Claims(k)
    BY DEF UsersOf
  <2> QED
    BY <2>1, <2>2, <2>3, <1>c DEF Cache!Release
<1> QED
  BY <1>1, <1>2, <1>3, <1>4, <1>5, <1>6 DEF IInv, CacheStep, Cache!Next

\* The worker takes a claim of its own for the time of the call.
LEMMA PtzFindIInv ==
    ASSUME IInv, NEW w \in Workers, NEW h \in Hosts, PtzFind(w, h)
    PROVE  IInv' /\ CacheStep
<1> USE OnvifAssumption DEF OnvifAssumption
<1>c. w \notin Claims(h) /\ Claims(h)' = Claims(h) \cup {w}
  BY DEF IInv, TypeOK, WorkerOK, Claims, PtzFind, Serve
<1>d. \A g \in Hosts \ {h} : Claims(g)' = Claims(g)
  BY DEF IInv, TypeOK, WorkerOK, Claims, PtzFind, Serve
<1>f. IsFiniteSet(Claims(h)) /\ Cardinality(Claims(h)) \in Nat
  BY ClaimsFinite
<1>n. Cardinality(Claims(h)') = Cardinality(Claims(h)) + 1
  BY <1>c, <1>f, CardinalityMoves
<1>1. TypeOK'
  BY DEF IInv, TypeOK, WorkerOK, PtzFind, Serve
<1>2. WorkerOK'
  BY DEF IInv, TypeOK, WorkerOK, OneOwner, Building, PtzCtxLive, PtzFind,
       Serve
<1>3. OneOwner'
  BY DEF IInv, TypeOK, WorkerOK, OneOwner, Building, PtzCtxLive, PtzFind,
       Serve
<1>4. PtzCtxLive'
  BY DEF IInv, TypeOK, WorkerOK, OneOwner, Building, PtzCtxLive, PtzFind,
       Serve
<1>5. RefsExact'
  <2>1. ASSUME NEW g \in Hosts, g # h
        PROVE  (Refs(g) = Cardinality(Claims(g)) + lostRefs[g])'
    BY <1>d, <2>1 DEF IInv, TypeOK, WorkerOK, OneOwner, Building, RefsExact,
         Refs, PtzFind, Serve
  <2>2. (Refs(h) = Cardinality(Claims(h)) + lostRefs[h])'
    BY <1>f, <1>n DEF IInv, TypeOK, WorkerOK, OneOwner, Building, RefsExact,
         Refs, PtzFind, Serve
  <2> QED
    BY <2>1, <2>2 DEF RefsExact
<1>6. Cache!Acquire(h, w)
  <2>1. UsersOf' = [UsersOf EXCEPT ![h] = @ \cup {w}]
    BY <1>c, <1>d DEF UsersOf
  <2>2. h \in Avail /\ Avail' = Avail
    BY DEF IInv, TypeOK, WorkerOK, PtzFind, Serve, Avail
  <2>3. UsersOf[h] = Claims(h)
    BY DEF UsersOf
  <2> QED
    BY <2>1, <2>2, <2>3, <1>c DEF Cache!Acquire
<1> QED
  BY <1>1, <1>2, <1>3, <1>4, <1>5, <1>6 DEF IInv, CacheStep, Cache!Next

\* PTZ gives its claim back, like a C_CLOSE.
LEMMA PtzDoneIInv ==
    ASSUME IInv, NEW w \in Workers, PtzDone(w)
    PROVE  IInv' /\ CacheStep
<1> USE OnvifAssumption DEF OnvifAssumption
<1>k. PICK k \in Hosts : k = host[w]
  BY DEF IInv, TypeOK, WorkerOK, PtzDone, Unref, Return
<1>c. w \in Claims(k) /\ Claims(k)' = Claims(k) \ {w}
  BY <1>k DEF IInv, TypeOK, WorkerOK, Claims, PtzDone, Unref, Return
<1>d. \A g \in Hosts \ {k} : Claims(g)' = Claims(g)
  BY <1>k DEF IInv, TypeOK, WorkerOK, Claims, PtzDone, Unref, Return
<1>f. IsFiniteSet(Claims(k)) /\ Cardinality(Claims(k)) \in Nat
  BY ClaimsFinite
<1>n. Cardinality(Claims(k)') = Cardinality(Claims(k)) - 1
  BY <1>c, <1>f, CardinalityMoves
<1>r. table[k] # None /\ refcnt[table[k]] >= 1
  <2>1. Cardinality(Claims(k)) >= 1
    BY <1>c, <1>f, CardinalityMoves
  <2> QED
    BY <2>1, <1>f DEF IInv, TypeOK, RefsExact, Refs
<1>s. refcnt[table[k]] = 1 => Claims(k) = {w}
  <2>1. SUFFICES ASSUME refcnt[table[k]] = 1 PROVE Cardinality(Claims(k)) = 1
    BY <1>c, <1>f, FS_Singleton
  <2>2. Cardinality(Claims(k)) >= 1
    BY <1>c, <1>f, CardinalityMoves
  <2> QED
    BY <1>r, <1>f, <2>1, <2>2 DEF IInv, TypeOK, RefsExact, Refs
<1>t. table[k] = ctx[w]
  BY <1>k DEF IInv, PtzCtxLive, PtzDone
<1>1. TypeOK'
  BY <1>k, <1>r, <1>s, <1>t DEF IInv, TypeOK, WorkerOK, PtzDone, Unref, Return
<1>2. WorkerOK'
  BY <1>k, <1>r, <1>s, <1>t DEF IInv, TypeOK, WorkerOK, OneOwner, Building,
       PtzCtxLive, PtzDone, Unref, Return
<1>3. OneOwner'
  BY <1>k, <1>r, <1>s, <1>t DEF IInv, TypeOK, WorkerOK, OneOwner, Building,
       PtzCtxLive, PtzDone, Unref, Return
<1>4. PtzCtxLive'
  BY <1>k, <1>r, <1>s, <1>t DEF IInv, TypeOK, WorkerOK, OneOwner, Building,
       PtzCtxLive, Claims, PtzDone, Unref, Return
<1>5. RefsExact'
  <2>1. ASSUME NEW g \in Hosts, g # k
        PROVE  (Refs(g) = Cardinality(Claims(g)) + lostRefs[g])'
    BY <1>d, <2>1, <1>k, <1>r, <1>s, <1>t DEF IInv, TypeOK, WorkerOK,
         OneOwner, Building, RefsExact, Refs, PtzCtxLive, PtzDone, Unref,
         Return
  <2>2. (Refs(k) = Cardinality(Claims(k)) + lostRefs[k])'
    BY <1>f, <1>n, <1>k, <1>r, <1>s, <1>t DEF IInv, TypeOK, WorkerOK,
         OneOwner, Building, RefsExact, Refs, PtzDone, Unref, Return
  <2> QED
    BY <2>1, <2>2 DEF RefsExact
<1>6. Cache!Release(k, w)
  <2>1. UsersOf' = [UsersOf EXCEPT ![k] = @ \ {w}]
    BY <1>c, <1>d DEF UsersOf
  <2>t. \/ refcnt[table[k]] = 1 /\ table' = [table EXCEPT ![k] = None]
        \/ table' = table
    BY <1>k, <1>r, <1>t DEF PtzDone, Unref, Return
  <2>a. table' = table => Avail' = Avail
    BY DEF Avail
  <2>b. table' = [table EXCEPT ![k] = None] => Avail' = Avail \ {k}
    BY DEF IInv, TypeOK, Avail
  <2>2. \/ Avail' = Avail
        \/ Claims(k) = {w} /\ Avail' = Avail \ {k}
    BY <1>s, <2>t, <2>a, <2>b
  <2>3. UsersOf[k] = Claims(k)
    BY DEF UsersOf
  <2> QED
    BY <2>1, <2>2, <2>3, <1>c DEF Cache!Release
<1> QED
  BY <1>1, <1>2, <1>3, <1>4, <1>5, <1>6 DEF IInv, CacheStep, Cache!Next

\* PTZ of a host that is not in the hash, and steps of nobody.
LEMMA StutterIInv ==
    ASSUME IInv, UNCHANGED vars
    PROVE  IInv' /\ CacheStep
<1>1. \A g \in Hosts : Claims(g)' = Claims(g)
  BY DEF vars, Claims
<1>2. IInv'
  BY <1>1 DEF vars, IInv, TypeOK, WorkerOK, OneOwner, Building, PtzCtxLive,
     RefsExact, Refs
<1>3. UNCHANGED Cache!resVars
  BY <1>1 DEF vars, Cache!resVars, Avail, UsersOf
<1> QED
  BY <1>2, <1>3 DEF CacheStep

\* Every step keeps IInv and is a step of SharedRes or a stutter.
LEMMA NextIInv ==
    ASSUME IInv, [Next]_vars
    PROVE  IInv' /\ CacheStep
<1>1. ASSUME NEW w \in Workers, NEW cl \in Clients, NEW h \in Hosts,
             \/ OpenHit(w, cl, h)
             \/ \E c \in Ctxs : OpenMiss(w, cl, h, c)
      PROVE  IInv' /\ CacheStep
  BY <1>1, OpenHitIInv, OpenMissIInv
<1>2. ASSUME NEW w \in Workers, OpenStep(w)
      PROVE  IInv' /\ CacheStep
  BY <1>2, DevOpenFailsIInv, MediaUrlFailsIInv, MediaUrlGotIInv, HashAddIInv,
     HashAddLosesIInv, AnswerIInv, AnswerLostIInv DEF OpenStep
<1>3. ASSUME NEW w \in Workers, GiveUp(w) \/ Close(w) \/ PtzDone(w)
      PROVE  IInv' /\ CacheStep
  BY <1>3, GiveUpIInv, CloseIInv, PtzDoneIInv
<1>4. ASSUME NEW w \in Workers, NEW cl \in Clients, SendClose(w, cl)
      PROVE  IInv' /\ CacheStep
  BY <1>4, SendCloseIInv
<1>5. ASSUME NEW w \in Workers, NEW h \in Hosts, PtzFind(w, h) \/ PtzMiss(w, h)
      PROVE  IInv' /\ CacheStep
  BY <1>5, PtzFindIInv, StutterIInv DEF PtzMiss
<1>6. ASSUME NEW cl \in Clients, CloseBlank(cl)
      PROVE  IInv' /\ CacheStep
  BY <1>6, CloseBlankIInv
<1>7. ASSUME UNCHANGED vars
      PROVE  IInv' /\ CacheStep
  BY <1>7, StutterIInv
<1> QED
  BY <1>1, <1>2, <1>3, <1>4, <1>5, <1>6, <1>7 DEF Next

\* The inductive invariant holds in every reachable state.
THEOREM Invariance == Spec => []IInv
<1>1. IInv /\ [Next]_vars => IInv'
  BY NextIInv
<1> QED
  BY InitIInv, <1>1, PTL DEF Spec

\* Types of the variables of the cache, for any number of workers.
THEOREM TypeCorrect == Spec => []TypeOK
<1>1. IInv => TypeOK
  BY DEF IInv
<1> QED
  BY Invariance, <1>1, PTL

\* The count of a context is exactly the claims on its host and the
\* references that were lost (++ctx->refcnt and --ctx->refcnt in
\* mod/onvif/src/msg_func.c), for any number of workers and callers.
THEOREM CountsExact == Spec => []RefsExact
<1>1. IInv => RefsExact
  BY DEF IInv
<1> QED
  BY Invariance, <1>1, PTL

\* The context a worker uses inside nvc_ptz_ctl, without the lock, is the one
\* the hash holds: no C_CLOSE of another worker frees it.
THEOREM PtzSafe == Spec => []PtzCtxLive
<1>1. IInv => PtzCtxLive
  BY DEF IInv
<1> QED
  BY Invariance, <1>1, PTL

\* Two workers that build a context for one host never leave a context that
\* is neither in the hash nor freed nor leaked, and none is in two places.
THEOREM OwnersUnique == Spec => []OneOwner
<1>1. IInv => OneOwner
  BY DEF IInv
<1> QED
  BY Invariance, <1>1, PTL

\* A client that opened a host finds it in the hash until it closes it.
THEOREM HeldStays == Spec => []HeldInHash
<1>1. IInv => HeldInHash
  <2> SUFFICES ASSUME IInv, NEW cl \in Clients, held[cl] # None
               PROVE  table[held[cl]] # None
    BY DEF HeldInHash
  <2>1. PICK h \in Hosts : h = held[cl]
    BY DEF IInv, TypeOK
  <2>2. cl \in Claims(h)
    BY <2>1 DEF Claims
  <2>3. Cardinality(Claims(h)) \in Nat /\ Cardinality(Claims(h)) >= 1
    BY <2>2, ClaimsFinite, CardinalityMoves
  <2>4. Refs(h) >= 1
    BY <2>3 DEF IInv, TypeOK, RefsExact
  <2> QED
    BY <2>1, <2>4 DEF Refs
<1> QED
  BY Invariance, <1>1, PTL

\* The cache implements SharedRes: initially it is empty, and every step of
\* the workers, the callers and their timeouts is a step of SharedRes or
\* changes nothing there.
THEOREM Implements == Spec => CacheSpec
<1>1. Init => Cache!Init
  BY OnvifAssumption DEF Init, Cache!Init, Avail, UsersOf, Claims,
     OnvifAssumption
<1>2. IInv /\ [Next]_vars => [Cache!Next]_(Cache!resVars)
  BY NextIInv DEF CacheStep
<1> QED
  BY <1>1, <1>2, Invariance, PTL DEF Spec, CacheSpec, Cache!Spec
=============================================================================
