------------------------- MODULE RtspClient_proofs -------------------------
(***************************************************************************)
(* Proofs about RtspClient, for any streams and any number of requests:    *)
(* nothing that is freed is in use by a coroutine, and an error of a push  *)
(* is never taken back while its client still runs.                        *)
(***************************************************************************)
EXTENDS RtspClient, TLAPS

Closing == {"stopMedia", "awaitMedia", "stopConn", "awaitConn", "freed"}

\* Only the client that is waited for is interrupted, and it does nothing else
\* than end.
IntrInv ==
    /\ \A n \in intr :
        n = cur /\ pc = "awaitConn" /\ conn[n] \notin {"none", "exited"}
    /\ pc = "awaitConn" => conn[cur] \in {"leave", "exited"} \/ cur \in intr
    /\ pc = "awaitMedia" => media[cur] # "none"
    /\ pc \in Closing \ {"freed"} => conn[cur] # "none"

\* Frames have a coroutine only once the client has sent PLAY or RECORD.
MediaInv ==
    \A n \in Names :
        media[n] # "none" => conn[n] \in {"play", "flow", "leave", "exited"}

\* What handle_ctl is at, and the table.
JobInv ==
    /\ pc = "recv" => todo = {}
    /\ pc = "each" => job # "close"
    /\ pc \in Closing =>
        /\ job = "close" => todo = {}
        /\ job = "check" <=> refcnt[cur] > 0
        /\ cur \notin todo

\* Only pushes have errors, and the one that is connected again has none left.
ErrInv ==
    /\ \A n \in Names : err[n] => n \in Pushes
    /\ pc \in Closing /\ job = "check" =>
        /\ ~err[cur]
        /\ cur \in Pushes => conn[cur] = "exited"

IInv == /\ TypeOK /\ FreedAlone /\ ErrIsLast
        /\ IntrInv /\ MediaInv /\ JobInv /\ ErrInv

-----------------------------------------------------------------------------
\* Initially the tables are empty.
LEMMA InvInit == Init => IInv
BY ClientAssumption
   DEF ClientAssumption, Init, IInv, TypeOK, FreedAlone, ErrIsLast, IntrInv,
       MediaInv, JobInv, ErrInv, Closing, Reading

\* A step of a client keeps the invariant.
LEMMA ClientKeeps ==
    ASSUME NEW n \in Names, IInv, Blocked, ClientStep(n)
    PROVE  IInv'
<1>i. /\ TypeOK /\ FreedAlone /\ ErrIsLast
      /\ IntrInv /\ MediaInv /\ JobInv /\ ErrInv
  BY DEF IInv
<1> USE ClientAssumption
        DEF ClientAssumption, TypeOK, FreedAlone, ErrIsLast, ErrInv, IntrInv,
        MediaInv, JobInv, Closing, Reading, Names, tableVars, coVars, ctlVars,
        boundVars
<1>1. CASE ConnectFails(n)
  <2>1. TypeOK'
    BY <1>1, <1>i DEF ConnectFails, Exits, Blocked
  <2>2. FreedAlone'
    BY <1>1, <1>i DEF ConnectFails, Exits, Blocked
  <2>3. ErrIsLast' /\ ErrInv'
    BY <1>1, <1>i DEF ConnectFails, Exits, Blocked
  <2>4. IntrInv'
    BY <1>1, <1>i DEF ConnectFails, Exits, Blocked
  <2>5. MediaInv' /\ JobInv'
    BY <1>1, <1>i DEF ConnectFails, Exits, Blocked
  <2> QED
    BY <2>1, <2>2, <2>3, <2>4, <2>5 DEF IInv
<1>2. CASE Connected(n)
  <2>1. TypeOK'
    BY <1>2, <1>i DEF Connected, Blocked
  <2>2. FreedAlone'
    BY <1>2, <1>i DEF Connected, Blocked
  <2>3. ErrIsLast' /\ ErrInv'
    BY <1>2, <1>i DEF Connected, Blocked
  <2>4. IntrInv'
    BY <1>2, <1>i DEF Connected, Blocked
  <2>5. MediaInv' /\ JobInv'
    BY <1>2, <1>i DEF Connected, Blocked
  <2> QED
    BY <2>1, <2>2, <2>3, <2>4, <2>5 DEF IInv
<1>3. CASE OnDescribe(n)
  <2>1. TypeOK'
    BY <1>3, <1>i DEF OnDescribe, Blocked
  <2>2. FreedAlone'
    BY <1>3, <1>i DEF OnDescribe, Blocked
  <2>3. ErrIsLast' /\ ErrInv'
    BY <1>3, <1>i DEF OnDescribe, Blocked
  <2>4. IntrInv'
    BY <1>3, <1>i DEF OnDescribe, Blocked
  <2>5. MediaInv' /\ JobInv'
    BY <1>3, <1>i DEF OnDescribe, Blocked
  <2> QED
    BY <2>1, <2>2, <2>3, <2>4, <2>5 DEF IInv
<1>4. CASE OnSetup(n)
  <2>1. TypeOK'
    BY <1>4, <1>i DEF OnSetup, Blocked
  <2>2. FreedAlone'
    BY <1>4, <1>i DEF OnSetup, Blocked
  <2>3. ErrIsLast' /\ ErrInv'
    BY <1>4, <1>i DEF OnSetup, Blocked
  <2>4. IntrInv'
    BY <1>4, <1>i DEF OnSetup, Blocked
  <2>5. MediaInv' /\ JobInv'
    BY <1>4, <1>i DEF OnSetup, Blocked
  <2> QED
    BY <2>1, <2>2, <2>3, <2>4, <2>5 DEF IInv
<1>5. CASE OnPlay(n)
  <2>1. TypeOK'
    BY <1>5, <1>i DEF OnPlay, Blocked
  <2>2. FreedAlone'
    BY <1>5, <1>i DEF OnPlay, Blocked
  <2>3. ErrIsLast' /\ ErrInv'
    BY <1>5, <1>i DEF OnPlay, Blocked
  <2>4. IntrInv'
    BY <1>5, <1>i DEF OnPlay, Blocked
  <2>5. MediaInv' /\ JobInv'
    BY <1>5, <1>i DEF OnPlay, Blocked
  <2> QED
    BY <2>1, <2>2, <2>3, <2>4, <2>5 DEF IInv
<1>6. CASE PeerCloses(n)
  <2>1. TypeOK'
    BY <1>6, <1>i DEF PeerCloses, HangsUp, Exits, Blocked
  <2>2. FreedAlone'
    BY <1>6, <1>i DEF PeerCloses, HangsUp, Exits, Blocked
  <2>3. ErrIsLast' /\ ErrInv'
    BY <1>6, <1>i DEF PeerCloses, HangsUp, Exits, Blocked
  <2>4. IntrInv'
    BY <1>6, <1>i DEF PeerCloses, HangsUp, Exits, Blocked
  <2>5. MediaInv' /\ JobInv'
    BY <1>6, <1>i DEF PeerCloses, HangsUp, Exits, Blocked
  <2> QED
    BY <2>1, <2>2, <2>3, <2>4, <2>5 DEF IInv
<1>7. CASE TeardownDone(n)
  <2>1. TypeOK'
    BY <1>7, <1>i DEF TeardownDone, Exits, Blocked
  <2>2. FreedAlone'
    BY <1>7, <1>i DEF TeardownDone, Exits, Blocked
  <2>3. ErrIsLast' /\ ErrInv'
    BY <1>7, <1>i DEF TeardownDone, Exits, Blocked
  <2>4. IntrInv'
    BY <1>7, <1>i DEF TeardownDone, Exits, Blocked
  <2>5. MediaInv' /\ JobInv'
    BY <1>7, <1>i DEF TeardownDone, Exits, Blocked
  <2> QED
    BY <2>1, <2>2, <2>3, <2>4, <2>5 DEF IInv
<1>8. CASE Interrupted(n)
  <2>1. TypeOK'
    BY <1>8, <1>i DEF Interrupted, HangsUp, Exits, Blocked
  <2>2. FreedAlone'
    BY <1>8, <1>i DEF Interrupted, HangsUp, Exits, Blocked
  <2>3. ErrIsLast' /\ ErrInv'
    BY <1>8, <1>i DEF Interrupted, HangsUp, Exits, Blocked
  <2>4. IntrInv'
    BY <1>8, <1>i DEF Interrupted, HangsUp, Exits, Blocked
  <2>5. MediaInv' /\ JobInv'
    BY <1>8, <1>i DEF Interrupted, HangsUp, Exits, Blocked
  <2> QED
    BY <2>1, <2>2, <2>3, <2>4, <2>5 DEF IInv
<1> QED
  BY <1>1, <1>2, <1>3, <1>4, <1>5, <1>6, <1>7, <1>8 DEF ClientStep

\* Frames and the end of the process keep it.
LEMMA FramesKeep ==
    ASSUME NEW n \in Names, IInv, Blocked, FrameStep(n)
    PROVE  IInv'
<1>i. /\ TypeOK /\ FreedAlone /\ ErrIsLast
      /\ IntrInv /\ MediaInv /\ JobInv /\ ErrInv
  BY DEF IInv
<1> USE ClientAssumption
        DEF ClientAssumption, TypeOK, FreedAlone, ErrIsLast, ErrInv, IntrInv,
        MediaInv, JobInv, Closing, Reading, Names, tableVars, coVars, ctlVars,
        boundVars
<1>1. CASE OnFrame(n)
  <2>1. TypeOK'
    BY <1>1, <1>i DEF OnFrame, Blocked
  <2>2. FreedAlone'
    BY <1>1, <1>i DEF OnFrame, Blocked
  <2>3. ErrIsLast' /\ ErrInv'
    BY <1>1, <1>i DEF OnFrame, Blocked
  <2>4. IntrInv'
    BY <1>1, <1>i DEF OnFrame, Blocked
  <2>5. MediaInv' /\ JobInv'
    BY <1>1, <1>i DEF OnFrame, Blocked
  <2> QED
    BY <2>1, <2>2, <2>3, <2>4, <2>5 DEF IInv
<1>2. CASE MediaExits(n)
  <2>1. TypeOK'
    BY <1>2, <1>i DEF MediaExits, Blocked
  <2>2. FreedAlone'
    BY <1>2, <1>i DEF MediaExits, Blocked
  <2>3. ErrIsLast' /\ ErrInv'
    BY <1>2, <1>i DEF MediaExits, Blocked
  <2>4. IntrInv'
    BY <1>2, <1>i DEF MediaExits, Blocked
  <2>5. MediaInv' /\ JobInv'
    BY <1>2, <1>i DEF MediaExits, Blocked
  <2> QED
    BY <2>1, <2>2, <2>3, <2>4, <2>5 DEF IInv
<1>3. CASE Dies(n)
  <2>1. TypeOK'
    BY <1>3, <1>i DEF Dies, UsesRtsp
  <2>2. FreedAlone'
    BY <1>3, <1>i DEF Dies, UsesRtsp
  <2>3. ErrIsLast' /\ ErrInv'
    BY <1>3, <1>i DEF Dies, UsesRtsp
  <2>4. IntrInv'
    BY <1>3, <1>i DEF Dies, UsesRtsp
  <2>5. MediaInv' /\ JobInv'
    BY <1>3, <1>i DEF Dies, UsesRtsp
  <2> QED
    BY <2>1, <2>2, <2>3, <2>4, <2>5 DEF IInv
<1> QED
  BY <1>1, <1>2, <1>3 DEF FrameStep

\* Time keeps it.
LEMMA AgeKeeps ==
    ASSUME NEW n \in Names, IInv, Ages(n)
    PROVE  IInv'
<1>i. /\ TypeOK /\ FreedAlone /\ ErrIsLast
      /\ IntrInv /\ MediaInv /\ JobInv /\ ErrInv
  BY DEF IInv
<1> USE ClientAssumption
        DEF ClientAssumption, TypeOK, FreedAlone, ErrIsLast, ErrInv, IntrInv,
        MediaInv, JobInv, Closing, Reading, Names, tableVars, coVars, ctlVars,
        boundVars
<1>1. CASE Ages(n)
  <2>1. TypeOK'
    BY <1>1, <1>i DEF Ages
  <2>2. FreedAlone'
    BY <1>1, <1>i DEF Ages
  <2>3. ErrIsLast' /\ ErrInv'
    BY <1>1, <1>i DEF Ages
  <2>4. IntrInv'
    BY <1>1, <1>i DEF Ages
  <2>5. MediaInv' /\ JobInv'
    BY <1>1, <1>i DEF Ages
  <2> QED
    BY <2>1, <2>2, <2>3, <2>4, <2>5 DEF IInv
<1> QED
  BY <1>1

\* The beginning of a request or of a check keeps it.
LEMMA ServeKeeps ==
    ASSUME IInv, Serve
    PROVE  IInv'
<1>i. /\ TypeOK /\ FreedAlone /\ ErrIsLast
      /\ IntrInv /\ MediaInv /\ JobInv /\ ErrInv
  BY DEF IInv
<1> USE ClientAssumption
        DEF ClientAssumption, TypeOK, FreedAlone, ErrIsLast, ErrInv, IntrInv,
        MediaInv, JobInv, Closing, Reading, Names, tableVars, coVars, ctlVars,
        boundVars
<1>1. ASSUME NEW n \in Names, OpenHit(n) PROVE IInv'
  <2>1. TypeOK'
    BY <1>1, <1>i DEF OpenHit
  <2>2. FreedAlone'
    BY <1>1, <1>i DEF OpenHit
  <2>3. ErrIsLast' /\ ErrInv'
    BY <1>1, <1>i DEF OpenHit
  <2>4. IntrInv'
    BY <1>1, <1>i DEF OpenHit
  <2>5. MediaInv' /\ JobInv'
    BY <1>1, <1>i DEF OpenHit
  <2> QED
    BY <2>1, <2>2, <2>3, <2>4, <2>5 DEF IInv
<1>2. ASSUME NEW n \in Names, OpenMiss(n) PROVE IInv'
  <2>1. TypeOK'
    BY <1>2, <1>i DEF OpenMiss, Connect
  <2>2. FreedAlone'
    BY <1>2, <1>i DEF OpenMiss, Connect
  <2>3. ErrIsLast' /\ ErrInv'
    BY <1>2, <1>i DEF OpenMiss, Connect
  <2>4. IntrInv'
    BY <1>2, <1>i DEF OpenMiss, Connect
  <2>5. MediaInv' /\ JobInv'
    BY <1>2, <1>i DEF OpenMiss, Connect
  <2> QED
    BY <2>1, <2>2, <2>3, <2>4, <2>5 DEF IInv
<1>3. ASSUME NEW n \in Names, Close(n) PROVE IInv'
  <2>1. TypeOK'
    BY <1>3, <1>i DEF Close
  <2>2. FreedAlone'
    BY <1>3, <1>i DEF Close
  <2>3. ErrIsLast' /\ ErrInv'
    BY <1>3, <1>i DEF Close
  <2>4. IntrInv'
    BY <1>3, <1>i DEF Close
  <2>5. MediaInv' /\ JobInv'
    BY <1>3, <1>i DEF Close
  <2> QED
    BY <2>1, <2>2, <2>3, <2>4, <2>5 DEF IInv
<1>4. ASSUME NEW n \in Names, CloseLast(n) PROVE IInv'
  <2>1. TypeOK'
    BY <1>4, <1>i DEF CloseLast, CloseClient
  <2>2. FreedAlone'
    BY <1>4, <1>i DEF CloseLast, CloseClient
  <2>3. ErrIsLast' /\ ErrInv'
    BY <1>4, <1>i DEF CloseLast, CloseClient
  <2>4. IntrInv'
    BY <1>4, <1>i DEF CloseLast, CloseClient
  <2>5. MediaInv' /\ JobInv'
    BY <1>4, <1>i DEF CloseLast, CloseClient
  <2> QED
    BY <2>1, <2>2, <2>3, <2>4, <2>5 DEF IInv
<1>5. CASE Clear
  <2>1. TypeOK'
    BY <1>5, <1>i DEF Clear
  <2>2. FreedAlone'
    BY <1>5, <1>i DEF Clear
  <2>3. ErrIsLast' /\ ErrInv'
    BY <1>5, <1>i DEF Clear
  <2>4. IntrInv'
    BY <1>5, <1>i DEF Clear
  <2>5. MediaInv' /\ JobInv'
    BY <1>5, <1>i DEF Clear
  <2> QED
    BY <2>1, <2>2, <2>3, <2>4, <2>5 DEF IInv
<1>6. CASE Check
  <2>1. TypeOK'
    BY <1>6, <1>i DEF Check
  <2>2. FreedAlone'
    BY <1>6, <1>i DEF Check
  <2>3. ErrIsLast' /\ ErrInv'
    BY <1>6, <1>i DEF Check
  <2>4. IntrInv'
    BY <1>6, <1>i DEF Check
  <2>5. MediaInv' /\ JobInv'
    BY <1>6, <1>i DEF Check
  <2> QED
    BY <2>1, <2>2, <2>3, <2>4, <2>5 DEF IInv
<1> QED
  BY <1>1, <1>2, <1>3, <1>4, <1>5, <1>6 DEF Serve

\* The loops over the tables keep it.
LEMMA LoopKeeps ==
    ASSUME IInv, LoopStep
    PROVE  IInv'
<1>i. /\ TypeOK /\ FreedAlone /\ ErrIsLast
      /\ IntrInv /\ MediaInv /\ JobInv /\ ErrInv
  BY DEF IInv
<1> USE ClientAssumption
        DEF ClientAssumption, TypeOK, FreedAlone, ErrIsLast, ErrInv, IntrInv,
        MediaInv, JobInv, Closing, Reading, Names, tableVars, coVars, ctlVars,
        boundVars
<1>1. ASSUME NEW n \in Names, ClearNext(n) PROVE IInv'
  <2>1. TypeOK'
    BY <1>1, <1>i DEF ClearNext, CloseClient
  <2>2. FreedAlone'
    BY <1>1, <1>i DEF ClearNext, CloseClient
  <2>3. ErrIsLast' /\ ErrInv'
    BY <1>1, <1>i DEF ClearNext, CloseClient
  <2>4. IntrInv'
    BY <1>1, <1>i DEF ClearNext, CloseClient
  <2>5. MediaInv' /\ JobInv'
    BY <1>1, <1>i DEF ClearNext, CloseClient
  <2> QED
    BY <2>1, <2>2, <2>3, <2>4, <2>5 DEF IInv
<1>2. ASSUME NEW n \in Names, VisitFresh(n) PROVE IInv'
  <2>1. TypeOK'
    BY <1>2, <1>i DEF VisitFresh, Visited
  <2>2. FreedAlone'
    BY <1>2, <1>i DEF VisitFresh, Visited
  <2>3. ErrIsLast' /\ ErrInv'
    BY <1>2, <1>i DEF VisitFresh, Visited
  <2>4. IntrInv'
    BY <1>2, <1>i DEF VisitFresh, Visited
  <2>5. MediaInv' /\ JobInv'
    BY <1>2, <1>i DEF VisitFresh, Visited
  <2> QED
    BY <2>1, <2>2, <2>3, <2>4, <2>5 DEF IInv
<1>3. ASSUME NEW n \in Names, VisitQuiet(n) PROVE IInv'
  <2>1. TypeOK'
    BY <1>3, <1>i DEF VisitQuiet, Visited
  <2>2. FreedAlone'
    BY <1>3, <1>i DEF VisitQuiet, Visited
  <2>3. ErrIsLast' /\ ErrInv'
    BY <1>3, <1>i DEF VisitQuiet, Visited
  <2>4. IntrInv'
    BY <1>3, <1>i DEF VisitQuiet, Visited
  <2>5. MediaInv' /\ JobInv'
    BY <1>3, <1>i DEF VisitQuiet, Visited
  <2> QED
    BY <2>1, <2>2, <2>3, <2>4, <2>5 DEF IInv
<1>4. ASSUME NEW n \in Names, VisitLost(n) PROVE IInv'
  <2>1. TypeOK'
    BY <1>4, <1>i DEF VisitLost, Visited, CloseClient
  <2>2. FreedAlone'
    BY <1>4, <1>i DEF VisitLost, Visited, CloseClient
  <2>3. ErrIsLast' /\ ErrInv'
    BY <1>4, <1>i DEF VisitLost, Visited, CloseClient
  <2>4. IntrInv'
    BY <1>4, <1>i DEF VisitLost, Visited, CloseClient
  <2>5. MediaInv' /\ JobInv'
    BY <1>4, <1>i DEF VisitLost, Visited, CloseClient
  <2> QED
    BY <2>1, <2>2, <2>3, <2>4, <2>5 DEF IInv
<1>5. CASE EachDone
  <2>1. TypeOK'
    BY <1>5, <1>i DEF EachDone
  <2>2. FreedAlone'
    BY <1>5, <1>i DEF EachDone
  <2>3. ErrIsLast' /\ ErrInv'
    BY <1>5, <1>i DEF EachDone
  <2>4. IntrInv'
    BY <1>5, <1>i DEF EachDone
  <2>5. MediaInv' /\ JobInv'
    BY <1>5, <1>i DEF EachDone
  <2> QED
    BY <2>1, <2>2, <2>3, <2>4, <2>5 DEF IInv
<1> QED
  BY <1>1, <1>2, <1>3, <1>4, <1>5 DEF LoopStep

\* The steps of rtsp_client_close, and what follows it, keep it.
LEMMA CloseKeeps ==
    ASSUME IInv, CloseStep
    PROVE  IInv'
<1>i. /\ TypeOK /\ FreedAlone /\ ErrIsLast
      /\ IntrInv /\ MediaInv /\ JobInv /\ ErrInv
  BY DEF IInv
<1> USE ClientAssumption
        DEF ClientAssumption, TypeOK, FreedAlone, ErrIsLast, ErrInv, IntrInv,
        MediaInv, JobInv, Closing, Reading, Names, tableVars, coVars, ctlVars,
        boundVars
<1>1. CASE StopMedia
  <2>1. TypeOK'
    BY <1>1, <1>i DEF StopMedia
  <2>2. FreedAlone'
    BY <1>1, <1>i DEF StopMedia
  <2>3. ErrIsLast' /\ ErrInv'
    BY <1>1, <1>i DEF StopMedia
  <2>4. IntrInv'
    BY <1>1, <1>i DEF StopMedia
  <2>5. MediaInv' /\ JobInv'
    BY <1>1, <1>i DEF StopMedia
  <2> QED
    BY <2>1, <2>2, <2>3, <2>4, <2>5 DEF IInv
<1>2. CASE MediaGone
  <2>1. TypeOK'
    BY <1>2, <1>i DEF MediaGone
  <2>2. FreedAlone'
    BY <1>2, <1>i DEF MediaGone
  <2>3. ErrIsLast' /\ ErrInv'
    BY <1>2, <1>i DEF MediaGone
  <2>4. IntrInv'
    BY <1>2, <1>i DEF MediaGone
  <2>5. MediaInv' /\ JobInv'
    BY <1>2, <1>i DEF MediaGone
  <2> QED
    BY <2>1, <2>2, <2>3, <2>4, <2>5 DEF IInv
<1>3. CASE StopConn
  <2>1. TypeOK'
    BY <1>3, <1>i DEF StopConn
  <2>2. FreedAlone'
    BY <1>3, <1>i DEF StopConn
  <2>3. ErrIsLast' /\ ErrInv'
    BY <1>3, <1>i DEF StopConn
  <2>4. IntrInv'
    BY <1>3, <1>i DEF StopConn
  <2>5. MediaInv' /\ JobInv'
    BY <1>3, <1>i DEF StopConn
  <2> QED
    BY <2>1, <2>2, <2>3, <2>4, <2>5 DEF IInv
<1>4. CASE ConnGone
  <2>1. TypeOK'
    BY <1>4, <1>i DEF ConnGone
  <2>2. FreedAlone'
    BY <1>4, <1>i DEF ConnGone
  <2>3. ErrIsLast' /\ ErrInv'
    BY <1>4, <1>i DEF ConnGone
  <2>4. IntrInv'
    BY <1>4, <1>i DEF ConnGone
  <2>5. MediaInv' /\ JobInv'
    BY <1>4, <1>i DEF ConnGone
  <2> QED
    BY <2>1, <2>2, <2>3, <2>4, <2>5 DEF IInv
<1>5. CASE Drop
  <2>1. TypeOK'
    BY <1>5, <1>i DEF Drop
  <2>2. FreedAlone'
    BY <1>5, <1>i DEF Drop
  <2>3. ErrIsLast' /\ ErrInv'
    BY <1>5, <1>i DEF Drop
  <2>4. IntrInv'
    BY <1>5, <1>i DEF Drop
  <2>5. MediaInv' /\ JobInv'
    BY <1>5, <1>i DEF Drop
  <2> QED
    BY <2>1, <2>2, <2>3, <2>4, <2>5 DEF IInv
<1>6. CASE Reconnect
  <2>1. TypeOK'
    BY <1>6, <1>i DEF Reconnect, Connect
  <2>2. FreedAlone'
    BY <1>6, <1>i DEF Reconnect, Connect
  <2>3. ErrIsLast' /\ ErrInv'
    BY <1>6, <1>i DEF Reconnect, Connect
  <2>4. IntrInv'
    BY <1>6, <1>i DEF Reconnect, Connect
  <2>5. MediaInv' /\ JobInv'
    BY <1>6, <1>i DEF Reconnect, Connect
  <2> QED
    BY <2>1, <2>2, <2>3, <2>4, <2>5 DEF IInv
<1> QED
  BY <1>1, <1>2, <1>3, <1>4, <1>5, <1>6 DEF CloseStep

LEMMA InvStep == IInv /\ [Next]_vars => IInv'
<1>1. ASSUME IInv, UNCHANGED vars PROVE IInv'
  BY <1>1 DEF vars, IInv, TypeOK, FreedAlone, ErrIsLast, IntrInv, MediaInv,
              JobInv, ErrInv
<1> QED
  BY <1>1, ClientKeeps, FramesKeep, AgeKeeps, ServeKeeps, LoopKeeps,
     CloseKeeps DEF Next, Others, Work

LEMMA Invariance == Spec => []IInv
BY InvInit, InvStep, PTL DEF Spec

-----------------------------------------------------------------------------
(* The table of pulled streams                                             *)

\* C_CLEAR still has every stream before it that is in the table.
ClearInv ==
    /\ job = "clear" => todo \subseteq Pulls
    /\ Clearing => \A n \in Pulls : refcnt[n] > 0 => n \in todo

TableStep == [Table!Next]_(Table!rtspVars)

\* A step that users of the table do not see.
LEMMA TableStill ==
    ASSUME Clearing' <=> Clearing, \A n \in Pulls : Refs'[n] = Refs[n]
    PROVE  TableStep
<1>1. Refs' = Refs
  BY DEF Refs
<1>2. Fifos' = Fifos
  BY <1>1 DEF Fifos
<1>3. Clearing' = Clearing
  BY DEF Clearing
<1> QED
  BY <1>1, <1>2, <1>3 DEF TableStep, Table!rtspVars, Table!connVars

\* The fifos are those of the entries.
LEMMA FifoOf ==
    ASSUME NEW n \in Pulls
    PROVE  /\ Fifos[n] = IF Refs[n] > 0 THEN Fifo(n) ELSE <<>>
           /\ Fifos'[n] = IF Refs'[n] > 0 THEN Fifo(n) ELSE <<>>
           /\ Fifo(n) # <<>> /\ \A k \in Pulls : Fifo(k) = Fifo(n) => k = n
BY DEF Fifos, Fifo

\* The count of one stream changes, and its fifo comes or goes with it.
LEMMA TableChange ==
    ASSUME NEW n \in Pulls, NEW c \in Nat,
           \A k \in Pulls : Refs[k] \in Nat,
           \A k \in Pulls : Refs'[k] = IF k = n THEN c ELSE Refs[k]
    PROVE  /\ Refs' = [Refs EXCEPT ![n] = c]
           /\ Fifos' = [Fifos EXCEPT ![n] = IF c > 0 THEN Fifo(n) ELSE <<>>]
<1>1. Refs' = [Refs EXCEPT ![n] = c]
  BY DEF Refs
<1>2. \A k \in Pulls : k # n => Fifos'[k] = Fifos[k]
  BY FifoOf
<1>3. Fifos'[n] = IF c > 0 THEN Fifo(n) ELSE <<>>
  BY FifoOf
<1> QED
  BY <1>1, <1>2, <1>3 DEF Fifos

\* The counts that users see.
LEMMA RefsOf ==
    ASSUME TypeOK
    PROVE  /\ \A n \in Pulls : Refs[n] \in Nat /\ n \in Names
           /\ \A n \in Pulls : Refs[n] = IF Ending(n) THEN 1 ELSE refcnt[n]
           /\ \A n \in Pulls : Refs'[n] = IF Ending(n)' THEN 1 ELSE refcnt'[n]
BY DEF TypeOK, Refs, Names

\* C_OPEN adds a use.
LEMMA TableOpen ==
    ASSUME TypeOK, NEW n \in Pulls, ~Clearing, ~Clearing',
           \A k \in Pulls : Refs'[k] = IF k = n THEN Refs[n] + 1 ELSE Refs[k]
    PROVE  TableStep
<1>1. Refs[n] \in Nat /\ \A k \in Pulls : Refs[k] \in Nat
  BY RefsOf
<1>2. /\ Refs' = [Refs EXCEPT ![n] = Refs[n] + 1]
      /\ Fifos' = [Fifos EXCEPT ![n] = Fifo(n)]
  BY <1>1, TableChange
<1>3. Clearing' = Clearing
  BY DEF Clearing
<1>4. CASE Refs[n] > 0
  <2>1. Fifos[n] = Fifo(n) /\ Fifos' = Fifos
    BY <1>2, <1>4, FifoOf DEF Fifos
  <2>2. Table!ConnCtxOpen(n, Fifo(n), {})
    BY <1>2, <1>4, <2>1 DEF Table!ConnCtxOpen
  <2> QED
    BY <1>3, <2>2 DEF TableStep, Table!Next, Table!Open
<1>5. CASE ~(Refs[n] > 0)
  <2>1. \A k \in Pulls : Fifos[k] # Fifo(n)
    BY <1>5, FifoOf
  <2>2. Table!ConnCtxOpen(n, Fifo(n), {})
    BY <1>2, <1>5, <2>1 DEF Table!ConnCtxOpen
  <2> QED
    BY <1>3, <2>2 DEF TableStep, Table!Next, Table!Open
<1> QED
  BY <1>4, <1>5

\* C_CLOSE gives a use back.
LEMMA TableClose ==
    ASSUME TypeOK, NEW n \in Pulls, ~Clearing, ~Clearing', Refs[n] > 0,
           \A k \in Pulls : Refs'[k] = IF k = n THEN Refs[n] - 1 ELSE Refs[k]
    PROVE  TableStep
<1>1. /\ Refs[n] \in Nat /\ Refs[n] - 1 \in Nat /\ Refs[n] # 0
      /\ \A k \in Pulls : Refs[k] \in Nat
  BY RefsOf
<1>2. /\ Refs' = [Refs EXCEPT ![n] = Refs[n] - 1]
      /\ Fifos' = [Fifos EXCEPT ![n] =
                      IF Refs[n] - 1 > 0 THEN Fifo(n) ELSE <<>>]
  BY <1>1, TableChange
<1>3. Clearing' = Clearing
  BY DEF Clearing
<1>4. Fifos' = [Fifos EXCEPT ![n] = IF Refs[n] = 1 THEN <<>> ELSE Fifos[n]]
  <2>1. Fifos[n] = Fifo(n)
    BY FifoOf
  <2>2. Refs[n] - 1 > 0 <=> Refs[n] # 1
    BY <1>1
  <2> QED
    BY <1>2, <2>1, <2>2
<1>5. Table!ConnCtxClose(n)
  BY <1>1, <1>2, <1>4 DEF Table!ConnCtxClose
<1> QED
  BY <1>3, <1>5 DEF TableStep, Table!Next, Table!Close
\* A step that changes neither the counts nor where handle_ctl is, as far as
\* users see it.
LEMMA StillTable ==
    ASSUME TypeOK, refcnt' = refcnt,
           \A n \in Pulls : Ending(n)' <=> Ending(n), Clearing' <=> Clearing
    PROVE  TableStep
BY TableStill, RefsOf

\* A client, its frames, and time.
LEMMA OthersTable ==
    ASSUME IInv, ClearInv, NEW n \in Names,
           ClientStep(n) \/ FrameStep(n) \/ Ages(n)
    PROVE  TableStep /\ ClearInv'
<1>0. TypeOK
  BY DEF IInv
<1>1. CASE Dies(n)
  <2>1. /\ Refs' = [k \in Pulls |-> 0] /\ Fifos' = [k \in Pulls |-> <<>>]
        /\ Clearing' = FALSE
    BY <1>1 DEF Dies, Refs, Ending, Fifos, Clearing, Names
  <2>2. Table!Lost
    BY <2>1 DEF Table!Lost, Table!ConnLost
  <2>3. ClearInv'
    BY <1>1 DEF Dies, ClearInv, Clearing
  <2> QED
    BY <2>2, <2>3 DEF TableStep, Table!Next
<1>2. CASE ~Dies(n)
  <2>1. UNCHANGED <<refcnt, pc, job, cur, todo>>
    BY <1>2 DEF ClientStep, FrameStep, ConnectFails, Connected, OnDescribe,
       OnSetup, OnPlay, PeerCloses, TeardownDone, Interrupted, OnFrame,
       MediaExits, Ages, tableVars, ctlVars
  <2> QED
    BY <1>0, <2>1, StillTable DEF Ending, Clearing, ClearInv
<1> QED
  BY <1>1, <1>2

\* A request: C_OPEN at once, C_CLOSE at once if it is not the last.
LEMMA ServeTable ==
    ASSUME IInv, ClearInv, Serve
    PROVE  TableStep /\ ClearInv'
<1>0. TypeOK /\ Pulls \cap Pushes = {}
  BY ClientAssumption DEF IInv, ClientAssumption
<1>1. /\ pc = "recv" /\ ~Clearing /\ \A k \in Pulls : ~Ending(k)
      /\ \A k \in Pulls : refcnt[k] \in Nat
  BY <1>0 DEF Serve, OpenHit, OpenMiss, Close, CloseLast, Clear, Check,
     Clearing, Ending, TypeOK, Names
<1>2. ASSUME NEW n \in Names, OpenHit(n) \/ OpenMiss(n)
      PROVE  TableStep /\ ClearInv'
  <2>1. /\ refcnt' = [refcnt EXCEPT ![n] = refcnt[n] + 1]
        /\ UNCHANGED <<pc, job, cur, todo>>
    BY <1>2 DEF OpenHit, OpenMiss, ctlVars
  <2>2. /\ ~Clearing' /\ ClearInv' /\ \A k \in Pulls : ~Ending(k)'
        /\ \A k \in Pulls :
             Refs'[k] = IF k = n THEN Refs[k] + 1 ELSE Refs[k]
    BY <1>0, <1>1, <2>1, RefsOf
       DEF Clearing, Ending, ClearInv, TypeOK, Names
  <2> QED
    BY <1>0, <1>1, <2>2, TableOpen, TableStill
<1>3. ASSUME NEW n \in Names, Close(n)
      PROVE  TableStep /\ ClearInv'
  <2>1. /\ refcnt' = [refcnt EXCEPT ![n] = refcnt[n] - 1] /\ refcnt[n] > 1
        /\ UNCHANGED <<pc, job, cur, todo>>
    BY <1>3 DEF Close, ctlVars
  <2>2. /\ ~Clearing' /\ ClearInv' /\ \A k \in Pulls : ~Ending(k)'
        /\ \A k \in Pulls :
             Refs'[k] = IF k = n THEN Refs[k] - 1 ELSE Refs[k]
        /\ n \in Pulls => Refs[n] > 0
    BY <1>0, <1>1, <2>1, RefsOf
       DEF Clearing, Ending, ClearInv, TypeOK, Names
  <2> QED
    BY <1>0, <1>1, <2>2, TableClose, TableStill
<1>4. ASSUME NEW n \in Names, CloseLast(n)
      PROVE  TableStep /\ ClearInv'
  <2>1. /\ refcnt' = [refcnt EXCEPT ![n] = 0] /\ refcnt[n] = 1
        /\ job' = "close" /\ cur' = n /\ pc' \in {"stopMedia", "freed"}
    BY <1>4 DEF CloseLast, CloseClient
  <2>2. /\ ~Clearing' /\ ClearInv' /\ \A k \in Pulls : Ending(k)' <=> k = n
        /\ \A k \in Pulls : refcnt'[k] = IF k = n THEN 0 ELSE refcnt[k]
    BY <1>0, <2>1 DEF Clearing, Ending, ClearInv, TypeOK, Names
  <2>3. \A k \in Pulls : Refs'[k] = Refs[k]
    BY <1>0, <1>1, <2>1, <2>2, RefsOf
  <2> QED
    BY <1>1, <2>2, <2>3, TableStill
<1>5. CASE Clear
  <2>1. Clearing' /\ ClearInv' /\ \A k \in Pulls : ~Ending(k)'
    BY <1>5 DEF Clear, Clearing, ClearInv, Ending, tableVars
  <2>2. refcnt' = refcnt
    BY <1>5 DEF Clear, tableVars
  <2>3. Refs' = Refs
    BY <1>1, <2>1, <2>2 DEF Refs
  <2>4. Fifos' = Fifos /\ Clearing' = TRUE
    BY <2>1, <2>3 DEF Fifos, Clearing
  <2>5. Table!ClearBegin
    BY <1>1, <2>3, <2>4 DEF Table!ClearBegin, Table!connVars
  <2> QED
    BY <2>1, <2>5 DEF TableStep, Table!Next
<1>6. CASE Check
  <2>1. ~Clearing' /\ ClearInv' /\ \A k \in Pulls : ~Ending(k)'
    BY <1>6 DEF Check, Clearing, ClearInv, Ending
  <2> QED
    BY <1>0, <1>1, <1>6, <2>1, StillTable DEF Check, tableVars
<1> QED
  BY <1>2, <1>3, <1>4, <1>5, <1>6 DEF Serve

\* The loops: C_CLEAR takes out one stream after the other, and all of them.
LEMMA LoopTable ==
    ASSUME IInv, ClearInv, LoopStep
    PROVE  TableStep /\ ClearInv'
<1>0. TypeOK /\ JobInv
  BY DEF IInv
<1>1. /\ pc = "each" /\ job \in {"clear", "check"}
      /\ (Clearing <=> job = "clear")
      /\ \A k \in Pulls : ~Ending(k) /\ Refs[k] = refcnt[k]
  <2>1. pc = "each"
    BY DEF LoopStep, ClearNext, VisitFresh, VisitQuiet, VisitLost, Visited,
       EachDone
  <2>2. \A k \in Pulls : ~Ending(k)
    BY <2>1 DEF Ending
  <2> QED
    BY <1>0, <2>1, <2>2, RefsOf DEF Clearing, JobInv, TypeOK
<1>2. ASSUME NEW n \in Names, ClearNext(n)
      PROVE  TableStep /\ ClearInv'
  <2>1. /\ n \in Pulls /\ n \in todo /\ todo' = todo \ {n} /\ job = "clear"
        /\ refcnt' = [refcnt EXCEPT ![n] = 0]
        /\ job' = "clear" /\ pc' \in {"stopMedia", "freed"}
    BY <1>2 DEF ClearNext, CloseClient, ClearInv
  <2>2. refcnt[n] > 0 /\ \A k \in Pulls : refcnt[k] \in Nat /\ k \in Names
    BY <1>0, <2>1 DEF TypeOK, Names
  <2>3. Clearing' /\ \A k \in Pulls : ~Ending(k)'
    BY <2>1 DEF Clearing, Ending
  <2>4. \A k \in Pulls : refcnt'[k] = IF k = n THEN 0 ELSE refcnt[k]
    BY <1>0, <2>1 DEF TypeOK, Names
  <2>5. ClearInv'
    BY <1>1, <2>1, <2>4 DEF ClearInv
  <2>6. \A k \in Pulls : Refs'[k] = IF k = n THEN 0 ELSE Refs[k]
    BY <1>0, <1>1, <2>3, <2>4, RefsOf
  <2>7. /\ Refs' = [Refs EXCEPT ![n] = 0]
        /\ Fifos' = [Fifos EXCEPT ![n] = <<>>]
    BY <1>0, <2>1, <2>6, RefsOf, TableChange
  <2>8. Table!ClearOne(n)
    BY <1>1, <2>1, <2>2, <2>3, <2>7 DEF Table!ClearOne, Clearing
  <2> QED
    BY <2>1, <2>5, <2>8 DEF TableStep, Table!Next
<1>3. ASSUME NEW n \in Names, VisitFresh(n) \/ VisitQuiet(n) \/ VisitLost(n)
      PROVE  TableStep /\ ClearInv'
  <2>1. job = "check" /\ job' = "check" /\ refcnt' = refcnt
    BY <1>3 DEF VisitFresh, VisitQuiet, VisitLost, Visited, CloseClient,
       tableVars
  <2>2. ~Clearing' /\ ClearInv' /\ \A k \in Pulls : ~Ending(k)'
    BY <2>1 DEF Clearing, ClearInv, Ending
  <2> QED
    BY <1>0, <1>1, <2>1, <2>2, StillTable
<1>4. CASE EachDone
  <2>1. /\ refcnt' = refcnt /\ job' = job /\ pc' = "recv" /\ todo' = {}
        /\ todo = {}
    BY <1>4 DEF EachDone, tableVars
  <2>2. ~Clearing' /\ ClearInv' /\ \A k \in Pulls : ~Ending(k)'
    BY <2>1 DEF Clearing, ClearInv, Ending
  <2>3. CASE job = "clear"
    <3>1. \A k \in Pulls : Refs[k] = 0
      BY <1>0, <1>1, <2>1, <2>3 DEF ClearInv, TypeOK, Names
    <3>2. Refs' = Refs
      BY <1>1, <2>1, <2>2 DEF Refs
    <3>3. Fifos' = Fifos /\ Clearing' = FALSE
      BY <2>2, <3>2 DEF Fifos, Clearing
    <3>4. Table!ClearEnd
      BY <1>1, <2>3, <3>1, <3>2, <3>3 DEF Table!ClearEnd, Table!connVars
    <3> QED
      BY <2>2, <3>4 DEF TableStep, Table!Next
  <2>4. CASE job = "check"
    BY <1>0, <1>1, <2>1, <2>2, <2>4, StillTable
  <2> QED
    BY <1>1, <2>3, <2>4
<1> QED
  BY <1>2, <1>3, <1>4 DEF LoopStep

\* Closing a client: the last use ends with the last step of it.
LEMMA CloseTable ==
    ASSUME IInv, ClearInv, CloseStep
    PROVE  TableStep /\ ClearInv'
<1>0. TypeOK /\ JobInv /\ Pulls \cap Pushes = {}
  BY ClientAssumption DEF IInv, ClientAssumption
<1>1. /\ pc \in Closing /\ UNCHANGED <<refcnt, job, cur, todo>>
      /\ \A k \in Pulls : Ending(k) <=> job = "close" /\ k = cur
      /\ Clearing <=> job = "clear"
  BY DEF CloseStep, StopMedia, MediaGone, StopConn, ConnGone, Drop, Reconnect,
     Closing, Ending, Clearing, tableVars
<1>2. CASE StopMedia \/ MediaGone \/ StopConn \/ ConnGone
  <2>1. pc' \in Closing
    BY <1>2 DEF StopMedia, MediaGone, StopConn, ConnGone, Closing
  <2>2. /\ \A k \in Pulls : Ending(k)' <=> Ending(k)
        /\ Clearing' <=> Clearing
    BY <1>1, <2>1 DEF Ending, Clearing, Closing
  <2> QED
    BY <1>0, <1>1, <2>2, StillTable DEF ClearInv
<1>3. CASE Reconnect \/ (Drop /\ job = "clear")
  <2>1. pc' = "each" /\ job # "close"
    BY <1>3 DEF Reconnect, Drop
  <2>2. /\ \A k \in Pulls : Ending(k)' <=> Ending(k)
        /\ Clearing' <=> Clearing
    BY <1>1, <2>1 DEF Ending, Clearing
  <2> QED
    BY <1>0, <1>1, <2>2, StillTable DEF ClearInv
<1>4. CASE Drop /\ job = "close"
  <2>1. pc' = "recv" /\ refcnt[cur] \in Nat /\ ~(refcnt[cur] > 0)
    BY <1>0, <1>1, <1>4 DEF Drop, JobInv, TypeOK
  <2>2. ~Clearing /\ ~Clearing' /\ ClearInv' /\ \A k \in Pulls : ~Ending(k)'
    BY <1>1, <1>4, <2>1 DEF Ending, Clearing, ClearInv
  <2>3. \A k \in Pulls : Refs'[k] = refcnt[k]
                         /\ Refs[k] = IF k = cur THEN 1 ELSE refcnt[k]
    BY <1>0, <1>1, <1>4, <2>2, RefsOf
  <2>4. CASE cur \in Pulls
    BY <1>0, <2>1, <2>2, <2>3, <2>4, TableClose
  <2>5. CASE cur \notin Pulls
    BY <2>2, <2>3, <2>5, TableStill
  <2> QED
    BY <2>4, <2>5
<1> QED
  BY <1>2, <1>3, <1>4 DEF CloseStep, Drop

LEMMA NextTable ==
    ASSUME IInv, ClearInv, [Next]_vars
    PROVE  TableStep /\ ClearInv'
<1>1. CASE UNCHANGED vars
  <2>1. UNCHANGED <<refcnt, pc, job, cur, todo>>
    BY <1>1 DEF vars
  <2> QED
    BY <2>1, StillTable DEF IInv, Ending, Clearing, ClearInv
<1> QED
  BY <1>1, OthersTable, ServeTable, LoopTable, CloseTable
     DEF Next, Others, Work

-----------------------------------------------------------------------------
\* The types of the variables; the loops only visit entries of the table.
THEOREM TypeCorrect == Spec => []TypeOK
<1>1. IInv => TypeOK
  BY DEF IInv
<1> QED
  BY <1>1, Invariance, PTL

\* Nothing is freed that a coroutine uses, or may come to use.
THEOREM FreedAreAlone == Spec => []FreedAlone
<1>1. IInv => FreedAlone
  BY DEF IInv
<1> QED
  BY <1>1, Invariance, PTL

\* Who is waited for in rtsp_client_close has ended, or will see the interrupt
\* or a timeout: what CloseEnds says without a word of time.
THEOREM InterruptsHeeded == Spec => []InterruptHeeded
<1>1. IInv => InterruptHeeded
  BY DEF IInv, IntrInv, InterruptHeeded
<1> QED
  BY <1>1, Invariance, PTL

\* conn_ctx_open, conn_ctx_close and conn_ctx_clear (rtsp-st.c), with the steps
\* and waits of rtsp_client_close, are for their callers what RtspTable says:
\* the actions NvrLive is built from.
THEOREM ImplementsTable == Spec => TableSpec
<1>1. Init => Table!Init /\ ClearInv
  <2> SUFFICES ASSUME Init PROVE Table!Init /\ ClearInv
    OBVIOUS
  <2>1. /\ Refs = [n \in Pulls |-> 0] /\ Fifos = [n \in Pulls |-> <<>>]
        /\ Clearing = FALSE
    BY DEF Init, Refs, Ending, Fifos, Clearing, Names
  <2> QED
    BY <2>1 DEF Init, ClearInv, Table!Init, Table!ConnInit
<1>2. IInv /\ ClearInv /\ [Next]_vars =>
          ClearInv' /\ [Table!Next]_(Table!rtspVars)
  BY NextTable DEF TableStep
<1> QED
  BY <1>1, <1>2, Invariance, PTL DEF Spec, TableSpec, Table!Spec

\* An error of a push is that of its present client, and the last one.
THEOREM ErrorsAreLast == Spec => []ErrIsLast
<1>1. IInv => ErrIsLast
  BY DEF IInv
<1> QED
  BY <1>1, Invariance, PTL
=============================================================================
