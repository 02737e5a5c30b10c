----------------------------- MODULE RtspTable ------------------------------
(***************************************************************************)
(* What handle_ctl makes of the table of RtspConn: requests take effect    *)
(* one at a time and at once.  C_CLEAR alone takes a while, in which no    *)
(* other request is served, and leaves an empty table.                     *)
(*                                                                         *)
(* This is the table NvrLive uses.  RtspClient, where closing a stream     *)
(* waits for its coroutines step by step, implements it.                   *)
(***************************************************************************)
EXTENDS RtspConn

VARIABLE clearing   \* a C_CLEAR is being served

rtspVars == <<connVars, clearing>>

Init == ConnInit /\ clearing = FALSE

Open(u) ==
    /\ ~clearing
    /\ \E m \in Shms : ConnCtxOpen(u, m, {})
    /\ UNCHANGED clearing

Close(u) ==
    /\ ~clearing
    /\ ConnCtxClose(u)
    /\ UNCHANGED clearing

ClearBegin ==
    /\ ~clearing
    /\ clearing' = TRUE
    /\ UNCHANGED connVars

\* An entry goes, whatever its count.
ClearOne(u) ==
    /\ clearing
    /\ refcnt[u] > 0
    /\ refcnt' = [refcnt EXCEPT ![u] = 0]
    /\ shm' = [shm EXCEPT ![u] = None]
    /\ UNCHANGED clearing

ClearEnd ==
    /\ clearing
    /\ \A u \in Urls : refcnt[u] = 0
    /\ clearing' = FALSE
    /\ UNCHANGED connVars

\* The process ends and starts again.
Lost == ConnLost /\ clearing' = FALSE

Next ==
    \/ \E u \in Urls : Open(u) \/ Close(u) \/ ClearOne(u)
    \/ ClearBegin \/ ClearEnd
    \/ Lost

Spec == Init /\ [][Next]_rtspVars
=============================================================================
