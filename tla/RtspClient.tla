----------------------------- MODULE RtspClient -----------------------------
(***************************************************************************)
(* The streams that rtsps pulls from cameras and pushes to servers: the    *)
(* tables conn_ctxs and push_ctxs (mod/rtsps/src/st-rtsp/rtsp-st.c), the   *)
(* client coroutine of each stream (rtsp-client-st.c) and the coroutine    *)
(* that receives or sends its frames (rtp-receiver.c, rtp-media-live.c).   *)
(*                                                                         *)
(*  - handle_ctl serves one request at a time and, when none came for      *)
(*    three seconds, looks for streams to connect again.                   *)
(*  - To close a client it interrupts its coroutines and waits for them,   *)
(*    first the one with the frames, then the client's.                    *)
(*  - Coroutines are scheduled cooperatively: one runs until it blocks.    *)
(*    While handle_ctl is at a step other than the three it blocks in, no  *)
(*    other coroutine takes a step (Blocked).                              *)
(*                                                                         *)
(* The coroutines are those of the State Threads library: an interrupt     *)
(* makes the call that a coroutine blocks in return with an error.         *)
(***************************************************************************)
EXTENDS Naturals

CONSTANTS
    Pulls, Pushes,  \* names (urls) of streams
    MaxReqs,        \* bound: requests that open a stream or clear the table
    MaxFails        \* bound: st_thread_create fails

Names == Pulls \cup Pushes

ASSUME ClientAssumption ==
    /\ Pulls \cap Pushes = {}
    /\ {MaxReqs, MaxFails} \subseteq Nat

VARIABLES
    refcnt,     \* ctx->refcnt; 0: not in the table
    tcp,        \* names with ctx->protol TCP: RTP in the RTSP connection
    stale,      \* ctx->last_time is more than five seconds ago
    err,        \* ctx->err # 0
    conn,       \* where the client coroutine is; "none": ctx->c == NULL
    media,      \* the coroutine of the frames
    intr,       \* client coroutines that were interrupted
    pc,         \* where handle_ctl is
    job,        \* what it closes a client for
    cur, todo,  \* the entry it is at, the entries of HASH_ITER to come
    reqs, fails

tableVars == <<refcnt, tcp, stale, err>>
coVars == <<conn, media, intr>>
ctlVars == <<pc, job, cur, todo>>
boundVars == <<reqs, fails>>
vars == <<refcnt, tcp, stale, err, conn, media, intr, pc, job, cur, todo,
          reqs, fails>>

\* The client waits for an answer to DESCRIBE or ANNOUNCE, SETUP, PLAY or
\* RECORD, or for what the peer sends after that.
Reading == {"ask", "setup", "play", "flow"}

Init ==
    /\ refcnt = [n \in Names |-> 0] /\ tcp = {}
    /\ stale = [n \in Names |-> FALSE]
    /\ err = [n \in Names |-> FALSE]
    /\ conn = [n \in Names |-> "none"]
    /\ media = [n \in Names |-> "none"]
    /\ intr = {}
    /\ pc = "recv" /\ job = "close" /\ cur \in Names /\ todo = {}
    /\ reqs = 0 /\ fails = 0

\* handle_ctl blocks: st_recvfrom, or st_usleep in a loop that waits for
\* exited of a coroutine.
Blocked == pc \in {"recv", "awaitMedia", "awaitConn"}

-----------------------------------------------------------------------------
(* rtsp_client_connect *)

Connect(n) ==
    \/ conn' = [conn EXCEPT ![n] = "connect"] /\ UNCHANGED fails
    \/ /\ fails < MaxFails /\ fails' = fails + 1
       /\ conn' = [conn EXCEPT ![n] = "none"]

-----------------------------------------------------------------------------
(* The client coroutine: handle_connect *)

\* __exit: the rtsp_client is destroyed, the socket closed, onerr called.
Exits(n) ==
    /\ conn' = [conn EXCEPT ![n] = "exited"]
    /\ err' = [err EXCEPT ![n] = err[n] \/ n \in Pushes]

\* After the loop TEARDOWN is sent if there was a SETUP.  Frames may have
\* filled the connection, and it waits for room.
HangsUp(n) ==
    \/ Exits(n)
    \/ /\ conn[n] \in {"play", "flow"} /\ n \in Pushes \cap tcp
       /\ conn' = [conn EXCEPT ![n] = "leave"]
       /\ UNCHANGED err

ConnectFails(n) ==
    /\ conn[n] = "connect" /\ n \notin intr
    /\ Exits(n)
    /\ UNCHANGED <<refcnt, tcp, stale, media, intr, ctlVars, boundVars>>

\* DESCRIBE or ANNOUNCE is sent.
Connected(n) ==
    /\ conn[n] = "connect" /\ n \notin intr
    /\ conn' = [conn EXCEPT ![n] = "ask"]
    /\ UNCHANGED <<tableVars, media, intr, ctlVars, boundVars>>

\* ondescribe, onannounce: SETUP is sent.
OnDescribe(n) ==
    /\ conn[n] = "ask" /\ n \notin intr
    /\ conn' = [conn EXCEPT ![n] = "setup"]
    /\ UNCHANGED <<tableVars, media, intr, ctlVars, boundVars>>

\* onsetup: PLAY or RECORD is sent.  Frames that are pulled with UDP have
\* sockets of their own and a coroutine.
OnSetup(n) ==
    /\ conn[n] = "setup" /\ n \notin intr
    /\ conn' = [conn EXCEPT ![n] = "play"]
    /\ media' = IF n \in Pulls \ tcp THEN [media EXCEPT ![n] = "run"]
                                     ELSE media
    /\ UNCHANGED <<tableVars, intr, ctlVars, boundVars>>

\* onplay, onrecord: frames that are pushed have a coroutine now.
OnPlay(n) ==
    /\ conn[n] = "play" /\ n \notin intr
    /\ conn' = [conn EXCEPT ![n] = "flow"]
    /\ media' = IF n \in Pushes THEN [media EXCEPT ![n] = "run"] ELSE media
    /\ UNCHANGED <<tableVars, intr, ctlVars, boundVars>>

\* The peer closes the connection, or it breaks.
PeerCloses(n) ==
    /\ conn[n] \in Reading /\ n \notin intr
    /\ HangsUp(n)
    /\ UNCHANGED <<refcnt, tcp, stale, media, intr, ctlVars, boundVars>>

\* TEARDOWN is sent, or has waited two seconds.
TeardownDone(n) ==
    /\ conn[n] = "leave" /\ n \notin intr
    /\ Exits(n)
    /\ UNCHANGED <<refcnt, tcp, stale, media, intr, ctlVars, boundVars>>

Interrupted(n) ==
    /\ n \in intr
    /\ intr' = intr \ {n}
    /\ IF conn[n] \in Reading THEN HangsUp(n) ELSE Exits(n)
    /\ UNCHANGED <<refcnt, tcp, stale, media, ctlVars, boundVars>>

-----------------------------------------------------------------------------
(* Frames: rtp_worker, live_send_task *)

\* st_thread_interrupt and loop = 0
Stopping(n) == pc = "awaitMedia" /\ cur = n

\* onframe, by the coroutine of the frames (UDP) or by the client's (TCP)
OnFrame(n) ==
    /\ n \in Pulls
    /\ \/ media[n] = "run" /\ ~Stopping(n)
       \/ n \in tcp /\ conn[n] = "flow" /\ n \notin intr
    /\ stale' = [stale EXCEPT ![n] = FALSE]
    /\ UNCHANGED <<refcnt, tcp, err, coVars, ctlVars, boundVars>>

\* Told to stop, or it cannot receive or send.
MediaExits(n) ==
    /\ media[n] = "run"
    /\ media' = [media EXCEPT ![n] = "exited"]
    /\ UNCHANGED <<tableVars, conn, intr, ctlVars, boundVars>>

\* The process ends: the assertions that a request was sent (DESCRIBE or
\* ANNOUNCE, PLAY or RECORD) and that there are ports for the frames, or what
\* is undefined, a use of the destroyed rtsp_client by the coroutine of the
\* frames.  It is started again, with empty tables.  The assertions on what
\* the peer answers to SETUP (onrecord) and on where frames come from, and the
\* exit of the receiver when they come from a port that is not the peer's
\* (rtp-receiver.c), are left out: they would end the process at more points.
UsesRtsp(n) ==
    media[n] = "run" /\ n \in (Pulls \ tcp) \cup (Pushes \cap tcp)

Dies(n) ==
    /\ \/ conn[n] \in {"connect", "ask", "setup"} /\ n \notin intr
       \/ conn[n] = "exited" /\ UsesRtsp(n)
    /\ refcnt' = [k \in Names |-> 0] /\ tcp' = {}
    /\ stale' = [k \in Names |-> FALSE]
    /\ err' = [k \in Names |-> FALSE]
    /\ conn' = [k \in Names |-> "none"]
    /\ media' = [k \in Names |-> "none"]
    /\ intr' = {}
    /\ pc' = "recv" /\ job' = "close" /\ cur' = n /\ todo' = {}
    /\ UNCHANGED boundVars

\* Time passes.
Ages(n) ==
    /\ refcnt[n] > 0 /\ ~stale[n]
    /\ stale' = [stale EXCEPT ![n] = TRUE]
    /\ UNCHANGED <<refcnt, tcp, err, coVars, ctlVars, boundVars>>

-----------------------------------------------------------------------------
(* handle_ctl: requests *)

\* conn_ctx_open, push_ctx_open of a name in the table
OpenHit(n) ==
    /\ pc = "recv" /\ reqs < MaxReqs
    /\ refcnt[n] > 0
    /\ reqs' = reqs + 1
    /\ refcnt' = [refcnt EXCEPT ![n] = refcnt[n] + 1]
    /\ UNCHANGED <<tcp, stale, err, coVars, ctlVars, fails>>

\* and of another one, with the transport the first request asks for
OpenMiss(n) ==
    /\ pc = "recv" /\ reqs < MaxReqs
    /\ refcnt[n] = 0
    /\ reqs' = reqs + 1
    /\ refcnt' = [refcnt EXCEPT ![n] = 1]
    /\ stale' = [stale EXCEPT ![n] = FALSE]
    /\ err' = [err EXCEPT ![n] = FALSE]
    /\ tcp' \in {tcp, tcp \cup {n}}
    /\ Connect(n)
    /\ UNCHANGED <<media, intr, ctlVars>>

\* Mutant: a name that is not in the table is counted down.
CloseUnfound(n) ==
    /\ pc = "recv"
    /\ refcnt[n] # 1 /\ reqs < MaxReqs
    /\ refcnt' = [refcnt EXCEPT ![n] = refcnt[n] - 1]
    /\ UNCHANGED <<tcp, stale, err, coVars, ctlVars, boundVars>>

\* conn_ctx_close, push_ctx_close while others use the stream
Close(n) ==
    /\ pc = "recv"
    /\ refcnt[n] > 1
    /\ refcnt' = [refcnt EXCEPT ![n] = refcnt[n] - 1]
    /\ UNCHANGED <<tcp, stale, err, coVars, ctlVars, boundVars>>

\* rtsp_client_close begins, or the client is NULL.
CloseClient(n, for) ==
    /\ job' = for /\ cur' = n
    /\ pc' = IF conn[n] = "none" THEN "freed" ELSE "stopMedia"

\* HASH_DEL, and the client is closed.
CloseLast(n) ==
    /\ pc = "recv"
    /\ refcnt[n] = 1
    /\ refcnt' = [refcnt EXCEPT ![n] = 0]
    /\ CloseClient(n, "close")
    /\ UNCHANGED <<tcp, stale, err, coVars, todo, boundVars>>

\* conn_ctx_clear takes every entry out, whatever its count.
Clear ==
    /\ pc = "recv" /\ reqs < MaxReqs
    /\ reqs' = reqs + 1
    /\ pc' = "each" /\ job' = "clear"
    /\ todo' = {n \in Pulls : refcnt[n] > 0}
    /\ UNCHANGED <<tableVars, coVars, cur, fails>>

\* Mutant: an entry is only counted down.
ClearNextCounts(n) ==
    /\ pc = "each" /\ job = "clear" /\ n \in todo
    /\ todo' = todo \ {n}
    /\ refcnt' = [refcnt EXCEPT ![n] = refcnt[n] - 1]
    /\ IF refcnt[n] = 1 THEN CloseClient(n, "clear")
                        ELSE UNCHANGED <<pc, job, cur>>
    /\ UNCHANGED <<tcp, stale, err, coVars, boundVars>>

ClearNext(n) ==
    /\ pc = "each" /\ job = "clear" /\ n \in todo
    /\ todo' = todo \ {n}
    /\ refcnt' = [refcnt EXCEPT ![n] = 0]
    /\ CloseClient(n, "clear")
    /\ UNCHANGED <<tcp, stale, err, coVars, boundVars>>

EachDone ==
    /\ pc = "each" /\ todo = {}
    /\ pc' = "recv"
    /\ UNCHANGED <<tableVars, coVars, job, cur, todo, boundVars>>

-----------------------------------------------------------------------------
(* handle_ctl: no request in three seconds *)

Check ==
    /\ pc = "recv"
    /\ pc' = "each" /\ job' = "check"
    /\ todo' = {n \in Names : refcnt[n] > 0}
    /\ UNCHANGED <<tableVars, coVars, cur, boundVars>>

\* conn_ctx_check comes before push_ctx_check.
Visited(n) ==
    /\ pc = "each" /\ job = "check" /\ n \in todo
    /\ n \in Pushes => todo \cap Pulls = {}
    /\ todo' = todo \ {n}

VisitFresh(n) ==
    /\ Visited(n)
    /\ ~stale[n]
    /\ UNCHANGED <<tableVars, coVars, pc, job, cur, boundVars>>

\* A push without an error is left alone: what it sends sets no time.
VisitQuiet(n) ==
    /\ Visited(n)
    /\ stale[n] /\ n \in Pushes /\ ~err[n]
    /\ stale' = [stale EXCEPT ![n] = FALSE]
    /\ UNCHANGED <<refcnt, tcp, err, coVars, pc, job, cur, boundVars>>

\* Mutant: the error of a push is not taken back.
VisitLostKeeps(n) ==
    /\ Visited(n)
    /\ stale[n] /\ (n \in Pushes => err[n])
    /\ CloseClient(n, "check")
    /\ UNCHANGED <<refcnt, tcp, stale, err, coVars, boundVars>>

\* Mutant: a stream without a client is passed over.
VisitLostClient(n) ==
    /\ Visited(n)
    /\ stale[n] /\ (n \in Pushes => err[n])
    /\ IF conn[n] = "none" THEN UNCHANGED <<pc, job, cur>>
                           ELSE CloseClient(n, "check")
    /\ err' = [err EXCEPT ![n] = FALSE]
    /\ UNCHANGED <<refcnt, tcp, stale, coVars, boundVars>>

\* No frame for five seconds, or an error of a push.
VisitLost(n) ==
    /\ Visited(n)
    /\ stale[n] /\ (n \in Pushes => err[n])
    /\ err' = [err EXCEPT ![n] = FALSE]
    /\ CloseClient(n, "check")
    /\ UNCHANGED <<refcnt, tcp, stale, coVars, boundVars>>

-----------------------------------------------------------------------------
(* handle_ctl: rtsp_client_close *)

\* Mutant: the frames are not waited for.
StopMediaNoWait ==
    /\ pc = "stopMedia"
    /\ pc' = "stopConn"
    /\ UNCHANGED <<tableVars, coVars, job, cur, todo, boundVars>>

\* The free of the receivers, rtp_media_live_free
StopMedia ==
    /\ pc = "stopMedia"
    /\ pc' = IF media[cur] = "run" THEN "awaitMedia" ELSE "stopConn"
    /\ UNCHANGED <<tableVars, coVars, job, cur, todo, boundVars>>

MediaGone ==
    /\ pc = "awaitMedia"
    /\ media[cur] = "exited"
    /\ pc' = "stopConn"
    /\ UNCHANGED <<tableVars, coVars, job, cur, todo, boundVars>>

\* Mutant: the client is waited for without an interrupt.
StopConnNoIntr ==
    /\ pc = "stopConn"
    /\ media' = [media EXCEPT ![cur] = "none"]
    /\ pc' = IF conn[cur] = "exited" THEN "freed" ELSE "awaitConn"
    /\ UNCHANGED <<tableVars, conn, intr, job, cur, todo, boundVars>>

\* What belongs to the frames is freed now.
StopConn ==
    /\ pc = "stopConn"
    /\ media' = [media EXCEPT ![cur] = "none"]
    /\ \/ /\ conn[cur] = "exited"
          /\ pc' = "freed" /\ UNCHANGED intr
       \/ /\ conn[cur] # "exited"
          /\ pc' = "awaitConn" /\ intr' = intr \cup {cur}
    /\ UNCHANGED <<tableVars, conn, job, cur, todo, boundVars>>

ConnGone ==
    /\ pc = "awaitConn"
    /\ conn[cur] = "exited"
    /\ pc' = "freed"
    /\ UNCHANGED <<tableVars, coVars, job, cur, todo, boundVars>>

\* The client is freed, and its entry with it.
Drop ==
    /\ pc = "freed" /\ job \in {"close", "clear"}
    /\ conn' = [conn EXCEPT ![cur] = "none"]
    /\ tcp' = tcp \ {cur}
    /\ err' = [err EXCEPT ![cur] = FALSE]
    /\ stale' = [stale EXCEPT ![cur] = FALSE]
    /\ pc' = IF job = "close" THEN "recv" ELSE "each"
    /\ UNCHANGED <<refcnt, media, intr, job, cur, todo, boundVars>>

\* The client is freed, and another one takes its place.
Reconnect ==
    /\ pc = "freed" /\ job = "check"
    /\ Connect(cur)
    /\ stale' = [stale EXCEPT ![cur] = FALSE]
    /\ pc' = "each"
    /\ UNCHANGED <<refcnt, tcp, err, media, intr, job, cur, todo, reqs>>

-----------------------------------------------------------------------------
ClientStep(n) ==
    \/ ConnectFails(n) \/ Connected(n)
    \/ OnDescribe(n) \/ OnSetup(n) \/ OnPlay(n)
    \/ PeerCloses(n) \/ TeardownDone(n) \/ Interrupted(n)

FrameStep(n) == OnFrame(n) \/ MediaExits(n) \/ Dies(n)

\* What may happen while handle_ctl blocks
Others(n) == Blocked /\ (ClientStep(n) \/ FrameStep(n))

Serve ==
    \/ \E n \in Names : OpenHit(n) \/ OpenMiss(n) \/ Close(n) \/ CloseLast(n)
    \/ Clear
    \/ Check

LoopStep ==
    \/ \E n \in Names :
        ClearNext(n) \/ VisitFresh(n) \/ VisitQuiet(n) \/ VisitLost(n)
    \/ EachDone

CloseStep ==
    \/ StopMedia \/ MediaGone \/ StopConn \/ ConnGone
    \/ Drop \/ Reconnect

Work == LoopStep \/ CloseStep

Next == Serve \/ Work \/ \E n \in Names : Others(n) \/ Ages(n)

\* handle_ctl goes on when it can and makes the check when requests are over;
\* time passes; a coroutine that was interrupted, told to stop, or waits with
\* a timeout is scheduled.  Nothing is assumed of cameras and servers.
Fairness ==
    /\ WF_vars(Work)
    /\ WF_vars(Check)
    /\ \A n \in Names :
        /\ WF_vars(Ages(n))
        /\ WF_vars(Blocked /\ Interrupted(n))
        /\ WF_vars(Blocked /\ TeardownDone(n))
        /\ WF_vars(Blocked /\ Stopping(n) /\ MediaExits(n))

Spec == Init /\ [][Next]_vars /\ Fairness

-----------------------------------------------------------------------------
\* The types of the variables; only entries of the table are visited.
TypeOK ==
    /\ refcnt \in [Names -> Nat] /\ tcp \subseteq Names
    /\ stale \in [Names -> BOOLEAN] /\ err \in [Names -> BOOLEAN]
    /\ conn \in [Names -> Reading \cup {"none", "connect", "leave", "exited"}]
    /\ media \in [Names -> {"none", "run", "exited"}]
    /\ intr \subseteq Names
    /\ pc \in {"recv", "each", "stopMedia", "awaitMedia", "stopConn",
               "awaitConn", "freed"}
    /\ job \in {"close", "clear", "check"}
    /\ cur \in Names
    /\ todo \subseteq {n \in Names : refcnt[n] > 0}
    /\ reqs \in 0 .. MaxReqs /\ fails \in 0 .. MaxFails

\* What is freed has no coroutine any more: not the part with the frames, of
\* which the client does not make another one although it runs while
\* handle_ctl waits for it; nor the client; and nothing runs for a name that
\* left the table.
FreedAlone ==
    /\ pc = "stopConn" => media[cur] # "run"
    /\ pc = "awaitConn" => media[cur] = "none"
    /\ pc = "freed" => conn[cur] \in {"none", "exited"} /\ media[cur] = "none"
    /\ \A n \in Names :
        refcnt[n] = 0 /\ (pc \in {"recv", "each"} \/ cur # n) =>
            conn[n] = "none" /\ media[n] = "none" /\ n \notin intr

\* An error of a push is that of its present client, which is over: taking it
\* back before the client is closed loses none.
ErrIsLast == \A n \in Names : err[n] => conn[n] = "exited"

\* An interrupt is neither lost nor left over: the coroutine that handle_ctl
\* waits for is over, is at its last call, which has a timeout, or has yet to
\* see the interrupt; and none is in store for a client that takes its place.
InterruptHeeded ==
    /\ pc = "awaitMedia" => media[cur] # "none"
    /\ pc = "awaitConn" => conn[cur] \in {"leave", "exited"} \/ cur \in intr
    /\ \A n \in intr : pc = "awaitConn" /\ n = cur

\* The table of pulled streams as its users see it, RtspTable: the last C_CLOSE
\* of a stream takes effect, count and fifo, when its coroutines are gone, and
\* a C_CLEAR leaves no stream.  What counts of an identifier is whose it is.
Ending(n) ==
    /\ job = "close" /\ cur = n
    /\ pc \in {"stopMedia", "awaitMedia", "stopConn", "awaitConn", "freed"}
Clearing == job = "clear" /\ pc # "recv"
Refs == [n \in Pulls |-> IF Ending(n) THEN 1 ELSE refcnt[n]]
Fifo(n) == <<n>>
Fifos == [n \in Pulls |-> IF Refs[n] > 0 THEN Fifo(n) ELSE <<>>]
Table == INSTANCE RtspTable WITH
    Urls <- Pulls, Shms <- {Fifo(n) : n \in Pulls}, None <- <<>>,
    refcnt <- Refs, shm <- Fifos, clearing <- Clearing
TableSpec == Table!Spec

\* handle_ctl, the only one to serve requests, does not wait for good for a
\* coroutine it closes.
CloseEnds == (pc \in {"awaitMedia", "awaitConn"}) ~> (pc = "recv")

\* A stream in the table gets another client when its client is over or, if it
\* is pulled, when it has none or no frame has come.  (A pulled one whose client
\* is over lives as long as frames still come by UDP.)
Down(n) ==
    /\ refcnt[n] > 0
    /\ \/ n \in Pushes /\ conn[n] = "exited"
       \/ n \in Pulls /\ conn[n] \in {"none", "exited"} /\ media[n] # "run"
       \/ n \in Pulls /\ stale[n]

Reconnected == \A n \in Names : Down(n) ~> ~Down(n)

\* "// r <= 0 when peer close" (rtp-media-live.c): a coroutine that pushes
\* learns from its sends that the peer has closed; what it sends through is
\* there for as long as it runs.
SendsAlive ==
    \A n \in Pushes \cap tcp : media[n] = "run" => conn[n] # "exited"
=============================================================================
