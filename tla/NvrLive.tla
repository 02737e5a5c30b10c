------------------------------ MODULE NvrLive -------------------------------
(***************************************************************************)
(* The live pipeline of the NVR: the live task of the app process          *)
(* (mod/app/src/nvr_live.c) keeps one RTSP pull open in the rtsps process  *)
(* for every enabled stream of the configured channels.                    *)
(*                                                                         *)
(*  - app_nvr.chsrc (cfg) is what the user wants.  Workers of the app's    *)
(*    reply endpoint write it (msg_func_chsrc), without the task's mutex.  *)
(*  - gmng.chsrc (mng) is what the task acts on.  In each pass, channel by *)
(*    channel, a difference makes the task close the streams, copy cfg to  *)
(*    mng and open again.  When an ONVIF camera answers, its stream urls   *)
(*    go to mng and from there back to cfg.                                *)
(*  - C_OPEN and C_CLOSE are calls with a timeout.  The task goes on after *)
(*    a timeout; the request may still be served later, or never.          *)
(*  - rtsps may stop and start again.  It registers with bsp before it     *)
(*    listens; the event reaches the app in another thread, which blanks   *)
(*    the urls in mng so that the next pass opens everything again.        *)
(*                                                                         *)
(* ref and stray are history variables.  ref[x] is the url of the          *)
(* reference slot x has in the table of the running rtsps.  stray[u] says  *)
(* that a C_CLOSE of u was sent for a slot that had no such reference.     *)
(***************************************************************************)
EXTENDS RtspConn, FiniteSets

CONSTANTS
    NChan,          \* GSF_CODEC_NVR_CHN
    NStream,        \* streams of a channel: 2, st1 and st2
    Hosts,          \* ONVIF hosts
    Media,          \* host -> the sets of stream urls the camera may report
    Settings,       \* the values the user writes to app_nvr.chsrc[i]
    InOrder,        \* requests reach handle_ctl in the order they were sent
    TornCopy,       \* the task can see a copy of msg_func_chsrc half done
    MaxSets, MaxTimeouts, MaxStops, MaxOnvifRegs    \* bounds

Chans == 0 .. NChan - 1
Streams == 0 .. NStream - 1
Slots == Chans \X Streams
UrlsOf == [Streams -> Urls \cup {None}]
Blank == [s \in Streams |-> None]

\* gsf_chsrc_t.  cut names the strings whose first byte live_clear_* has
\* overwritten: they are empty, and memcmp tells them from a blank field.
ChSrc == [en : BOOLEAN, host : Hosts \cup {None}, st : UrlsOf,
          cut : SUBSET {"host", "st"}]
NoSrc == [en |-> FALSE, host |-> None, st |-> Blank, cut |-> {}]
HostOf(c) == IF "host" \in c.cut THEN None ELSE c.host
UrlOf(c, s) == IF "st" \in c.cut THEN None ELSE c.st[s]

\* The setting c with other urls, with another choice, with a field blanked.
WithUrls(c, st) == [c EXCEPT !.st = st, !.cut = c.cut \ {"st"}]
WithChoice(c, en, host) ==
    [c EXCEPT !.en = en, !.host = host, !.cut = c.cut \ {"host"}]
CutUrls(c) ==
    IF c.st = Blank THEN c ELSE [c EXCEPT !.cut = c.cut \cup {"st"}]
CutHost(c) ==
    IF c.host = None THEN c ELSE [c EXCEPT !.cut = c.cut \cup {"host"}]

ASSUME NvrAssumption ==
    /\ NChan \in Nat \ {0} /\ NStream \in Nat \ {0}
    /\ None \notin Urls \cup Hosts \cup Shms
    /\ Media \in [Hosts -> SUBSET UrlsOf]
    /\ Settings \subseteq ChSrc
    /\ InOrder \in BOOLEAN /\ TornCopy \in BOOLEAN
    /\ {MaxSets, MaxTimeouts, MaxStops, MaxOnvifRegs} \subseteq Nat

VARIABLES
    cfg,            \* app_nvr.chsrc
    writing,        \* the struct copy msg_func_chsrc is in the middle of
    mng,            \* gmng.chsrc
    rtsp,           \* gmng.rtsp
    onvif,          \* gmng.onvif
    shmid,          \* gmng.shmid
    pc, chan, strm, \* where the live task is: step, i, and the stream
    ohost,          \* the host in its outstanding call to onvif
    call,           \* the task's outstanding call to rtsps
    lateOpen,       \* per url, C_OPEN requests nobody waits for
    lateClose,      \* per url, C_CLOSE requests nobody waits for
    srv,            \* rtsps: "up", "down", or "reg" (registered, not listening)
    event,          \* a MOD_REG event of rtsps is on its way to the app
    ref, stray,     \* history, see above
    count           \* how often the bounded things have happened

cfgVars == <<cfg, writing>>
slotVars == <<rtsp, shmid, ref>>
taskVars == <<pc, chan, strm, ohost>>
netVars == <<call, lateOpen, lateClose>>
srvVars == <<srv, event>>
vars == <<refcnt, shm, cfg, writing, mng, rtsp, onvif, shmid, pc, chan, strm,
          ohost, call, lateOpen, lateClose, srv, event, ref, stray, count>>

NoCall == [op |-> "none", url |-> None, done |-> FALSE, shm |-> None,
           mine |-> FALSE]
Calls == [op : {"none", "open", "close"}, url : Urls \cup {None},
          done : BOOLEAN, shm : Shms \cup {None}, mine : BOOLEAN]

Bounds == [sets |-> MaxSets, timeouts |-> MaxTimeouts, stops |-> MaxStops,
           onvifRegs |-> MaxOnvifRegs]
Tick(k) == count[k] < Bounds[k] /\ count' = [count EXCEPT ![k] = @ + 1]

\* live_mon, with the configuration file loaded.
Init ==
    /\ ConnInit
    /\ cfg \in [Chans -> Settings \cup {NoSrc}]
    /\ writing = <<>>
    /\ mng = [i \in Chans |-> NoSrc]
    /\ rtsp = [x \in Slots |-> FALSE]
    /\ onvif = [i \in Chans |-> FALSE]
    /\ shmid = [x \in Slots |-> None]
    /\ pc = "wait" /\ chan = 0 /\ strm = 0 /\ ohost = None
    /\ call = NoCall
    /\ lateOpen = [u \in Urls |-> 0]
    /\ lateClose = [u \in Urls |-> 0]
    /\ srv = "up" /\ event = FALSE
    /\ ref = [x \in Slots |-> None]
    /\ stray = [u \in Urls |-> FALSE]
    /\ count = [k \in DOMAIN Bounds |-> 0]

Slot == <<chan, strm>>

GoTo(step, i, s) == pc' = step /\ chan' = i /\ strm' = s /\ UNCHANGED ohost

\* The code for the next stream is a copy of the code for this one.
AfterStream(step, i) ==
    IF strm + 1 < NStream THEN GoTo(pc, chan, strm + 1) ELSE GoTo(step, i, 0)
NextClose == AfterStream("closeOnvif", chan)
NextOpen ==
    IF chan + 1 < NChan THEN AfterStream("cmp", chan + 1)
                        ELSE AfterStream("wait", 0)

-----------------------------------------------------------------------------
(* The user's setting: app_nvr.chsrc[ch] = *chsrc, without a lock.          *)

Set(i, v) ==
    /\ ~TornCopy
    /\ Tick("sets")
    /\ cfg' = [cfg EXCEPT ![i] = v]
    /\ UNCHANGED <<connVars, writing, mng, onvif, slotVars, taskVars, netVars,
                   srvVars, stray>>

\* The same copy in two steps, between which the task can run.
SetBegin(i, v) ==
    /\ TornCopy /\ writing = <<>>
    /\ Tick("sets")
    /\ writing' = <<i, v>>
    /\ cfg' = [cfg EXCEPT ![i] = WithChoice(@, v.en, v.host)]
    /\ UNCHANGED <<connVars, mng, onvif, slotVars, taskVars, netVars, srvVars,
                   stray>>

SetEnd ==
    /\ writing # <<>>
    /\ cfg' = [cfg EXCEPT ![writing[1]] = WithUrls(@, writing[2].st)]
    /\ writing' = <<>>
    /\ UNCHANGED <<connVars, mng, onvif, slotVars, taskVars, netVars, srvVars,
                   stray, count>>

-----------------------------------------------------------------------------
(* The live task: a pass over the channels *)

\* pthread_cond_timedwait returns, after at most three seconds.
Wake ==
    /\ pc = "wait"
    /\ GoTo("cmp", 0, 0)
    /\ UNCHANGED <<connVars, cfgVars, mng, onvif, slotVars, netVars, srvVars,
                   stray, count>>

Compare ==
    /\ pc = "cmp"
    /\ GoTo(IF mng[chan] # cfg[chan] THEN "close" ELSE "onvif", chan, 0)
    /\ UNCHANGED <<connVars, cfgVars, mng, onvif, slotVars, netVars, srvVars,
                   stray, count>>

\* Mutant: the url comes from the new configuration.
CloseUrlWanted == UrlOf(cfg[chan], strm)

\* The url a C_CLOSE names: whatever gmng.chsrc has for the stream now.
CloseUrl == UrlOf(mng[chan], strm)

CloseSkip ==
    /\ pc = "close" /\ ~rtsp[Slot]
    /\ NextClose
    /\ UNCHANGED <<connVars, cfgVars, mng, onvif, slotVars, netVars, srvVars,
                   stray, count>>

CloseSend ==
    /\ pc = "close" /\ rtsp[Slot] /\ call = NoCall
    /\ CloseUrl # None
    /\ call' = [NoCall EXCEPT !.op = "close", !.url = CloseUrl,
                             !.mine = ref[Slot] = CloseUrl]
    /\ stray' = [stray EXCEPT ![CloseUrl] = @ \/ ref[Slot] # CloseUrl]
    /\ ref' = [ref EXCEPT ![Slot] = None]
    /\ UNCHANGED <<connVars, cfgVars, mng, onvif, rtsp, shmid, taskVars,
                   lateOpen, lateClose, srvVars, count>>

\* rtsps refuses a C_CLOSE with an empty name; the flag is cleared anyway.
CloseBlank ==
    /\ pc = "close" /\ rtsp[Slot] /\ call = NoCall
    /\ CloseUrl = None
    /\ rtsp' = [rtsp EXCEPT ![Slot] = FALSE]
    /\ ref' = [ref EXCEPT ![Slot] = None]
    /\ NextClose
    /\ UNCHANGED <<connVars, cfgVars, mng, onvif, shmid, netVars, srvVars,
                   stray, count>>

CloseDone ==
    /\ call.op = "close" /\ call.done
    /\ call' = NoCall
    /\ rtsp' = [rtsp EXCEPT ![Slot] = FALSE]
    /\ NextClose
    /\ UNCHANGED <<connVars, cfgVars, mng, onvif, shmid, ref, lateOpen,
                   lateClose, srvVars, stray, count>>

CloseTimeout ==
    /\ call.op = "close"
    /\ Tick("timeouts")
    /\ call' = NoCall
    /\ lateClose' = IF call.done THEN lateClose
                    ELSE [lateClose EXCEPT ![call.url] = @ + 1]
    /\ rtsp' = [rtsp EXCEPT ![Slot] = FALSE]
    /\ NextClose
    /\ UNCHANGED <<connVars, cfgVars, mng, onvif, shmid, ref, lateOpen,
                   srvVars, stray>>

\* C_CLOSE to the onvif process, whose answer is ignored.
CloseOnvif ==
    /\ pc = "closeOnvif"
    /\ onvif' = [onvif EXCEPT ![chan] = FALSE]
    /\ GoTo("copy", chan, 0)
    /\ UNCHANGED <<connVars, cfgVars, mng, slotVars, netVars, srvVars, stray,
                   count>>

\* Mutant: the identifiers of the old streams stay published.
CopyKeeps ==
    /\ pc = "copy"
    /\ mng' = [mng EXCEPT ![chan] = cfg[chan]]
    /\ GoTo("onvif", chan, 0)
    /\ UNCHANGED <<connVars, cfgVars, onvif, slotVars, netVars, srvVars, stray,
                   count>>

Copy ==
    /\ pc = "copy"
    /\ mng' = [mng EXCEPT ![chan] = cfg[chan]]
    /\ shmid' = [x \in Slots |-> IF x[1] = chan THEN None ELSE shmid[x]]
    /\ GoTo("onvif", chan, 0)
    /\ UNCHANGED <<connVars, cfgVars, onvif, rtsp, ref, netVars, srvVars,
                   stray, count>>

NeedsOnvif == mng[chan].en /\ HostOf(mng[chan]) # None /\ ~onvif[chan]

OnvifSkip ==
    /\ pc = "onvif" /\ ~NeedsOnvif
    /\ GoTo("open", chan, 0)
    /\ UNCHANGED <<connVars, cfgVars, mng, onvif, slotVars, netVars, srvVars,
                   stray, count>>

OnvifSend ==
    /\ pc = "onvif" /\ NeedsOnvif
    /\ ohost' = HostOf(mng[chan])
    /\ pc' = "onvifCall"
    /\ UNCHANGED <<connVars, cfgVars, mng, onvif, slotVars, chan, strm, netVars,
                   srvVars, stray, count>>

\* No answer within six seconds, or an error.
OnvifFails ==
    /\ pc = "onvifCall"
    /\ pc' = "open" /\ ohost' = None
    /\ UNCHANGED <<connVars, cfgVars, mng, onvif, slotVars, chan, strm, netVars,
                   srvVars, stray, count>>

\* The camera's urls go to gmng.chsrc; the lock is not held yet.
OnvifGot ==
    /\ pc = "onvifCall"
    /\ \E m \in Media[ohost] :
          mng' = [mng EXCEPT ![chan] = WithUrls(@, m)]
    /\ onvif' = [onvif EXCEPT ![chan] = TRUE]
    /\ pc' = "writeBack" /\ ohost' = None
    /\ UNCHANGED <<connVars, cfgVars, slotVars, chan, strm, netVars, srvVars,
                   stray, count>>

\* Mutant: what the camera reported stays with the task.
WriteBackForgotten ==
    /\ pc = "writeBack"
    /\ GoTo("open", chan, 0)
    /\ UNCHANGED <<connVars, cfgVars, mng, onvif, slotVars, netVars, srvVars,
                   stray, count>>

\* app_nvr.chsrc[i] = gmng.chsrc[i], under the mutex.
WriteBack ==
    /\ pc = "writeBack"
    /\ cfg' = [cfg EXCEPT ![chan] = mng[chan]]
    /\ GoTo("open", chan, 0)
    /\ UNCHANGED <<connVars, writing, mng, onvif, slotVars, netVars, srvVars,
                   stray, count>>

NeedsOpen == mng[chan].en /\ UrlOf(mng[chan], strm) # None /\ ~rtsp[Slot]

OpenSkip ==
    /\ pc = "open" /\ call = NoCall /\ ~NeedsOpen
    /\ NextOpen
    /\ UNCHANGED <<connVars, cfgVars, mng, onvif, slotVars, netVars, srvVars,
                   stray, count>>

OpenSend ==
    /\ pc = "open" /\ call = NoCall /\ NeedsOpen
    /\ call' = [NoCall EXCEPT !.op = "open", !.url = UrlOf(mng[chan], strm)]
    /\ UNCHANGED <<connVars, cfgVars, mng, onvif, slotVars, taskVars, lateOpen,
                   lateClose, srvVars, stray, count>>

\* Mutant: the flag of the slot is not set.
OpenDoneUnmarked ==
    /\ call.op = "open" /\ call.done
    /\ call' = NoCall
    /\ shmid' = [shmid EXCEPT ![Slot] = call.shm]
    /\ ref' = [ref EXCEPT ![Slot] = IF call.mine THEN call.url ELSE None]
    /\ NextOpen
    /\ UNCHANGED <<connVars, cfgVars, mng, onvif, rtsp, lateOpen, lateClose,
                   srvVars, stray, count>>

OpenDone ==
    /\ call.op = "open" /\ call.done
    /\ call' = NoCall
    /\ rtsp' = [rtsp EXCEPT ![Slot] = TRUE]
    /\ shmid' = [shmid EXCEPT ![Slot] = call.shm]
    /\ ref' = [ref EXCEPT ![Slot] = IF call.mine THEN call.url ELSE None]
    /\ NextOpen
    /\ UNCHANGED <<connVars, cfgVars, mng, onvif, lateOpen, lateClose, srvVars,
                   stray, count>>

\* The stream stays closed; the next pass asks again.
OpenTimeout ==
    /\ call.op = "open"
    /\ Tick("timeouts")
    /\ call' = NoCall
    /\ lateOpen' = IF call.done THEN lateOpen
                   ELSE [lateOpen EXCEPT ![call.url] = @ + 1]
    /\ NextOpen
    /\ UNCHANGED <<connVars, cfgVars, mng, onvif, slotVars, lateClose, srvVars,
                   stray>>

Task ==
    \/ Wake \/ Compare
    \/ CloseSkip \/ CloseSend \/ CloseBlank \/ CloseDone
    \/ CloseOnvif \/ Copy
    \/ OnvifSkip \/ OnvifSend \/ OnvifFails \/ OnvifGot \/ WriteBack
    \/ OpenSkip \/ OpenSend \/ OpenDone

-----------------------------------------------------------------------------
(* rtsps: the coroutine handle_ctl behind the workers of the endpoint *)

Known == {shmid[x] : x \in Slots} \cup {call.shm}

NothingLate == \A u \in Urls : lateOpen[u] = 0 /\ lateClose[u] = 0

HandleOpen ==
    /\ srv = "up" /\ call.op = "open" /\ ~call.done
    /\ InOrder => NothingLate
    /\ \E m \in Shms :
          /\ ConnCtxOpen(call.url, m, Known)
          /\ call' = [call EXCEPT !.done = TRUE, !.shm = m, !.mine = TRUE]
    /\ UNCHANGED <<cfgVars, mng, onvif, slotVars, taskVars, lateOpen, lateClose,
                   srvVars, stray, count>>

HandleClose ==
    /\ srv = "up" /\ call.op = "close" /\ ~call.done
    /\ InOrder => NothingLate
    /\ ConnCtxClose(call.url)
    /\ call' = [call EXCEPT !.done = TRUE, !.mine = FALSE]
    /\ UNCHANGED <<cfgVars, mng, onvif, slotVars, taskVars, lateOpen, lateClose,
                   srvVars, stray, count>>

HandleLateOpen(u) ==
    /\ srv = "up" /\ lateOpen[u] > 0
    /\ \E m \in Shms : ConnCtxOpen(u, m, Known)
    /\ lateOpen' = [lateOpen EXCEPT ![u] = @ - 1]
    /\ UNCHANGED <<cfgVars, mng, onvif, slotVars, taskVars, call, lateClose,
                   srvVars, stray, count>>

HandleLateClose(u) ==
    /\ srv = "up" /\ lateClose[u] > 0
    /\ ConnCtxClose(u)
    /\ lateClose' = [lateClose EXCEPT ![u] = @ - 1]
    /\ UNCHANGED <<cfgVars, mng, onvif, slotVars, taskVars, call, lateOpen,
                   srvVars, stray, count>>

\* A request whose caller has gone is dropped on its way.
LateLost(u) ==
    /\ \/ /\ lateOpen[u] > 0
          /\ lateOpen' = [lateOpen EXCEPT ![u] = @ - 1]
          /\ UNCHANGED lateClose
       \/ /\ lateClose[u] > 0
          /\ lateClose' = [lateClose EXCEPT ![u] = @ - 1]
          /\ UNCHANGED lateOpen
    /\ UNCHANGED <<connVars, cfgVars, mng, onvif, slotVars, taskVars, call,
                   srvVars, stray, count>>

-----------------------------------------------------------------------------
(* Processes stop and start *)

RtspsStops ==
    /\ srv # "down"
    /\ Tick("stops")
    /\ ConnLost
    /\ srv' = "down"
    /\ call' = [call EXCEPT !.mine = FALSE]
    /\ lateOpen' = [u \in Urls |-> 0]
    /\ lateClose' = [u \in Urls |-> 0]
    /\ ref' = [x \in Slots |-> None]
    /\ stray' = [u \in Urls |-> call.op = "close" /\ ~call.done /\ call.url = u]
    /\ UNCHANGED <<cfgVars, mng, onvif, rtsp, shmid, taskVars, event>>

RtspsRegisters ==
    /\ srv = "down"
    /\ srv' = "reg" /\ event' = TRUE
    /\ UNCHANGED <<connVars, cfgVars, mng, onvif, slotVars, taskVars, netVars,
                   stray, count>>

RtspsListens ==
    /\ srv = "reg"
    /\ srv' = "up"
    /\ UNCHANGED <<connVars, cfgVars, mng, onvif, slotVars, taskVars, netVars,
                   event, stray, count>>

\* Mutant: the event is not handled.
LiveClearRtspIgnored ==
    /\ event
    /\ event' = FALSE
    /\ UNCHANGED <<connVars, cfgVars, mng, onvif, slotVars, taskVars, netVars,
                   srv, stray, count>>

\* sub_recv of the app, on the event.
LiveClearRtsp ==
    /\ event
    /\ event' = FALSE
    /\ mng' = [i \in Chans |-> CutUrls(mng[i])]
    /\ UNCHANGED <<connVars, cfgVars, onvif, slotVars, taskVars, netVars, srv,
                   stray, count>>

\* The same for the onvif process, whenever that one has registered.
LiveClearOnvif ==
    /\ Tick("onvifRegs")
    /\ mng' = [i \in Chans |-> CutHost(mng[i])]
    /\ UNCHANGED <<connVars, cfgVars, onvif, slotVars, taskVars, netVars,
                   srvVars, stray>>

-----------------------------------------------------------------------------
Rtsps ==
    \/ HandleOpen \/ HandleClose
    \/ \E u \in Urls : HandleLateOpen(u) \/ HandleLateClose(u) \/ LateLost(u)
    \/ RtspsRegisters \/ RtspsListens

Next ==
    \/ \E i \in Chans, v \in Settings : Set(i, v) \/ SetBegin(i, v)
    \/ SetEnd
    \/ Task
    \/ CloseTimeout \/ OpenTimeout
    \/ Rtsps
    \/ RtspsStops
    \/ LiveClearRtsp \/ LiveClearOnvif

Spec == Init /\ [][Next]_vars

(* The live task loops forever (while(1), nvr_live.c:121) and handle_ctl    *)
(* serves what is in its socket (while(1), rtsp-st.c:724).  A thread that   *)
(* has begun to copy a struct finishes, and the subscriber thread of the    *)
(* app handles an event it was sent.  A stopped rtsps is started again by   *)
(* its environment: that is what the app's handler of MOD_REG is for.       *)
(* Nothing is assumed of users, timeouts, stops, or a camera's answers.     *)
Fairness ==
    /\ WF_vars(Task) /\ WF_vars(Rtsps)
    /\ WF_vars(SetEnd) /\ WF_vars(LiveClearRtsp)

FairSpec == Spec /\ Fairness

-----------------------------------------------------------------------------
(* Properties *)

CfgType ==
    /\ cfg \in [Chans -> ChSrc] /\ mng \in [Chans -> ChSrc]
    /\ writing \in {<<>>} \cup (Chans \X Settings)
SlotType ==
    /\ rtsp \in [Slots -> BOOLEAN]
    /\ shmid \in [Slots -> Shms \cup {None}]
    /\ ref \in [Slots -> Urls \cup {None}]
TaskType ==
    /\ pc \in {"wait", "cmp", "close", "closeOnvif", "copy", "onvif",
               "onvifCall", "writeBack", "open"}
    /\ chan \in Chans /\ strm \in Streams
    /\ ohost \in Hosts \cup {None} /\ (pc = "onvifCall" => ohost # None)
NetType ==
    /\ call \in Calls
    /\ lateOpen \in [Urls -> Nat] /\ lateClose \in [Urls -> Nat]
RestType ==
    /\ onvif \in [Chans -> BOOLEAN]
    /\ srv \in {"up", "reg", "down"} /\ event \in BOOLEAN
    /\ stray \in [Urls -> BOOLEAN]
    /\ count \in [DOMAIN Bounds -> Nat]
TypeOK == ConnType /\ CfgType /\ SlotType /\ TaskType /\ NetType /\ RestType

\* References that will be given back or are in use: the slots that hold
\* one, the outstanding call, and C_CLOSE requests that may still be served.
HoldersOf(u) == {x \in Slots : ref[x] = u}
InCall(u) ==
    IF /\ call.url = u /\ call.mine
       /\ call.op = IF call.done THEN "open" ELSE "close"
      THEN 1 ELSE 0
Claims(u) == Cardinality(HoldersOf(u)) + InCall(u) + lateClose[u]

\* However calls, timeouts, late requests, restarts of rtsps and events
\* interleave, the table counts at least the references that are in use,
\* as long as no C_CLOSE for a url was sent by a slot without a reference.
RefsCover == \A u \in Urls : stray[u] \/ refcnt[u] >= Claims(u)

\* What live_get_shmid gives to the display is the identifier of the fifo
\* that the stream of the slot is written to now, with three exceptions.  The
\* task is closing the channel: C_CLOSE frees the fifo, the identifier goes
\* with the copy of the setting.  rtsps has stopped, and the channel was not
\* copied since the app was told.  Or a C_CLOSE that no reference was held for
\* took the fifo away.
Fifo(x) ==
    LET u == UrlOf(mng[x[1]], x[2])
    IN u # None /\ refcnt[u] > 0 /\ shmid[x] = shm[u]
BeingClosed(x) == pc \in {"close", "closeOnvif", "copy"} /\ x[1] = chan
Outlived(x) == srv # "up" \/ event \/ "st" \in mng[x[1]].cut
TakenAway(x) == ref[x] # None /\ stray[ref[x]]
PublishedLive ==
    \A x \in Slots : shmid[x] # None =>
        Fifo(x) \/ BeingClosed(x) \/ Outlived(x) \/ TakenAway(x)

\* Where the task stands: it has at most the call of its step outstanding,
\* for the slot it is at, and a channel it has left the closing of is closed.
TaskOK ==
    /\ \A x \in Slots : ref[x] # None => rtsp[x]
    /\ call.op = "none" => call = NoCall
    /\ call.op = "close" =>
          pc = "close" /\ call.url # None /\ rtsp[Slot] /\ ref[Slot] = None
    /\ call.op = "open" => pc = "open" /\ call.url # None /\ ~rtsp[Slot]
    /\ pc = "close" => \A s \in Streams : s < strm => ~rtsp[<<chan, s>>]
    /\ pc \in {"closeOnvif", "copy"} => \A s \in Streams : ~rtsp[<<chan, s>>]

\* A C_CLOSE without a reference makes its url stray; an entry has fifos as
\* long as it is counted; an answered C_OPEN names the fifos of its entry.
CallOK ==
    /\ call.op = "close" /\ ~call.done /\ ~call.mine => stray[call.url]
    /\ \A u \in Urls : refcnt[u] = 0 <=> shm[u] = None
    /\ call.op = "open" /\ call.done /\ call.mine /\ ~stray[call.url] =>
          call.shm = shm[call.url]

\* A slot with a reference has the identifier of that entry; what is
\* published of a slot that gave its reference back is not its matter.
HeldShmLive ==
    \A x \in Slots : ref[x] # None /\ ~stray[ref[x]] =>
        /\ refcnt[ref[x]] > 0
        /\ shmid[x] # None /\ shmid[x] = shm[ref[x]]

\* The inductive invariant of RefsCover, on which PublishedLive rests too.
IInv == TypeOK /\ TaskOK /\ CallOK /\ RefsCover /\ HeldShmLive

\* What the task closes is what it had opened: no C_CLOSE goes out under a
\* url the slot has no reference to, while the camera's urls are fixed and
\* rtsps has not stopped, whatever users set meanwhile.
Unstopped == count["stops"] = 0
NoStray == Unstopped => \A u \in Urls : ~stray[u]

\* At most one reference is lost per call that timed out: before rtsps stops
\* the table counts no more than the slots and the call under way have, and
\* one for each timeout, however late requests are served or dropped.
LeakBound ==
    Unstopped => \A u \in Urls :
        refcnt[u] <= Cardinality(HoldersOf(u)) + InCall(u) + count["timeouts"]

\* Without timeouts and restarts no reference is lost either.
RefsTight == \A u \in Urls : refcnt[u] = Claims(u)

\* The table in rtsps and the task together implement SharedRes, without
\* timeouts and restarts: C_OPEN and C_CLOSE carry a use of a url between the
\* table and one slot, and whatever is opened and closed meanwhile, the pull
\* ends only with the last use.  Caller, a pair that is no slot, is the task
\* while its call has the use in hand.
Caller == <<NChan, 0>>
Using(u) == HoldersOf(u) \cup IF InCall(u) = 1 THEN {Caller} ELSE {}
UsersOf == [u \in Urls |-> Using(u)]
Pulled == {u \in Urls : refcnt[u] > 0}
Pull == INSTANCE SharedRes WITH
    Res <- Urls, Users <- Slots \cup {Caller},
    avail <- Pulled, users <- UsersOf
PullSpec == Pull!Spec

\* A write of the task to app_nvr.chsrc leaves the user's choice of a
\* camera, and whether it is enabled, as the user made it.
UserChoiceKept ==
    [][pc = "writeBack" /\ pc' = "open" =>
          /\ cfg'[chan].en = cfg[chan].en
          /\ HostOf(cfg'[chan]) = HostOf(cfg[chan])]_vars

\* Slot x shows what the configuration wants.
Shows(x) ==
    LET c == cfg[x[1]]
        u == UrlOf(c, x[2])
    IN IF c.en /\ u # None
         THEN rtsp[x] /\ ref[x] = u /\ refcnt[u] > 0 /\ shmid[x] = shm[u]
         ELSE ~rtsp[x] /\ shmid[x] = None

\* After the last setting, timeout and restart every slot comes to show what
\* the configuration wants, and stays so.
Converges == <>[](\A x \in Slots : Shows(x))
=============================================================================
