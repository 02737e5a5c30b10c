--------------------------- MODULE NvrShm_proofs ----------------------------
(***************************************************************************)
(* Proofs about the identifiers the live task publishes for the display    *)
(* (gmng.shmid, live_get_shmid in nvr_live.c): they are those of the fifos *)
(* the streams are written to, first until rtsps stops, then also over any *)
(* number of its restarts, for channels without a camera.                  *)
(***************************************************************************)
EXTENDS NvrLive_proofs

-----------------------------------------------------------------------------
(* Whatever happens: a slot that is not open publishes nothing, except      *)
(* while its channel is being closed                                        *)

Closing == {"close", "closeOnvif", "copy"}
PublishedOpen == \A x \in Slots : shmid[x] # None => rtsp[x] \/ BeingClosed(x)

\* Steps that leave the slots and the closing of a channel alone.
LEMMA SlotsKept ==
    ASSUME PublishedOpen, UNCHANGED <<rtsp, shmid>>,
           pc \in Closing => pc' \in Closing /\ chan' = chan
    PROVE  PublishedOpen'
BY DEF PublishedOpen, BeingClosed, Closing

\* A stream that is closed belongs to the channel that is being closed.
LEMMA ClosedPublished ==
    ASSUME TypeOK, TaskOK, PublishedOpen,
           CloseBlank \/ CloseDone \/ CloseTimeout
    PROVE  PublishedOpen'
<1>1. pc = "close" /\ pc' \in Closing /\ chan' = chan /\ shmid' = shmid
  BY NextCloseMoves
  DEF Closing, TaskOK, CloseBlank, CloseDone, CloseTimeout
<1>2. \A x \in Slots : rtsp[x] => rtsp'[x] \/ x = Slot
  BY DEF CloseBlank, CloseDone, CloseTimeout, TypeOK, SlotType
<1> QED
  BY <1>1, <1>2 DEF PublishedOpen, BeingClosed, Closing, Slot

\* The copy takes back what the channel had published.
LEMMA CopyPublished ==
    ASSUME PublishedOpen, Copy
    PROVE  PublishedOpen'
BY DEF PublishedOpen, BeingClosed, Copy, GoTo

\* An answered C_OPEN publishes what it opens.
LEMMA OpenPublished ==
    ASSUME TypeOK, TaskOK, PublishedOpen, OpenDone
    PROVE  PublishedOpen'
<1>1. pc = "open"
  BY DEF TaskOK, OpenDone
<1>2. \A x \in Slots : \/ rtsp'[x]
                       \/ rtsp'[x] = rtsp[x] /\ shmid'[x] = shmid[x]
  BY DEF OpenDone, TypeOK, SlotType
<1> QED
  BY <1>1, <1>2 DEF PublishedOpen, BeingClosed

\* The other steps of the task.
LEMMA TaskPublished ==
    ASSUME TypeOK, TaskOK, PublishedOpen,
           \/ Wake \/ Compare \/ CloseSkip \/ CloseSend \/ CloseOnvif
           \/ OnvifSkip \/ OnvifSend \/ OnvifFails \/ OnvifGot \/ WriteBack
           \/ OpenSkip \/ OpenSend \/ OpenTimeout
    PROVE  PublishedOpen'
<1>1. UNCHANGED <<rtsp, shmid>>
  BY DEF Wake, Compare, CloseSkip, CloseSend, CloseOnvif, OnvifSkip, OnvifSend,
     OnvifFails, OnvifGot, WriteBack, OpenSkip, OpenSend, OpenTimeout, slotVars
<1>2. CASE CloseSkip
  BY <1>1, <1>2, NextCloseMoves, SlotsKept DEF Closing, CloseSkip
<1>3. CASE CloseSend \/ CloseOnvif
  BY <1>1, <1>3, SlotsKept DEF Closing, CloseSend, CloseOnvif, taskVars, GoTo
<1>4. CASE \/ Wake \/ Compare \/ OnvifSkip \/ OnvifSend \/ OnvifFails
           \/ OnvifGot \/ WriteBack \/ OpenSkip \/ OpenSend \/ OpenTimeout
  <2>1. pc \notin Closing
    BY <1>4
    DEF Closing, TaskOK, Wake, Compare, OnvifSkip, OnvifSend, OnvifFails,
        OnvifGot, WriteBack, OpenSkip, OpenSend, OpenTimeout
  <2> QED
    BY <1>1, <2>1, SlotsKept
<1> QED
  BY <1>2, <1>3, <1>4

\* Every step.
LEMMA NextPublished ==
    ASSUME TypeOK, TaskOK, PublishedOpen, [Next]_vars
    PROVE  PublishedOpen'
<1>1. CASE UNCHANGED vars
  BY <1>1, SlotsKept DEF vars
<1>2. ASSUME \/ SetEnd
             \/ \E i \in Chans, v \in Settings : Set(i, v) \/ SetBegin(i, v)
      PROVE  PublishedOpen'
  BY <1>2, SlotsKept DEF Set, SetBegin, SetEnd, slotVars, taskVars
<1>3. CASE Task \/ CloseTimeout \/ OpenTimeout
  BY <1>3, ClosedPublished, CopyPublished, OpenPublished, TaskPublished
  DEF Task
<1>4. CASE Rtsps
  BY <1>4, SlotsKept
  DEF Rtsps, HandleOpen, HandleClose, HandleLateOpen, HandleLateClose,
      LateLost, RtspsRegisters, RtspsListens, slotVars, taskVars
<1>5. CASE RtspsStops \/ LiveClearRtsp \/ LiveClearOnvif
  BY <1>5, SlotsKept
  DEF RtspsStops, LiveClearRtsp, LiveClearOnvif, slotVars, taskVars
<1> QED
  BY <1>1, <1>2, <1>3, <1>4, <1>5 DEF Next

\* A slot that is not open publishes nothing, or is being closed.
LEMMA PublishedAlways == Spec => [](IInv /\ PublishedOpen)
<1>1. Init => PublishedOpen
  BY DEF Init, PublishedOpen
<1>2. IInv /\ PublishedOpen /\ [Next]_vars => PublishedOpen'
  BY NextPublished DEF IInv
<1> QED
  BY <1>1, <1>2, Invariance, PTL DEF Spec

-----------------------------------------------------------------------------
(* Until rtsps stops *)

\* A slot whose reference is the url of its channel publishes that fifo.
LEMMA FifoOfRef ==
    ASSUME IInv, NEW x \in Slots, "st" \notin mng[x[1]].cut,
           ref[x] = UrlAt(x), ref[x] # None, ~TakenAway(x)
    PROVE  Fifo(x)
BY DEF IInv, HeldShmLive, TakenAway, Fifo, UrlAt, UrlOf

\* Under Steady the reference of every open slot is that url.
LEMMA SteadyPublished ==
    ASSUME IInv, SteadyInv, PublishedOpen
    PROVE  PublishedLive
<1> SUFFICES ASSUME NEW x \in Slots, shmid[x] # None, ~BeingClosed(x),
                    ~TakenAway(x)
             PROVE  Fifo(x)
  BY DEF PublishedLive
<1>1. rtsp[x] /\ ~(call.op = "close" /\ x = Slot)
  BY DEF PublishedOpen, BeingClosed, IInv, TaskOK, Slot
<1>2. ref[x] = UrlAt(x) /\ ref[x] # None /\ "st" \notin mng[x[1]].cut
  BY <1>1 DEF SteadyInv, Fits, Slots
<1> QED
  BY <1>2, FifoOfRef

\* Until rtsps stops, whatever users set, however many C_OPEN and C_CLOSE
\* time out or are served late and in any order: what live_get_shmid
\* (nvr_live.c:81) gives to the display is the fifo its stream is written to,
\* except while the task closes the channel, until its copy (135 to 174).
THEOREM FifosPublished ==
    ASSUME Steady
    PROVE  Spec => [](Unstopped => PublishedLive)
<1>1. IInv /\ PublishedOpen /\ SteadyHolds => (Unstopped => PublishedLive)
  BY SteadyPublished DEF SteadyHolds
<1> QED
  BY <1>1, PublishedAlways, SteadyAlways, PTL

-----------------------------------------------------------------------------
(* Channels without a camera: over any number of restarts of rtsps          *)

\* The user names the streams, no camera does.
NoCameras == \A v \in Settings : v.host = None /\ "st" \notin v.cut

\* The references of a slot are void: rtsps is down, or its event is on the
\* way, or the event has blanked the urls and they were not copied yet.
Void(x) == srv = "down" \/ event \/ "st" \in mng[x[1]].cut

\* What the task has never touches a camera.
Sources ==
    /\ \A i \in Chans :
          cfg[i].host = None /\ mng[i].host = None /\ "st" \notin cfg[i].cut
    /\ pc \notin {"onvifCall", "writeBack"}

\* An open slot has urls that an event blanks, and its reference under the
\* url of its channel, unless that one is void or being given back.
OpenHeld ==
    \A x \in Slots : rtsp[x] =>
        /\ mng[x[1]].st # Blank
        /\ ~Void(x) /\ ~(call.op = "close" /\ x = Slot) =>
              ref[x] # None /\ ref[x] = UrlAt(x)

\* A C_OPEN under way is for the url of its slot and brings its reference,
\* unless that one is void.
OpenCalled ==
    call.op = "open" =>
        /\ mng[chan].st # Blank
        /\ ~Void(Slot) => call.url = UrlAt(Slot) /\ (call.done => call.mine)

PlainInv == Sources /\ OpenHeld /\ OpenCalled

\* At the start nothing is open.
LEMMA PlainInit ==
    ASSUME NoCameras, Init
    PROVE  PlainInv
BY DEF NoCameras, Init, PlainInv, Sources, OpenHeld, OpenCalled, NoSrc, NoCall

\* Users name urls; the task is not concerned before it compares.
LEMMA SetPlain ==
    ASSUME NoCameras, TypeOK, PlainInv,
           \/ SetEnd
           \/ \E i \in Chans, v \in Settings : Set(i, v) \/ SetBegin(i, v)
    PROVE  PlainInv'
<1>1. UNCHANGED <<mng, rtsp, ref, call, srv, event, pc, chan, strm>>
  BY DEF Set, SetBegin, SetEnd, slotVars, taskVars, netVars, srvVars
<1>2. ASSUME NEW i \in Chans, NEW v \in Settings, Set(i, v)
      PROVE  Sources'
  BY <1>1, <1>2 DEF NoCameras, PlainInv, Sources, TypeOK, CfgType, Set
<1>3. ASSUME NEW i \in Chans, NEW v \in Settings, SetBegin(i, v)
      PROVE  Sources'
  <2>1. v.host = None /\ cfg[i] \in ChSrc
    BY DEF NoCameras, TypeOK, CfgType
  <2>2. /\ WithChoice(cfg[i], v.en, v.host).host = None
        /\ "st" \notin WithChoice(cfg[i], v.en, v.host).cut
    BY <2>1 DEF WithChoice, ChSrc, PlainInv, Sources
  <2> QED
    BY <1>1, <1>3, <2>2 DEF PlainInv, Sources, TypeOK, CfgType, SetBegin
<1>4. ASSUME SetEnd
      PROVE  Sources'
  <2> DEFINE i == writing[1]
             s == writing[2].st
  <2>1. i \in Chans /\ cfg[i] \in ChSrc
    BY <1>4 DEF TypeOK, CfgType, SetEnd
  <2>2. /\ WithUrls(cfg[i], s).host = None
        /\ "st" \notin WithUrls(cfg[i], s).cut
    BY <2>1 DEF WithUrls, ChSrc, PlainInv, Sources
  <2>3. cfg' = [cfg EXCEPT ![i] = WithUrls(@, s)]
    BY <1>4 DEF SetEnd
  <2> QED
    BY <1>1, <2>1, <2>2, <2>3 DEF PlainInv, Sources, TypeOK, CfgType
<1> QED
  BY <1>1, <1>2, <1>3, <1>4
  DEF PlainInv, OpenHeld, OpenCalled, Void, UrlAt, Slot

\* No camera is asked.
LEMMA NoneAsked ==
    ASSUME TypeOK, PlainInv
    PROVE  ~OnvifSend /\ ~OnvifFails /\ ~OnvifGot /\ ~WriteBack
BY DEF TypeOK, TaskType, PlainInv, Sources, OnvifSend, NeedsOnvif, HostOf,
   OnvifFails, OnvifGot, WriteBack

\* Steps of the task that change where it is and nothing else.
LEMMA MovePlain ==
    ASSUME TypeOK, TaskOK, PlainInv,
           \/ Wake \/ Compare \/ CloseSkip \/ CloseOnvif \/ OnvifSkip
           \/ OpenSkip
    PROVE  PlainInv'
<1>1. UNCHANGED <<srv, event, cfg, mng, rtsp, ref, call>>
  BY DEF Wake, Compare, CloseSkip, CloseOnvif, OnvifSkip, OpenSkip, cfgVars,
     slotVars, netVars, srvVars
<1>2. call.op = "none"
  BY CallFields
  DEF TypeOK, NetType, TaskOK, Wake, Compare, CloseSkip, CloseOnvif, OnvifSkip,
      OpenSkip, NoCall
<1>3. pc' \notin {"onvifCall", "writeBack"}
  BY NextCloseMoves, NextOpenMoves
  DEF Wake, Compare, CloseSkip, CloseOnvif, OnvifSkip, OpenSkip, GoTo
<1> QED
  BY <1>1, <1>2, <1>3
  DEF PlainInv, Sources, OpenHeld, OpenCalled, Void, UrlAt

\* C_CLOSE gives the reference of the slot back.
LEMMA CloseSendPlain ==
    ASSUME TypeOK, PlainInv, CloseSend
    PROVE  PlainInv'
<1>1. /\ UNCHANGED <<srv, event, cfg, mng, rtsp, pc, chan, strm>>
      /\ call'.op = "close" /\ call.op = "none"
      /\ \A x \in Slots : x # Slot => ref'[x] = ref[x]
  BY DEF CloseSend, NoCall, cfgVars, taskVars, srvVars, TypeOK, SlotType
<1> QED
  BY <1>1 DEF PlainInv, Sources, OpenHeld, OpenCalled, Void, UrlAt, Slot

\* A C_CLOSE that is over leaves the slot closed.
LEMMA ClosedPlain ==
    ASSUME TypeOK, TaskOK, PlainInv, CloseBlank \/ CloseDone \/ CloseTimeout
    PROVE  PlainInv'
<1>1. /\ UNCHANGED <<srv, event, cfg, mng>>
      /\ call'.op = "none" /\ pc' \notin {"onvifCall", "writeBack"}
  BY NextCloseMoves
  DEF TaskOK, CloseBlank, CloseDone, CloseTimeout, NoCall, cfgVars, netVars,
      srvVars
<1>2. \A x \in Slots : rtsp'[x] => rtsp[x] /\ x # Slot /\ ref'[x] = ref[x]
  BY DEF CloseBlank, CloseDone, CloseTimeout, TypeOK, SlotType
<1> QED
  BY <1>1, <1>2 DEF PlainInv, Sources, OpenHeld, OpenCalled, Void, UrlAt

\* The channel that is copied has no open slot, and the copy is not blanked.
LEMMA CopyPlain ==
    ASSUME TypeOK, TaskOK, PlainInv, Copy
    PROVE  PlainInv'
<1>1. /\ UNCHANGED <<srv, event, cfg, rtsp, ref, call>>
      /\ pc' \notin {"onvifCall", "writeBack"} /\ call.op = "none"
  BY CallFields
  DEF TypeOK, NetType, TaskOK, Copy, GoTo, cfgVars, netVars, srvVars
<1>2. \A i \in Chans : mng'[i] = IF i = chan THEN cfg[i] ELSE mng[i]
  BY DEF Copy, TypeOK, CfgType
<1>3. \A x \in Slots : rtsp[x] => x[1] # chan /\ x[1] \in Chans
  BY DEF Copy, TaskOK, Slots
<1> QED
  BY <1>1, <1>2, <1>3
  DEF PlainInv, Sources, OpenHeld, OpenCalled, Void, UrlAt

\* C_OPEN is sent for the url of the slot, which is not blank.
LEMMA OpenSendPlain ==
    ASSUME TypeOK, PlainInv, OpenSend
    PROVE  PlainInv'
<1>1. UNCHANGED <<srv, event, cfg, mng, rtsp, ref, pc, chan, strm>>
  BY DEF OpenSend, cfgVars, slotVars, taskVars, srvVars
<1>2. call.op = "none" /\ call'.op = "open" /\ ~call'.done
  BY DEF OpenSend, NoCall
<1>3. call'.url = UrlAt(Slot) /\ UrlAt(Slot) # None
  BY DEF OpenSend, NeedsOpen, UrlOf, UrlAt, Slot, NoCall
<1>4. mng[chan].st # Blank
  BY <1>3 DEF UrlAt, Slot, Blank, TypeOK, TaskType
<1> QED
  BY <1>1, <1>2, <1>3, <1>4
  DEF PlainInv, Sources, OpenHeld, OpenCalled, Void, UrlAt, Slot

\* An answered C_OPEN, or one that is given up.
LEMMA OpenedPlain ==
    ASSUME TypeOK, TaskOK, PlainInv, OpenDone \/ OpenTimeout
    PROVE  PlainInv'
<1>1. /\ UNCHANGED <<srv, event, cfg, mng>>
      /\ call'.op = "none" /\ pc' \notin {"onvifCall", "writeBack"}
      /\ call.op = "open" /\ call.url # None
  BY NextOpenMoves
  DEF TaskOK, OpenDone, OpenTimeout, NoCall, cfgVars, srvVars
<1>2. \A x \in Slots :
        rtsp'[x] => \/ rtsp[x] /\ ref'[x] = ref[x]
                    \/ /\ x = Slot /\ call.done
                       /\ ref'[x] = IF call.mine THEN call.url ELSE None
  BY DEF OpenDone, OpenTimeout, TypeOK, SlotType, slotVars
<1>3. OpenHeld'
  <2> SUFFICES ASSUME NEW x \in Slots, rtsp'[x]
               PROVE  /\ mng'[x[1]].st # Blank
                      /\ ~Void(x)' => ref'[x] # None /\ ref'[x] = UrlAt(x)'
    BY DEF OpenHeld
  <2>1. Void(x)' = Void(x) /\ UrlAt(x)' = UrlAt(x)
    BY <1>1 DEF Void, UrlAt
  <2>2. CASE rtsp[x] /\ ref'[x] = ref[x]
    BY <1>1, <2>1, <2>2 DEF PlainInv, OpenHeld
  <2>3. CASE x = Slot /\ call.done
             /\ ref'[x] = IF call.mine THEN call.url ELSE None
    BY <1>1, <2>1, <2>3 DEF PlainInv, OpenCalled, Slot
  <2> QED
    BY <1>2, <2>2, <2>3
<1> QED
  BY <1>1, <1>3 DEF PlainInv, Sources, OpenCalled

\* rtsps answers: a C_OPEN brings a reference of the running table.
LEMMA HandledPlain ==
    ASSUME TypeOK, PlainInv, HandleOpen \/ HandleClose
    PROVE  PlainInv'
<1>1. UNCHANGED <<srv, event, cfg, mng, rtsp, ref, pc, chan, strm>>
  BY DEF HandleOpen, HandleClose, cfgVars, slotVars, taskVars, srvVars
<1>2. call'.op = call.op /\ call'.url = call.url
  BY Zenon DEF HandleOpen, HandleClose, TypeOK, NetType, Calls
<1>3. call.op = "open" => call'.mine
  <2> SUFFICES ASSUME call.op = "open" PROVE call'.mine
    OBVIOUS
  <2>1. HandleOpen
    BY DEF HandleClose
  <2>2. PICK m \in Shms :
            call' = [call EXCEPT !.done = TRUE, !.shm = m, !.mine = TRUE]
    BY <2>1, Zenon DEF HandleOpen
  <2> QED
    BY <2>2 DEF TypeOK, NetType, Calls
<1> QED
  BY <1>1, <1>2, <1>3
  DEF PlainInv, Sources, OpenHeld, OpenCalled, Void, UrlAt, Slot

\* rtsps stops: every reference is void until its channel is copied again.
LEMMA StoppedPlain ==
    ASSUME TypeOK, PlainInv, RtspsStops \/ RtspsRegisters \/ RtspsListens
    PROVE  PlainInv'
<1>1. /\ UNCHANGED <<cfg, mng, rtsp, pc, chan, strm>>
      /\ call'.op = call.op
      /\ \A x \in Slots : Void(x) => Void(x)'
  BY DEF RtspsStops, RtspsRegisters, RtspsListens, cfgVars, slotVars, taskVars,
     netVars, Void, TypeOK, NetType, Calls
<1>2. \/ \A x \in Slots : Void(x)'
      \/ UNCHANGED <<ref, call>>
  BY DEF RtspsStops, RtspsListens, RtspsRegisters, slotVars, netVars, Void
<1> QED
  BY <1>1, <1>2, SlotIn
  DEF PlainInv, Sources, OpenHeld, OpenCalled, UrlAt, Slot

\* The event that ends it blanks the urls of every open channel.
LEMMA ClearedPlain ==
    ASSUME TypeOK, PlainInv, LiveClearRtsp
    PROVE  PlainInv'
<1>1. UNCHANGED <<srv, cfg, rtsp, ref, call, pc, chan, strm>>
  BY DEF LiveClearRtsp, cfgVars, slotVars, taskVars, netVars
<1>2. \A i \in Chans :
          /\ mng'[i].st = mng[i].st /\ mng'[i].host = mng[i].host
          /\ mng[i].st # Blank => "st" \in mng'[i].cut
  BY DEF LiveClearRtsp, CutUrls, TypeOK, CfgType, ChSrc
<1>3. chan \in Chans /\ Slot \in Slots /\ \A x \in Slots : x[1] \in Chans
  BY SlotIn DEF TypeOK, TaskType, Slots
<1>4. \A x \in Slots : mng[x[1]].st # Blank => Void(x)'
  BY <1>2, <1>3 DEF Void
<1> QED
  BY <1>1, <1>2, <1>3, <1>4
  DEF PlainInv, Sources, OpenHeld, OpenCalled, Slot

\* There is no host for onvif to blank; and requests nobody waits for.
LEMMA OtherPlain ==
    ASSUME TypeOK, PlainInv,
           \/ LiveClearOnvif
           \/ \E u \in Urls :
                 HandleLateOpen(u) \/ HandleLateClose(u) \/ LateLost(u)
    PROVE  PlainInv'
<1>1. UNCHANGED <<srv, event, cfg, rtsp, ref, call, pc, chan, strm>>
  BY DEF LiveClearOnvif, HandleLateOpen, HandleLateClose, LateLost, cfgVars,
     slotVars, taskVars, netVars, srvVars
<1>2. \A i \in Chans : mng'[i] = mng[i]
  BY DEF LiveClearOnvif, CutHost, HandleLateOpen, HandleLateClose, LateLost,
     PlainInv, Sources
<1>3. chan \in Chans /\ \A x \in Slots : x[1] \in Chans
  BY DEF TypeOK, TaskType, Slots
<1> QED
  BY <1>1, <1>2, <1>3
  DEF PlainInv, Sources, OpenHeld, OpenCalled, Void, UrlAt, Slot

\* Every step.
LEMMA NextPlain ==
    ASSUME NoCameras, TypeOK, TaskOK, PlainInv, [Next]_vars
    PROVE  PlainInv'
<1>1. CASE UNCHANGED vars
  BY <1>1
  DEF vars, PlainInv, Sources, OpenHeld, OpenCalled, Void, UrlAt, Slot
<1>2. ASSUME \/ SetEnd
             \/ \E i \in Chans, v \in Settings : Set(i, v) \/ SetBegin(i, v)
      PROVE  PlainInv'
  BY <1>2, SetPlain
<1>3. CASE Task \/ CloseTimeout \/ OpenTimeout
  BY <1>3, NoneAsked, MovePlain, CloseSendPlain, ClosedPlain, CopyPlain,
     OpenSendPlain, OpenedPlain
  DEF Task
<1>4. CASE Rtsps
  BY <1>4, HandledPlain, StoppedPlain, OtherPlain DEF Rtsps
<1>5. CASE RtspsStops \/ LiveClearRtsp \/ LiveClearOnvif
  BY <1>5, StoppedPlain, ClearedPlain, OtherPlain
<1> QED
  BY <1>1, <1>2, <1>3, <1>4, <1>5 DEF Next

\* A reference that is not void is that of the published identifier.
LEMMA PlainPublished ==
    ASSUME IInv, PlainInv, PublishedOpen
    PROVE  PublishedLive
<1> SUFFICES ASSUME NEW x \in Slots, shmid[x] # None, ~BeingClosed(x),
                    ~TakenAway(x), ~Outlived(x)
             PROVE  Fifo(x)
  BY DEF PublishedLive
<1>1. rtsp[x] /\ ~(call.op = "close" /\ x = Slot)
  BY DEF PublishedOpen, BeingClosed, IInv, TaskOK, Slot
<1>2. ref[x] = UrlAt(x) /\ ref[x] # None /\ "st" \notin mng[x[1]].cut
  BY <1>1 DEF PlainInv, OpenHeld, Void, Outlived
<1> QED
  BY <1>2, FifoOfRef

\* Over any number of restarts of rtsps, with whatever settings, timeouts and
\* late requests between them, the same holds for channels that name their
\* streams themselves: an identifier of the rtsps that is gone is given out
\* only until live_clear_rtsp was told of the new one and the channel is
\* copied (nvr_live.c:170 to 174).
THEOREM FifosRepublished ==
    ASSUME NoCameras
    PROVE  Spec => []PublishedLive
<1>1. Init => PlainInv
  BY PlainInit
<1>2. IInv /\ PlainInv /\ [Next]_vars => PlainInv'
  BY NextPlain DEF IInv
<1>3. IInv /\ PlainInv /\ PublishedOpen => PublishedLive
  BY PlainPublished
<1> QED
  BY <1>1, <1>2, <1>3, PublishedAlways, PTL DEF Spec
=============================================================================
