--------------------------- MODULE NvrPass_proofs ---------------------------
(***************************************************************************)
(* Proofs about the passes of the live task, for any number of channels,   *)
(* streams, urls, settings, timeouts and late requests: one calm pass      *)
(* makes every stream show what the configuration wants, and what shows it *)
(* stays.  As in NvrLive_proofs, cameras have fixed urls (Steady) and      *)
(* rtsps has not stopped yet (Unstopped).                                  *)
(***************************************************************************)
EXTENDS NvrPass, NvrLive_proofs

-----------------------------------------------------------------------------
(* What the task remembers of a slot *)

Closing == pc \in {"close", "closeOnvif", "copy"}

\* A slot that is marked open belongs to an enabled channel; one that is not
\* has no identifier, unless its channel is being closed.
SlotInv ==
    /\ \A x \in Slots : rtsp[x] => mng[x[1]].en
    /\ \A x \in Slots : ~rtsp[x] =>
          shmid[x] = None \/ (Closing /\ x[1] = chan)
    /\ call.op = "open" => mng[chan].en

\* A step that changes no slot, and does not leave the closing of a channel.
LEMMA SlotSame ==
    ASSUME SlotInv, UNCHANGED <<rtsp, shmid>>,
           \A i \in Chans : mng'[i].en = mng[i].en,
           Closing => Closing' /\ chan' = chan,
           call'.op = "open" =>
               call.op = "open" /\ chan' = chan /\ chan \in Chans
    PROVE  SlotInv'
<1>1. \A x \in Slots : mng'[x[1]].en = mng[x[1]].en
  BY DEF Slots
<1>2. \A x \in Slots : rtsp'[x] => mng'[x[1]].en
  BY <1>1 DEF SlotInv
<1>3. \A x \in Slots :
         ~rtsp'[x] => shmid'[x] = None \/ (Closing' /\ x[1] = chan')
  BY DEF SlotInv, Closing
<1>4. call'.op = "open" => mng'[chan'].en
  BY DEF SlotInv
<1> QED
  BY <1>2, <1>3, <1>4 DEF SlotInv

\* Steps that are not the task's.
LEMMA OthersSlot ==
    ASSUME TypeOK, SlotInv,
           \/ SetEnd \/ HandleOpen \/ HandleClose \/ LiveClearOnvif
           \/ \E i \in Chans, v \in Settings : Set(i, v) \/ SetBegin(i, v)
           \/ \E u \in Urls : \/ HandleLateOpen(u) \/ HandleLateClose(u)
                              \/ LateLost(u)
    PROVE  SlotInv'
<1>1. UNCHANGED <<rtsp, shmid, pc, chan>>
  BY DEF SetEnd, HandleOpen, HandleClose, LiveClearOnvif, Set, SetBegin,
     HandleLateOpen, HandleLateClose, LateLost, slotVars, taskVars
<1>2. \A i \in Chans : mng'[i].en = mng[i].en
  <2>1. CASE LiveClearOnvif
    BY <2>1 DEF LiveClearOnvif, CutHost, TypeOK, CfgType, ChSrc
  <2>2. CASE ~LiveClearOnvif
    BY <2>2 DEF SetEnd, HandleOpen, HandleClose, Set, SetBegin,
       HandleLateOpen, HandleLateClose, LateLost
  <2> QED
    BY <2>1, <2>2
<1>3. call'.op = call.op
  <2>1. CASE HandleOpen
    <3>1. PICK m \in Shms :
              call' = [call EXCEPT !.done = TRUE, !.shm = m, !.mine = TRUE]
      BY <2>1, Zenon DEF HandleOpen
    <3> QED
      BY <3>1 DEF TypeOK, NetType, Calls
  <2>2. CASE HandleClose
    BY <2>2 DEF HandleClose, TypeOK, NetType, Calls
  <2>3. CASE ~HandleOpen /\ ~HandleClose
    BY <2>3 DEF SetEnd, LiveClearOnvif, Set, SetBegin, HandleLateOpen,
       HandleLateClose, LateLost, netVars
  <2> QED
    BY <2>1, <2>2, <2>3
<1>4. chan \in Chans
  BY DEF TypeOK, TaskType
<1> QED
  BY <1>1, <1>2, <1>3, <1>4, SlotSame DEF Closing

\* Steps of the task that move on, and an open call that is given up.
LEMMA MovesSlot ==
    ASSUME TypeOK, TaskOK, SlotInv,
           \/ Wake \/ Compare \/ CloseSkip \/ CloseSend \/ CloseOnvif
           \/ OnvifSkip \/ OnvifSend \/ OnvifFails \/ OnvifGot \/ WriteBack
           \/ OpenSkip \/ OpenTimeout
    PROVE  SlotInv'
<1>0. call.op \in {"none", "open", "close"} /\ chan \in Chans
  BY CallFields DEF TypeOK, NetType, TaskType
<1>1. UNCHANGED <<rtsp, shmid>>
  BY DEF Wake, Compare, CloseSkip, CloseSend, CloseOnvif, OnvifSkip,
     OnvifSend, OnvifFails, OnvifGot, WriteBack, OpenSkip, OpenTimeout,
     slotVars
<1>2. \A i \in Chans : mng'[i].en = mng[i].en
  <2>1. CASE OnvifGot
    <3>1. PICK m \in Media[ohost] :
              mng' = [mng EXCEPT ![chan] = WithUrls(mng[chan], m)]
      BY <2>1 DEF OnvifGot
    <3> QED
      BY <3>1 DEF WithUrls, TypeOK, CfgType, ChSrc
  <2>2. CASE ~OnvifGot
    BY <2>2 DEF Wake, Compare, CloseSkip, CloseSend, CloseOnvif, OnvifSkip,
       OnvifSend, OnvifFails, WriteBack, OpenSkip, OpenTimeout
  <2> QED
    BY <2>1, <2>2
<1>3. Closing => Closing' /\ chan' = chan
  <2>1. CASE CloseSkip
    BY <2>1, NextCloseMoves DEF CloseSkip, Closing
  <2>2. CASE OpenTimeout
    BY <2>2 DEF OpenTimeout, TaskOK, Closing
  <2>3. CASE ~CloseSkip /\ ~OpenTimeout
    BY <2>3 DEF Wake, Compare, CloseSend, CloseOnvif, OnvifSkip, OnvifSend,
       OnvifFails, OnvifGot, WriteBack, OpenSkip, GoTo, taskVars, Closing
  <2> QED
    BY <2>1, <2>2, <2>3
<1>4. call'.op # "open"
  <2>1. CASE CloseSend \/ OpenTimeout
    <3>1. CASE CloseSend
      BY <3>1 DEF CloseSend, NoCall
    <3>2. CASE OpenTimeout
      BY <3>2 DEF OpenTimeout, NoCall
    <3> QED
      BY <2>1, <3>1, <3>2
  <2>2. CASE ~CloseSend /\ ~OpenTimeout
    <3>1. call' = call
      BY <2>2 DEF Wake, Compare, CloseSkip, CloseOnvif, OnvifSkip, OnvifSend,
         OnvifFails, OnvifGot, WriteBack, OpenSkip, netVars
    <3>2. call.op # "open"
      BY <2>2 DEF Wake, Compare, CloseSkip, CloseOnvif, OnvifSkip, OnvifSend,
         OnvifFails, OnvifGot, WriteBack, OpenSkip, TaskOK, NoCall
    <3> QED
      BY <3>1, <3>2
  <2> QED
    BY <2>1, <2>2
<1> QED
  BY <1>1, <1>2, <1>3, <1>4, SlotSame

\* A C_CLOSE is over, and the slot is in the channel that is being closed.
LEMMA ClosedSlot ==
    ASSUME TypeOK, TaskOK, SlotInv, CloseDone \/ CloseTimeout
    PROVE  SlotInv'
<1>1. /\ pc = "close" /\ chan' = chan /\ Closing'
      /\ call'.op # "open" /\ UNCHANGED <<mng, shmid>>
  BY NextCloseMoves
  DEF CloseDone, CloseTimeout, TaskOK, NoCall, Closing
<1>2. rtsp' = [rtsp EXCEPT ![Slot] = FALSE]
  BY DEF CloseDone, CloseTimeout
<1>3. \A x \in Slots : rtsp'[x] => rtsp[x]
  BY <1>2 DEF TypeOK, SlotType
<1>4. \A x \in Slots : ~rtsp'[x] => ~rtsp[x] \/ x[1] = chan
  BY <1>2 DEF TypeOK, SlotType, Slot
<1> QED
  BY <1>1, <1>3, <1>4 DEF SlotInv

\* The channel that is copied is closed, and its identifiers go.
LEMMA CopySlot ==
    ASSUME TypeOK, TaskOK, SlotInv, Copy
    PROVE  SlotInv'
<1>1. /\ UNCHANGED <<rtsp, call>> /\ chan' = chan /\ call.op # "open"
      /\ shmid' = [x \in Slots |-> IF x[1] = chan THEN None ELSE shmid[x]]
  BY DEF Copy, TaskOK, GoTo, netVars
<1>2. \A i \in Chans : i # chan => mng'[i] = mng[i]
  BY DEF Copy, TypeOK, CfgType
<1>3. \A x \in Slots : rtsp[x] => x[1] # chan /\ x[1] \in Chans
  BY DEF Copy, TaskOK, Slots
<1> QED
  BY <1>1, <1>2, <1>3 DEF SlotInv

\* C_OPEN goes out for an enabled channel, and the slot gets its identifier.
LEMMA OpenSlot ==
    ASSUME TypeOK, TaskOK, SlotInv, OpenSend \/ OpenDone
    PROVE  SlotInv'
<1>1. CASE OpenSend
  BY <1>1
  DEF OpenSend, NeedsOpen, SlotInv, Closing, slotVars, taskVars
<1>2. CASE OpenDone
  <2>1. /\ pc = "open" /\ call'.op # "open" /\ UNCHANGED mng
        /\ mng[chan].en /\ Slot \in Slots
    BY <1>2, SlotIn DEF OpenDone, TaskOK, NoCall, SlotInv
  <2>2. \A x \in Slots : rtsp'[x] => rtsp[x] \/ x[1] = chan
    BY <1>2 DEF OpenDone, TypeOK, SlotType, Slot
  <2>3. \A x \in Slots : ~rtsp'[x] => ~rtsp[x] /\ shmid'[x] = shmid[x]
    BY <1>2 DEF OpenDone, TypeOK, SlotType
  <2>4. \A x \in Slots : ~rtsp'[x] => shmid'[x] = None
    BY <2>1, <2>3 DEF SlotInv, Closing
  <2>5. \A x \in Slots : rtsp'[x] => mng'[x[1]].en
    BY <2>1, <2>2 DEF SlotInv
  <2> QED
    BY <2>1, <2>4, <2>5 DEF SlotInv, Closing
<1> QED
  BY <1>1, <1>2

LEMMA NextSlot ==
    ASSUME IInv, SteadyInv, SlotInv, [Next]_vars, Unstopped'
    PROVE  SlotInv'
<1>0. TypeOK /\ TaskOK
  BY DEF IInv
<1>1. CASE UNCHANGED vars
  BY <1>1 DEF vars, SlotInv, Closing
<1>2. CASE Task
  BY <1>0, <1>2, NeverBlank, MovesSlot, ClosedSlot, CopySlot, OpenSlot DEF Task
<1>3. CASE CloseTimeout \/ OpenTimeout
  BY <1>0, <1>3, MovesSlot, ClosedSlot
<1>4. CASE Rtsps
  BY <1>0, <1>4, NoStops, OthersSlot DEF Rtsps
<1>5. CASE \/ SetEnd \/ LiveClearOnvif
           \/ \E i \in Chans, v \in Settings : Set(i, v) \/ SetBegin(i, v)
  BY <1>0, <1>5, OthersSlot
<1> QED
  BY <1>0, <1>1, <1>2, <1>3, <1>4, <1>5, NoStops DEF Next

\* At the start nothing is open.
LEMMA InitSlot == Init => SlotInv
BY DEF Init, SlotInv, NoCall

-----------------------------------------------------------------------------
(* What a slot shows *)

\* A slot that the task's copy of the setting wants to be open.
Wanted(x) == mng[x[1]].en /\ UrlOf(mng[x[1]], x[2]) # None

\* A slot whose flag is as its copy wants it shows what the copy says.
Shown ==
    \A x \in Slots :
        ~Closing /\ mng[x[1]] = cfg[x[1]] /\ (Wanted(x) => rtsp[x]) => Shows(x)

LEMMA SlotsShown ==
    ASSUME IInv, SteadyInv, SlotInv
    PROVE  Shown
<1> SUFFICES ASSUME NEW x \in Slots, ~Closing, mng[x[1]] = cfg[x[1]],
                    Wanted(x) => rtsp[x]
             PROVE  Shows(x)
  BY DEF Shown
<1>1. /\ x[1] \in Chans /\ x[2] \in Streams
      /\ mng[x[1]] \in ChSrc /\ Fits(mng[x[1]])
  BY DEF Slots, IInv, TypeOK, CfgType, SteadyInv
<1>2. UrlOf(mng[x[1]], x[2]) = UrlAt(x)
  BY <1>1, FitUrls DEF UrlAt
<1>3. CASE Wanted(x)
  <2>1. rtsp[x] /\ ref[x] = UrlAt(x) /\ UrlAt(x) # None
    BY <1>3 DEF SteadyInv, IInv, TaskOK, Closing
  <2>2. ref[x] \in Urls
    BY <2>1 DEF IInv, TypeOK, SlotType
  <2>3. refcnt[ref[x]] > 0 /\ shmid[x] = shm[ref[x]]
    BY <2>1, <2>2 DEF IInv, HeldShmLive, SteadyInv
  <2> QED
    BY <1>2, <1>3, <2>1, <2>3 DEF Shows, Wanted
<1>4. CASE ~Wanted(x)
  <2>1. ~rtsp[x]
    BY <1>2, <1>4 DEF Wanted, SteadyInv, SlotInv
  <2>2. shmid[x] = None
    BY <2>1 DEF SlotInv
  <2> QED
    BY <1>4, <2>1, <2>2 DEF Shows, Wanted
<1> QED
  BY <1>3, <1>4

-----------------------------------------------------------------------------
(* What a calm pass has done so far *)

\* Stream s of channel i, or all of channel i, is as the setting wants it.
Opened(i, s) == Wanted(<<i, s>>) => rtsp[<<i, s>>]
Done(i) == mng[i] = cfg[i] /\ \A s \in Streams : Opened(i, s)

\* The channels the pass has left are done; in the one it is at, both copies
\* agree once it is compared, and the streams it has left are done.
CalmInv ==
    /\ pc = "wait" => \A i \in Chans : Done(i)
    /\ pc # "wait" => \A i \in Chans : i < chan => Done(i)
    /\ pc \in {"onvif", "onvifCall", "open"} => mng[chan] = cfg[chan]
    /\ pc \in {"onvif", "onvifCall"} => strm = 0
    /\ pc = "open" => \A s \in Streams : s < strm => Opened(chan, s)

\* A channel that a step does not concern.
LEMMA DoneKept ==
    ASSUME NEW i, Done(i), mng'[i] = mng[i], cfg'[i] = cfg[i],
           \A s \in Streams : rtsp[<<i, s>>] => rtsp'[<<i, s>>]
    PROVE  Done(i)'
BY DEF Done, Opened, Wanted

\* A step within a channel, as far as the channels before it go.
LEMMA EarlierKept ==
    ASSUME TypeOK, CalmInv, pc # "wait", chan' = chan,
           \A i \in Chans : i < chan =>
               /\ mng'[i] = mng[i] /\ cfg'[i] = cfg[i]
               /\ \A s \in Streams : rtsp[<<i, s>>] => rtsp'[<<i, s>>]
    PROVE  \A i \in Chans : i < chan' => Done(i)'
BY DoneKept DEF CalmInv

\* Steps that leave the task where it is.
LEMMA StillCalm ==
    ASSUME TypeOK, CalmInv, UNCHANGED <<mng, cfg, rtsp, pc, chan, strm>>
    PROVE  CalmInv'
<1>1. \A i : Done(i)' = Done(i) /\ \A s : Opened(i, s)' = Opened(i, s)
  BY DEF Done, Opened, Wanted
<1> QED
  BY <1>1 DEF CalmInv

\* What is counted does not happen when nothing is.
LEMMA NotCounted ==
    ASSUME TypeOK, UNCHANGED count
    PROVE  /\ ~Tick("sets") /\ ~Tick("timeouts") /\ ~Tick("stops")
           /\ ~Tick("onvifRegs")
<1>1. /\ count \in [DOMAIN Bounds -> Nat]
      /\ {"sets", "timeouts", "stops", "onvifRegs"} \subseteq DOMAIN Bounds
  BY DEF TypeOK, RestType, Bounds
<1>2. ASSUME NEW k \in DOMAIN Bounds PROVE ~Tick(k)
  BY <1>1, <1>2 DEF Tick
<1> QED
  BY <1>1, <1>2

\* Requests that rtsps serves, and those the task sends.
LEMMA RequestCalm ==
    ASSUME TypeOK, CalmInv,
           \/ HandleOpen \/ HandleClose \/ CloseSend \/ OpenSend
           \/ \E u \in Urls : \/ HandleLateOpen(u) \/ HandleLateClose(u)
                              \/ LateLost(u)
    PROVE  CalmInv'
<1>1. UNCHANGED <<mng, cfg, rtsp, pc, chan, strm>>
  BY DEF HandleOpen, HandleClose, CloseSend, OpenSend, HandleLateOpen,
     HandleLateClose, LateLost, cfgVars, slotVars, taskVars
<1> QED
  BY <1>1, StillCalm

\* A pass begins: no channel is behind it.
LEMMA WakeCalm ==
    ASSUME Wake
    PROVE  CalmInv'
<1>1. \A i \in Chans : ~(i < 0)
  BY NvrAssumption DEF NvrAssumption, Chans
<1> QED
  BY <1>1 DEF Wake, GoTo, CalmInv

\* A channel before another one is another one.
LEMMA BeforeOther == \A i, j \in Chans : i < j => i # j
BY NvrAssumption DEF NvrAssumption, Chans

\* The channel is compared, closed and copied.
LEMMA ClosingCalm ==
    ASSUME TypeOK, TaskOK, CalmInv,
           Compare \/ CloseSkip \/ CloseDone \/ CloseOnvif \/ Copy
    PROVE  CalmInv'
<1>1. pc \in {"cmp", "close", "closeOnvif", "copy"} /\ chan' = chan
  BY NextCloseMoves
  DEF Compare, CloseSkip, CloseDone, CloseOnvif, Copy, GoTo, TaskOK
<1>2. cfg' = cfg /\ \A i \in Chans : i < chan => mng'[i] = mng[i]
  <2>1. \A i \in Chans : i # chan => mng'[i] = mng[i]
    BY DEF Compare, CloseSkip, CloseDone, CloseOnvif, Copy, TypeOK, CfgType
  <2> QED
    BY <2>1, BeforeOther
    DEF Compare, CloseSkip, CloseDone, CloseOnvif, Copy, cfgVars, TypeOK,
        TaskType
<1>3. ASSUME NEW i \in Chans, i < chan, NEW s \in Streams, rtsp[<<i, s>>]
      PROVE  rtsp'[<<i, s>>]
  <2>1. <<i, s>> \in Slots /\ <<i, s>> # Slot
    BY <1>3 DEF Slots, Slot, TypeOK, TaskType, Chans
  <2> QED
    BY <1>3, <2>1
    DEF Compare, CloseSkip, CloseDone, CloseOnvif, Copy, slotVars, TypeOK,
        SlotType
<1>4. pc' \in {"close", "closeOnvif", "copy", "onvif"}
  BY NextCloseMoves
  DEF Compare, CloseSkip, CloseDone, CloseOnvif, Copy, GoTo, TaskOK
<1>5. pc' = "onvif" => strm' = 0 /\ mng'[chan] = cfg'[chan]
  <2>1. CASE Compare \/ Copy
    BY <2>1 DEF Compare, Copy, GoTo, cfgVars, TypeOK, CfgType, TaskType
  <2>2. CASE CloseSkip \/ CloseDone \/ CloseOnvif
    BY <2>2, NextCloseMoves
    DEF CloseSkip, CloseDone, CloseOnvif, GoTo, TaskOK
  <2> QED
    BY <2>1, <2>2
<1>6. \A i \in Chans : i < chan' => Done(i)'
  BY <1>1, <1>2, <1>3, EarlierKept
<1> QED
  BY <1>1, <1>4, <1>5, <1>6 DEF CalmInv

\* The camera of the channel is asked, or need not be.
LEMMA CameraCalm ==
    ASSUME TypeOK, CalmInv,
           OnvifSkip \/ OnvifSend \/ OnvifFails \/ OnvifGot \/ WriteBack
    PROVE  CalmInv'
<1>1. /\ pc \in {"onvif", "onvifCall", "writeBack"} /\ chan' = chan
      /\ rtsp' = rtsp
  BY DEF OnvifSkip, OnvifSend, OnvifFails, OnvifGot, WriteBack, GoTo, slotVars
<1>2. \A i \in Chans : i < chan => mng'[i] = mng[i] /\ cfg'[i] = cfg[i]
  <2>1. \A i \in Chans : i # chan => mng'[i] = mng[i]
    <3>1. CASE OnvifGot
      <4>1. PICK m \in Media[ohost] :
                mng' = [mng EXCEPT ![chan] = WithUrls(mng[chan], m)]
        BY <3>1 DEF OnvifGot
      <4> QED
        BY <4>1 DEF TypeOK, CfgType
    <3>2. CASE ~OnvifGot
      BY <3>2 DEF OnvifSkip, OnvifSend, OnvifFails, WriteBack
    <3> QED
      BY <3>1, <3>2
  <2>2. \A i \in Chans : i # chan => cfg'[i] = cfg[i]
    <3>1. CASE WriteBack
      BY <3>1 DEF WriteBack, TypeOK, CfgType
    <3>2. CASE ~WriteBack
      BY <3>2 DEF OnvifSkip, OnvifSend, OnvifFails, OnvifGot, cfgVars
    <3> QED
      BY <3>1, <3>2
  <2> QED
    BY <2>1, <2>2, BeforeOther DEF TypeOK, TaskType
<1>3. \A i \in Chans : i < chan' => Done(i)'
  BY <1>1, <1>2, EarlierKept
<1>4. pc' \in {"open", "onvifCall"} => strm' = 0 /\ mng'[chan] = cfg'[chan]
  <2>1. CASE WriteBack
    BY <2>1 DEF WriteBack, GoTo, TypeOK, CfgType, TaskType
  <2>2. CASE OnvifGot
    BY <2>2 DEF OnvifGot
  <2>3. CASE OnvifSkip \/ OnvifSend \/ OnvifFails
    BY <2>3 DEF OnvifSkip, OnvifSend, OnvifFails, GoTo, CalmInv, cfgVars
  <2> QED
    BY <2>1, <2>2, <2>3
<1>5. pc' \in {"open", "onvifCall", "writeBack"}
  BY DEF OnvifSkip, OnvifSend, OnvifFails, OnvifGot, WriteBack, GoTo
<1>6. \A s \in Streams : ~(s < 0)
  BY NvrAssumption DEF NvrAssumption, Streams
<1> QED
  BY <1>1, <1>3, <1>4, <1>5, <1>6 DEF CalmInv

\* A stream is open or need not be; the pass goes on to the next one, the next
\* channel, or is over.
LEMMA OpenedCalm ==
    ASSUME TypeOK, TaskOK, CalmInv, OpenSkip \/ OpenDone
    PROVE  CalmInv'
<1>1. pc = "open" /\ NextOpen /\ UNCHANGED <<mng, cfg>>
  BY DEF OpenSkip, OpenDone, TaskOK, cfgVars
<1>2. \A x \in Slots : rtsp[x] => rtsp'[x]
  BY DEF OpenSkip, OpenDone, slotVars, TypeOK, SlotType
<1>3. Wanted(Slot) => rtsp'[Slot]
  <2>1. Slot \in Slots /\ Slot[1] = chan /\ Slot[2] = strm
    BY SlotIn DEF Slot
  <2>2. CASE OpenSkip
    BY <2>1, <2>2 DEF OpenSkip, NeedsOpen, Wanted, slotVars
  <2>3. CASE OpenDone
    BY <2>1, <2>3 DEF OpenDone, TypeOK, SlotType
  <2> QED
    BY <2>2, <2>3
<1>4. \A s \in Streams : s <= strm => Opened(chan, s) \/ s = strm
  BY <1>1 DEF CalmInv, TypeOK, TaskType, Streams
<1>5. ASSUME NEW i, i = chan, NEW s \in Streams, s <= strm
      PROVE  Opened(i, s)'
  <2>1. Wanted(<<i, s>>)' = Wanted(<<i, s>>) /\ <<i, s>> \in Slots
    BY <1>1, <1>5 DEF Wanted, TypeOK, TaskType, Slots
  <2>2. CASE s = strm
    BY <1>3, <1>5, <2>1, <2>2 DEF Opened, Slot
  <2>3. CASE Opened(chan, s)
    BY <1>2, <1>5, <2>1, <2>3 DEF Opened
  <2> QED
    BY <1>4, <1>5, <2>2, <2>3
<1>6. \A i \in Chans : i < chan => Done(i)'
  BY <1>1, <1>2, DoneKept DEF CalmInv, Slots
<1>7. CASE strm + 1 < NStream
  <2>1. pc' = "open" /\ chan' = chan /\ strm' = strm + 1
    BY <1>1, <1>7 DEF NextOpen, AfterStream, GoTo
  <2>2. mng'[chan] = cfg'[chan]
    BY <1>1 DEF CalmInv
  <2>3. \A s \in Streams : s < strm + 1 => s <= strm
    BY DEF TypeOK, TaskType, Streams
  <2>4. ASSUME NEW i, i = chan
        PROVE  \A s \in Streams : s < strm' => Opened(i, s)'
    BY <1>5, <2>1, <2>3, <2>4
  <2> QED
    BY <1>6, <2>1, <2>2, <2>4 DEF CalmInv
<1>8. CASE ~(strm + 1 < NStream)
  <2>1. \A s \in Streams : s <= strm
    BY <1>8, NvrAssumption DEF NvrAssumption, TypeOK, TaskType, Streams
  <2>2. ASSUME NEW i, i = chan PROVE Done(i)'
    BY <1>1, <1>5, <2>1, <2>2 DEF Done, CalmInv
  <2>3. CASE chan + 1 < NChan
    <3>1. pc' = "cmp" /\ chan' = chan + 1
      BY <1>1, <1>8, <2>3 DEF NextOpen, AfterStream, GoTo
    <3>2. \A i \in Chans : i < chan + 1 => i < chan \/ i = chan
      BY DEF TypeOK, TaskType, Chans
    <3> QED
      BY <1>6, <2>2, <3>1, <3>2 DEF CalmInv
  <2>4. CASE ~(chan + 1 < NChan)
    <3>1. pc' = "wait"
      BY <1>1, <1>8, <2>4 DEF NextOpen, AfterStream, GoTo
    <3>2. \A i \in Chans : i < chan \/ i = chan
      BY <2>4, NvrAssumption DEF NvrAssumption, TypeOK, TaskType, Chans
    <3> QED
      BY <1>6, <2>2, <3>1, <3>2 DEF CalmInv
  <2> QED
    BY <2>3, <2>4
<1> QED
  BY <1>7, <1>8

\* A step of a calm pass.
LEMMA NextCalm ==
    ASSUME IInv, SteadyInv, CalmInv, Undisturbed, [Next]_vars, Unstopped'
    PROVE  CalmInv'
<1>0. TypeOK /\ TaskOK
  BY DEF IInv
<1>1. CASE UNCHANGED vars
  BY <1>0, <1>1, StillCalm DEF vars
<1>2. CASE Task
  BY <1>0, <1>2, NeverBlank, WakeCalm, ClosingCalm, RequestCalm, CameraCalm,
     OpenedCalm DEF Task
<1>3. CASE Rtsps
  BY <1>0, <1>3, NoStops, RequestCalm DEF Rtsps
<1>4. ~CloseTimeout /\ ~OpenTimeout /\ ~LiveClearOnvif
  BY <1>0, NotCounted
  DEF Undisturbed, CloseTimeout, OpenTimeout, LiveClearOnvif
<1>5. ~\E i \in Chans, v \in Settings : Set(i, v) \/ SetBegin(i, v)
  BY <1>0, NotCounted DEF Undisturbed, Set, SetBegin
<1>6. ~SetEnd
  BY DEF Undisturbed, SetEnd
<1> QED
  BY <1>0, <1>1, <1>2, <1>3, <1>4, <1>5, <1>6, NoStops DEF Next

\* The task leaves its wait when it wakes up, and not otherwise.
LEMMA BegunCalm ==
    ASSUME IInv, SteadyInv, [Next]_vars, Unstopped', pc = "wait", pc' = "cmp"
    PROVE  CalmInv'
<1>1. Wake
  BY NoStops DEF IInv, Next, Task, Rtsps, vars, Set, SetBegin, SetEnd,
     Compare, CloseSkip, CloseSend, CloseBlank, CloseDone, CloseOnvif, Copy,
     OnvifSkip, OnvifSend, OnvifFails, OnvifGot, WriteBack, OpenSkip,
     OpenSend, OpenDone, CloseTimeout, OpenTimeout, HandleOpen, HandleClose,
     HandleLateOpen, HandleLateClose, LateLost, LiveClearOnvif, TaskOK,
     taskVars
<1> QED
  BY <1>1, WakeCalm

-----------------------------------------------------------------------------
(* One calm pass settles                                                   *)

PassInv == Unstopped => SteadyInv /\ SlotInv /\ (calm => CalmInv)

\* The steps of PassSpec are those of Spec.
LEMMA PassSteps == PassSpec => Spec
<1>1. PassInit => Init
  BY DEF PassInit
<1>2. [PassNext]_passVars => [Next]_vars
  BY DEF PassNext, passVars
<1> QED
  BY <1>1, <1>2, PTL DEF PassSpec, Spec

LEMMA PassAlways ==
    ASSUME Steady
    PROVE  PassSpec => [](IInv /\ PassInv)
<1>1. PassInit => PassInv
  BY SteadyInit, InitSlot DEF PassInit, PassInv
<1>2. ASSUME IInv, PassInv, [PassNext]_passVars, Unstopped'
      PROVE  SteadyInv' /\ SlotInv' /\ (calm' => CalmInv')
  <2>1. [Next]_vars /\ TypeOK /\ TaskOK
    BY <1>2 DEF PassNext, passVars, IInv
  <2>2. SteadyInv /\ SlotInv /\ (calm => CalmInv)
    BY <1>2, <2>1, UnstoppedBefore DEF PassInv
  <2>3. SteadyInv' /\ SlotInv'
    BY <1>2, <2>1, <2>2, NextSteady, NextSlot
  <2>4. ASSUME calm' PROVE CalmInv'
    <3>1. CASE pc = "wait" /\ pc' = "cmp"
      BY <1>2, <2>1, <2>2, <3>1, BegunCalm
    <3>2. CASE calm /\ Undisturbed
      BY <1>2, <2>1, <2>2, <3>2, NextCalm
    <3>3. CASE UNCHANGED passVars
      <4>1. CalmInv
        BY <2>2, <2>4, <3>3 DEF passVars
      <4> QED
        BY <2>1, <3>3, <4>1, StillCalm DEF passVars, vars
    <3> QED
      BY <1>2, <2>4, <3>1, <3>2, <3>3, Zenon DEF PassNext
  <2> QED
    BY <2>3, <2>4
<1>3. IInv /\ PassInv /\ [PassNext]_passVars => PassInv'
  BY <1>2 DEF PassInv
<1> QED
  BY <1>1, <1>3, PassSteps, Invariance, PTL DEF PassSpec

\* One pass of live_mon's loop (nvr_live.c:121-247) without a setting, a
\* timeout or a stop brings every slot to what app_nvr.chsrc wants, whatever
\* timeouts, settings and late requests left behind; cameras keep their urls.
THEOREM OnePassSettles ==
    ASSUME Steady
    PROVE  PassSpec => []PassSettles
<1>1. ASSUME IInv, PassInv PROVE PassSettles
  <2> SUFFICES ASSUME Unstopped, calm, pc = "wait"
               PROVE  mng = cfg /\ \A x \in Slots : Shows(x)
    BY DEF PassSettles
  <2>1. SteadyInv /\ SlotInv /\ CalmInv
    BY <1>1 DEF PassInv
  <2>2. \A i \in Chans : Done(i)
    BY <2>1 DEF CalmInv
  <2>3. mng = cfg
    BY <1>1, <2>2 DEF IInv, TypeOK, CfgType, Done
  <2>4. ASSUME NEW x \in Slots
        PROVE  ~Closing /\ mng[x[1]] = cfg[x[1]] /\ (Wanted(x) => rtsp[x])
    BY <2>2 DEF Closing, Done, Opened, Slots
  <2> QED
    BY <1>1, <2>1, <2>3, <2>4, SlotsShown DEF Shown
<1> QED
  BY <1>1, PassAlways, PTL

-----------------------------------------------------------------------------
(* What is settled stays                                                   *)

\* When all is as it should be there is nothing for the task to send.
LEMMA IdleTask ==
    ASSUME TypeOK, TaskOK, SteadyInv, Settled, Task
    PROVE  /\ UNCHANGED <<cfg, mng, rtsp, onvif, call, writing>>
           /\ pc' \in {"wait", "cmp", "onvif", "open"}
<1>1. /\ Slot \in Slots /\ Slot[1] = chan /\ Slot[2] = strm
      /\ chan \in Chans /\ mng[chan] = cfg[chan] /\ call = NoCall
  BY SlotIn DEF Settled, Slot, TypeOK, TaskType
<1>2. ~NeedsOpen
  BY <1>1 DEF Settled, Shows, NeedsOpen
<1>3. ~NeedsOnvif
  BY <1>1 DEF Settled, NeedsOnvif
<1>4. Wake \/ Compare \/ OnvifSkip \/ OpenSkip
  BY <1>2, <1>3 DEF Settled, Task, CloseSkip, CloseSend, CloseBlank, CloseDone,
     CloseOnvif, Copy, OnvifSend, OnvifFails, OnvifGot, WriteBack, OpenSend,
     OpenDone, NoCall
<1>5. pc' \in {"wait", "cmp", "onvif", "open"}
  <2>1. CASE Wake \/ Compare \/ OnvifSkip
    BY <1>1, <2>1 DEF Wake, Compare, OnvifSkip, GoTo
  <2>2. CASE OpenSkip
    BY <2>2, NextOpenMoves DEF OpenSkip
  <2> QED
    BY <1>4, <2>1, <2>2
<1> QED
  BY <1>4, <1>5 DEF Wake, Compare, OnvifSkip, OpenSkip, cfgVars, slotVars,
     netVars

\* Nobody disturbs the task: what may still happen are late requests.
LEMMA IdleStep ==
    ASSUME TypeOK, TaskOK, SteadyInv, Unstopped, Settled, Undisturbed,
           [Next]_vars
    PROVE  /\ UNCHANGED <<cfg, mng, rtsp, onvif, call, writing>>
           /\ pc' \in {"wait", "cmp", "onvif", "open"}
<1>1. CASE UNCHANGED vars
  BY <1>1 DEF vars, Settled
<1>2. CASE Task
  BY <1>2, IdleTask
<1>3. CASE Rtsps
  <2>1. Unstopped'
    BY DEF Undisturbed, Unstopped
  <2>2. PICK u \in Urls :
            HandleLateOpen(u) \/ HandleLateClose(u) \/ LateLost(u)
    BY <1>3, <2>1, NoStops
    DEF Rtsps, Settled, HandleOpen, HandleClose, NoCall
  <2> QED
    BY <2>2 DEF HandleLateOpen, HandleLateClose, LateLost, cfgVars, slotVars,
       taskVars, Settled
<1>4. /\ ~CloseTimeout /\ ~OpenTimeout /\ ~LiveClearOnvif /\ ~RtspsStops
      /\ ~LiveClearRtsp
  BY NotCounted
  DEF Undisturbed, CloseTimeout, OpenTimeout, LiveClearOnvif, RtspsStops,
      LiveClearRtsp, SteadyInv
<1>5. ~\E i \in Chans, v \in Settings : Set(i, v) \/ SetBegin(i, v)
  BY NotCounted DEF Undisturbed, Set, SetBegin
<1>6. ~SetEnd
  BY DEF Settled, SetEnd
<1> QED
  BY <1>1, <1>2, <1>3, <1>4, <1>5, <1>6 DEF Next

\* What a slot shows is a matter of the invariants, before and after.
LEMMA StaysStep ==
    ASSUME TypeOK, TaskOK, SteadyInv, Unstopped, Settled, Undisturbed,
           [Next]_vars, Shown'
    PROVE  Settled'
<1>1. /\ UNCHANGED <<cfg, mng, rtsp, onvif, call, writing>>
      /\ pc' \in {"wait", "cmp", "onvif", "open"}
  BY IdleStep
<1>2. ASSUME NEW x \in Slots PROVE Shows(x)'
  <2>1. Wanted(x) => rtsp[x]
    BY DEF Settled, Shows, Wanted
  <2>2. Wanted(x)' = Wanted(x)
    BY <1>1 DEF Wanted
  <2>3. ~Closing' /\ mng'[x[1]] = cfg'[x[1]] /\ (Wanted(x)' => rtsp'[x])
    BY <1>1, <2>1, <2>2 DEF Closing, Settled
  <2> QED
    BY <2>3 DEF Shown
<1> QED
  BY <1>1, <1>2 DEF Settled

\* While every slot shows what app_nvr.chsrc wants and no camera is still to
\* be asked, the passes of live_mon (nvr_live.c) close and open nothing, and
\* requests that rtsps serves late take nothing away from a slot.
THEOREM SettledRemains ==
    ASSUME Steady
    PROVE  PassSpec => SettledStays
<1> DEFINE ShownHolds == Unstopped => Shown
           Stays == Unstopped /\ Settled /\ Undisturbed => Settled'
<1>1. IInv /\ PassInv => ShownHolds
  BY SlotsShown DEF PassInv
<1>2. IInv /\ PassInv /\ ShownHolds' /\ [PassNext]_passVars => [Stays]_passVars
  <2> SUFFICES ASSUME IInv, PassInv, ShownHolds', [PassNext]_passVars,
                      Unstopped, Settled, Undisturbed
               PROVE  Settled'
    OBVIOUS
  <2>1. Unstopped' /\ [Next]_vars
    BY DEF Undisturbed, Unstopped, PassNext, passVars
  <2> QED
    BY <2>1, StaysStep DEF IInv, PassInv
<1> QED
  BY <1>1, <1>2, PassAlways, PTL DEF PassSpec, SettledStays
=============================================================================
