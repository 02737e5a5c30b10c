--------------------------- MODULE NvrLive_proofs ---------------------------
(***************************************************************************)
(* Proofs about the live pipeline of the NVR, for any number of channels,  *)
(* streams, urls and requests, and without a bound on how often users,     *)
(* timeouts and restarts interfere; and, from Steady on, what also holds   *)
(* when rtsps does not stop and cameras keep their urls.                   *)
(***************************************************************************)
EXTENDS NvrLive, FiniteSetTheorems, TLAPS

-----------------------------------------------------------------------------
(* Types *)

\* There is a channel 0 and a stream 0.
LEMMA ZeroIn == 0 \in Chans /\ 0 \in Streams
BY NvrAssumption DEF NvrAssumption, Chans, Streams

\* A channel without a camera is a legal setting.
LEMMA BlankType == Blank \in UrlsOf /\ NoSrc \in ChSrc
BY DEF Blank, UrlsOf, NoSrc, ChSrc

\* What may be assigned to parts of a channel's setting.
LEMMA StoreType ==
    ASSUME NEW c \in ChSrc, NEW s \in UrlsOf
    PROVE  WithUrls(c, s) \in ChSrc
BY DEF ChSrc, WithUrls

\* The same for the user's choice of a camera.
LEMMA ChoiceType ==
    ASSUME NEW c \in ChSrc, NEW e \in BOOLEAN, NEW g \in Hosts \cup {None}
    PROVE  WithChoice(c, e, g) \in ChSrc
BY DEF ChSrc, WithChoice

\* The same when rtsps or onvif has registered anew.
LEMMA CutType ==
    ASSUME NEW c \in ChSrc
    PROVE  CutUrls(c) \in ChSrc /\ CutHost(c) \in ChSrc
BY DEF ChSrc, CutUrls, CutHost

\* The parts of a setting.
LEMMA SettingType ==
    ASSUME NEW v \in ChSrc
    PROVE  /\ v.en \in BOOLEAN
           /\ v.host \in Hosts \cup {None} /\ HostOf(v) \in Hosts \cup {None}
           /\ v.st \in UrlsOf
           /\ \A s \in Streams : UrlOf(v, s) \in Urls \cup {None}
BY DEF ChSrc, HostOf, UrlOf, UrlsOf

\* The parts of a call.
LEMMA CallFields ==
    ASSUME NEW c \in Calls
    PROVE  /\ c.op \in {"none", "open", "close"} /\ c.url \in Urls \cup {None}
           /\ c.done \in BOOLEAN /\ c.shm \in Shms \cup {None}
           /\ c.mine \in BOOLEAN
BY DEF Calls

\* A call is sent, answered, and its answer may be worth nothing.
LEMMA NoCallType == NoCall \in Calls
BY DEF Calls, NoCall

\* A C_CLOSE or a C_OPEN the task sends is a call.
LEMMA SentType ==
    ASSUME NEW u \in Urls, NEW b \in BOOLEAN
    PROVE  /\ [NoCall EXCEPT !.op = "close", !.url = u, !.mine = b] \in Calls
           /\ [NoCall EXCEPT !.op = "open", !.url = u] \in Calls
BY DEF Calls, NoCall

\* So is an answered C_OPEN.
LEMMA OpenedType ==
    ASSUME NEW c \in Calls, NEW m \in Shms
    PROVE  [c EXCEPT !.done = TRUE, !.shm = m, !.mine = TRUE] \in Calls
BY DEF Calls

\* So is an answered C_CLOSE, or a call whose reference is void.
LEMMA ClosedType ==
    ASSUME NEW c \in Calls
    PROVE  /\ [c EXCEPT !.done = TRUE, !.mine = FALSE] \in Calls
           /\ [c EXCEPT !.mine = FALSE] \in Calls
BY DEF Calls

\* The requests nobody waits for, one more or one less.
LEMMA LateType ==
    ASSUME NEW f \in [Urls -> Nat], NEW u \in Urls
    PROVE  /\ [f EXCEPT ![u] = @ + 1] \in [Urls -> Nat]
           /\ f[u] > 0 => [f EXCEPT ![u] = @ - 1] \in [Urls -> Nat]
OBVIOUS

\* The table of rtsps.
LEMMA ConnOpenType ==
    ASSUME ConnType, NEW u \in Urls, NEW m \in Shms, NEW R, ConnCtxOpen(u, m, R)
    PROVE  ConnType'
BY DEF ConnType, ConnCtxOpen

\* C_CLOSE keeps the table well-typed: no count goes below zero.
LEMMA ConnCloseType ==
    ASSUME ConnType, NEW u \in Urls, ConnCtxClose(u)
    PROVE  ConnType'
<1>1. CASE refcnt[u] = 0
  BY <1>1 DEF ConnType, ConnCtxClose, connVars
<1>2. CASE refcnt[u] # 0
  BY <1>2 DEF ConnType, ConnCtxClose
<1> QED
  BY <1>1, <1>2

\* What a C_CLOSE names is a url or empty.
LEMMA UrlTypes == TypeOK => CloseUrl \in Urls \cup {None}
BY SettingType DEF TypeOK, CfgType, TaskType, CloseUrl

\* The task is always at a slot.
LEMMA SlotIn == TypeOK => Slot \in Slots
BY DEF TypeOK, TaskType, Slot, Slots

\* Counting one of the bounded things keeps the counters numbers.
LEMMA CountType ==
    ASSUME RestType, NEW k \in {"sets", "timeouts", "stops", "onvifRegs"},
           Tick(k)
    PROVE  count' \in [DOMAIN Bounds -> Nat]
<1>1. k \in DOMAIN Bounds
  BY DEF Bounds
<1> QED
  BY <1>1 DEF RestType, Tick

\* Where the task goes when it is done with closing a stream, or opening one.
LEMMA NextCloseMoves ==
    ASSUME TypeOK, NextClose
    PROVE  /\ strm' \in Streams /\ chan' = chan /\ ohost' = ohost
           /\ \/ pc' = pc /\ strm' = strm + 1
              \/ pc' = "closeOnvif" /\ \A s \in Streams : s <= strm
BY NvrAssumption DEF NvrAssumption, TypeOK, TaskType, Streams, NextClose,
   AfterStream, GoTo

\* The same for opening a stream, perhaps in the next channel.
LEMMA NextOpenMoves ==
    ASSUME TypeOK, NextOpen
    PROVE  /\ strm' \in Streams /\ chan' \in Chans /\ ohost' = ohost
           /\ pc' \in {pc, "cmp", "wait"}
BY NvrAssumption DEF NvrAssumption, TypeOK, TaskType, Streams, Chans, NextOpen,
   AfterStream, GoTo

\* A user's setting keeps the types.
LEMMA SetType ==
    ASSUME TypeOK, TaskOK, NEW i \in Chans, NEW v \in Settings, Set(i, v)
    PROVE  TypeOK'
<1>1. CfgType'
  BY NvrAssumption DEF NvrAssumption, TypeOK, CfgType, NetType, TaskType, Set,
     Tick, cfgVars, slotVars, connVars
<1>2. RestType'
  BY CountType DEF TypeOK, CfgType, RestType, TaskType, Set, Tick, srvVars
<1>3. ConnType' /\ SlotType' /\ TaskType' /\ NetType'
  BY DEF TypeOK, ConnType, SlotType, TaskType, NetType, Set, connVars,
     slotVars, taskVars, netVars
<1> QED
  BY <1>1, <1>2, <1>3 DEF TypeOK

\* The first half of a user's setting keeps the types.
LEMMA SetBeginType ==
    ASSUME TypeOK, TaskOK, NEW i \in Chans, NEW v \in Settings, SetBegin(i, v)
    PROVE  TypeOK'
<1>1. CfgType'
  <2>1. v.en \in BOOLEAN /\ v.host \in Hosts \cup {None} /\ cfg[i] \in ChSrc
    BY NvrAssumption, SettingType DEF NvrAssumption, TypeOK, CfgType
  <2>2. WithChoice(cfg[i], v.en, v.host) \in ChSrc
    BY <2>1, ChoiceType
  <2>3. cfg' = [cfg EXCEPT ![i] = WithChoice(@, v.en, v.host)]
    BY DEF SetBegin
  <2>4. cfg' \in [Chans -> ChSrc]
    BY <2>2, <2>3 DEF TypeOK, CfgType
  <2>5. writing' \in Chans \X Settings
    BY DEF SetBegin
  <2> QED
    BY <2>4, <2>5 DEF TypeOK, CfgType, SetBegin
<1>2. RestType'
  BY CountType DEF TypeOK, CfgType, RestType, TaskType, SetBegin, Tick,
     srvVars
<1>3. ConnType' /\ SlotType' /\ TaskType' /\ NetType'
  BY DEF TypeOK, ConnType, SlotType, TaskType, NetType, SetBegin, connVars,
     slotVars, taskVars, netVars
<1> QED
  BY <1>1, <1>2, <1>3 DEF TypeOK

\* The second half of it keeps the types.
LEMMA SetEndType ==
    ASSUME TypeOK, TaskOK, SetEnd
    PROVE  TypeOK'
<1>1. CfgType'
  <2> DEFINE i == writing[1]
             s == writing[2].st
  <2>1. i \in Chans /\ s \in UrlsOf /\ cfg[i] \in ChSrc
    BY NvrAssumption, SettingType
    DEF NvrAssumption, TypeOK, CfgType, SetEnd
  <2>2. WithUrls(cfg[i], s) \in ChSrc
    BY <2>1, StoreType
  <2>3. cfg' = [cfg EXCEPT ![i] = WithUrls(@, s)]
    BY DEF SetEnd
  <2>4. cfg' \in [Chans -> ChSrc]
    BY <2>1, <2>2, <2>3 DEF TypeOK, CfgType
  <2> QED
    BY <2>4 DEF TypeOK, CfgType, SetEnd
<1>2. ConnType' /\ SlotType' /\ TaskType' /\ NetType' /\ RestType'
  BY DEF TypeOK, ConnType, SlotType, TaskType, NetType, RestType, SetEnd,
     connVars, slotVars, taskVars, netVars, srvVars
<1> QED
  BY <1>1, <1>2 DEF TypeOK

\* The start of a pass keeps the types.
LEMMA WakeType ==
    ASSUME TypeOK, TaskOK, Wake
    PROVE  TypeOK'
<1>1. TaskType'
  BY ZeroIn DEF TypeOK, TaskType, Wake, GoTo
<1>2. ConnType' /\ CfgType' /\ SlotType' /\ NetType' /\ RestType'
  BY DEF TypeOK, ConnType, CfgType, SlotType, NetType, RestType, Wake,
     connVars, cfgVars, slotVars, netVars, srvVars
<1> QED
  BY <1>1, <1>2 DEF TypeOK

\* The comparison of cfg and mng keeps the types.
LEMMA CompareType ==
    ASSUME TypeOK, TaskOK, Compare
    PROVE  TypeOK'
<1>1. TaskType'
  BY ZeroIn DEF TypeOK, TaskType, Compare, GoTo
<1>2. ConnType' /\ CfgType' /\ SlotType' /\ NetType' /\ RestType'
  BY DEF TypeOK, ConnType, CfgType, SlotType, NetType, RestType, Compare,
     connVars, cfgVars, slotVars, netVars, srvVars
<1> QED
  BY <1>1, <1>2 DEF TypeOK

\* Passing a closed stream keeps the types.
LEMMA CloseSkipType ==
    ASSUME TypeOK, TaskOK, CloseSkip
    PROVE  TypeOK'
<1>1. TaskType'
  BY NextCloseMoves DEF TypeOK, TaskType, CloseSkip
<1>2. ConnType' /\ CfgType' /\ SlotType' /\ NetType' /\ RestType'
  BY DEF TypeOK, ConnType, CfgType, SlotType, NetType, RestType, CloseSkip,
     connVars, cfgVars, slotVars, netVars, srvVars
<1> QED
  BY <1>1, <1>2 DEF TypeOK

\* Sending C_CLOSE keeps the types.
LEMMA CloseSendType ==
    ASSUME TypeOK, TaskOK, CloseSend
    PROVE  TypeOK'
<1>u. CloseUrl \in Urls
  BY UrlTypes DEF TypeOK, CloseSend
<1>1. SlotType'
  BY SlotIn DEF TypeOK, SlotType, CloseSend
<1>2. NetType'
  BY SentType, <1>u, SlotIn DEF TypeOK, NetType, CloseSend
<1>3. RestType'
  BY <1>u DEF TypeOK, CfgType, RestType, TaskType, CloseSend, srvVars
<1>4. ConnType' /\ CfgType' /\ TaskType'
  BY DEF TypeOK, ConnType, CfgType, TaskType, CloseSend, connVars, cfgVars,
     taskVars
<1> QED
  BY <1>1, <1>2, <1>3, <1>4 DEF TypeOK

\* A refused C_CLOSE keeps the types.
LEMMA CloseBlankType ==
    ASSUME TypeOK, TaskOK, CloseBlank
    PROVE  TypeOK'
<1>1. SlotType'
  BY SlotIn DEF TypeOK, SlotType, CloseBlank
<1>2. TaskType'
  BY NextCloseMoves DEF TypeOK, TaskType, CloseBlank
<1>3. ConnType' /\ CfgType' /\ NetType' /\ RestType'
  BY DEF TypeOK, ConnType, CfgType, NetType, RestType, CloseBlank, connVars,
     cfgVars, netVars, srvVars
<1> QED
  BY <1>1, <1>2, <1>3 DEF TypeOK

\* An answered C_CLOSE keeps the types.
LEMMA CloseDoneType ==
    ASSUME TypeOK, TaskOK, CloseDone
    PROVE  TypeOK'
<1>1. SlotType'
  BY SlotIn DEF TypeOK, SlotType, CloseDone
<1>2. TaskType'
  BY NextCloseMoves DEF TypeOK, TaskType, CloseDone
<1>3. NetType'
  BY NoCallType DEF TypeOK, NetType, CloseDone
<1>4. ConnType' /\ CfgType' /\ RestType'
  BY DEF TypeOK, ConnType, CfgType, RestType, CloseDone, connVars, cfgVars,
     srvVars
<1> QED
  BY <1>1, <1>2, <1>3, <1>4 DEF TypeOK

\* A C_CLOSE without an answer keeps the types.
LEMMA CloseTimeoutType ==
    ASSUME TypeOK, TaskOK, CloseTimeout
    PROVE  TypeOK'
<1>u. call.url \in Urls
  BY CallFields DEF TypeOK, TaskOK, NetType, CloseTimeout
<1>1. SlotType'
  BY SlotIn DEF TypeOK, SlotType, CloseTimeout, Tick
<1>2. TaskType'
  BY NextCloseMoves DEF TypeOK, TaskType, CloseTimeout, Tick
<1>3. NetType'
  BY NoCallType, <1>u, LateType DEF TypeOK, NetType, CloseTimeout, Tick
<1>4. RestType'
  BY CountType DEF TypeOK, CfgType, RestType, TaskType, CloseTimeout, Tick,
     srvVars
<1>5. ConnType' /\ CfgType'
  BY DEF TypeOK, ConnType, CfgType, CloseTimeout, connVars, cfgVars
<1> QED
  BY <1>1, <1>2, <1>3, <1>4, <1>5 DEF TypeOK

\* Closing the camera keeps the types.
LEMMA CloseOnvifType ==
    ASSUME TypeOK, TaskOK, CloseOnvif
    PROVE  TypeOK'
<1>1. TaskType'
  BY ZeroIn DEF TypeOK, TaskType, CloseOnvif, GoTo
<1>2. RestType'
  BY DEF TypeOK, CfgType, RestType, TaskType, CloseOnvif, GoTo, srvVars
<1>3. ConnType' /\ CfgType' /\ SlotType' /\ NetType'
  BY DEF TypeOK, ConnType, CfgType, SlotType, NetType, CloseOnvif, connVars,
     cfgVars, slotVars, netVars
<1> QED
  BY <1>1, <1>2, <1>3 DEF TypeOK

\* Copying cfg to mng keeps the types.
LEMMA CopyType ==
    ASSUME TypeOK, TaskOK, Copy
    PROVE  TypeOK'
<1>1. CfgType'
  BY DEF TypeOK, CfgType, TaskType, Copy, GoTo, cfgVars
<1>2. SlotType'
  BY DEF TypeOK, SlotType, Copy, GoTo
<1>3. TaskType'
  BY ZeroIn DEF TypeOK, TaskType, Copy, GoTo
<1>4. ConnType' /\ NetType' /\ RestType'
  BY DEF TypeOK, ConnType, NetType, RestType, Copy, connVars, netVars, srvVars
<1> QED
  BY <1>1, <1>2, <1>3, <1>4 DEF TypeOK

\* Passing the camera keeps the types.
LEMMA OnvifSkipType ==
    ASSUME TypeOK, TaskOK, OnvifSkip
    PROVE  TypeOK'
<1>1. TaskType'
  BY ZeroIn DEF TypeOK, TaskType, OnvifSkip, GoTo
<1>2. ConnType' /\ CfgType' /\ SlotType' /\ NetType' /\ RestType'
  BY DEF TypeOK, ConnType, CfgType, SlotType, NetType, RestType, OnvifSkip,
     connVars, cfgVars, slotVars, netVars, srvVars
<1> QED
  BY <1>1, <1>2 DEF TypeOK

\* Asking the camera for its urls keeps the types.
LEMMA OnvifSendType ==
    ASSUME TypeOK, TaskOK, OnvifSend
    PROVE  TypeOK'
<1>1. TaskType'
  BY SettingType DEF TypeOK, CfgType, TaskType, OnvifSend, NeedsOnvif,
     taskVars
<1>2. ConnType' /\ CfgType' /\ SlotType' /\ NetType' /\ RestType'
  BY DEF TypeOK, ConnType, CfgType, SlotType, NetType, RestType, OnvifSend,
     connVars, cfgVars, slotVars, netVars, srvVars
<1> QED
  BY <1>1, <1>2 DEF TypeOK

\* A camera that does not answer keeps the types.
LEMMA OnvifFailsType ==
    ASSUME TypeOK, TaskOK, OnvifFails
    PROVE  TypeOK'
<1>1. TaskType'
  BY DEF TypeOK, TaskType, OnvifFails
<1>2. ConnType' /\ CfgType' /\ SlotType' /\ NetType' /\ RestType'
  BY DEF TypeOK, ConnType, CfgType, SlotType, NetType, RestType, OnvifFails,
     connVars, cfgVars, slotVars, netVars, srvVars
<1> QED
  BY <1>1, <1>2 DEF TypeOK

\* A camera that answers keeps the types.
LEMMA OnvifGotType ==
    ASSUME TypeOK, TaskOK, OnvifGot
    PROVE  TypeOK'
<1>1. CfgType'
  <2>1. PICK m \in Media[ohost] :
           mng' = [mng EXCEPT ![chan] = WithUrls(@, m)]
    BY DEF OnvifGot
  <2>2. m \in UrlsOf
    BY <2>1, NvrAssumption DEF NvrAssumption, TypeOK, TaskType, OnvifGot
  <2>3. mng[chan] \in ChSrc
    BY DEF TypeOK, CfgType, TaskType
  <2>4. WithUrls(mng[chan], m) \in ChSrc
    BY <2>2, <2>3, StoreType
  <2>5. mng' \in [Chans -> ChSrc]
    BY <2>1, <2>4 DEF TypeOK, CfgType, TaskType
  <2> QED
    BY <2>5 DEF TypeOK, CfgType, OnvifGot, cfgVars
<1>2. TaskType'
  BY DEF TypeOK, TaskType, OnvifGot
<1>3. RestType'
  BY DEF TypeOK, CfgType, RestType, TaskType, OnvifGot, srvVars
<1>4. ConnType' /\ SlotType' /\ NetType'
  BY DEF TypeOK, ConnType, SlotType, NetType, OnvifGot, connVars, slotVars,
     netVars
<1> QED
  BY <1>1, <1>2, <1>3, <1>4 DEF TypeOK

\* Writing its urls back to cfg keeps the types.
LEMMA WriteBackType ==
    ASSUME TypeOK, TaskOK, WriteBack
    PROVE  TypeOK'
<1>1. CfgType'
  BY DEF TypeOK, CfgType, WriteBack, GoTo
<1>2. TaskType'
  BY ZeroIn DEF TypeOK, TaskType, WriteBack, GoTo
<1>3. ConnType' /\ SlotType' /\ NetType' /\ RestType'
  BY DEF TypeOK, ConnType, SlotType, NetType, RestType, WriteBack, connVars,
     slotVars, netVars, srvVars
<1> QED
  BY <1>1, <1>2, <1>3 DEF TypeOK

\* Passing a stream keeps the types.
LEMMA OpenSkipType ==
    ASSUME TypeOK, TaskOK, OpenSkip
    PROVE  TypeOK'
<1>1. TaskType'
  BY NextOpenMoves DEF TypeOK, TaskType, OpenSkip
<1>2. ConnType' /\ CfgType' /\ SlotType' /\ NetType' /\ RestType'
  BY DEF TypeOK, ConnType, CfgType, SlotType, NetType, RestType, OpenSkip,
     connVars, cfgVars, slotVars, netVars, srvVars
<1> QED
  BY <1>1, <1>2 DEF TypeOK

\* Sending C_OPEN keeps the types.
LEMMA OpenSendType ==
    ASSUME TypeOK, TaskOK, OpenSend
    PROVE  TypeOK'
<1>u. UrlOf(mng[chan], strm) \in Urls
  BY UrlTypes, NvrAssumption DEF OpenSend, NeedsOpen, CloseUrl, NvrAssumption
<1>1. NetType'
  BY SentType, <1>u DEF TypeOK, NetType, OpenSend, NeedsOpen
<1>2. ConnType' /\ CfgType' /\ SlotType' /\ TaskType' /\ RestType'
  BY DEF TypeOK, ConnType, CfgType, SlotType, TaskType, RestType, OpenSend,
     connVars, cfgVars, slotVars, taskVars, srvVars
<1> QED
  BY <1>1, <1>2 DEF TypeOK

\* An answered C_OPEN keeps the types.
LEMMA OpenDoneType ==
    ASSUME TypeOK, TaskOK, OpenDone
    PROVE  TypeOK'
<1>1. SlotType'
  BY NvrAssumption, SlotIn, CallFields DEF NvrAssumption, TypeOK, CfgType,
     NetType, SlotType, TaskType, OpenDone, slotVars, slotVars, connVars
<1>2. TaskType'
  BY NextOpenMoves DEF TypeOK, TaskType, OpenDone
<1>3. NetType'
  BY NoCallType DEF TypeOK, NetType, OpenDone
<1>4. ConnType' /\ CfgType' /\ RestType'
  BY DEF TypeOK, ConnType, CfgType, RestType, OpenDone, connVars, cfgVars,
     srvVars
<1> QED
  BY <1>1, <1>2, <1>3, <1>4 DEF TypeOK

\* A C_OPEN without an answer keeps the types.
LEMMA OpenTimeoutType ==
    ASSUME TypeOK, TaskOK, OpenTimeout
    PROVE  TypeOK'
<1>u. call.url \in Urls
  BY CallFields DEF TypeOK, TaskOK, NetType, OpenTimeout
<1>1. TaskType'
  BY NextOpenMoves DEF TypeOK, TaskType, OpenTimeout, Tick
<1>2. NetType'
  BY NoCallType, <1>u, LateType DEF TypeOK, NetType, OpenTimeout, Tick
<1>3. RestType'
  BY CountType DEF TypeOK, CfgType, RestType, TaskType, OpenTimeout, Tick,
     srvVars
<1>4. ConnType' /\ CfgType' /\ SlotType'
  BY DEF TypeOK, ConnType, CfgType, SlotType, OpenTimeout, connVars, cfgVars,
     slotVars
<1> QED
  BY <1>1, <1>2, <1>3, <1>4 DEF TypeOK

\* Serving the task's C_OPEN keeps the types.
LEMMA HandleOpenType ==
    ASSUME TypeOK, TaskOK, HandleOpen
    PROVE  TypeOK'
<1>u. call.url \in Urls
  BY CallFields DEF TypeOK, TaskOK, NetType, HandleOpen
<1>m. PICK m \in Shms :
          call' = [call EXCEPT !.done = TRUE, !.shm = m, !.mine = TRUE]
  BY DEF HandleOpen
<1>1. ConnType'
  BY <1>u, ConnOpenType DEF TypeOK, ConnType, HandleOpen
<1>2. NetType'
  BY OpenedType, <1>m DEF TypeOK, NetType, HandleOpen
<1>3. CfgType' /\ SlotType' /\ TaskType' /\ RestType'
  BY DEF TypeOK, CfgType, SlotType, TaskType, RestType, HandleOpen, cfgVars,
     slotVars, taskVars, srvVars
<1> QED
  BY <1>1, <1>2, <1>3 DEF TypeOK

\* Serving the task's C_CLOSE keeps the types.
LEMMA HandleCloseType ==
    ASSUME TypeOK, TaskOK, HandleClose
    PROVE  TypeOK'
<1>u. call.url \in Urls
  BY CallFields DEF TypeOK, TaskOK, NetType, HandleClose
<1>1. ConnType'
  BY <1>u, ConnCloseType DEF TypeOK, ConnType, HandleClose
<1>2. NetType'
  BY ClosedType DEF TypeOK, NetType, HandleClose
<1>3. CfgType' /\ SlotType' /\ TaskType' /\ RestType'
  BY DEF TypeOK, CfgType, SlotType, TaskType, RestType, HandleClose, cfgVars,
     slotVars, taskVars, srvVars
<1> QED
  BY <1>1, <1>2, <1>3 DEF TypeOK

\* Serving an abandoned C_OPEN keeps the types.
LEMMA HandleLateOpenType ==
    ASSUME TypeOK, TaskOK, NEW u \in Urls, HandleLateOpen(u)
    PROVE  TypeOK'
<1>1. ConnType'
  BY ConnOpenType DEF TypeOK, ConnType, HandleLateOpen
<1>2. NetType'
  BY DEF TypeOK, NetType, HandleLateOpen
<1>3. CfgType' /\ SlotType' /\ TaskType' /\ RestType'
  BY DEF TypeOK, CfgType, SlotType, TaskType, RestType, HandleLateOpen,
     cfgVars, slotVars, taskVars, srvVars
<1> QED
  BY <1>1, <1>2, <1>3 DEF TypeOK

\* Serving an abandoned C_CLOSE keeps the types.
LEMMA HandleLateCloseType ==
    ASSUME TypeOK, TaskOK, NEW u \in Urls, HandleLateClose(u)
    PROVE  TypeOK'
<1>1. ConnType'
  BY ConnCloseType DEF TypeOK, ConnType, HandleLateClose
<1>2. NetType'
  BY DEF TypeOK, NetType, HandleLateClose
<1>3. CfgType' /\ SlotType' /\ TaskType' /\ RestType'
  BY DEF TypeOK, CfgType, SlotType, TaskType, RestType, HandleLateClose,
     cfgVars, slotVars, taskVars, srvVars
<1> QED
  BY <1>1, <1>2, <1>3 DEF TypeOK

\* Losing an abandoned request keeps the types.
LEMMA LateLostType ==
    ASSUME TypeOK, TaskOK, NEW u \in Urls, LateLost(u)
    PROVE  TypeOK'
<1>1. NetType'
  <2>0. call' = call
    BY DEF LateLost
  <2>1. CASE /\ lateOpen[u] > 0
            /\ lateOpen' = [lateOpen EXCEPT ![u] = @ - 1]
            /\ UNCHANGED lateClose
    BY <2>0, <2>1, LateType DEF TypeOK, NetType
  <2>2. CASE /\ lateClose[u] > 0
            /\ lateClose' = [lateClose EXCEPT ![u] = @ - 1]
            /\ UNCHANGED lateOpen
    BY <2>0, <2>2, LateType DEF TypeOK, NetType
  <2> QED
    BY <2>1, <2>2 DEF LateLost
<1>2. ConnType' /\ CfgType' /\ SlotType' /\ TaskType' /\ RestType'
  BY DEF TypeOK, ConnType, CfgType, SlotType, TaskType, RestType, LateLost,
     connVars, cfgVars, slotVars, taskVars, srvVars
<1> QED
  BY <1>1, <1>2 DEF TypeOK

\* A stop of rtsps keeps the types.
LEMMA RtspsStopsType ==
    ASSUME TypeOK, TaskOK, RtspsStops
    PROVE  TypeOK'
<1>1. ConnType'
  BY DEF TypeOK, ConnType, RtspsStops, ConnLost, Tick
<1>2. SlotType'
  BY DEF TypeOK, SlotType, RtspsStops, ConnLost, Tick
<1>3. NetType'
  BY ClosedType DEF TypeOK, NetType, RtspsStops, ConnLost, Tick
<1>4. RestType'
  BY CountType DEF TypeOK, RestType, RtspsStops, ConnLost, Tick
<1>5. CfgType' /\ TaskType'
  BY DEF TypeOK, CfgType, TaskType, RtspsStops, cfgVars, taskVars
<1> QED
  BY <1>1, <1>2, <1>3, <1>4, <1>5 DEF TypeOK

\* Its registration with bsp keeps the types.
LEMMA RtspsRegistersType ==
    ASSUME TypeOK, TaskOK, RtspsRegisters
    PROVE  TypeOK'
<1>1. RestType'
  BY DEF TypeOK, RestType, RtspsRegisters
<1>2. ConnType' /\ CfgType' /\ SlotType' /\ TaskType' /\ NetType'
  BY DEF TypeOK, ConnType, CfgType, SlotType, TaskType, NetType,
     RtspsRegisters, connVars, cfgVars, slotVars, taskVars, netVars
<1> QED
  BY <1>1, <1>2 DEF TypeOK

\* Its listening keeps the types.
LEMMA RtspsListensType ==
    ASSUME TypeOK, TaskOK, RtspsListens
    PROVE  TypeOK'
<1>1. RestType'
  BY DEF TypeOK, RestType, RtspsListens
<1>2. ConnType' /\ CfgType' /\ SlotType' /\ TaskType' /\ NetType'
  BY DEF TypeOK, ConnType, CfgType, SlotType, TaskType, NetType, RtspsListens,
     connVars, cfgVars, slotVars, taskVars, netVars
<1> QED
  BY <1>1, <1>2 DEF TypeOK

\* Blanking the urls keeps the types.
LEMMA LiveClearRtspType ==
    ASSUME TypeOK, TaskOK, LiveClearRtsp
    PROVE  TypeOK'
<1>1. CfgType'
  BY CutType DEF TypeOK, CfgType, TaskType, LiveClearRtsp, cfgVars
<1>2. RestType'
  BY DEF TypeOK, RestType, LiveClearRtsp
<1>3. ConnType' /\ SlotType' /\ TaskType' /\ NetType'
  BY DEF TypeOK, ConnType, SlotType, TaskType, NetType, LiveClearRtsp,
     connVars, slotVars, taskVars, netVars
<1> QED
  BY <1>1, <1>2, <1>3 DEF TypeOK

\* Blanking the hosts keeps the types.
LEMMA LiveClearOnvifType ==
    ASSUME TypeOK, TaskOK, LiveClearOnvif
    PROVE  TypeOK'
<1>1. CfgType'
  BY CutType DEF TypeOK, CfgType, TaskType, LiveClearOnvif, Tick, cfgVars
<1>2. RestType'
  BY CountType DEF TypeOK, CfgType, RestType, TaskType, LiveClearOnvif, Tick,
     srvVars
<1>3. ConnType' /\ SlotType' /\ TaskType' /\ NetType'
  BY DEF TypeOK, ConnType, SlotType, TaskType, NetType, LiveClearOnvif,
     connVars, slotVars, taskVars, netVars
<1> QED
  BY <1>1, <1>2, <1>3 DEF TypeOK

-----------------------------------------------------------------------------
(* The task's bookkeeping *)

\* Steps that leave the task, its slots and its call alone.
LEMMA TaskSame ==
    ASSUME TaskOK, UNCHANGED <<pc, chan, strm, rtsp, ref, call>>
    PROVE  TaskOK'
BY DEF TaskOK, Slot

\* Steps of the task between its calls.
LEMMA TaskMoves ==
    ASSUME TypeOK, TaskOK,
           \/ Wake \/ Compare \/ CloseOnvif \/ Copy
           \/ OnvifSkip \/ OnvifSend \/ OnvifFails \/ OnvifGot \/ WriteBack
    PROVE  TaskOK'
<1>1. UNCHANGED <<rtsp, ref, call>> /\ call = NoCall
  BY CallFields
  DEF TypeOK, NetType, TaskOK, Wake, Compare, CloseOnvif, Copy, OnvifSkip,
      OnvifSend, OnvifFails, OnvifGot, WriteBack, slotVars, netVars
<1>2. pc' \in {"close", "closeOnvif", "copy"} =>
        \/ pc' = "close" /\ strm' = 0
        \/ pc' = "copy" /\ pc = "closeOnvif" /\ chan' = chan
  BY DEF Wake, Compare, CloseOnvif, Copy, OnvifSkip, OnvifSend, OnvifFails,
     OnvifGot, WriteBack, GoTo
<1>3. \A s \in Streams : ~(s < 0)
  BY NvrAssumption DEF NvrAssumption, Streams
<1> QED
  BY <1>1, <1>2, <1>3 DEF TaskOK, NoCall

\* The task has finished with closing a stream whose slot is free now.
LEMMA CloseMoves ==
    ASSUME TypeOK, TaskOK, NextClose, pc = "close", ~rtsp'[Slot],
           call'.op = "none", call' = NoCall,
           \A x \in Slots : /\ rtsp'[x] => rtsp[x]
                            /\ ref'[x] # None => rtsp'[x]
    PROVE  TaskOK'
<1>1. \A s \in Streams : s < strm \/ s = strm \/ s > strm
  BY NvrAssumption DEF NvrAssumption, TypeOK, TaskType, Streams
<1>2. \A s \in Streams : s < strm + 1 => s < strm \/ s = strm
  BY NvrAssumption DEF NvrAssumption, TypeOK, TaskType, Streams
<1>3. \A s \in Streams : s <= strm => s < strm \/ s = strm
  BY NvrAssumption DEF NvrAssumption, TypeOK, TaskType, Streams
<1>4. \A s \in Streams : s < strm \/ s = strm => ~rtsp'[<<chan, s>>]
  BY DEF TypeOK, TaskType, TaskOK, Slot, Slots
<1> QED
  BY NextCloseMoves, <1>2, <1>3, <1>4 DEF TaskOK, NoCall

\* Each way to be done with closing a stream.
LEMMA ClosingTask ==
    ASSUME TypeOK, TaskOK, CloseSkip \/ CloseBlank \/ CloseDone \/ CloseTimeout
    PROVE  TaskOK'
<1>1. NextClose /\ pc = "close"
  BY DEF TaskOK, CloseSkip, CloseBlank, CloseDone, CloseTimeout
<1>2. call' = NoCall
  BY CallFields DEF TypeOK, NetType, TaskOK, CloseSkip, CloseBlank, CloseDone,
     CloseTimeout, netVars
<1>3. ~rtsp'[Slot] /\ \A x \in Slots : /\ rtsp'[x] => rtsp[x]
                                       /\ ref'[x] # None => rtsp'[x]
  BY SlotIn DEF TypeOK, SlotType, TaskOK, CloseSkip, CloseBlank, CloseDone,
     CloseTimeout, slotVars
<1> QED
  BY <1>1, <1>2, <1>3, CloseMoves DEF NoCall

\* C_CLOSE goes out for a slot that is marked open.
LEMMA CloseSendTask ==
    ASSUME TypeOK, TaskOK, CloseSend
    PROVE  TaskOK'
BY SlotIn DEF TypeOK, SlotType, TaskOK, CloseSend, NoCall, Slot, taskVars

\* A stream that needs no C_OPEN.
LEMMA OpenSkipTask ==
    ASSUME TypeOK, TaskOK, OpenSkip
    PROVE  TaskOK'
BY NextOpenMoves DEF TaskOK, OpenSkip, NoCall, slotVars, netVars

\* C_OPEN goes out for a slot that is not marked.
LEMMA OpenSendTask ==
    ASSUME TypeOK, TaskOK, OpenSend
    PROVE  TaskOK'
BY DEF TaskOK, OpenSend, NeedsOpen, NoCall, Slot, slotVars, taskVars

\* Each way to be done with opening a stream.
LEMMA OpenedTask ==
    ASSUME TypeOK, TaskOK, OpenDone \/ OpenTimeout
    PROVE  TaskOK'
<1>1. call' = NoCall /\ pc' \in {"open", "cmp", "wait"}
  BY NextOpenMoves DEF TaskOK, OpenDone, OpenTimeout
<1>2. \A x \in Slots : ref'[x] # None => rtsp'[x]
  BY SlotIn DEF TypeOK, SlotType, TaskOK, OpenDone, OpenTimeout, slotVars
<1> QED
  BY <1>1, <1>2 DEF TaskOK, NoCall

\* An answer does not change what was asked.
LEMMA HandledTask ==
    ASSUME TypeOK, TaskOK, HandleOpen \/ HandleClose
    PROVE  TaskOK'
<1>1. /\ UNCHANGED <<pc, chan, strm, rtsp, ref>>
      /\ call'.op = call.op /\ call'.url = call.url /\ call.op # "none"
  BY DEF TypeOK, NetType, Calls, HandleOpen, HandleClose, slotVars, taskVars
<1> QED
  BY <1>1 DEF TaskOK, Slot

\* A stopped rtsps voids the references, not the marks.
LEMMA StoppedTask ==
    ASSUME TypeOK, TaskOK, RtspsStops
    PROVE  TaskOK'
<1>1. /\ UNCHANGED <<pc, chan, strm, rtsp>>
      /\ call' = [call EXCEPT !.mine = FALSE]
      /\ ref' = [x \in Slots |-> None]
  BY DEF RtspsStops, taskVars
<1>2. call'.op = call.op /\ call'.url = call.url
  BY <1>1 DEF TypeOK, NetType, Calls
<1>3. call = NoCall => call' = NoCall
  <2>1. NoCall.mine = FALSE /\ NoCall = [f \in DOMAIN NoCall |-> NoCall[f]]
    BY DEF NoCall
  <2>2. [NoCall EXCEPT !.mine = FALSE] = NoCall
    BY <2>1, Zenon
  <2> QED
    BY <1>1, <2>2
<1> QED
  BY <1>1, <1>2, <1>3, SlotIn DEF TaskOK, Slot

-----------------------------------------------------------------------------
(* References *)

\* What RefsCover, HeldShmLive and CallOK speak of.
coreVars == <<refcnt, shm, shmid, call, lateClose, ref, stray>>
Core == CallOK /\ RefsCover /\ HeldShmLive

\* A url has finitely many holders, now and after a step.
LEMMA HoldersFinite ==
    ASSUME NEW u
    PROVE  /\ IsFiniteSet(HoldersOf(u)) /\ Cardinality(HoldersOf(u)) \in Nat
           /\ IsFiniteSet(HoldersOf(u)') /\ Cardinality(HoldersOf(u)') \in Nat
<1>0. 0 \in Int /\ NChan - 1 \in Int /\ NStream - 1 \in Int
  BY NvrAssumption DEF NvrAssumption
<1>1. IsFiniteSet(Chans) /\ IsFiniteSet(Streams)
  BY <1>0, FS_Interval DEF Chans, Streams
<1>2. IsFiniteSet(Slots)
  BY <1>1, FS_Product DEF Slots
<1>3. HoldersOf(u) \subseteq Slots /\ HoldersOf(u)' \subseteq Slots
  BY DEF HoldersOf
<1> QED
  BY <1>2, <1>3, FS_Subset, FS_CardinalityType

\* When ref changes in one slot, the holders of a url gain or lose that slot.
LEMMA HoldersChange ==
    ASSUME TypeOK, NEW x \in Slots, NEW w \in Urls \cup {None},
           ref' = [ref EXCEPT ![x] = w], NEW u \in Urls
    PROVE  Cardinality(HoldersOf(u)') = Cardinality(HoldersOf(u))
             + (IF w = u THEN 1 ELSE 0) - (IF ref[x] = u THEN 1 ELSE 0)
<1>0. IsFiniteSet(HoldersOf(u)) /\ Cardinality(HoldersOf(u)) \in Nat
  BY HoldersFinite
<1>1. CASE w = u /\ ref[x] # u
  <2>1. HoldersOf(u)' = HoldersOf(u) \cup {x} /\ x \notin HoldersOf(u)
    BY <1>1 DEF TypeOK, SlotType, HoldersOf
  <2>2. Cardinality(HoldersOf(u)') = Cardinality(HoldersOf(u)) + 1
    BY <1>0, <2>1, FS_AddElement
  <2> QED
    BY <1>0, <1>1, <2>2
<1>2. CASE w # u /\ ref[x] = u
  <2>1. HoldersOf(u)' = HoldersOf(u) \ {x} /\ x \in HoldersOf(u)
    BY <1>2 DEF TypeOK, SlotType, HoldersOf
  <2>2. Cardinality(HoldersOf(u)') = Cardinality(HoldersOf(u)) - 1
    BY <1>0, <2>1, FS_RemoveElement
  <2> QED
    BY <1>0, <1>2, <2>2
<1>3. CASE w = u <=> ref[x] = u
  <2>1. HoldersOf(u)' = HoldersOf(u)
    BY <1>3 DEF TypeOK, SlotType, HoldersOf
  <2> QED
    BY <1>0, <1>3, <2>1
<1> QED
  BY <1>1, <1>2, <1>3

\* A url somebody holds has a holder, now and after a step.
LEMMA HolderCounted ==
    ASSUME NEW u, NEW x \in Slots
    PROVE  /\ ref[x] = u => Cardinality(HoldersOf(u)) # 0
           /\ ref'[x] = u => Cardinality(HoldersOf(u)') # 0
<1>1. IsFiniteSet(HoldersOf(u)) /\ IsFiniteSet(HoldersOf(u)')
  BY HoldersFinite
<1>2. /\ ref[x] = u => HoldersOf(u) # {}
      /\ ref'[x] = u => HoldersOf(u)' # {}
  BY DEF HoldersOf
<1> QED
  BY <1>1, <1>2, FS_EmptySet

\* Steps that leave the references and the call alone.
LEMMA CoreSame ==
    ASSUME Core, UNCHANGED coreVars
    PROVE  Core'
<1>1. \A u : HoldersOf(u)' = HoldersOf(u)
  BY DEF coreVars, HoldersOf
<1> QED
  BY <1>1 DEF Core, CallOK, RefsCover, HeldShmLive, Claims, InCall, coreVars

\* The reference moves from the slot to the call, or the url is stray.
LEMMA CloseSendCore ==
    ASSUME TypeOK, TaskOK, Core, CloseSend
    PROVE  Core'
<1>u. CloseUrl \in Urls /\ Slot \in Slots
  BY UrlTypes, SlotIn DEF CloseSend
<1>1. CallOK'
  <2>1. /\ call'.op = "close" /\ call'.url = CloseUrl
        /\ call'.mine = (ref[Slot] = CloseUrl)
    BY DEF CloseSend, NoCall
  <2>2. ref[Slot] # CloseUrl => stray'[CloseUrl]
    BY <1>u DEF CloseSend, TypeOK, RestType
  <2>3. UNCHANGED <<refcnt, shm>>
    BY DEF CloseSend, connVars
  <2> QED
    BY <2>1, <2>2, <2>3 DEF Core, CallOK
<1>2. RefsCover'
  <2> SUFFICES ASSUME NEW u \in Urls PROVE (stray[u] \/ refcnt[u] >= Claims(u))'
    BY DEF RefsCover
  <2>0. ref' = [ref EXCEPT ![Slot] = None] /\ None # u
    BY NvrAssumption DEF CloseSend, NvrAssumption
  <2>1. Cardinality(HoldersOf(u)') = Cardinality(HoldersOf(u))
             + (IF None = u THEN 1 ELSE 0) - (IF ref[Slot] = u THEN 1 ELSE 0)
    BY <1>u, <2>0, HoldersChange
  <2>2. /\ InCall(u) = 0
        /\ InCall(u)' = IF CloseUrl = u /\ ref[Slot] = u THEN 1 ELSE 0
    BY DEF CloseSend, InCall, NoCall
  <2> QED
    BY <1>u, <2>0, <2>1, <2>2, HoldersFinite
    DEF CloseSend, Core, RefsCover, Claims, TypeOK, ConnType, NetType,
        RestType, connVars
<1>3. HeldShmLive'
  BY <1>u DEF CloseSend, Core, HeldShmLive, TypeOK, SlotType, RestType, connVars
<1> QED
  BY <1>1, <1>2, <1>3 DEF Core

\* A reference under a blank url is abandoned: the count only exceeds.
LEMMA CloseBlankCore ==
    ASSUME TypeOK, TaskOK, Core, CloseBlank
    PROVE  Core'
<1>1. CallOK'
  BY DEF CloseBlank, Core, CallOK, netVars, connVars
<1>2. RefsCover'
  <2> SUFFICES ASSUME NEW u \in Urls PROVE (stray[u] \/ refcnt[u] >= Claims(u))'
    BY DEF RefsCover
  <2>0. ref' = [ref EXCEPT ![Slot] = None] /\ None # u
    BY NvrAssumption DEF CloseBlank, NvrAssumption
  <2>1. Cardinality(HoldersOf(u)') = Cardinality(HoldersOf(u))
             + (IF None = u THEN 1 ELSE 0) - (IF ref[Slot] = u THEN 1 ELSE 0)
    BY <2>0, SlotIn, HoldersChange
  <2> QED
    BY <2>0, <2>1, HoldersFinite
    DEF CloseBlank, Core, RefsCover, Claims, InCall, TypeOK, ConnType,
        NetType, netVars, connVars
<1>3. HeldShmLive'
  BY SlotIn DEF CloseBlank, Core, HeldShmLive, TypeOK, SlotType, connVars
<1> QED
  BY <1>1, <1>2, <1>3 DEF Core

\* A C_CLOSE is answered, or given up: then it may still be served.
LEMMA CloseEndCore ==
    ASSUME TypeOK, TaskOK, Core, CloseDone \/ CloseTimeout
    PROVE  Core'
<1>u. call.url \in Urls /\ call.op = "close"
  BY CallFields DEF TypeOK, NetType, TaskOK, CloseDone, CloseTimeout
<1>0. UNCHANGED <<refcnt, shm, shmid, ref, stray>> /\ call' = NoCall
  BY DEF CloseDone, CloseTimeout, connVars
<1>1. CallOK'
  BY <1>0 DEF Core, CallOK, NoCall
<1>2. RefsCover'
  <2> SUFFICES ASSUME NEW u \in Urls PROVE (stray[u] \/ refcnt[u] >= Claims(u))'
    BY DEF RefsCover
  <2>1. HoldersOf(u)' = HoldersOf(u) /\ InCall(u)' = 0
    BY <1>0, NvrAssumption DEF HoldersOf, InCall, NoCall, NvrAssumption
  <2>2. \/ lateClose'[u] = lateClose[u]
        \/ call.url = u /\ ~call.done /\ lateClose'[u] = lateClose[u] + 1
    BY <1>u DEF CloseDone, CloseTimeout, TypeOK, NetType
  <2>3. call.url = u /\ ~call.done => stray[u] \/ InCall(u) = 1
    BY <1>u DEF Core, CallOK, InCall
  <2>4. InCall(u) \in {0, 1}
    BY DEF InCall
  <2> QED
    BY <1>0, <2>1, <2>2, <2>3, <2>4, HoldersFinite
    DEF Core, RefsCover, Claims, TypeOK, ConnType, NetType
<1>3. HeldShmLive'
  BY <1>0 DEF Core, HeldShmLive
<1> QED
  BY <1>1, <1>2, <1>3 DEF Core

\* The channel the task forgets the fifos of has no slot with a reference.
LEMMA CopyCore ==
    ASSUME TypeOK, TaskOK, Core, Copy
    PROVE  Core'
<1>0. UNCHANGED <<refcnt, shm, call, lateClose, ref, stray>>
  BY DEF Copy, connVars, netVars
<1>1. \A u : HoldersOf(u)' = HoldersOf(u)
  BY <1>0 DEF HoldersOf
<1>2. \A x \in Slots : x[1] = chan => ref[x] = None
  BY DEF TaskOK, Copy, Slots
<1>3. \A x \in Slots : ref[x] # None => shmid'[x] = shmid[x]
  BY <1>2 DEF Copy
<1> QED
  BY <1>0, <1>1, <1>3 DEF Core, CallOK, RefsCover, HeldShmLive, Claims, InCall

\* A C_OPEN has no reference before it is served.
LEMMA OpenSendCore ==
    ASSUME TypeOK, TaskOK, Core, OpenSend
    PROVE  Core'
<1>0. UNCHANGED <<refcnt, shm, shmid, lateClose, ref, stray>>
  BY DEF OpenSend, connVars, slotVars
<1>1. \A u \in Urls : HoldersOf(u)' = HoldersOf(u) /\ InCall(u)' = InCall(u)
  BY <1>0 DEF HoldersOf, InCall, OpenSend, NoCall
<1> QED
  BY <1>0, <1>1
  DEF Core, CallOK, RefsCover, HeldShmLive, Claims, OpenSend, NoCall

\* The slot takes over the reference of the answered C_OPEN.
LEMMA OpenDoneCore ==
    ASSUME TypeOK, TaskOK, Core, OpenDone
    PROVE  Core'
<1>u. /\ call.url \in Urls /\ Slot \in Slots /\ ref[Slot] = None
      /\ call' = NoCall /\ call.op = "open" /\ call.done
  BY CallFields, SlotIn DEF TypeOK, NetType, TaskOK, OpenDone
<1>0. UNCHANGED <<refcnt, shm, lateClose, stray>>
  BY DEF OpenDone, connVars
<1>1. CallOK'
  BY <1>0, <1>u DEF Core, CallOK, NoCall
<1>2. RefsCover'
  <2> SUFFICES ASSUME NEW u \in Urls PROVE (stray[u] \/ refcnt[u] >= Claims(u))'
    BY DEF RefsCover
  <2> DEFINE w == IF call.mine THEN call.url ELSE None
  <2>1. Cardinality(HoldersOf(u)') = Cardinality(HoldersOf(u))
             + (IF w = u THEN 1 ELSE 0) - (IF ref[Slot] = u THEN 1 ELSE 0)
    <3>1. w \in Urls \cup {None} /\ ref' = [ref EXCEPT ![Slot] = w]
      BY <1>u DEF OpenDone
    <3>2. Slot \in Slots
      BY <1>u
    <3> HIDE DEF w
    <3> QED
      BY <3>1, <3>2, HoldersChange
  <2>2. InCall(u)' = 0 /\ InCall(u) = IF w = u THEN 1 ELSE 0
    BY <1>u, NvrAssumption DEF InCall, NoCall, NvrAssumption
  <2>3. ref[Slot] # u
    BY <1>u, NvrAssumption DEF NvrAssumption
  <2> QED
    BY <1>0, <2>1, <2>2, <2>3, HoldersFinite DEF Core, RefsCover, Claims,
       TypeOK, ConnType, NetType
<1>3. HeldShmLive'
  <2> SUFFICES ASSUME NEW x \in Slots, ref'[x] # None, ~stray'[ref'[x]]
               PROVE  /\ refcnt'[ref'[x]] > 0
                      /\ shmid'[x] # None /\ shmid'[x] = shm'[ref'[x]]
    BY DEF HeldShmLive
  <2>1. CASE x # Slot
    BY <1>0, <1>u, <2>1 DEF OpenDone, Core, HeldShmLive, TypeOK, SlotType
  <2>2. CASE x = Slot
    <3>1. ref'[x] = call.url /\ call.mine /\ shmid'[x] = call.shm
      BY <1>u, <2>2 DEF OpenDone, TypeOK, SlotType
    <3>2. InCall(call.url) = 1
      BY <1>u, <3>1 DEF InCall
    <3>3. refcnt[call.url] > 0
      BY <1>0, <1>u, <3>1, <3>2, HoldersFinite DEF Core, RefsCover, Claims,
         TypeOK, ConnType, NetType
    <3>4. call.shm = shm[call.url] /\ shm[call.url] # None
      BY <1>0, <1>u, <3>1, <3>3 DEF Core, CallOK
    <3> QED
      BY <1>0, <3>1, <3>3, <3>4
  <2> QED
    BY <2>1, <2>2
<1> QED
  BY <1>1, <1>2, <1>3 DEF Core

\* A C_OPEN given up leaves its reference behind, if it got one.
LEMMA OpenTimeoutCore ==
    ASSUME TypeOK, TaskOK, Core, OpenTimeout
    PROVE  Core'
<1>0. UNCHANGED <<refcnt, shm, shmid, lateClose, ref, stray>> /\ call' = NoCall
  BY DEF OpenTimeout, connVars, slotVars
<1>1. \A u \in Urls : HoldersOf(u)' = HoldersOf(u) /\ InCall(u)' = 0
  BY <1>0, NvrAssumption DEF HoldersOf, InCall, NoCall, NvrAssumption
<1>2. \A u \in Urls : InCall(u) \in {0, 1}
  BY DEF InCall
<1>3. RefsCover'
  BY <1>0, <1>1, <1>2, HoldersFinite
  DEF Core, RefsCover, Claims, TypeOK, ConnType, NetType
<1> QED
  BY <1>0, <1>3 DEF Core, CallOK, HeldShmLive, NoCall

\* The claims on a url are a number that counts the call's, in both states.
LEMMA ClaimsNat ==
    ASSUME NEW u \in Urls
    PROVE  /\ NetType => Claims(u) \in Nat /\ Claims(u) >= InCall(u)
           /\ NetType' => Claims(u)' \in Nat /\ Claims(u)' >= InCall(u)'
BY HoldersFinite DEF Claims, InCall, NetType

\* A url a slot holds after a step is claimed there.
LEMMA HeldClaimed ==
    ASSUME NEW x \in Slots, NEW u \in Urls, NetType', ref'[x] = u
    PROVE  Claims(u)' >= 1
BY HoldersFinite, HolderCounted DEF Claims, InCall, NetType

\* C_OPEN of u is served.
LEMMA ServeOpen ==
    ASSUME TypeOK, Core, NEW u \in Urls, NEW m \in Shms, NEW R,
           ConnCtxOpen(u, m, R), TypeOK', UNCHANGED <<ref, shmid, stray>>,
           \A v \in Urls : Claims(v)' <= Claims(v) + IF v = u THEN 1 ELSE 0
    PROVE  /\ RefsCover' /\ HeldShmLive' /\ shm'[u] = m
           /\ \A v \in Urls : refcnt'[v] = 0 <=> shm'[v] = None
           /\ \A v \in Urls : refcnt[v] > 0 => shm'[v] = shm[v]
<1>1. \A v \in Urls : refcnt'[v] = refcnt[v] + IF v = u THEN 1 ELSE 0
  BY DEF ConnCtxOpen, TypeOK, ConnType
<1>2. shm'[u] = m /\ \A v \in Urls : v # u \/ refcnt[v] > 0 => shm'[v] = shm[v]
  BY DEF ConnCtxOpen, TypeOK, ConnType
<1>3. \A v \in Urls : refcnt'[v] = 0 <=> shm'[v] = None
  BY <1>1, <1>2, NvrAssumption
  DEF Core, CallOK, TypeOK, ConnType, NvrAssumption
<1>4. RefsCover'
  <2> SUFFICES ASSUME NEW v \in Urls, ~stray[v]
               PROVE  refcnt'[v] >= Claims(v)'
    BY DEF RefsCover
  <2>1. refcnt[v] >= Claims(v)
    BY DEF Core, RefsCover
  <2> QED
    BY <1>1, <2>1, ClaimsNat DEF TypeOK, ConnType
<1>5. HeldShmLive'
  BY <1>1, <1>2 DEF Core, HeldShmLive, TypeOK, ConnType, SlotType
<1> QED
  BY <1>2, <1>3, <1>4, <1>5

\* C_CLOSE of u is served: if u is not stray, it took away a claim.
LEMMA ServeClose ==
    ASSUME TypeOK, Core, NEW u \in Urls, ConnCtxClose(u), TypeOK',
           UNCHANGED <<ref, shmid, stray>>,
           \A v \in Urls : ~stray[v] =>
               Claims(v)' = Claims(v) - IF v = u THEN 1 ELSE 0
    PROVE  /\ RefsCover' /\ HeldShmLive'
           /\ \A v \in Urls : refcnt'[v] = 0 <=> shm'[v] = None
           /\ \A v \in Urls : refcnt'[v] > 0 => shm'[v] = shm[v]
<1>1. \A v \in Urls :
         refcnt'[v] = refcnt[v] - IF v = u /\ refcnt[u] > 0 THEN 1 ELSE 0
  BY DEF ConnCtxClose, connVars, TypeOK, ConnType
<1>2. \A v \in Urls : shm'[v] = IF v = u /\ refcnt[u] = 1 THEN None ELSE shm[v]
  BY DEF ConnCtxClose, connVars, TypeOK, ConnType
<1>3. \A v \in Urls : refcnt'[v] = 0 <=> shm'[v] = None
  BY <1>1, <1>2 DEF Core, CallOK, TypeOK, ConnType
<1>4. \A v \in Urls : refcnt'[v] > 0 => shm'[v] = shm[v]
  BY <1>1, <1>2 DEF TypeOK, ConnType
<1>5. \A v \in Urls : ~stray[v] => refcnt'[v] >= Claims(v)'
  <2> SUFFICES ASSUME NEW v \in Urls, ~stray[v]
               PROVE  refcnt'[v] >= Claims(v)'
    OBVIOUS
  <2>1. refcnt[v] >= Claims(v) /\ Claims(v)' \in Nat
    BY ClaimsNat DEF Core, RefsCover, TypeOK
  <2> QED
    BY <1>1, <2>1, ClaimsNat DEF TypeOK, ConnType
<1>6. RefsCover'
  BY <1>5 DEF RefsCover
<1>7. HeldShmLive'
  <2> SUFFICES ASSUME NEW x \in Slots, ref[x] # None, ~stray[ref[x]]
               PROVE  /\ refcnt'[ref[x]] > 0
                      /\ shmid[x] # None /\ shmid[x] = shm'[ref[x]]
    BY DEF HeldShmLive
  <2>1. ref[x] \in Urls /\ shmid[x] # None /\ shmid[x] = shm[ref[x]]
    BY DEF Core, HeldShmLive, TypeOK, SlotType
  <2>2. Claims(ref[x])' >= 1 /\ Claims(ref[x])' \in Nat
    BY <2>1, HeldClaimed, ClaimsNat DEF TypeOK
  <2>3. refcnt'[ref[x]] > 0
    BY <1>1, <1>5, <2>1, <2>2 DEF TypeOK, ConnType
  <2> QED
    BY <1>4, <2>1, <2>3
<1> QED
  BY <1>3, <1>4, <1>6, <1>7

\* The url of an answered C_OPEN is counted.
LEMMA AnsweredCounted ==
    ASSUME TypeOK, TaskOK, Core, call.op = "open", call.done, call.mine,
           ~stray[call.url]
    PROVE  refcnt[call.url] > 0
<1>1. call.url \in Urls
  BY CallFields DEF TypeOK, NetType, TaskOK
<1>2. refcnt[call.url] >= Claims(call.url) /\ InCall(call.url) = 1
  BY <1>1 DEF Core, RefsCover, InCall
<1> QED
  BY <1>1, <1>2, ClaimsNat DEF TypeOK, ConnType

\* Serving the task's C_OPEN adds the reference the call now has.
LEMMA HandleOpenCore ==
    ASSUME TypeOK, TaskOK, Core, TypeOK', HandleOpen
    PROVE  Core'
<1>u. call.url \in Urls /\ call.op = "open" /\ ~call.done
  BY CallFields DEF TypeOK, NetType, TaskOK, HandleOpen
<1>0. UNCHANGED <<shmid, lateClose, ref, stray>>
  BY DEF HandleOpen, slotVars
<1>m. PICK m \in Shms :
          /\ ConnCtxOpen(call.url, m, Known)
          /\ call' = [call EXCEPT !.done = TRUE, !.shm = m, !.mine = TRUE]
  BY DEF HandleOpen
<1>1. /\ call'.op = "open" /\ call'.url = call.url /\ call'.done
      /\ call'.mine /\ call'.shm = m
  BY <1>u, <1>m DEF TypeOK, NetType, Calls
<1>2. \A v \in Urls : Claims(v)' <= Claims(v) + IF v = call.url THEN 1 ELSE 0
  <2> SUFFICES ASSUME NEW v \in Urls
               PROVE  Claims(v)' <= Claims(v) + IF v = call.url THEN 1 ELSE 0
    OBVIOUS
  <2>1. HoldersOf(v)' = HoldersOf(v)
    BY <1>0 DEF HoldersOf
  <2>2. InCall(v) = 0 /\ InCall(v)' = IF v = call.url THEN 1 ELSE 0
    BY <1>u, <1>1 DEF InCall
  <2> QED
    BY <1>0, <2>1, <2>2, HoldersFinite DEF Claims, TypeOK, NetType
<1>3. /\ RefsCover' /\ HeldShmLive' /\ shm'[call.url] = m
      /\ \A v \in Urls : refcnt'[v] = 0 <=> shm'[v] = None
  BY <1>u, <1>0, <1>m, <1>2, ServeOpen DEF TypeOK
<1>4. CallOK'
  BY <1>1, <1>3 DEF CallOK
<1> QED
  BY <1>3, <1>4 DEF Core

\* Serving the task's C_CLOSE takes the reference the call had.
LEMMA HandleCloseCore ==
    ASSUME TypeOK, TaskOK, Core, TypeOK', HandleClose
    PROVE  Core'
<1>u. call.url \in Urls /\ call.op = "close" /\ ~call.done
  BY CallFields DEF TypeOK, NetType, TaskOK, HandleClose
<1>0. UNCHANGED <<shmid, lateClose, ref, stray>> /\ ConnCtxClose(call.url)
  BY DEF HandleClose, slotVars
<1>1. /\ call'.op = "close" /\ call'.url = call.url /\ call'.done
      /\ ~call'.mine
  BY <1>u DEF HandleClose, TypeOK, NetType, Calls
<1>2. \A v \in Urls : ~stray[v] =>
          Claims(v)' = Claims(v) - IF v = call.url THEN 1 ELSE 0
  <2> SUFFICES ASSUME NEW v \in Urls, ~stray[v]
               PROVE  Claims(v)' = Claims(v) - IF v = call.url THEN 1 ELSE 0
    OBVIOUS
  <2>1. HoldersOf(v)' = HoldersOf(v)
    BY <1>0 DEF HoldersOf
  <2>2. InCall(v)' = 0 /\ InCall(v) = IF v = call.url THEN 1 ELSE 0
    BY <1>u, <1>1 DEF Core, CallOK, InCall
  <2> QED
    BY <1>0, <2>1, <2>2, HoldersFinite DEF Claims, TypeOK, NetType
<1>3. /\ RefsCover' /\ HeldShmLive'
      /\ \A v \in Urls : refcnt'[v] = 0 <=> shm'[v] = None
  BY <1>u, <1>0, <1>2, ServeClose DEF TypeOK
<1>4. CallOK'
  BY <1>1, <1>3 DEF CallOK
<1> QED
  BY <1>3, <1>4 DEF Core

\* A C_OPEN nobody waits for leaves a reference that nobody will return.
LEMMA HandleLateOpenCore ==
    ASSUME TypeOK, TaskOK, Core, TypeOK', NEW u \in Urls, HandleLateOpen(u)
    PROVE  Core'
<1>0. UNCHANGED <<shmid, call, lateClose, ref, stray>>
  BY DEF HandleLateOpen, slotVars
<1>m. PICK m \in Shms : ConnCtxOpen(u, m, Known)
  BY DEF HandleLateOpen
<1>1. \A v \in Urls : Claims(v)' = Claims(v)
  BY <1>0 DEF Claims, HoldersOf, InCall
<1>2. \A v \in Urls : Claims(v)' <= Claims(v) + IF v = u THEN 1 ELSE 0
  BY <1>1, ClaimsNat DEF TypeOK
<1>3. /\ RefsCover' /\ HeldShmLive'
      /\ \A v \in Urls : refcnt'[v] = 0 <=> shm'[v] = None
      /\ \A v \in Urls : refcnt[v] > 0 => shm'[v] = shm[v]
  BY <1>0, <1>m, <1>2, ServeOpen DEF TypeOK
<1>4. call.op = "open" /\ call.done /\ call.mine /\ ~stray[call.url] =>
          refcnt[call.url] > 0
  BY AnsweredCounted
<1>5. call.op = "open" => call.url \in Urls
  BY CallFields DEF TypeOK, NetType, TaskOK
<1>6. CallOK'
  BY <1>0, <1>3, <1>4, <1>5 DEF Core, CallOK
<1> QED
  BY <1>3, <1>6 DEF Core

\* A C_CLOSE nobody waits for takes back the reference it was sent for.
LEMMA HandleLateCloseCore ==
    ASSUME TypeOK, TaskOK, Core, TypeOK', NEW u \in Urls, HandleLateClose(u)
    PROVE  Core'
<1>0. UNCHANGED <<shmid, call, ref, stray>> /\ ConnCtxClose(u)
  BY DEF HandleLateClose, slotVars
<1>1. \A v \in Urls : Claims(v)' = Claims(v) - IF v = u THEN 1 ELSE 0
  <2> SUFFICES ASSUME NEW v \in Urls
               PROVE  Claims(v)' = Claims(v) - IF v = u THEN 1 ELSE 0
    OBVIOUS
  <2>1. HoldersOf(v)' = HoldersOf(v) /\ InCall(v)' = InCall(v)
    BY <1>0 DEF HoldersOf, InCall
  <2>2. lateClose'[v] = lateClose[v] - IF v = u THEN 1 ELSE 0
    BY DEF HandleLateClose, TypeOK, NetType
  <2> QED
    BY <2>1, <2>2, HoldersFinite DEF Claims, InCall, TypeOK, NetType
<1>3. /\ RefsCover' /\ HeldShmLive'
      /\ \A v \in Urls : refcnt'[v] = 0 <=> shm'[v] = None
      /\ \A v \in Urls : refcnt'[v] > 0 => shm'[v] = shm[v]
  BY <1>0, <1>1, ServeClose DEF TypeOK
<1>4. call.op = "open" => call.url \in Urls
  BY CallFields DEF TypeOK, NetType, TaskOK
<1>5. call.op = "open" /\ call.done /\ call.mine /\ ~stray[call.url] =>
          refcnt'[call.url] > 0
  <2> SUFFICES ASSUME call.op = "open", call.done, call.mine,
                      ~stray[call.url]
               PROVE  refcnt'[call.url] > 0
    OBVIOUS
  <2>0. PICK v \in Urls : v = call.url
    BY <1>4
  <2>1. refcnt'[v] >= Claims(v)'
    BY <1>0, <1>3, <2>0 DEF RefsCover
  <2>2. InCall(v)' = 1
    BY <1>0, <2>0 DEF InCall
  <2>3. Claims(v)' \in Nat /\ Claims(v)' >= InCall(v)'
    BY ClaimsNat DEF TypeOK
  <2> QED
    BY <2>0, <2>1, <2>2, <2>3 DEF TypeOK, ConnType
<1>6. CallOK'
  BY <1>0, <1>3, <1>4, <1>5 DEF Core, CallOK
<1> QED
  BY <1>3, <1>6 DEF Core

\* A lost request leaves its reference in the table.
LEMMA LateLostCore ==
    ASSUME TypeOK, TaskOK, Core, TypeOK', NEW u \in Urls, LateLost(u)
    PROVE  Core'
<1>0. UNCHANGED <<refcnt, shm, shmid, call, ref, stray>>
  BY DEF LateLost, connVars, slotVars
<1>1. \A v \in Urls : lateClose'[v] <= lateClose[v]
  BY DEF LateLost, TypeOK, NetType
<1>2. RefsCover'
  <2> SUFFICES ASSUME NEW v \in Urls, ~stray[v]
               PROVE  refcnt[v] >= Claims(v)'
    BY <1>0 DEF RefsCover
  <2>1. HoldersOf(v)' = HoldersOf(v) /\ InCall(v)' = InCall(v)
    BY <1>0 DEF HoldersOf, InCall
  <2> QED
    BY <1>1, <2>1, HoldersFinite DEF Core, RefsCover, Claims, InCall,
       TypeOK, ConnType, NetType
<1> QED
  BY <1>0, <1>2 DEF Core, CallOK, HeldShmLive

\* A new rtsps knows nothing, and no slot has a reference there.
LEMMA RtspsStopsCore ==
    ASSUME TypeOK, TaskOK, Core, RtspsStops
    PROVE  Core'
<1>1. /\ refcnt' = [u \in Urls |-> 0] /\ shm' = [u \in Urls |-> None]
      /\ lateClose' = [u \in Urls |-> 0] /\ ref' = [x \in Slots |-> None]
  BY DEF RtspsStops, ConnLost
<1>2. /\ call'.op = call.op /\ call'.url = call.url /\ ~call'.mine
      /\ call'.done = call.done
  BY DEF RtspsStops, TypeOK, NetType, Calls
<1>3. CallOK'
  <2>1. call.op = "close" /\ ~call.done => stray'[call.url]
    BY CallFields DEF RtspsStops, TypeOK, NetType, TaskOK
  <2> QED
    BY <1>1, <1>2, <2>1 DEF CallOK
<1>4. RefsCover'
  <2> SUFFICES ASSUME NEW u \in Urls PROVE refcnt'[u] >= Claims(u)'
    BY DEF RefsCover
  <2>1. HoldersOf(u)' = {} /\ InCall(u)' = 0
    BY <1>1, <1>2, NvrAssumption DEF HoldersOf, InCall, NvrAssumption
  <2> QED
    BY <1>1, <2>1, FS_EmptySet DEF Claims
<1>5. HeldShmLive'
  BY <1>1 DEF HeldShmLive
<1> QED
  BY <1>3, <1>4, <1>5 DEF Core

-----------------------------------------------------------------------------
(* The invariant *)

\* live_mon begins with nothing open and an empty table in rtsps.
LEMMA InitIInv == Init => IInv
<1> SUFFICES ASSUME Init PROVE IInv
  OBVIOUS
<1>1. TypeOK
  BY ZeroIn, NoCallType, BlankType, NvrAssumption
  DEF Init, ConnInit, TypeOK, ConnType, CfgType, SlotType, TaskType, NetType,
      RestType, NvrAssumption, Bounds
<1>2. TaskOK
  BY DEF Init, TaskOK, NoCall
<1>3. RefsCover
  <2> SUFFICES ASSUME NEW u \in Urls PROVE refcnt[u] >= Claims(u)
    BY DEF RefsCover
  <2>1. HoldersOf(u) = {} /\ InCall(u) = 0
    BY NvrAssumption DEF Init, NoCall, HoldersOf, InCall, NvrAssumption
  <2> QED
    BY <2>1, FS_EmptySet DEF Init, ConnInit, Claims
<1>4. CallOK /\ HeldShmLive
  BY DEF Init, ConnInit, CallOK, HeldShmLive, NoCall
<1> QED
  BY <1>1, <1>2, <1>3, <1>4 DEF IInv

\* Every step keeps the types.
LEMMA NextTypeOK ==
    ASSUME TypeOK, TaskOK, [Next]_vars
    PROVE  TypeOK'
<1>1. CASE UNCHANGED vars
  BY <1>1 DEF vars, TypeOK, ConnType, CfgType, SlotType, TaskType, NetType,
     RestType
<1>2. ASSUME NEW i \in Chans, NEW v \in Settings, Set(i, v) \/ SetBegin(i, v)
      PROVE  TypeOK'
  BY <1>2, SetType, SetBeginType
<1>3. CASE Task
  BY <1>3, WakeType, CompareType, CloseSkipType, CloseSendType, CloseBlankType,
     CloseDoneType, CloseOnvifType, CopyType, OnvifSkipType, OnvifSendType,
     OnvifFailsType, OnvifGotType, WriteBackType, OpenSkipType, OpenSendType,
     OpenDoneType
  DEF Task
<1>4. CASE CloseTimeout \/ OpenTimeout \/ SetEnd
  BY <1>4, CloseTimeoutType, OpenTimeoutType, SetEndType
<1>5. CASE Rtsps
  BY <1>5, HandleOpenType, HandleCloseType, HandleLateOpenType,
     HandleLateCloseType, LateLostType, RtspsRegistersType, RtspsListensType
  DEF Rtsps
<1>6. CASE RtspsStops \/ LiveClearRtsp \/ LiveClearOnvif
  BY <1>6, RtspsStopsType, LiveClearRtspType, LiveClearOnvifType
<1> QED
  BY <1>1, <1>2, <1>3, <1>4, <1>5, <1>6 DEF Next

\* Every step keeps the task's bookkeeping.
LEMMA NextTaskOK ==
    ASSUME TypeOK, TaskOK, [Next]_vars
    PROVE  TaskOK'
<1>1. CASE UNCHANGED vars
  BY <1>1, TaskSame DEF vars
<1>2. ASSUME NEW i \in Chans, NEW v \in Settings, Set(i, v) \/ SetBegin(i, v)
      PROVE  TaskOK'
  BY <1>2, TaskSame DEF Set, SetBegin, slotVars, taskVars, netVars
<1>3. CASE Task
  BY <1>3, TaskMoves, ClosingTask, CloseSendTask, OpenSkipTask, OpenSendTask,
     OpenedTask
  DEF Task
<1>4. CASE CloseTimeout \/ OpenTimeout
  BY <1>4, ClosingTask, OpenedTask
<1>5. CASE Rtsps
  <2>1. ASSUME NEW u \in Urls,
               HandleLateOpen(u) \/ HandleLateClose(u) \/ LateLost(u)
        PROVE  TaskOK'
    BY <2>1, TaskSame
    DEF HandleLateOpen, HandleLateClose, LateLost, slotVars, taskVars
  <2>2. CASE RtspsRegisters \/ RtspsListens
    BY <2>2, TaskSame
    DEF RtspsRegisters, RtspsListens, slotVars, taskVars, netVars
  <2> QED
    BY <1>5, <2>1, <2>2, HandledTask DEF Rtsps
<1>6. CASE RtspsStops
  BY <1>6, StoppedTask
<1>7. CASE SetEnd \/ LiveClearRtsp \/ LiveClearOnvif
  BY <1>7, TaskSame
  DEF SetEnd, LiveClearRtsp, LiveClearOnvif, slotVars, taskVars, netVars
<1> QED
  BY <1>1, <1>2, <1>3, <1>4, <1>5, <1>6, <1>7 DEF Next

\* Every step keeps what is said of references and identifiers.
LEMMA NextCore ==
    ASSUME TypeOK, TaskOK, Core, TypeOK', [Next]_vars
    PROVE  Core'
<1>1. CASE UNCHANGED vars
  BY <1>1, CoreSame DEF vars, coreVars
<1>2. ASSUME NEW i \in Chans, NEW v \in Settings, Set(i, v) \/ SetBegin(i, v)
      PROVE  Core'
  BY <1>2, CoreSame
  DEF Set, SetBegin, coreVars, connVars, slotVars, netVars
<1>3. CASE \/ Wake \/ Compare \/ CloseSkip \/ CloseOnvif
           \/ OnvifSkip \/ OnvifSend \/ OnvifFails \/ OnvifGot \/ WriteBack
           \/ OpenSkip
  BY <1>3, CoreSame
  DEF Wake, Compare, CloseSkip, CloseOnvif, OnvifSkip, OnvifSend, OnvifFails,
      OnvifGot, WriteBack, OpenSkip, coreVars, connVars, slotVars, netVars
<1>4. CASE CloseSend \/ CloseBlank \/ CloseDone \/ CloseTimeout \/ Copy
  BY <1>4, CloseSendCore, CloseBlankCore, CloseEndCore, CopyCore
<1>5. CASE OpenSend \/ OpenDone \/ OpenTimeout
  BY <1>5, OpenSendCore, OpenDoneCore, OpenTimeoutCore
<1>6. CASE Rtsps
  <2>1. ASSUME NEW u \in Urls,
               HandleLateOpen(u) \/ HandleLateClose(u) \/ LateLost(u)
        PROVE  Core'
    BY <2>1, HandleLateOpenCore, HandleLateCloseCore, LateLostCore
  <2>2. CASE RtspsRegisters \/ RtspsListens
    BY <2>2, CoreSame
    DEF RtspsRegisters, RtspsListens, coreVars, connVars, slotVars, netVars
  <2> QED
    BY <1>6, <2>1, <2>2, HandleOpenCore, HandleCloseCore DEF Rtsps
<1>7. CASE RtspsStops
  BY <1>7, RtspsStopsCore
<1>8. CASE SetEnd \/ LiveClearRtsp \/ LiveClearOnvif
  BY <1>8, CoreSame
  DEF SetEnd, LiveClearRtsp, LiveClearOnvif, coreVars, connVars, slotVars,
      netVars
<1> QED
  BY <1>1, <1>2, <1>3, <1>4, <1>5, <1>6, <1>7, <1>8 DEF Next, Task

\* What the live task and rtsps may rely on in every state, for any number
\* of channels, streams, urls, settings, timeouts and restarts.
THEOREM Invariance == Spec => []IInv
<1>1. Init => IInv
  BY InitIInv
<1>2. IInv /\ [Next]_vars => IInv'
  BY NextTypeOK, NextTaskOK, NextCore DEF IInv, Core
<1> QED
  BY <1>1, <1>2, PTL DEF Spec

\* Types, among them that a reference count of rtsps (conn_ctx_open,
\* conn_ctx_close) is never negative.
THEOREM TypeCorrect == Spec => []TypeOK
<1>1. IInv => TypeOK
  BY DEF IInv
<1> QED
  BY <1>1, Invariance, PTL

\* The table of rtsps counts every reference that live_mon (nvr_live.c) has
\* or that is on its way back, for the urls no stray C_CLOSE was sent for.
THEOREM ReferencesCovered == Spec => []RefsCover
<1>1. IInv => RefsCover
  BY DEF IInv
<1> QED
  BY <1>1, Invariance, PTL

-----------------------------------------------------------------------------
(* Until rtsps stops: what the task closes is what it had opened            *)

\* A setting of a camera has no urls or those the camera reports, and is
\* copied whole.
Fits(c) ==
    /\ "st" \notin c.cut
    /\ c.host # None => ~TornCopy /\ (c.st = Blank \/ c.st \in Media[c.host])

\* Cameras have one set of urls, and what users set fits them.
Steady ==
    /\ \A h \in Hosts : \A m, k \in Media[h] : m = k
    /\ \A v \in Settings : Fits(v)

\* The url of a slot in the copy the task acts on.
UrlAt(x) == mng[x[1]].st[x[2]]

\* A slot that is marked open has its reference under the url that a C_CLOSE
\* would name, and an answered C_OPEN brings that reference.
SteadyInv ==
    /\ srv = "up" /\ ~event /\ (writing # <<>> => TornCopy)
    /\ \A i \in Chans : Fits(cfg[i]) /\ Fits(mng[i])
    /\ pc = "onvifCall" => ohost = mng[chan].host
    /\ \A x \in Slots : rtsp[x] =>
        /\ UrlAt(x) # None
        /\ ref[x] = UrlAt(x) \/ (call.op = "close" /\ x = Slot)
    /\ call.op = "open" => call.url = UrlAt(Slot) /\ (call.done => call.mine)
    /\ \A u \in Urls : ~stray[u]

\* Urls and hosts of a setting that fits.
LEMMA FitUrls ==
    ASSUME NEW c \in ChSrc, Fits(c)
    PROVE  /\ \A s \in Streams : UrlOf(c, s) = c.st[s]
           /\ Fits(CutHost(c)) /\ CutHost(c).st = c.st
           /\ CutHost(c).host = c.host
           /\ HostOf(c) # None => HostOf(c) = c.host
BY DEF Fits, UrlOf, CutHost, HostOf, ChSrc

\* At the start nothing is open.
LEMMA SteadyInit ==
    ASSUME Steady, Init
    PROVE  SteadyInv
BY DEF Steady, Init, SteadyInv, Fits, NoSrc, NoCall

\* Users set what fits; the task is not concerned before it compares.
LEMMA SetSteady ==
    ASSUME Steady, TypeOK, SteadyInv, NEW i \in Chans, NEW v \in Settings,
           Set(i, v)
    PROVE  SteadyInv'
BY DEF Steady, TypeOK, CfgType, SteadyInv, UrlAt, Slot, Set, slotVars,
   taskVars, netVars, srvVars

\* Half a setting fits as well, as there is no camera then.
LEMMA SetBeginSteady ==
    ASSUME Steady, TypeOK, SteadyInv, NEW i \in Chans, NEW v \in Settings,
           SetBegin(i, v)
    PROVE  SteadyInv'
<1>1. Fits(v) /\ Fits(cfg[i]) /\ cfg[i] \in ChSrc
  BY DEF Steady, SteadyInv, TypeOK, CfgType
<1>2. Fits(WithChoice(cfg[i], v.en, v.host))
  BY <1>1 DEF Fits, WithChoice, ChSrc, SetBegin
<1>3. \A j \in Chans : Fits(cfg'[j])
  BY <1>2 DEF SetBegin, SteadyInv, TypeOK, CfgType
<1> QED
  BY <1>3 DEF SteadyInv, UrlAt, Slot, SetBegin, slotVars, taskVars, netVars,
     srvVars

LEMMA SetEndSteady ==
    ASSUME TypeOK, SteadyInv, SetEnd
    PROVE  SteadyInv'
<1>1. TornCopy /\ writing[1] \in Chans
  BY DEF SteadyInv, SetEnd, TypeOK, CfgType
<1>2. \A c \in ChSrc : \A st : Fits(c) => Fits(WithUrls(c, st))
  BY <1>1 DEF Fits, WithUrls, ChSrc
<1>3. \A j \in Chans : Fits(cfg'[j])
  BY <1>1, <1>2 DEF SetEnd, SteadyInv, TypeOK, CfgType
<1> QED
  BY <1>3 DEF SteadyInv, UrlAt, Slot, SetEnd, slotVars, taskVars, netVars,
     srvVars

\* Steps of the task that change where it is and nothing else.
LEMMA MoveSteady ==
    ASSUME TypeOK, TaskOK, SteadyInv,
           \/ Wake \/ Compare \/ CloseSkip \/ CloseOnvif
           \/ OnvifSkip \/ OnvifFails \/ OpenSkip
    PROVE  SteadyInv'
<1> DEFINE Still == UNCHANGED <<srv, event, writing, cfg, mng, rtsp, ref, call,
                                stray>>
           Off == pc' # "onvifCall" /\ call.op = "none"
<1>1. call.op \in {"none", "open", "close"}
  BY CallFields DEF TypeOK, NetType
<1>2. ASSUME Wake \/ Compare \/ CloseOnvif \/ OnvifSkip \/ OnvifFails
      PROVE  Still /\ Off
  BY <1>1, <1>2
  DEF TaskOK, Wake, Compare, CloseOnvif, OnvifSkip, OnvifFails, GoTo, cfgVars,
      slotVars, netVars, srvVars
<1>3. ASSUME CloseSkip PROVE Still /\ Off
  <2>1. call.op = "none"
    BY <1>1, <1>3 DEF TaskOK, CloseSkip
  <2> QED
    BY <1>3, <2>1, NextCloseMoves
    DEF CloseSkip, cfgVars, slotVars, netVars, srvVars
<1>4. ASSUME OpenSkip
      PROVE  Still /\ Off
  <2>1. call.op = "none"
    BY <1>4 DEF OpenSkip, NoCall
  <2> QED
    BY <1>4, <2>1, NextOpenMoves
    DEF OpenSkip, cfgVars, slotVars, netVars, srvVars
<1>5. Still /\ Off
  BY <1>2, <1>3, <1>4
<1> QED
  BY <1>5 DEF SteadyInv, UrlAt

\* The camera that is asked is that of the setting.
LEMMA OnvifSendSteady ==
    ASSUME TypeOK, TaskOK, SteadyInv, OnvifSend
    PROVE  SteadyInv'
<1>1. mng[chan] \in ChSrc /\ Fits(mng[chan]) /\ HostOf(mng[chan]) # None
  BY DEF TypeOK, CfgType, TaskType, SteadyInv, OnvifSend, NeedsOnvif
<1>2. ohost' = mng'[chan'].host
  BY <1>1, FitUrls DEF OnvifSend
<1> QED
  BY <1>2 DEF SteadyInv, UrlAt, Slot, OnvifSend, cfgVars, slotVars,
     netVars, srvVars

\* The url of a C_CLOSE is that of the slot's reference.
LEMMA CloseSendSteady ==
    ASSUME TypeOK, TaskOK, SteadyInv, CloseSend
    PROVE  SteadyInv'
<1>1. Slot \in Slots /\ CloseUrl = UrlAt(Slot) /\ CloseUrl \in Urls
  BY FitUrls, SlotIn, UrlTypes
  DEF TypeOK, CfgType, TaskType, SteadyInv, CloseUrl, UrlAt, Slot, CloseSend
<1>2. ref[Slot] = CloseUrl
  BY <1>1 DEF SteadyInv, CloseSend, NoCall
<1>3. stray' = stray
  BY <1>1, <1>2 DEF CloseSend, TypeOK, RestType, SteadyInv
<1>4. /\ UNCHANGED <<srv, event, writing, cfg, mng, rtsp, pc, chan, strm,
                      ohost>>
      /\ call'.op = "close" /\ pc # "onvifCall"
      /\ \A x \in Slots : x # Slot => ref'[x] = ref[x]
      /\ call.op = "none"
  BY DEF CloseSend, NoCall, cfgVars, taskVars, srvVars, TypeOK, SlotType
<1> QED
  BY <1>3, <1>4 DEF SteadyInv, UrlAt, Slot

\* A C_CLOSE that is over, and no C_CLOSE is blank.
LEMMA ClosedSteady ==
    ASSUME TypeOK, TaskOK, SteadyInv, CloseBlank \/ CloseDone \/ CloseTimeout
    PROVE  SteadyInv'
<1>1. ~CloseBlank
  BY FitUrls, SlotIn
  DEF TypeOK, CfgType, TaskType, SteadyInv, CloseUrl, UrlAt, Slot, CloseBlank
<1>2. /\ UNCHANGED <<srv, event, writing, cfg, mng, ref, stray>>
      /\ call'.op = "none" /\ pc' # "onvifCall"
  BY <1>1, NextCloseMoves
  DEF TaskOK, CloseDone, CloseTimeout, NoCall, cfgVars, srvVars
<1>3. \A x \in Slots : rtsp'[x] => rtsp[x] /\ x # Slot
  BY <1>1 DEF CloseDone, CloseTimeout, TypeOK, SlotType
<1> QED
  BY <1>2, <1>3 DEF SteadyInv, UrlAt

\* The channel that is copied has no slot marked open.
LEMMA CopySteady ==
    ASSUME TypeOK, TaskOK, SteadyInv, Copy
    PROVE  SteadyInv'
<1>1. /\ UNCHANGED <<srv, event, writing, cfg, rtsp, ref, call, stray>>
      /\ pc' # "onvifCall" /\ call.op = "none"
  BY CallFields
  DEF TypeOK, NetType, TaskOK, Copy, GoTo, cfgVars, netVars, srvVars
<1>2. /\ \A i \in Chans : Fits(mng'[i])
      /\ \A i \in Chans : i # chan => mng'[i] = mng[i]
  BY DEF Copy, TypeOK, CfgType, TaskType, SteadyInv
<1>3. \A x \in Slots : rtsp[x] => x[1] # chan /\ x[1] \in Chans
  BY DEF Copy, TaskOK, Slots
<1> QED
  BY <1>1, <1>2, <1>3 DEF SteadyInv, UrlAt

\* The urls of a camera are those its open streams have already.
LEMMA OnvifGotSteady ==
    ASSUME Steady, TypeOK, TaskOK, SteadyInv, OnvifGot
    PROVE  SteadyInv'
<1>1. /\ UNCHANGED <<srv, event, writing, cfg, rtsp, ref, call, stray>>
      /\ pc' # "onvifCall" /\ call.op = "none"
  BY CallFields
  DEF TypeOK, NetType, TaskOK, OnvifGot, slotVars, cfgVars, netVars, srvVars
<1>m. PICK m \in Media[ohost] :
          mng' = [mng EXCEPT ![chan] = WithUrls(mng[chan], m)]
  BY DEF OnvifGot
<1>2. /\ ohost \in Hosts /\ ohost = mng[chan].host /\ chan \in Chans
      /\ mng[chan] \in ChSrc /\ Fits(mng[chan])
  BY DEF OnvifGot, TypeOK, TaskType, CfgType, SteadyInv
<1>3. mng[chan].st = Blank \/ mng[chan].st = m
  BY <1>m, <1>2, NvrAssumption DEF Steady, Fits, NvrAssumption
<1>4. /\ mng'[chan].st = m /\ Fits(mng'[chan])
      /\ \A i \in Chans : i # chan => mng'[i] = mng[i]
  BY <1>m, <1>2 DEF WithUrls, Fits, ChSrc, TypeOK, CfgType
<1>5. \A x \in Slots : rtsp[x] => UrlAt(x)' = UrlAt(x)
  <2> SUFFICES ASSUME NEW x \in Slots, rtsp[x], x[1] = chan
               PROVE  UrlAt(x)' = UrlAt(x)
    BY <1>4 DEF UrlAt, Slots
  <2>1. UrlAt(x) # None /\ x[2] \in Streams
    BY DEF SteadyInv, Slots
  <2>2. mng[chan].st = m
    BY <1>3, <2>1 DEF UrlAt, Blank
  <2> QED
    BY <1>4, <2>2 DEF UrlAt
<1> QED
  BY <1>1, <1>4, <1>5 DEF SteadyInv

\* What is written back fits.
LEMMA WriteBackSteady ==
    ASSUME TypeOK, TaskOK, SteadyInv, WriteBack
    PROVE  SteadyInv'
<1>1. /\ UNCHANGED <<srv, event, writing, mng, rtsp, ref, call, stray>>
      /\ pc' # "onvifCall" /\ call.op = "none"
  BY CallFields
  DEF TypeOK, NetType, TaskOK, WriteBack, GoTo, slotVars, netVars, srvVars
<1>2. \A i \in Chans : Fits(cfg'[i])
  BY DEF WriteBack, TypeOK, CfgType, TaskType, SteadyInv
<1> QED
  BY <1>1, <1>2 DEF SteadyInv, UrlAt

\* C_OPEN is sent for the url of the slot.
LEMMA OpenSendSteady ==
    ASSUME TypeOK, TaskOK, SteadyInv, OpenSend
    PROVE  SteadyInv'
<1>1. call'.url = UrlAt(Slot) /\ call'.op = "open" /\ ~call'.done
  BY FitUrls
  DEF TypeOK, CfgType, TaskType, SteadyInv, UrlAt, Slot, OpenSend, NoCall
<1>2. call.op = "none"
  BY DEF OpenSend, NoCall
<1> QED
  BY <1>1, <1>2 DEF SteadyInv, UrlAt, Slot, OpenSend, cfgVars,
     slotVars, taskVars, srvVars

\* An answered C_OPEN, or one that is given up.
LEMMA OpenedSteady ==
    ASSUME TypeOK, TaskOK, SteadyInv, OpenDone \/ OpenTimeout
    PROVE  SteadyInv'
<1>1. /\ UNCHANGED <<srv, event, writing, cfg, mng, stray>>
      /\ call'.op = "none" /\ pc' # "onvifCall" /\ call.op = "open"
      /\ call.url # None
  BY NextOpenMoves
  DEF TaskOK, OpenDone, OpenTimeout, NoCall, cfgVars, srvVars
<1>2. \A x \in Slots :
        rtsp'[x] => \/ rtsp[x] /\ ref'[x] = ref[x]
                    \/ x = Slot /\ ref'[x] = call.url
  BY SlotIn DEF OpenDone, OpenTimeout, SteadyInv, TypeOK, SlotType, slotVars
<1> QED
  BY <1>1, <1>2 DEF SteadyInv, UrlAt

\* rtsps answers a C_OPEN: the caller has a reference.
LEMMA HandleOpenSteady ==
    ASSUME TypeOK, SteadyInv, HandleOpen
    PROVE  SteadyInv'
<1>1. call \in Calls
  BY DEF TypeOK, NetType
<1>2. PICK m \in Shms :
          call' = [call EXCEPT !.done = TRUE, !.shm = m, !.mine = TRUE]
  BY Zenon DEF HandleOpen
<1>3. call'.op = call.op /\ call'.url = call.url /\ call'.mine
  BY <1>1, <1>2 DEF Calls
<1>4. UNCHANGED <<srv, event, writing, cfg, mng, rtsp, ref, stray, pc, chan,
                  strm, ohost>>
  BY DEF HandleOpen, cfgVars, slotVars, taskVars, srvVars
<1> QED
  BY <1>3, <1>4 DEF SteadyInv, UrlAt, Slot

\* rtsps answers a C_CLOSE.
LEMMA HandleCloseSteady ==
    ASSUME TypeOK, SteadyInv, HandleClose
    PROVE  SteadyInv'
<1>1. call'.op = call.op /\ call'.url = call.url /\ call.op = "close"
  BY DEF TypeOK, NetType, Calls, HandleClose
<1> QED
  BY <1>1 DEF SteadyInv, UrlAt, Slot, HandleClose, cfgVars,
     slotVars, taskVars, srvVars

\* onvif has registered: the hosts are blanked, the urls are not.
LEMMA ClearedSteady ==
    ASSUME TypeOK, SteadyInv, LiveClearOnvif
    PROVE  SteadyInv'
<1>1. \A i \in Chans : /\ Fits(mng'[i]) /\ mng'[i].st = mng[i].st
                       /\ mng'[i].host = mng[i].host
  BY FitUrls DEF LiveClearOnvif, TypeOK, CfgType, SteadyInv
<1>2. \A x \in Slots : UrlAt(x)' = UrlAt(x)
  BY <1>1 DEF UrlAt, Slots
<1>3. Slot \in Slots /\ chan \in Chans
  BY SlotIn DEF TypeOK, TaskType
<1> QED
  BY <1>1, <1>2, <1>3 DEF SteadyInv, Slot, LiveClearOnvif, cfgVars,
     slotVars, taskVars, netVars, srvVars

\* Requests that nobody waits for.
LEMMA LateSteady ==
    ASSUME SteadyInv, NEW u \in Urls,
           HandleLateOpen(u) \/ HandleLateClose(u) \/ LateLost(u)
    PROVE  SteadyInv'
BY DEF SteadyInv, UrlAt, Slot, HandleLateOpen, HandleLateClose,
   LateLost, cfgVars, slotVars, taskVars, srvVars

\* Nothing stops, so nothing starts either.
LEMMA NoStops ==
    ASSUME TypeOK, SteadyInv, Unstopped'
    PROVE  ~RtspsStops /\ ~RtspsRegisters /\ ~RtspsListens /\ ~LiveClearRtsp
<1>1. count["stops"] \in Nat
  BY DEF TypeOK, RestType, Bounds
<1>2. ~RtspsStops
  BY <1>1 DEF RtspsStops, Tick, Unstopped, TypeOK, RestType, Bounds
<1> QED
  BY <1>2 DEF SteadyInv, RtspsRegisters, RtspsListens, LiveClearRtsp

\* What is counted is not counted back.
LEMMA UnstoppedBefore ==
    ASSUME TypeOK, [Next]_vars, Unstopped'
    PROVE  Unstopped
<1>1. count["stops"] \in Nat /\ count \in [DOMAIN Bounds -> Nat]
  BY DEF TypeOK, RestType, Bounds
<1>2. UNCHANGED count \/ \E k \in DOMAIN Bounds : Tick(k)
  BY DEF Next, Task, Rtsps, vars, Bounds, Set, SetBegin, SetEnd, Wake, Compare,
     CloseSkip, CloseSend, CloseBlank, CloseDone, CloseOnvif, Copy, OnvifSkip,
     OnvifSend, OnvifFails, OnvifGot, WriteBack, OpenSkip, OpenSend, OpenDone,
     CloseTimeout, OpenTimeout, HandleOpen, HandleClose, HandleLateOpen,
     HandleLateClose, LateLost, RtspsRegisters, RtspsListens, RtspsStops,
     LiveClearRtsp, LiveClearOnvif
<1> QED
  BY <1>1, <1>2 DEF Tick, Unstopped, Bounds

LEMMA NextSteady ==
    ASSUME Steady, TypeOK, TaskOK, SteadyInv, [Next]_vars, Unstopped'
    PROVE  SteadyInv'
<1>1. CASE UNCHANGED vars
  BY <1>1 DEF vars, SteadyInv, UrlAt, Slot
<1>2. ASSUME \/ SetEnd
             \/ \E i \in Chans, v \in Settings : Set(i, v) \/ SetBegin(i, v)
      PROVE  SteadyInv'
  BY <1>2, SetSteady, SetBeginSteady, SetEndSteady
<1>3. CASE Task
  BY <1>3, MoveSteady, OnvifSendSteady, CloseSendSteady, ClosedSteady,
     CopySteady, OnvifGotSteady, WriteBackSteady, OpenSendSteady, OpenedSteady
  DEF Task
<1>4. CASE CloseTimeout \/ OpenTimeout
  BY <1>4, ClosedSteady, OpenedSteady
<1>5. CASE Rtsps
  BY <1>5, NoStops, HandleOpenSteady, HandleCloseSteady, LateSteady DEF Rtsps
<1>6. CASE LiveClearOnvif
  BY <1>6, ClearedSteady
<1> QED
  BY <1>1, <1>2, <1>3, <1>4, <1>5, <1>6, NoStops DEF Next

SteadyHolds == Unstopped => SteadyInv

LEMMA SteadyAlways ==
    ASSUME Steady
    PROVE  Spec => [](IInv /\ SteadyHolds)
<1>1. Init => SteadyHolds
  BY SteadyInit DEF SteadyHolds
<1>2. IInv /\ SteadyHolds /\ [Next]_vars => SteadyHolds'
  BY NextSteady, UnstoppedBefore DEF IInv, SteadyHolds
<1> QED
  BY <1>1, <1>2, Invariance, PTL DEF Spec

\* What live_task closes (nvr_live.c:140) is what it had opened: until rtsps
\* stops, if cameras keep their urls and their settings are seen whole, no
\* C_CLOSE goes out without a reference, whatever times out or comes late.
THEOREM ClosesItsOwn ==
    ASSUME Steady
    PROVE  Spec => []NoStray
<1>1. IInv /\ SteadyHolds => NoStray
  BY DEF SteadyHolds, SteadyInv, NoStray
<1> QED
  BY <1>1, SteadyAlways, PTL

-----------------------------------------------------------------------------
(* Until rtsps stops: at most one reference is lost per timeout             *)

\* A request that is late may still bring a reference that nobody gives back.
Bounded ==
    \A u \in Urls :
        refcnt[u] + lateOpen[u] <=
            Cardinality(HoldersOf(u)) + InCall(u) + count["timeouts"]

\* The numbers of the bound.
LEMMA BoundNats ==
    ASSUME TypeOK, NEW u \in Urls
    PROVE  /\ refcnt[u] \in Nat /\ lateOpen[u] \in Nat
           /\ Cardinality(HoldersOf(u)) \in Nat /\ InCall(u) \in {0, 1}
           /\ count["timeouts"] \in Nat
BY HoldersFinite DEF TypeOK, ConnType, NetType, RestType, Bounds, InCall

\* A step that moves no reference and ends no call.
LEMMA BoundedSame ==
    ASSUME TypeOK, Bounded, UNCHANGED <<refcnt, ref, lateOpen>>,
           count'["timeouts"] = count["timeouts"],
           \A u \in Urls : InCall(u)' = InCall(u)
    PROVE  Bounded'
<1>1. \A u : HoldersOf(u)' = HoldersOf(u)
  BY DEF HoldersOf
<1> QED
  BY <1>1 DEF Bounded

\* A timeout pays for the reference of the call, or for its late request.
LEMMA TimeoutBounded ==
    ASSUME TypeOK, TaskOK, Bounded, CloseTimeout \/ OpenTimeout
    PROVE  Bounded'
<1> SUFFICES ASSUME NEW u \in Urls
             PROVE  refcnt'[u] + lateOpen'[u] <=
                      Cardinality(HoldersOf(u)') + InCall(u)'
                                                 + count'["timeouts"]
  BY DEF Bounded
<1>1. UNCHANGED <<refcnt, ref>> /\ call' = NoCall
  BY DEF CloseTimeout, OpenTimeout, connVars, slotVars
<1>2. count'["timeouts"] = count["timeouts"] + 1
  BY DEF CloseTimeout, OpenTimeout, Tick, TypeOK, RestType, Bounds
<1>3. HoldersOf(u)' = HoldersOf(u) /\ InCall(u)' = 0
  BY <1>1, NvrAssumption DEF HoldersOf, InCall, NoCall, NvrAssumption
<1>4. \/ lateOpen'[u] = lateOpen[u]
      \/ lateOpen'[u] = lateOpen[u] + 1 /\ InCall(u) = 0
  <2>1. CASE CloseTimeout
    BY <2>1 DEF CloseTimeout
  <2>2. CASE OpenTimeout /\ call.done
    BY <2>2 DEF OpenTimeout
  <2>3. CASE OpenTimeout /\ ~call.done
    BY <2>3 DEF OpenTimeout, InCall, TypeOK, NetType
  <2> QED
    BY <2>1, <2>2, <2>3
<1> QED
  BY <1>1, <1>2, <1>3, <1>4, BoundNats DEF Bounded

\* The slot's reference becomes that of the C_CLOSE.
LEMMA CloseSendBounded ==
    ASSUME TypeOK, TaskOK, SteadyInv, Bounded, CloseSend
    PROVE  Bounded'
<1>1. Slot \in Slots /\ CloseUrl = UrlAt(Slot) /\ CloseUrl \in Urls
  BY FitUrls, SlotIn, UrlTypes
  DEF TypeOK, CfgType, TaskType, SteadyInv, CloseUrl, UrlAt, Slot, CloseSend
<1>2. ref[Slot] = CloseUrl /\ ref' = [ref EXCEPT ![Slot] = None]
  BY <1>1 DEF SteadyInv, CloseSend, NoCall
<1>3. UNCHANGED <<refcnt, lateOpen, count>>
  BY DEF CloseSend, connVars
<1> SUFFICES ASSUME NEW u \in Urls
             PROVE  refcnt[u] + lateOpen[u] <=
                      Cardinality(HoldersOf(u)') + InCall(u)'
                                                 + count["timeouts"]
  BY <1>3 DEF Bounded
<1>4. InCall(u) = 0 /\ InCall(u)' = IF CloseUrl = u THEN 1 ELSE 0
  BY <1>2 DEF CloseSend, InCall, NoCall
<1>5. None # u
  BY NvrAssumption DEF NvrAssumption
<1>6. Cardinality(HoldersOf(u)') = Cardinality(HoldersOf(u))
           + (IF None = u THEN 1 ELSE 0) - (IF ref[Slot] = u THEN 1 ELSE 0)
  BY <1>1, <1>2, HoldersChange
<1> QED
  BY <1>2, <1>4, <1>5, <1>6, BoundNats DEF Bounded

\* The reference of the answered C_OPEN becomes the slot's.
LEMMA OpenDoneBounded ==
    ASSUME TypeOK, TaskOK, SteadyInv, Bounded, OpenDone
    PROVE  Bounded'
<1>1. /\ call.url \in Urls /\ Slot \in Slots /\ ref[Slot] = None
      /\ call' = NoCall /\ call.op = "open" /\ call.done /\ call.mine
  BY CallFields, SlotIn DEF TypeOK, NetType, TaskOK, OpenDone, SteadyInv
<1>2. UNCHANGED <<refcnt, lateOpen, count>>
  BY DEF OpenDone, connVars
<1>w. PICK w \in Urls : w = call.url
  BY <1>1
<1>3. Slot \in Slots /\ ref' = [ref EXCEPT ![Slot] = w]
  BY <1>1, <1>w DEF OpenDone
<1> SUFFICES ASSUME NEW u \in Urls
             PROVE  refcnt[u] + lateOpen[u] <=
                      Cardinality(HoldersOf(u)') + InCall(u)'
                                                 + count["timeouts"]
  BY <1>2 DEF Bounded
<1>4. InCall(u)' = 0 /\ InCall(u) = IF w = u THEN 1 ELSE 0
  BY <1>1, <1>w, NvrAssumption DEF InCall, NoCall, NvrAssumption
<1>5. Cardinality(HoldersOf(u)') = Cardinality(HoldersOf(u))
           + (IF w = u THEN 1 ELSE 0) - (IF ref[Slot] = u THEN 1 ELSE 0)
  BY <1>3, HoldersChange
<1>6. ref[Slot] # u
  BY <1>1, NvrAssumption DEF NvrAssumption
<1> QED
  BY <1>4, <1>5, <1>6, BoundNats DEF Bounded

\* A request that is served: the reference that is counted was not before, and
\* a C_CLOSE of the task finds the one it gives back.
LEMMA ServedBounded ==
    ASSUME IInv, SteadyInv, Bounded, HandleOpen \/ HandleClose
    PROVE  Bounded'
<1>0. TypeOK /\ TaskOK
  BY DEF IInv
<1>1. call.url \in Urls /\ ~call.done /\ UNCHANGED <<lateOpen, ref, count>>
  BY <1>0, CallFields
  DEF TypeOK, NetType, TaskOK, HandleOpen, HandleClose, slotVars
<1>w. PICK w \in Urls : w = call.url
  BY <1>1
<1>2. \A u : HoldersOf(u)' = HoldersOf(u)
  BY <1>1 DEF HoldersOf
<1>3. CASE HandleOpen
  <2>m. PICK m \in Shms :
            /\ ConnCtxOpen(call.url, m, Known)
            /\ call' = [call EXCEPT !.done = TRUE, !.shm = m, !.mine = TRUE]
    BY <1>3, Zenon DEF HandleOpen
  <2>1. call'.op = "open" /\ call'.url = call.url /\ call'.done /\ call'.mine
    BY <1>0, <1>3, <2>m DEF TypeOK, NetType, Calls, HandleOpen
  <2>2. \A u \in Urls : refcnt'[u] = refcnt[u] + IF u = w THEN 1 ELSE 0
    BY <1>0, <1>w, <2>m DEF ConnCtxOpen, TypeOK, ConnType
  <2>3. call.op = "open"
    BY <1>3 DEF HandleOpen
  <2>4. \A u \in Urls : InCall(u) = 0 /\ InCall(u)' = IF u = w THEN 1 ELSE 0
    BY <1>1, <1>w, <2>1, <2>3 DEF InCall
  <2> QED
    BY <1>0, <1>1, <1>2, <2>2, <2>4, BoundNats DEF Bounded
<1>4. CASE HandleClose
  <2>1. /\ call.op = "close" /\ call.mine /\ ConnCtxClose(w)
        /\ call'.op = "close" /\ call'.done
    BY <1>0, <1>1, <1>4, <1>w
    DEF HandleClose, IInv, CallOK, SteadyInv, TypeOK, NetType, Calls
  <2>2. \A u \in Urls : InCall(u)' = 0 /\ InCall(u) = IF u = w THEN 1 ELSE 0
    BY <1>1, <1>w, <2>1 DEF InCall
  <2>3. refcnt[w] >= Claims(w) /\ refcnt[w] \in Nat
    BY <1>0 DEF IInv, RefsCover, SteadyInv, TypeOK, ConnType
  <2>4. refcnt[w] >= 1
    <3>1. Cardinality(HoldersOf(w)) \in Nat /\ lateClose[w] \in Nat
      BY <1>0, BoundNats DEF TypeOK, NetType
    <3>2. Claims(w) = Cardinality(HoldersOf(w)) + 1 + lateClose[w]
      BY <2>2 DEF Claims
    <3> QED
      BY <2>3, <3>1, <3>2
  <2>5. \A u \in Urls : refcnt'[u] = refcnt[u] - IF u = w THEN 1 ELSE 0
    BY <1>0, <2>1, <2>4 DEF ConnCtxClose, TypeOK, ConnType
  <2> QED
    BY <1>0, <1>1, <1>2, <2>2, <2>5, BoundNats DEF Bounded
<1> QED
  BY <1>3, <1>4

\* A late request brings or takes a reference, or is dropped.
LEMMA LateBounded ==
    ASSUME TypeOK, Bounded, NEW v \in Urls,
           HandleLateOpen(v) \/ HandleLateClose(v) \/ LateLost(v)
    PROVE  Bounded'
<1>1. UNCHANGED <<ref, call, count>>
  BY DEF HandleLateOpen, HandleLateClose, LateLost, slotVars
<1>2. \A u : HoldersOf(u)' = HoldersOf(u) /\ InCall(u)' = InCall(u)
  BY <1>1 DEF HoldersOf, InCall
<1>3. ASSUME NEW u \in Urls
      PROVE  /\ refcnt'[u] \in Nat /\ lateOpen'[u] \in Nat
             /\ refcnt'[u] + lateOpen'[u] <= refcnt[u] + lateOpen[u]
  <2>0. refcnt \in [Urls -> Nat] /\ lateOpen \in [Urls -> Nat]
    BY DEF TypeOK, ConnType, NetType
  <2>1. CASE HandleLateOpen(v)
    BY <2>0, <2>1 DEF HandleLateOpen, ConnCtxOpen
  <2>2. CASE HandleLateClose(v)
    BY <2>0, <2>2 DEF HandleLateClose, ConnCtxClose, connVars
  <2>3. CASE LateLost(v)
    BY <2>0, <2>3 DEF LateLost, connVars
  <2> QED
    BY <2>1, <2>2, <2>3
<1> QED
  BY <1>1, <1>2, <1>3, BoundNats DEF Bounded

\* The other steps of the task, and those of users and of onvif.
LEMMA OtherBounded ==
    ASSUME TypeOK, TaskOK, Bounded,
           \/ SetEnd
           \/ \E i \in Chans, v \in Settings : Set(i, v) \/ SetBegin(i, v)
           \/ Wake \/ Compare \/ CloseSkip \/ CloseDone \/ CloseOnvif \/ Copy
           \/ OnvifSkip \/ OnvifSend \/ OnvifFails \/ OnvifGot \/ WriteBack
           \/ OpenSkip \/ OpenSend \/ LiveClearOnvif
    PROVE  Bounded'
<1>1. UNCHANGED <<refcnt, ref, lateOpen>>
  BY DEF Set, SetBegin, SetEnd, Wake, Compare, CloseSkip, CloseDone,
     CloseOnvif, Copy, OnvifSkip, OnvifSend, OnvifFails, OnvifGot, WriteBack,
     OpenSkip, OpenSend, LiveClearOnvif, connVars, slotVars, netVars
<1>2. count'["timeouts"] = count["timeouts"]
  <2>1. count \in [DOMAIN Bounds -> Nat] /\ "timeouts" \in DOMAIN Bounds
    BY DEF TypeOK, RestType, Bounds
  <2> QED
    BY <2>1 DEF Set, SetBegin, SetEnd, Wake, Compare, CloseSkip, CloseDone,
       CloseOnvif, Copy, OnvifSkip, OnvifSend, OnvifFails, OnvifGot, WriteBack,
       OpenSkip, OpenSend, LiveClearOnvif, Tick
<1>3. call' = call \/ CloseDone \/ OpenSend
  BY DEF Set, SetBegin, SetEnd, Wake, Compare, CloseSkip, CloseOnvif, Copy,
     OnvifSkip, OnvifSend, OnvifFails, OnvifGot, WriteBack, OpenSkip,
     LiveClearOnvif, netVars
<1>4. \A u \in Urls : InCall(u)' = InCall(u)
  <2>1. CASE call' = call
    BY <2>1 DEF InCall
  <2>2. CASE CloseDone
    BY <2>2, NvrAssumption DEF CloseDone, InCall, NoCall, NvrAssumption
  <2>3. CASE OpenSend
    BY <2>3 DEF OpenSend, InCall, NoCall
  <2> QED
    BY <1>3, <2>1, <2>2, <2>3
<1> QED
  BY <1>1, <1>2, <1>4, BoundedSame

\* A C_CLOSE is never blank.
LEMMA NeverBlank ==
    ASSUME TypeOK, SteadyInv
    PROVE  ~CloseBlank
BY FitUrls, SlotIn
DEF TypeOK, CfgType, TaskType, SteadyInv, CloseUrl, UrlAt, Slot, CloseBlank

LEMMA NextBounded ==
    ASSUME IInv, SteadyInv, Bounded, [Next]_vars, Unstopped'
    PROVE  Bounded'
<1>0. TypeOK /\ TaskOK
  BY DEF IInv
<1>1. CASE UNCHANGED vars
  <2>1. \A u \in Urls : InCall(u)' = InCall(u)
    BY <1>1 DEF vars, InCall
  <2> QED
    BY <1>0, <1>1, <2>1, BoundedSame DEF vars
<1>2. CASE \/ SetEnd \/ LiveClearOnvif
           \/ \E i \in Chans, v \in Settings : Set(i, v) \/ SetBegin(i, v)
  BY <1>0, <1>2, OtherBounded
<1>3. CASE Task
  BY <1>0, <1>3, NeverBlank, OtherBounded, CloseSendBounded, OpenDoneBounded
  DEF Task
<1>4. CASE CloseTimeout \/ OpenTimeout
  BY <1>0, <1>4, TimeoutBounded
<1>5. CASE Rtsps
  BY <1>0, <1>5, NoStops, ServedBounded, LateBounded DEF Rtsps
<1> QED
  BY <1>0, <1>1, <1>2, <1>3, <1>4, <1>5, NoStops DEF Next

\* A timeout of the task (nvr_live.c:225, 152) costs rtsps at most one
\* reference that nobody gives back, whatever users set and in whatever order
\* late requests are served or lost; and without timeouts none is lost.
THEOREM LeaksBounded ==
    ASSUME Steady
    PROVE  Spec => []LeakBound
<1> DEFINE LeakInv == Unstopped => Bounded
<1>1. Init => LeakInv
  <2> SUFFICES ASSUME Init, NEW u \in Urls
               PROVE  refcnt[u] + lateOpen[u] <=
                        Cardinality(HoldersOf(u)) + InCall(u)
                                                  + count["timeouts"]
    BY DEF Bounded
  <2>1. IInv
    BY InitIInv
  <2>2. refcnt[u] = 0 /\ lateOpen[u] = 0
    BY DEF Init, ConnInit
  <2> QED
    BY <2>1, <2>2, BoundNats DEF IInv
<1>2. IInv /\ SteadyHolds /\ LeakInv /\ [Next]_vars => LeakInv'
  BY NextBounded, UnstoppedBefore DEF IInv, SteadyHolds
<1>3. IInv /\ LeakInv => LeakBound
  <2> SUFFICES ASSUME IInv, Bounded, NEW u \in Urls
               PROVE  refcnt[u] <= Cardinality(HoldersOf(u)) + InCall(u)
                                                   + count["timeouts"]
    BY DEF LeakBound
  <2> QED
    BY BoundNats DEF Bounded, IInv
<1> QED
  BY <1>1, <1>2, <1>3, SteadyAlways, PTL DEF Spec

-----------------------------------------------------------------------------
(* Without timeouts and stops: the table is exact *)

\* Without timeouts nobody gives up on a request either, and the table counts
\* exactly the references that are in use.
Tight == NothingLate /\ RefsTight

\* A step of the table and the task, seen through the mapping of NvrLive.
PullStep == [Pull!Next]_(Pull!resVars)

\* Caller is no slot.
LEMMA CallerOutside == Caller \notin Slots
BY NvrAssumption DEF Caller, Slots, Chans, NvrAssumption

\* A step that moves no reference.
LEMMA TightSame ==
    ASSUME Tight, UNCHANGED <<refcnt, ref, lateOpen, lateClose>>,
           \A u \in Urls : InCall(u)' = InCall(u)
    PROVE  Tight' /\ PullStep
<1>1. \A u : HoldersOf(u)' = HoldersOf(u)
  BY DEF HoldersOf
<1>2. Tight'
  BY <1>1 DEF Tight, NothingLate, RefsTight, Claims
<1>3. UsersOf' = UsersOf /\ Pulled' = Pulled
  BY <1>1 DEF UsersOf, Using, Pulled
<1> QED
  BY <1>2, <1>3 DEF PullStep, Pull!resVars

\* A url in the table is used, and its last user is the only one.
LEMMA UsersCounted ==
    ASSUME TypeOK, Tight, NEW u \in Urls
    PROVE  /\ refcnt[u] \in Nat
           /\ refcnt[u] = InCall(u) => HoldersOf(u) = {}
<1>1. IsFiniteSet(HoldersOf(u)) /\ Cardinality(HoldersOf(u)) \in Nat
  BY HoldersFinite
<1>2. refcnt[u] = Cardinality(HoldersOf(u)) + InCall(u)
  BY <1>1 DEF Tight, NothingLate, RefsTight, Claims, InCall
<1>3. InCall(u) \in Nat
  BY DEF InCall
<1>4. refcnt[u] = InCall(u) => Cardinality(HoldersOf(u)) = 0
  BY <1>1, <1>2, <1>3
<1> QED
  BY <1>1, <1>4, FS_EmptySet DEF TypeOK, ConnType

\* At the start the table is empty and nobody has a reference.
LEMMA TightInit ==
    ASSUME Init
    PROVE  Tight /\ Pull!Init
<1>1. ASSUME NEW u \in Urls
      PROVE  HoldersOf(u) = {} /\ InCall(u) = 0 /\ refcnt[u] = Claims(u)
  <2>1. HoldersOf(u) = {} /\ InCall(u) = 0
    BY NvrAssumption DEF Init, NoCall, HoldersOf, InCall, NvrAssumption
  <2> QED
    BY <2>1, FS_EmptySet DEF Init, ConnInit, Claims
<1>2. Tight
  BY <1>1 DEF Init, Tight, NothingLate, RefsTight
<1>3. Pulled = {} /\ UsersOf = [u \in Urls |-> {}]
  BY <1>1 DEF Init, ConnInit, Pulled, UsersOf, Using
<1> QED
  BY <1>2, <1>3 DEF Pull!Init

\* The slot's reference becomes that of the C_CLOSE.
LEMMA CloseSendTight ==
    ASSUME TypeOK, TaskOK, SteadyInv, Tight, CloseSend
    PROVE  Tight' /\ PullStep
<1>1. Slot \in Slots /\ CloseUrl = UrlAt(Slot) /\ CloseUrl \in Urls
  BY FitUrls, SlotIn, UrlTypes
  DEF TypeOK, CfgType, TaskType, SteadyInv, CloseUrl, UrlAt, Slot, CloseSend
<1>2. ref[Slot] = CloseUrl /\ ref' = [ref EXCEPT ![Slot] = None]
  BY <1>1 DEF SteadyInv, CloseSend, NoCall
<1>3. UNCHANGED <<refcnt, lateOpen, lateClose>>
  BY DEF CloseSend, connVars
<1>4. \A u \in Urls : /\ InCall(u) = 0
                      /\ InCall(u)' = IF CloseUrl = u THEN 1 ELSE 0
  BY <1>2 DEF CloseSend, InCall, NoCall
<1>5. Tight'
  <2> SUFFICES ASSUME NEW u \in Urls PROVE refcnt[u] = Claims(u)'
    BY <1>3 DEF Tight, NothingLate, RefsTight
  <2>1. None # u
    BY NvrAssumption DEF NvrAssumption
  <2>2. Cardinality(HoldersOf(u)') = Cardinality(HoldersOf(u))
             + (IF None = u THEN 1 ELSE 0) - (IF ref[Slot] = u THEN 1 ELSE 0)
    BY <1>1, <1>2, HoldersChange
  <2> QED
    BY <1>2, <1>3, <1>4, <2>1, <2>2, HoldersFinite
    DEF Tight, RefsTight, Claims, TypeOK, NetType
<1>6. Pull!HandOver(CloseUrl, Slot, Caller)
  <2>1. \A u \in Urls :
           HoldersOf(u)' = IF u = CloseUrl THEN HoldersOf(u) \ {Slot}
                                           ELSE HoldersOf(u)
    BY <1>1, <1>2, NvrAssumption
    DEF HoldersOf, TypeOK, SlotType, NvrAssumption
  <2>2. UsersOf' = [UsersOf EXCEPT ![CloseUrl] = (@ \ {Slot}) \cup {Caller}]
    BY <1>1, <1>4, <2>1 DEF UsersOf, Using
  <2>3. Slot \in UsersOf[CloseUrl] /\ Caller \notin UsersOf[CloseUrl]
    BY <1>1, <1>2, <1>4, CallerOutside DEF UsersOf, Using, HoldersOf
  <2>4. Pulled' = Pulled
    BY <1>3 DEF Pulled
  <2> QED
    BY <2>2, <2>3, <2>4 DEF Pull!HandOver
<1> QED
  BY <1>1, <1>5, <1>6 DEF PullStep, Pull!Next

\* The reference of the answered C_OPEN becomes the slot's.
LEMMA OpenDoneTight ==
    ASSUME TypeOK, TaskOK, SteadyInv, Tight, OpenDone
    PROVE  Tight' /\ PullStep
<1>1. /\ call.url \in Urls /\ Slot \in Slots /\ ref[Slot] = None
      /\ call' = NoCall /\ call.op = "open" /\ call.done /\ call.mine
  BY CallFields, SlotIn DEF TypeOK, NetType, TaskOK, OpenDone, SteadyInv
<1>2. UNCHANGED <<refcnt, lateOpen, lateClose>>
  BY DEF OpenDone, connVars
<1>w. PICK w \in Urls : w = call.url
  BY <1>1
<1>3. Slot \in Slots /\ ref' = [ref EXCEPT ![Slot] = w]
  BY <1>1, <1>w DEF OpenDone
<1>4. \A u \in Urls : InCall(u)' = 0 /\ InCall(u) = IF w = u THEN 1 ELSE 0
  BY <1>1, <1>w, NvrAssumption DEF InCall, NoCall, NvrAssumption
<1>5. Tight'
  <2> SUFFICES ASSUME NEW u \in Urls PROVE refcnt[u] = Claims(u)'
    BY <1>2 DEF Tight, NothingLate, RefsTight
  <2>1. Cardinality(HoldersOf(u)') = Cardinality(HoldersOf(u))
             + (IF w = u THEN 1 ELSE 0) - (IF ref[Slot] = u THEN 1 ELSE 0)
    BY <1>3, HoldersChange
  <2>2. ref[Slot] # u
    BY <1>1, NvrAssumption DEF NvrAssumption
  <2> QED
    BY <1>2, <1>4, <2>1, <2>2, HoldersFinite
    DEF Tight, RefsTight, Claims, TypeOK, NetType
<1>6. Pull!HandOver(w, Caller, Slot)
  <2>1. \A u \in Urls :
           HoldersOf(u)' = IF u = w THEN HoldersOf(u) \cup {Slot}
                                    ELSE HoldersOf(u)
    BY <1>1, <1>3, NvrAssumption
    DEF HoldersOf, TypeOK, SlotType, NvrAssumption
  <2>2. UsersOf[w] = HoldersOf(w) \cup {Caller} /\ Slot \notin HoldersOf(w)
    BY <1>1, <1>4, NvrAssumption DEF UsersOf, Using, HoldersOf, NvrAssumption
  <2>3. Caller \notin HoldersOf(w) /\ Slot # Caller
    BY <1>1, CallerOutside DEF HoldersOf
  <2>4. UsersOf' = [UsersOf EXCEPT ![w] = (@ \ {Caller}) \cup {Slot}]
    <3>1. \A u \in Urls : /\ Using(u)' = HoldersOf(u)'
                          /\ u # w => Using(u) = HoldersOf(u)
      BY <1>4 DEF Using
    <3>2. HoldersOf(w)' = (UsersOf[w] \ {Caller}) \cup {Slot}
      BY <2>1, <2>2, <2>3
    <3> QED
      BY <2>1, <3>1, <3>2 DEF UsersOf
  <2>5. Pulled' = Pulled
    BY <1>2 DEF Pulled
  <2> QED
    BY <2>2, <2>3, <2>4, <2>5 DEF Pull!HandOver
<1> QED
  BY <1>1, <1>5, <1>6 DEF PullStep, Pull!Next

\* A C_OPEN that is served counts the reference it brings.
LEMMA HandleOpenTight ==
    ASSUME TypeOK, TaskOK, Tight, HandleOpen
    PROVE  Tight' /\ PullStep
<1>1. call.url \in Urls /\ call.op = "open" /\ ~call.done
  BY CallFields DEF TypeOK, NetType, TaskOK, HandleOpen
<1>2. UNCHANGED <<lateOpen, lateClose, ref>>
  BY DEF HandleOpen, slotVars
<1>m. PICK m \in Shms :
          /\ ConnCtxOpen(call.url, m, Known)
          /\ call' = [call EXCEPT !.done = TRUE, !.shm = m, !.mine = TRUE]
  BY Zenon DEF HandleOpen
<1>3. call'.op = "open" /\ call'.url = call.url /\ call'.done /\ call'.mine
  BY <1>1, <1>m DEF TypeOK, NetType, Calls
<1>w. PICK w \in Urls : w = call.url
  BY <1>1
<1>4. \A u \in Urls : refcnt'[u] = refcnt[u] + IF u = w THEN 1 ELSE 0
  BY <1>w, <1>m DEF ConnCtxOpen, TypeOK, ConnType
<1>5. \A u \in Urls : HoldersOf(u)' = HoldersOf(u)
  BY <1>2 DEF HoldersOf
<1>6. \A u \in Urls : InCall(u) = 0 /\ InCall(u)' = IF u = w THEN 1 ELSE 0
  BY <1>1, <1>3, <1>w DEF InCall
<1>7. Tight'
  <2> SUFFICES ASSUME NEW u \in Urls PROVE refcnt'[u] = Claims(u)'
    BY <1>2 DEF Tight, NothingLate, RefsTight
  <2> QED
    BY <1>2, <1>4, <1>5, <1>6, HoldersFinite
    DEF Tight, RefsTight, Claims, TypeOK, NetType
<1>8. UsersOf' = [UsersOf EXCEPT ![w] = @ \cup {Caller}]
  BY <1>5, <1>6 DEF UsersOf, Using
<1>9. UsersOf[w] = HoldersOf(w) /\ Caller \notin HoldersOf(w)
  BY <1>6, CallerOutside DEF UsersOf, Using, HoldersOf
<1>10. CASE refcnt[w] = 0
  <2>1. HoldersOf(w) = {}
    BY <1>6, <1>10, UsersCounted
  <2>2. w \notin Pulled /\ Pulled' = Pulled \cup {w}
    BY <1>4, <1>10 DEF Pulled, TypeOK, ConnType
  <2>3. Pull!Provide(w, Caller)
    BY <1>8, <1>9, <2>1, <2>2 DEF Pull!Provide
  <2> QED
    BY <1>7, <2>3 DEF PullStep, Pull!Next
<1>11. CASE refcnt[w] # 0
  <2>1. w \in Pulled /\ Pulled' = Pulled
    BY <1>4, <1>11 DEF Pulled, TypeOK, ConnType
  <2>2. Pull!Acquire(w, Caller)
    BY <1>8, <1>9, <2>1 DEF Pull!Acquire
  <2> QED
    BY <1>7, <2>2 DEF PullStep, Pull!Next
<1> QED
  BY <1>10, <1>11

\* A C_CLOSE that is served takes away the reference it was sent for.
LEMMA HandleCloseTight ==
    ASSUME TypeOK, TaskOK, CallOK, SteadyInv, Tight, HandleClose
    PROVE  Tight' /\ PullStep
<1>1. /\ call.url \in Urls /\ call.op = "close" /\ ~call.done /\ call.mine
  BY CallFields
  DEF TypeOK, NetType, TaskOK, CallOK, SteadyInv, HandleClose
<1>w. PICK w \in Urls : w = call.url
  BY <1>1
<1>2. UNCHANGED <<lateOpen, lateClose, ref>> /\ ConnCtxClose(w)
  BY <1>w DEF HandleClose, slotVars
<1>3. call'.op = "close" /\ call'.done
  BY <1>1 DEF HandleClose, TypeOK, NetType, Calls
<1>4. \A u \in Urls : InCall(u)' = 0 /\ InCall(u) = IF u = w THEN 1 ELSE 0
  BY <1>1, <1>3, <1>w DEF InCall
<1>5. refcnt[w] \in Nat /\ refcnt[w] >= 1
  <2>1. refcnt[w] = Claims(w) /\ InCall(w) = 1
    BY <1>4 DEF Tight, RefsTight
  <2> QED
    BY <2>1, ClaimsNat DEF TypeOK
<1>6. \A u \in Urls : refcnt'[u] = refcnt[u] - IF u = w THEN 1 ELSE 0
  BY <1>2, <1>5 DEF ConnCtxClose, TypeOK, ConnType
<1>7. \A u \in Urls : HoldersOf(u)' = HoldersOf(u)
  BY <1>2 DEF HoldersOf
<1>8. Tight'
  <2> SUFFICES ASSUME NEW u \in Urls PROVE refcnt'[u] = Claims(u)'
    BY <1>2 DEF Tight, NothingLate, RefsTight
  <2> QED
    BY <1>2, <1>4, <1>6, <1>7, HoldersFinite
    DEF Tight, RefsTight, Claims, TypeOK, NetType
<1>9. Pull!Release(w, Caller)
  <2>1. UsersOf[w] = HoldersOf(w) \cup {Caller} /\ Caller \notin HoldersOf(w)
    BY <1>4, CallerOutside DEF UsersOf, Using, HoldersOf
  <2>2. UsersOf' = [UsersOf EXCEPT ![w] = @ \ {Caller}]
    <3>1. \A u \in Urls : /\ Using(u)' = HoldersOf(u)
                          /\ u # w => Using(u) = HoldersOf(u)
      BY <1>4, <1>7 DEF Using
    <3>2. HoldersOf(w) = UsersOf[w] \ {Caller}
      BY <2>1
    <3> QED
      BY <3>1, <3>2 DEF UsersOf
  <2>3. CASE refcnt[w] = 1
    <3>1. UsersOf[w] = {Caller}
      BY <1>4, <2>1, <2>3, UsersCounted
    <3>2. Pulled' = Pulled \ {w}
      BY <1>6, <2>3 DEF Pulled, TypeOK, ConnType
    <3> QED
      BY <2>2, <3>1, <3>2 DEF Pull!Release
  <2>4. CASE refcnt[w] # 1
    <3>1. Pulled' = Pulled
      BY <1>5, <1>6, <2>4 DEF Pulled, TypeOK, ConnType
    <3> QED
      BY <2>1, <2>2, <3>1 DEF Pull!Release
  <2> QED
    BY <2>3, <2>4
<1> QED
  BY <1>8, <1>9 DEF PullStep, Pull!Next

\* The other steps of the task, and those of users and of onvif.
LEMMA OtherTight ==
    ASSUME TypeOK, TaskOK, Tight,
           \/ SetEnd
           \/ \E i \in Chans, v \in Settings : Set(i, v) \/ SetBegin(i, v)
           \/ Wake \/ Compare \/ CloseSkip \/ CloseDone \/ CloseOnvif \/ Copy
           \/ OnvifSkip \/ OnvifSend \/ OnvifFails \/ OnvifGot \/ WriteBack
           \/ OpenSkip \/ OpenSend \/ LiveClearOnvif
    PROVE  Tight' /\ PullStep
<1>1. UNCHANGED <<refcnt, ref, lateOpen, lateClose>>
  BY DEF Set, SetBegin, SetEnd, Wake, Compare, CloseSkip, CloseDone,
     CloseOnvif, Copy, OnvifSkip, OnvifSend, OnvifFails, OnvifGot, WriteBack,
     OpenSkip, OpenSend, LiveClearOnvif, connVars, slotVars, netVars
<1>2. \/ call' = call
      \/ CloseDone
      \/ OpenSend
  BY DEF Set, SetBegin, SetEnd, Wake, Compare, CloseSkip, CloseOnvif, Copy,
     OnvifSkip, OnvifSend, OnvifFails, OnvifGot, WriteBack, OpenSkip,
     LiveClearOnvif, netVars
<1>3. \A u \in Urls : InCall(u)' = InCall(u)
  <2>1. CASE call' = call
    BY <2>1 DEF InCall
  <2>2. CASE CloseDone
    BY <2>2, NvrAssumption DEF CloseDone, InCall, NoCall, NvrAssumption
  <2>3. CASE OpenSend
    BY <2>3 DEF OpenSend, InCall, NoCall
  <2> QED
    BY <1>2, <2>1, <2>2, <2>3
<1> QED
  BY <1>1, <1>3, TightSame

\* Nobody gives up, so no request is late, and no C_CLOSE is blank.
LEMMA NothingGivenUp ==
    ASSUME MaxTimeouts = 0, TypeOK, SteadyInv, Tight
    PROVE  /\ ~CloseTimeout /\ ~OpenTimeout /\ ~CloseBlank
           /\ \A u \in Urls :
                 ~HandleLateOpen(u) /\ ~HandleLateClose(u) /\ ~LateLost(u)
<1>1. count["timeouts"] \in Nat /\ Bounds["timeouts"] = 0
  BY DEF TypeOK, RestType, Bounds
<1>2. ~CloseTimeout /\ ~OpenTimeout
  BY <1>1 DEF CloseTimeout, OpenTimeout, Tick
<1>3. ~CloseBlank
  BY FitUrls, SlotIn
  DEF TypeOK, CfgType, TaskType, SteadyInv, CloseUrl, UrlAt, Slot, CloseBlank
<1>4. \A u \in Urls :
         ~HandleLateOpen(u) /\ ~HandleLateClose(u) /\ ~LateLost(u)
  BY DEF Tight, NothingLate, HandleLateOpen, HandleLateClose, LateLost
<1> QED
  BY <1>2, <1>3, <1>4

\* Every step keeps the table exact and is one of SharedRes or a stutter.
LEMMA NextTight ==
    ASSUME MaxTimeouts = 0, IInv, SteadyInv, Tight, [Next]_vars, Unstopped'
    PROVE  Tight' /\ PullStep
<1> USE DEF IInv
<1>1. CASE UNCHANGED vars
  <2>1. \A u \in Urls : InCall(u)' = InCall(u)
    BY <1>1 DEF vars, InCall
  <2> QED
    BY <1>1, <2>1, TightSame DEF vars
<1>2. ASSUME \/ SetEnd
             \/ \E i \in Chans, v \in Settings : Set(i, v) \/ SetBegin(i, v)
      PROVE  Tight' /\ PullStep
  BY <1>2, OtherTight
<1>3. CASE Task
  BY <1>3, NothingGivenUp, OtherTight, CloseSendTight, OpenDoneTight DEF Task
<1>4. CASE Rtsps
  BY <1>4, NoStops, NothingGivenUp, HandleOpenTight, HandleCloseTight DEF Rtsps
<1>5. CASE LiveClearOnvif
  BY <1>5, OtherTight
<1> QED
  BY <1>1, <1>2, <1>3, <1>4, <1>5, NoStops, NothingGivenUp DEF Next

\* rtsps does not stop, if it may not.
LEMMA NeverStops ==
    ASSUME MaxStops = 0, Steady
    PROVE  Spec => [](IInv /\ SteadyInv /\ Unstopped)
<1>1. Init => Unstopped
  BY DEF Init, Unstopped, Bounds
<1>2. IInv /\ SteadyHolds /\ Unstopped /\ [Next]_vars => Unstopped'
  <2> SUFFICES ASSUME IInv, SteadyHolds, Unstopped, [Next]_vars
               PROVE  Unstopped'
    OBVIOUS
  <2>1. ~RtspsStops
    BY DEF RtspsStops, Tick, Bounds, Unstopped
  <2> QED
    BY <2>1 DEF Unstopped, Next, Task, Rtsps, vars, Bounds, Set, SetBegin,
       SetEnd, Wake, Compare, CloseSkip, CloseSend, CloseBlank, CloseDone,
       CloseOnvif, Copy, OnvifSkip, OnvifSend, OnvifFails, OnvifGot, WriteBack,
       OpenSkip, OpenSend, OpenDone, CloseTimeout, OpenTimeout, HandleOpen,
       HandleClose, HandleLateOpen, HandleLateClose, LateLost, RtspsRegisters,
       RtspsListens, LiveClearRtsp, LiveClearOnvif, Tick, IInv, TypeOK, RestType
<1> QED
  BY <1>1, <1>2, SteadyAlways, PTL DEF Spec, SteadyHolds

\* rtsps (conn_ctxs, rtsp-st.c) counts for each url exactly the streams the NVR
\* has open and the calls under way, no matter what users set: under the
\* assumptions of ClosesItsOwn no reference is lost unless a call times out.
THEOREM CountsTight ==
    ASSUME Steady, MaxStops = 0, MaxTimeouts = 0
    PROVE  Spec => []RefsTight
<1>1. IInv /\ SteadyInv /\ Unstopped' /\ Tight /\ [Next]_vars => Tight'
  BY NextTight
<1>2. Init => Tight
  BY TightInit
<1>3. Tight => RefsTight
  BY DEF Tight
<1> QED
  BY <1>1, <1>2, <1>3, NeverStops, PTL DEF Spec

\* The table (conn_ctxs, rtsp-st.c) and the task (nvr_live.c) together implement
\* SharedRes for the streams that are pulled: none is stopped while a slot
\* shows it or a call has it in hand.
THEOREM ImplementsPull ==
    ASSUME Steady, MaxStops = 0, MaxTimeouts = 0
    PROVE  Spec => PullSpec
<1>1. IInv /\ SteadyInv /\ Unstopped' /\ Tight /\ [Next]_vars =>
          Tight' /\ [Pull!Next]_(Pull!resVars)
  BY NextTight DEF PullStep
<1>2. Init => Tight /\ Pull!Init
  BY TightInit
<1> QED
  BY <1>1, <1>2, NeverStops, PTL DEF Spec, PullSpec, Pull!Spec
=============================================================================
