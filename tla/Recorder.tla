------------------------------ MODULE Recorder ------------------------------
(***************************************************************************)
(* The recorder process (mod/rec/src/server.c): one segment file per       *)
(* channel, an index of all files on the disk, and the recycling of the    *)
(* oldest files when the disk is full.                                     *)
(*                                                                         *)
(*  - The recorder thread writes the channels, ends and begins segments,   *)
(*    and recycles.  It is the only one that does so.                      *)
(*  - Workers of the request endpoint store snapshots (ser_image_writer):  *)
(*    they enter the image in the index, copy the file, and close the      *)
(*    entry.  ser.lock is held for each access to the index on its own;    *)
(*    the recycler takes it for none.                                      *)
(*  - The process may be killed between any two steps.  Index and files    *)
(*    stay; when it starts again it closes the entries left open.          *)
(*  - The results of fd_rm (unlink) and of TI_OPEN are not looked at: the  *)
(*    thread goes on as if all had gone well.  Such an error is recorded   *)
(*    in a history variable, which no action reads.                        *)
(*                                                                         *)
(* An entry of the index and the file it stands for have one key: the      *)
(* time it begins and the channel number.  The index (fw/tindex) orders    *)
(* its entries by this key.  A snapshot and a recording of one number and  *)
(* one time, which 16 recorded channels allow (IMAGE_CHN_BASE is 9), are    *)
(* one file here and two in the code: the properties speak of numbers that *)
(* only recordings have.                                                   *)
(***************************************************************************)
EXTENDS Integers, FiniteSets

CONSTANTS
    NChan,      \* channels that are recorded
    Images,     \* channel numbers of snapshots, IMAGE_CHN_BASE and up
    Workers,    \* workers that store snapshots
    SegTime,    \* rec_parm.cfg[ch].segtime
    Limit,      \* a disk that is full has at least so many files
    ImageAge,   \* how old a snapshot may be when it arrives
    ClockMoves, \* somebody may set the clock
    None,
    MaxTime, MaxCrashes, MaxErrors  \* bounds

Channels == 0 .. NChan - 1
Keys == (0 .. MaxTime) \X (Channels \cup Images)

ASSUME RecAssumption ==
    /\ NChan \in Nat \ {0} /\ SegTime \in Nat \ {0}
    /\ Images \subseteq Nat
    /\ {Limit, ImageAge, MaxTime, MaxCrashes, MaxErrors} \subseteq Nat
    /\ ClockMoves \in BOOLEAN
    /\ None \notin Keys

VARIABLES
    opened, closed, \* the entries of the index, by state
    files,          \* the files on the disk
    enabled,        \* the channels with rec_parm.cfg[i].en
    attached,       \* the channels with a cfifo
    fd, info,       \* ser.chs[i]: channels with an open file, their last key
    pc, cur, back,  \* where the thread is, its channel, where a write returns
    victim,         \* ser_disk_check's info
    img, imgKey,    \* what each worker is doing, and its info
    now, crashes,
    ignored         \* history: keys of the errors nobody looked at

diskVars == <<opened, closed, files, ignored>>
chanVars == <<attached, fd, info>>
placeVars == <<pc, cur, back, victim>>
workVars == <<img, imgKey>>
vars == <<opened, closed, files, enabled, attached, fd, info, pc, cur, back,
          victim, img, imgKey, now, crashes, ignored>>

Index == opened \cup closed

\* (btime << 32) | (btime_ms << 16) | channel, with one unit of time.
Before(j, k) == j[1] < k[1] \/ (j[1] = k[1] /\ j[2] < k[2])
IsOldest(k) == k \in Index /\ \A j \in Index : j = k \/ Before(k, j)

Dist(a, b) == IF a < b THEN b - a ELSE a - b

Init ==
    /\ opened = {} /\ closed = {} /\ files = {}
    /\ enabled \in SUBSET Channels
    /\ attached = {} /\ fd = {}
    /\ info = [c \in Channels |-> None]
    /\ pc = "off" /\ cur = 0 /\ back = "write" /\ victim = None
    /\ img = [w \in Workers |-> "idle"]
    /\ imgKey = [w \in Workers |-> None]
    /\ now = 0 /\ crashes = 0 /\ ignored = {}

GoTo(step) == pc' = step /\ UNCHANGED <<cur, back, victim>>

-----------------------------------------------------------------------------
(* The index (fw/tindex).  Closing an entry that is not there any more may   *)
(* or may not make it again.                                                 *)

\* An error at key k whose code the caller drops.
Ignored(k) ==
    /\ Cardinality(ignored \cup {k}) <= MaxErrors
    /\ ignored' = ignored \cup {k}

TiOpen(k) ==
    \/ /\ opened' = opened \cup {k} /\ closed' = closed \ {k}
       /\ UNCHANGED ignored
    \/ Ignored(k) /\ UNCHANGED <<opened, closed>>
TiClose(k) ==
    /\ opened' = opened \ {k}
    /\ \/ closed' = closed \cup {k}
       \/ k \notin Index /\ UNCHANGED closed

-----------------------------------------------------------------------------
(* Start of the process: the recorder thread up to its loop *)

\* A start takes longer than a unit of time.
Boot ==
    /\ pc = "off"
    /\ GoTo("scan")
    /\ now < MaxTime /\ now' = now + 1
    /\ UNCHANGED <<diskVars, enabled, chanVars, workVars, crashes>>

\* ti_int calls back for each entry that was left open.
UnclosedCb(k) ==
    /\ pc = "scan"
    /\ k \in opened
    /\ TiClose(k)
    /\ UNCHANGED <<files, ignored, enabled, chanVars, placeVars, workVars, now,
                   crashes>>

\* Mutant: the loop starts while entries are still open.
ScanDoneEarly ==
    /\ pc = "scan"
    /\ GoTo("check")
    /\ UNCHANGED <<diskVars, enabled, chanVars, workVars, now, crashes>>

ScanDone ==
    /\ pc = "scan"
    /\ opened = {}
    /\ GoTo("check")
    /\ UNCHANGED <<diskVars, enabled, chanVars, workVars, now, crashes>>

\* No disk, or one that cannot be mounted: the thread ends.
ScanFails ==
    /\ pc = "scan"
    /\ GoTo("failed")
    /\ UNCHANGED <<diskVars, enabled, chanVars, workVars, now, crashes>>

\* __exit: the fifos are detached; files and entries stay as they are.
Exits ==
    /\ pc' = "dead"
    /\ attached' = {}
    /\ UNCHANGED <<cur, back, victim, fd, info>>

-----------------------------------------------------------------------------
(* ser_disk_check *)

\* Not due yet, or enough room, or ten files removed.
CheckDone ==
    /\ pc = "check"
    /\ pc' = "attach" /\ cur' = 0 /\ UNCHANGED <<back, victim>>
    /\ UNCHANGED <<diskVars, enabled, chanVars, workVars, now, crashes>>

Full == Cardinality(files) >= Limit

\* Mutant: the entry is removed first, the file afterwards.
OldsetGetRemoves(k) ==
    /\ pc = "check" /\ Full
    /\ IsOldest(k)
    /\ victim' = k
    /\ opened' = opened \ {k} /\ closed' = closed \ {k}
    /\ pc' = "unlink"
    /\ UNCHANGED <<files, ignored, cur, back, enabled, chanVars, workVars,
                   now, crashes>>

\* Mutant: the entry that is the oldest of those that are closed.
OldsetGetClosed(k) ==
    /\ pc = "check" /\ Full
    /\ k \in closed /\ \A j \in closed : j = k \/ Before(k, j)
    /\ victim' = k
    /\ pc' = "unlink"
    /\ UNCHANGED <<diskVars, cur, back, enabled, chanVars, workVars, now,
                   crashes>>

OldsetGet(k) ==
    /\ pc = "check" /\ Full
    /\ IsOldest(k)
    /\ victim' = k
    /\ pc' = "unlink"
    /\ UNCHANGED <<diskVars, cur, back, enabled, chanVars, workVars, now,
                   crashes>>

\* The file goes, or unlink fails and it stays.
FdRm ==
    /\ pc = "unlink"
    /\ \/ files' = files \ {victim} /\ UNCHANGED ignored
       \/ victim \in files /\ Ignored(victim) /\ UNCHANGED files
    /\ GoTo("rmidx")
    /\ UNCHANGED <<opened, closed, enabled, chanVars, workVars, now, crashes>>

\* ti_oldset_rm takes the entry that is the oldest by then.
OldsetRm(k) ==
    /\ pc = "rmidx"
    /\ IsOldest(k)
    /\ opened' = opened \ {k} /\ closed' = closed \ {k}
    /\ pc' = "check" /\ victim' = None /\ UNCHANGED <<cur, back>>
    /\ UNCHANGED <<files, ignored, enabled, chanVars, workVars, now, crashes>>

\* The disk cannot be asked, or the index returns an error (it is empty).
CheckFails ==
    /\ pc \in {"check", "rmidx"}
    /\ Exits
    /\ UNCHANGED <<diskVars, enabled, workVars, now, crashes>>

-----------------------------------------------------------------------------
(* Attaching the channels, in order *)

NextChannel ==
    IF cur + 1 < NChan
      THEN pc' = "attach" /\ cur' = cur + 1
      ELSE pc' = "write" /\ cur' = 0

\* Nothing to do, or codec does not answer.
VisitSkip ==
    /\ pc = "attach"
    /\ cur \in enabled \/ cur \notin attached
    /\ NextChannel
    /\ UNCHANGED <<diskVars, enabled, chanVars, back, victim, workVars, now,
                   crashes>>

\* "stop rec": the fifos are detached; the file stays open.
VisitStop ==
    /\ pc = "attach"
    /\ cur \in attached /\ cur \notin enabled
    /\ attached' = attached \ {cur}
    /\ NextChannel
    /\ UNCHANGED <<diskVars, enabled, fd, info, back, victim, workVars, now,
                   crashes>>

VisitStart ==
    /\ pc = "attach"
    /\ cur \in enabled /\ cur \notin attached
    /\ attached' = attached \cup {cur}
    /\ NextChannel
    /\ UNCHANGED <<diskVars, enabled, fd, info, back, victim, workVars, now,
                   crashes>>

-----------------------------------------------------------------------------
(* ser_file_writer *)

\* The thread opens a segment of channel c; then it returns to b.
BeginSegment(c, b) ==
    /\ info' = [info EXCEPT ![c] = <<now, c>>]
    /\ TiOpen(<<now, c>>)
    /\ pc' = "create" /\ cur' = c /\ back' = b
    /\ UNCHANGED <<files, fd, victim, enabled, workVars, now, crashes>>

\* The first audio frame after attaching, when no file is open.
VisitStartWrites ==
    /\ pc = "attach"
    /\ cur \in enabled /\ cur \notin attached /\ cur \notin fd
    /\ attached' = attached \cup {cur}
    /\ BeginSegment(cur, "attach")

FirstFrame(c) ==
    /\ pc = "write"
    /\ c \in attached /\ c \notin fd
    /\ BeginSegment(c, "write")
    /\ UNCHANGED attached

Return ==
    /\ UNCHANGED back
    /\ IF back = "attach" THEN NextChannel ELSE pc' = "write" /\ UNCHANGED cur

\* fd_av_open: an existing file of that name is overwritten.
Create ==
    /\ pc = "create"
    /\ files' = files \cup {info[cur]}
    /\ fd' = fd \cup {cur}
    /\ Return
    /\ UNCHANGED <<opened, closed, ignored, enabled, attached, info, victim,
                   workVars, now, crashes>>

\* The error ends the thread, unless the frame was the one at the start.
CreateFails ==
    /\ pc = "create"
    /\ \/ back = "write" /\ Exits
       \/ back = "attach" /\ Return /\ UNCHANGED <<chanVars, victim>>
    /\ UNCHANGED <<diskVars, enabled, workVars, now, crashes>>

\* A key frame ends a segment that is old enough; the next begins at once.
EndSegment(c) ==
    /\ pc = "write"
    /\ c \in attached /\ c \in fd
    /\ Dist(now, info[c][1]) >= SegTime
    /\ TiClose(info[c])
    /\ fd' = fd \ {c}
    /\ pc' = "reopen" /\ cur' = c /\ UNCHANGED <<back, victim>>
    /\ UNCHANGED <<files, ignored, enabled, attached, info, workVars, now,
                   crashes>>

NextSegment ==
    /\ pc = "reopen"
    /\ BeginSegment(cur, "write")
    /\ UNCHANGED attached

\* fd_av_write fails.
WriteFails ==
    /\ pc = "write"
    /\ attached \cap fd # {}
    /\ Exits
    /\ UNCHANGED <<diskVars, enabled, workVars, now, crashes>>

WriteDone ==
    /\ pc = "write"
    /\ GoTo("check")
    /\ UNCHANGED <<diskVars, enabled, chanVars, workVars, now, crashes>>

-----------------------------------------------------------------------------
(* ser_image_writer *)

Serving == pc \notin {"off", "scan", "failed"}

\* The time of the snapshot's file, which some other process wrote.
SnapTimes == {t \in 0 .. MaxTime : ClockMoves \/ now \in t .. t + ImageAge}

\* Mutant: the worker does not keep the key of the entry it made.
ImageOpenUnset(w, s) ==
    /\ Serving /\ img[w] = "idle"
    /\ \E t \in SnapTimes : TiOpen(<<t, s>>)
    /\ img' = [img EXCEPT ![w] = "copy"]
    /\ UNCHANGED <<files, enabled, chanVars, placeVars, imgKey, now, crashes>>

ImageOpen(w, s) ==
    /\ Serving /\ img[w] = "idle"
    /\ \E t \in SnapTimes :
          /\ TiOpen(<<t, s>>)
          /\ imgKey' = [imgKey EXCEPT ![w] = <<t, s>>]
    /\ img' = [img EXCEPT ![w] = "copy"]
    /\ UNCHANGED <<files, enabled, chanVars, placeVars, now, crashes>>

\* cp, which may fail without anybody noticing.
ImageCopy(w) ==
    /\ img[w] = "copy"
    /\ files' \in {files, files \cup {imgKey[w]}}
    /\ img' = [img EXCEPT ![w] = "close"]
    /\ UNCHANGED <<opened, closed, ignored, enabled, chanVars, placeVars,
                   imgKey, now, crashes>>

ImageClose(w) ==
    /\ img[w] = "close"
    /\ TiClose(imgKey[w])
    /\ img' = [img EXCEPT ![w] = "idle"]
    /\ imgKey' = [imgKey EXCEPT ![w] = None]
    /\ UNCHANGED <<files, ignored, enabled, chanVars, placeVars, now, crashes>>

-----------------------------------------------------------------------------
(* Around the recorder *)

\* msg_func_cfg
SetCfg(c) ==
    /\ enabled' \in {enabled \cup {c}, enabled \ {c}}
    /\ UNCHANGED <<diskVars, chanVars, placeVars, workVars, now, crashes>>

\* Time passes, or the clock is set (mod/bsp/src/rtc.c).
Tick ==
    /\ now' \in 0 .. MaxTime
    /\ ClockMoves \/ now' = now + 1
    /\ UNCHANGED <<diskVars, enabled, chanVars, placeVars, workVars, crashes>>

\* The process is killed; the configuration was saved when it was set.
Crash ==
    /\ pc # "off" /\ crashes < MaxCrashes
    /\ crashes' = crashes + 1
    /\ pc' = "off" /\ cur' = 0 /\ back' = "write" /\ victim' = None
    /\ attached' = {} /\ fd' = {}
    /\ info' = [c \in Channels |-> None]
    /\ img' = [w \in Workers |-> "idle"]
    /\ imgKey' = [w \in Workers |-> None]
    /\ UNCHANGED <<diskVars, enabled, now>>

-----------------------------------------------------------------------------
Recycle == CheckDone \/ FdRm \/ CheckFails
              \/ \E k \in Index : OldsetGet(k) \/ OldsetRm(k)
Attach == VisitSkip \/ VisitStop \/ VisitStart \/ VisitStartWrites
Write == Create \/ CreateFails \/ NextSegment \/ WriteFails \/ WriteDone
            \/ \E c \in Channels : FirstFrame(c) \/ EndSegment(c)

Next ==
    \/ Boot \/ ScanDone \/ ScanFails \/ \E k \in opened : UnclosedCb(k)
    \/ Recycle \/ Attach \/ Write
    \/ \E w \in Workers : \/ ImageCopy(w) \/ ImageClose(w)
                          \/ \E s \in Images : ImageOpen(w, s)
    \/ \E c \in Channels : SetCfg(c)
    \/ Tick \/ Crash

Spec == Init /\ [][Next]_vars

-----------------------------------------------------------------------------
(* Properties *)

Steps == {"off", "scan", "failed", "dead", "check", "unlink", "rmidx",
          "attach", "write", "create", "reopen"}

\* Types; what the thread has in hand at a step.
TypeOK ==
    /\ opened \subseteq Keys /\ closed \subseteq Keys /\ files \subseteq Keys
    /\ ignored \subseteq Keys
    /\ opened \cap closed = {}
    /\ enabled \subseteq Channels /\ attached \subseteq Channels
    /\ fd \subseteq Channels
    /\ info \in [Channels -> Keys \cup {None}]
    /\ \A c \in fd : info[c] # None
    /\ pc \in Steps /\ cur \in Channels /\ back \in {"attach", "write"}
    /\ victim \in Keys \cup {None}
    /\ pc \in {"unlink", "rmidx"} => victim # None
    /\ pc = "create" => info[cur] # None
    /\ img \in [Workers -> {"idle", "copy", "close"}]
    /\ imgKey \in [Workers -> Keys \cup {None}]
    /\ \A w \in Workers : img[w] # "idle" => imgKey[w] # None
    /\ now \in 0 .. MaxTime /\ crashes \in Nat

\* The keys no snapshot can have.
Recordings(keys) == {k \in keys : k[2] \in Channels \ Images}

\* Every recording on the disk is in the index, so that it can be found and
\* will be recycled: whenever the process is killed, and although the
\* recycler asks for the oldest entry and removes the oldest entry in two
\* calls between which workers enter images, in whatever order of time.  The
\* exceptions are the recordings an error fell upon that nobody looked at
\* (server.c:172, 256), and no others.
RecordingIndexed == Recordings(files) \subseteq Index \cup ignored

\* Index and files together implement Archive, whatever happens: of the
\* recordings on the disk only the oldest is ever deleted, although the
\* recycler looks at the index at one time, deletes the file at another and
\* the entry at a third; and a recording without an error of its own can be
\* found as long as it is there, whatever errors the others have.
Arch == INSTANCE Archive WITH
    Recs <- Recordings(Keys), Older <- Before,
    found <- Recordings(Index), kept <- Recordings(files),
    ignored <- Recordings(ignored)
ArchiveSpec == Arch!Spec

\* An open entry whose file exists belongs to a file that is being written,
\* or that was when the thread ended: after a crash no entry stays open.
OpenHasWriter ==
    Serving => \A k \in opened \cap files :
        \/ \E c \in Channels : info[c] = k
        \/ \E w \in Workers : img[w] # "idle" /\ imgKey[w] = k

\* A channel that was stopped writes no file.
StoppedIsClosed ==
    pc = "write" => \A c \in Channels : c \notin attached => c \notin fd

-----------------------------------------------------------------------------
(* The inductive invariant for RecordingIndexed *)

\* A key tells what kind of file it stands for; the segment that is about to
\* be created is in the index, or was to be.
KeysInHand ==
    /\ \A c \in Channels : info[c] # None => info[c][2] = c
    /\ \A w \in Workers : img[w] # "idle" => imgKey[w][2] \in Images
    /\ pc = "create" => info[cur] \in Index \cup ignored

\* No recording is older than the victim, and none will be entered that is.
VictimOldest ==
    pc \in {"unlink", "rmidx"} =>
        /\ victim \in Index
        /\ \A k \in Recordings(Index) : k = victim \/ Before(victim, k)
        /\ pc = "rmidx" => victim \notin Recordings(files) \ ignored

IInv == TypeOK /\ RecordingIndexed /\ KeysInHand /\ VictimOldest

(* What OpenHasWriter rests on, when nobody sets the clock *)

Past(c, t) == \A k \in files : k[2] = c => k[1] < t

\* The files of a channel are older than the one it will begin next.
FilesPast ==
    /\ \A k \in files : k[2] \in Channels => k[1] <= now
    /\ \A c \in Channels : info[c] # None => info[c][1] <= now
    /\ ~Serving => fd = {}
    /\ pc = "reopen" => cur \notin fd
    /\ pc = "scan" => \A c \in Channels : Past(c, now)
    /\ Serving /\ pc # "dead" => \A c \in Channels :
          \/ c \in fd /\ info[c] # None /\ Past(c, info[c][1] + 1)
          \/ c \notin fd /\ pc = "create" /\ cur = c /\ Past(c, info[c][1])
          \/ c \notin fd /\ ~(pc = "create" /\ cur = c) /\ Past(c, now)

\* An open entry whose file exists is the one in hand.
OpenInHand ==
    Serving => \A k \in opened \cap files :
        \/ /\ k[2] \in Channels /\ k = info[k[2]]
           /\ k[2] \in fd \/ pc = "dead"
        \/ \E w \in Workers : img[w] # "idle" /\ imgKey[w] = k

WInv == FilesPast /\ OpenInHand
=============================================================================
