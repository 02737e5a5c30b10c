# Verification of hiview

TLA+ models of the parts of hiview where several processes and threads share
state, with model checking (TLC) and machine-checked proofs (TLAPS).

hiview is the software of a network camera and of a network video recorder. It
runs as a set of processes on one device (`README.TXT`): bsp, codec, svp, rec,
rtsps, webs, onvif, sips, srts, rtmps, app. Each process listens on a
request/reply endpoint (`nm_rep_listen`, up to `NM_REP_MAX_WORKERS` = 3
requests at a time), calls the others with a timeout (`GSF_MSG_SENDTO`), and
subscribes to the events of others (`nm_sub`). Frames travel in shared memory
fifos (`cfifo`) that are named by a shared memory identifier.

## 1. Inventory

| component | state | operations | talks to | what is hard | what makes it correct |
|---|---|---|---|---|---|
| **app: NVR live task** (`mod/app/src/nvr_live.c`, `msg_func.c`, `app.c`) | `app_nvr.chsrc` (wanted), `gmng` (acted on: settings, open flags, shm ids) | `msg_func_chsrc`, `live_task`, `live_clear_rtsp`, `live_clear_onvif`, `live_get_shmid` | calls rtsps, onvif, codec; events of bsp | settings written without the task's lock, calls of up to 6 s, late answers, restarts of its servers | the streams open in rtsps are the wanted ones, in the end; no reference of a slot is lost or taken from it |
| **rtsps: stream table** (`st-rtsp/rtsp-st.c`) | `conn_ctxs`, `push_ctxs`: url, count, client, fifos | C_OPEN, C_CLOSE, C_LIST, C_CLEAR, P_OPEN, P_CLOSE, reconnect check | called by app; RTSP to cameras and servers | requests whose caller has gone are served late and in another order | a fifo lives as long as someone uses it; a broken stream is connected again |
| **rtsps: sessions** (`rtsp-client-st.c`, `rtsp-server-*.c`, `rtp-*.c`) | a coroutine per connection, one for its frames | connect, close, send, receive | stream table, codec's fifos | close waits for coroutines that may wait for the peer; each may end on its own | close ends; nothing is used after it was freed |
| **onvif: client cache** (`mod/onvif/src/msg_func.c`) | `ctxs_hash`: host, count, device, media urls | C_OPEN, C_CLOSE, C_PTZCTL, C_LIST, C_CLEAR, C_PROBE | called by app (live task, keyboard); SOAP to cameras | three workers; the device is opened and driven without the lock | exact counts; one context per host; none freed in use |
| **rec: recorder** (`mod/rec/src/server.c`, `file.c`, `disk.c`) | time index on disk, files, segment per channel | write, segment change, sync, recycling, image, query, crash recovery | codec's fifos, webs | crash between index and file, recycling against image writers, full disk | every file is indexed, every entry gets closed, the oldest goes first |
| **codec: display of the NVR** (`mod/codec/nvr/live.c`) | attached layout `ly2`, requested `ly1` | VOLY | app's layout call | attach fails, layout changes under the display thread | what is shown is what was asked for |
| **codec: encoder of the camera** (`mod/codec/ipc`) | settings, fifos | settings, SDP | all readers of fifos | mostly vendor calls | - |
| **upgrade: webs and bsp** (`http.c`, `webs.c`, `upg.c`, `tools/install.sh`) | `upg_stat`, `gcb`, the script's lock, `/tmp` | upload, install, reboot | browser, webs, bsp, script | admission is taken back by an event over three processes; uploads are cut | one image at a time reaches the flash, no reboot meanwhile, the next upload is taken |
| **bsp: registry, discovery** (`mod/bsp/src`) | `gmods` | REGISTER, SADP | everyone | events before the registered process listens | every restart is seen |
| **srts, rtmps: push sessions** | one global session each | open, close | webs | start and stop from several workers | at most one session, stop ends it |
| **configuration files** (`cfg.c` of each process) | a JSON file | load, save | own process | crash while saving | the last or the one before is found |
| **sips, the rest of webs, keyboard, uvc, svp, mpp, fw** | - | - | - | protocol libraries, conversions, vendor samples | not modelled |

`PROJECT.json` lists the same components with their files, and under `hazards`
the places in the code that a test would hardly reach, with the property that
covers each, or the reason why none does yet.

## 2. What is modelled

### `OnvifCli` - the ONVIF client cache

One action per locked section, or per point where a worker may be overtaken:
C_OPEN is `OpenHit` or `OpenMiss`, then (without the lock) `DevOpenFails`,
`MediaUrlFails` or `MediaUrlGot`, then `HashAdd` or `HashAddLoses`, and `Answer`
or `AnswerLost`. C_PTZCTL is `PtzFind` and `PtzDone`, or `PtzMiss`; C_CLOSE is
`Close`. Heap objects are addresses of the constant set `Ctxs`; `where` says
whether an address is free, being built, in the hash, or leaked (the failure of
`nvc_dev_open` at `msg_func.c:100` frees nothing). The callers are the channels
of the live task: a caller has one host open at a time, closes what it opened
(`SendClose`), may stop waiting (`GiveUp`), or lose the name of its host
(`CloseBlank`, after `live_clear_onvif`). Two callers may wait at the same time,
more than the one live task does, so the model allows more than the program.
`held` and `lostRefs` are bookkeeping about the callers: `lostRefs` counts the
references nobody is left to give back, and `MaxLost` bounds them.

### `SharedRes` - what such a cache promises

The abstract specification: a user has a resource until it gives it back or
hands it on, and only the last user takes a resource away. `OnvifCli` implements
it (`CacheSpec`): the resources are the hosts in the hash, the users of a host
are the callers that hold it and the workers whose answer, C_CLOSE or C_PTZCTL
carries a claim on it. So does `NvrLive`, with the table in rtsps, as long as
no call times out and rtsps does not stop (`PullSpec`): the resources are the
urls in the table, the users of a url are the slots that have a reference to it
and the task while a C_OPEN that was answered or a C_CLOSE that was not yet
served carries one.

### `RtspConn` - the stream table of rtsps

`ConnCtxOpen` and `ConnCtxClose`, for the one coroutine that serves requests.
The video and the audio fifo of an entry are one identifier. A new identifier is
one that no entry and nobody else still knows: System V identifiers carry a
sequence number, and are not reused while a stale one is around.

### `RtspTable` - that table as a specification

Requests to the table of `RtspConn`, one at a time and each at once; a C_CLEAR
alone takes a while, in which nothing else is served, and leaves an empty
table; the process may end and lose it. `NvrLive` uses the table in this form,
but for C_CLEAR, which the task does not send. `RtspClient`, where closing
a stream waits for its coroutines step by step, implements it (`TableSpec`).

### `NvrLive` - the live pipeline

Composes `RtspConn` with the live task, with the writers of the configuration
and with restarts. `pc`, `chan` and `strm` say where the task is:

    wait - cmp - close (per stream) - closeOnvif - copy - onvif - (onvifCall -
    writeBack) - open (per stream) - next channel

The code for st1 and st2 is the same text twice (lines 135-156, 220-262) and one
set of actions here. A call to rtsps is `call`; rtsps answers it (`HandleOpen`,
`HandleClose`), or the task stops waiting (`OpenTimeout`, `CloseTimeout`) and
the request, if it was not served, may be served later (`lateOpen`,
`lateClose`). rtsps may stop, register (`RtspsRegisters`, the event) and only
then listen (`RtspsListens`), as in `rtsps.c:84-111`.

A setting is a record; `cut` names the strings whose first byte `live_clear_*`
has overwritten, because `memcmp` tells such a string from one that was empty
before. Bytes after the end of a string that `strcpy` leaves from a longer one
before it are not modelled: they can only make the task reopen a channel.

History variables: `ref` is the url each slot has a reference to in the running
rtsps, `stray` marks urls that a C_CLOSE named without such a reference.

`shmid` is what `live_get_shmid` (line 81) gives to the display. `PublishedLive`
says that it is the identifier of the fifo the slot's stream is written to now,
with the windows named in which the code publishes one that is not:
`BeingClosed` (C_CLOSE at 141 frees the fifo, the identifier goes with the copy
at 174), `Outlived` (rtsps has stopped, and the task has not copied the channel
since the app heard of it) and `TakenAway` (somebody else's C_CLOSE, see
`NoStray`). The display itself is told at 176 (`vo_ly`) and keeps reading the
fifo it has until then; codec is another process and is not modelled.

`InOrder` says that requests reach the coroutine in the order they were sent.
They travel on one UDP socket each, through up to three workers, so in general
they do not; but a late request is normally much earlier than the next one.
`TornCopy` says that the task may see half of `app_nvr.chsrc[ch] = *chsrc`.

### `NvrPass` - what one pass of the live task achieves

`NvrLive` with a history variable: `calm` is set when a pass begins (`Wake`) and
falls with a setting, a timeout, or a process that stops or registers.
`PassSettles` (a calm pass leaves every stream as the configuration wants it) and
`SettledStays` (nothing but a user or a process that registers ends that) are
what `Converges` says, without the time it takes. `nvr_fault` checks them for
channels that name their streams; with `CamSettings`, `TornCopy = FALSE` and
`MaxOnvifRegs = 1` the same instance has cameras, and passes too, but its
11,383,725 states take too long for a regular run.

### `Archive` - what a recorder promises

The abstract specification: a recording can be found before it is kept and as
long as it is kept, and is deleted only when no older one can be found. Entering or
deleting a recording may fail unnoticed (`Fail`); such a one (`ignored`) may be
kept without being found, but is still deleted in turn only.
`Recorder` implements it (`ArchiveSpec`): found are the recordings with an entry
in the index, kept are the files on the disk. Images are not part of it.

### `Recorder` - the recorder process

Three kinds of actor: the recorder thread, the workers that store snapshots, and
the world around (settings, the clock, a process that is killed at any step).
`pc` says where the thread is:

    off - scan - check - unlink - rmidx - check ... - attach (per channel) -
    write - check ...        with create (and reopen) inside attach and write

`check` is `ser_disk_check`: `OldsetGet` (`ti_oldset_get`), `FdRm`, `OldsetRm`
(`ti_oldset_rm`, which takes whatever entry is the oldest by then) are three
steps with workers in between. `VisitSkip`, `VisitStop`, `VisitStart` and
`VisitStartWrites` are the channels of lines 379-442; `FirstFrame`,
`EndSegment`, `NextSegment`, `Create` are `ser_file_writer`. An error ends the
thread (`pc = "dead"`), while the workers go on. A worker is `ImageOpen`,
`ImageCopy` (the `cp`, whose failure nobody sees), `ImageClose`.

The index (`fw/tindex`, not in the repository but for its header) is two sets of
keys, the open and the closed entries, in the order of the header
(`tindex.h`: `btime`, `btime_ms`, `channel`). What it does with a TI_CLOSE of an
entry that is not there is unknown, and either outcome is allowed. Each call is
taken to be atomic and its effect to be on the disk when it returns.

Abstractions: seconds and milliseconds are one unit of time; whether the disk is
full is decided by the number of files (`Limit`), and a check that is not due
(ten seconds), finds room or has removed ten files is one step, `CheckDone`;
TI_UPDATE (sizes and end times) is left out, and so is the frame that follows in
a file that is open. A start of the process takes longer than a unit of time.
`ImageAge` is how old a snapshot may be when the request comes (its key is the time of its file, which
another process wrote); with `ClockMoves` it is any age.

The code does not look at the results of `fd_rm` (`server.c:172`: the entry is
removed although the file may still be there) and of TI_OPEN (256: the file is
opened without an entry). Both may fail, `MaxErrors` times, and the history
variable `ignored` keeps the key; no action reads it. Errors of TI_CLOSE, which
nobody looks at either, are left out.

Images have the numbers from `IMAGE_CHN_BASE` = 9 up (`server.c:189`), which a
recorder of 16 channels (`sjb_rec.ih:3`) gives to recordings too. The model
allows that. The file names of the two differ, but their entries have one key, so
`RecordingIndexed` and `ArchiveSpec` speak of the recordings of the numbers that
only recordings have (`Recordings`, `Channels \ Images`), whatever happens to
the others. The proof of `OpenHasWriter` needs disjoint numbers, at most nine
channels.

### `RtspClient` - pulled and pushed streams, their clients and frames

The other side of `RtspConn`: per name (url) the entry of the table (`refcnt`,
`tcp`, `stale` for a `last_time` more than five seconds ago, `err`), the client
coroutine (`conn`) and the coroutine of the frames (`media`). Coroutines of the
State Threads library are not preempted, so `Others` (what clients and frames
do) happens only while `handle_ctl` blocks, and everything it does between is in
one piece although it is several actions. A client goes

    connect - ask - setup - play - flow - (leave -) exited

with `Connected`, `OnDescribe` (also `onannounce`), `OnSetup`, `OnPlay` (also
`onrecord`). It ends when it cannot connect, when the peer hangs up, or when it
is interrupted, and sends TEARDOWN before it (`leave`) if there was a SETUP;
that may wait only where frames share the connection. The frames have a
coroutine of their own when they are pulled over UDP (from SETUP) or pushed
(from RECORD); frames pulled over TCP are read by the client. Its end is no
reason for the client to end, nor the other way round.

`handle_ctl` is at `pc`: `recv` (requests, or `Check` after three seconds),
`each` (the loop of C_CLEAR or of the two checks), and

    stopMedia - awaitMedia - stopConn - awaitConn - freed

for `rtsp_client_close`, entered from P_CLOSE or C_CLOSE, C_CLEAR, or the check,
as `job` says. After it the entry goes (`Drop`) or gets another client
(`Reconnect`). The process may end on its assertions, or in a use of a destroyed
`rtsp_client` (`Dies`), and starts with empty tables. `Dies` leaves out the
asserts of `onrecord` (`rtsp-client-st.c:225-227`, `261`) and of the receiver
(`rtp-receiver.c:62`, `104-105`): what they do is what `Dies` does, at other
times.

Abstractions: the receivers of one stream (video, audio) are one `media`; the
answer to a request is not modelled (`NvrLive` has it); entries are visited in
any order, pulled streams first; which channel is pushed, and what is in a
frame, is left out. An interrupt of a coroutine that waits makes its call fail;
this is external, from the documentation of the library as the code uses it.

### `Upgrade` - from the browser to the flash

`PartBegin` to `PartEnd` are the multipart handler of webs with `upg_stat`, and
`SubRecv` is the thread that hears the events of bsp. `UpgStart`, `Unzipped` (or
`TaskFails`) and `ScriptExit` are `upg_start` and `upg_task`; the script's steps
are `Script...`. A task of bsp is

    unzip - popen - (copy - reported -) exit

with `copy - stuck` when `cp` fails or the flash is full: the loop of
`install.sh:15-24` then prints lines for ever. When `pthread_create` fails
(`upg.c:47`), `gcb` stays set with no task (`orphaned`).

A reboot is three steps. `RebootAsked` is the check (`msg_func.c:155`),
`RebootCommand` gives the command (158), which waits two seconds, and `Reboot` is
the end of the device. There is no lock, and another worker of bsp may begin an
upgrade between them: the history variable `late` has those.

Files: the uploaded image (`zip`), the directory it is unpacked to (`dir`), and
the script's lock, `runing`, inside it (`lock`). Three kinds of image are told
apart: the script copies a good one and reports 100, finds nothing to copy in an
empty one and reports a number below zero, and is missing from junk (a file that
is no zip, or a zip without `install.sh`), so that either the script of an
earlier image runs or none does and no line is ever printed.

`calm` is chosen at the start and not changed: without it a file cannot be
opened, an upload can be cut (mongoose then ends the part with status -1, which
the handler takes for a whole one), a task is not created, a copy fails, and the
end of a script may be noticed only after the next upload. Junk is no fault.
Properties that need `calm` say so.

The device is rebooted as a whole, with `/tmp` in memory. A restart of webs or
of bsp alone is not modelled; webs would forget `upg_stat`. The test of `gcb` and
the call through it (`upg.c:23-25`) are one step; between them the end of another
upgrade would make it a call of NULL.

## 3. What the runs show

| run | instance | checks | distinct states |
|---|---|---|---|
| `onvif_cache` | 3 workers, 2 callers, 2 hosts, 3 addresses, one lost reference per host | `TypeOK`, `RefsExact`, `PtzCtxLive`, `HeldInHash`, `OneOwner`, implements `SharedRes` | 4,834 (with symmetry) |
| `nvr_fault` | 2 channels of one stream, 2 urls, requests out of order, half copies; 1 setting, 1 timeout, 1 stop of rtsps | `TypeOK`, `RefsCover`, `PublishedLive`, `LeakBound`, `PassSettles`, `SettledStays` | 1,183,150 |
| `nvr_calm` | 2 channels of one stream, a camera with fixed urls; 2 settings, 1 restart of onvif, no timeouts | `NoStray`, `PublishedLive`, `RefsTight`, `Converges`, implements `SharedRes` | 147,373 |
| `nvr_live` | 1 channel of two streams; 2 settings, 1 timeout, 1 restart of rtsps, half copies | `Converges` | 185,619 |
| `nvr_choice` | as `nvr_calm`, 1 channel | `UserChoiceKept` is **violated** | |
| `nvr_moved` | 1 channel, a camera that may report either of two urls | `NoStray` is **violated** | |
| `rec_crash` | 1 channel, 1 worker, any clock, snapshots of any age, 1 crash, 1 ignored error, times 0 and 1 | `TypeOK`, `RecordingIndexed`, implements `Archive` | 2,139,532 |
| `rec_open` | 2 channels, 1 worker, a clock nobody sets, 1 crash, times 0 to 2 | `OpenHasWriter` | 569,316 |
| `rec_stop` | 1 channel, times 0 to 4 | `StoppedIsClosed` is **violated** | |
| `rtsp_client` | 1 pulled and 1 pushed stream, UDP or TCP; 3 requests, 1 thread that is not created | `TypeOK`, `FreedAlone`, `ErrIsLast`, `InterruptHeeded`, `CloseEnds`, `Reconnected`, implements `RtspTable` | 213,528 |
| `rtsp_dead` | the same | `SendsAlive` is **violated** | |
| `upgrade` | 2 connections, 2 upgrades at once, good, empty and junk images, 2 lines under way, with and without faults | `TypeOK`, `CopyUndisturbed`, `LockFree`, `ReleaseComing`, `RebootComing`, `RebootRefused`, `Released`, `Rebootable` | 27,824 |

Why these bounds: three workers are the program's own maximum; two callers and
two hosts allow a race to build one host while another is in use. Two channels
can share a url, which is what reference counts are for, and one can be closed
under the other; a third adds no new kind of sharing. Two streams per channel
exercise the step from one stream to the next. Three shm identifiers leave a
fresh one when two are remembered. Every counted event (`MaxSets`,
`MaxTimeouts`, `MaxStops`, `MaxOnvifRegs`, `MaxLost`) happens once or twice,
enough for each to meet each phase of the task; the theorems need no such bound.
Two times suffice for `rec_crash`: an image may be older than the recording that
is being recycled, and the clock may go back to a key that was used. `Limit` is
small enough that the disk fills up; one crash lets the recovery meet what any
step leaves behind, and one ignored error lets every other recording meet what
it leaves. In `rtsp_client` one stream of each kind is enough for the
check to close one while the coroutines of the other run; three requests open
both, and open, share or clear one of them; opens and clears are bounded, closes
need no bound. In `upgrade` two connections compete for `upg_stat`, and two
tasks are what a second request needs to meet the first; an upload, its install
and the next one can follow each other without end, as nothing is counted.

Fairness (`FairSpec`): the task loops for ever (`nvr_live.c:121`), the coroutine
serves what is in its socket (`rtsp-st.c:724`), a struct copy ends, the app's
subscriber handles its events, and rtsps, once stopped, is started again by its
environment. Nothing is assumed of users, timeouts, stops or cameras; `Converges`
speaks of the time after the last of them, which the bounds make finite. In
`RtspClient`, `handle_ctl` goes on when it can (`Work`), makes the check when
requests are over (`Check`, as their number is bounded), time passes (`Ages`),
and a coroutine that was interrupted, was told to stop or waits with a timeout
gets its turn, as the scheduler of the library gives it; cameras and servers
may be silent for ever. In `Upgrade`, an upload that has begun ends, and
processes, threads and the script take the steps they can; a copy ends, unless
it fails (`CopyFails` is possible as long as it has not ended). No user need
begin an upload or ask for a reboot, and a reboot that was asked need not come.

### What was found

* `nvr_choice`: a setting made while the task waits for a camera is lost
  (`nvr_live.c:215`).
* `nvr_moved`: a stream opened under a saved url is never closed when the camera
  then reports another (`nvr_live.c:205`, `140`).
* `rec_stop`: "stop rec" (`server.c:385`) detaches the fifos of a channel and
  leaves its segment open.

* `rtsp_dead`: frames that are pushed over TCP are sent through an `rtsp_client`
  that was destroyed when the peer hung up (`rtsp-client-st.c:365`), until the
  stream is connected again.

### Where the properties stop

* `Converges` fails for cameras when rtsps restarts: `live_clear_rtsp` can come
  between the camera's answer (`nvr_live.c:205`) and the write-back (215). The
  blanked urls then get into `app_nvr` too, both copies agree, and the channel
  stays as it is, with the identifiers of the rtsps that has gone. It also fails
  for cameras with `TornCopy`: half a setting may be opened before the camera is
  asked, as in `nvr_moved`.
* `Converges` needs `InOrder` when more than one timeout happens: a C_CLOSE that
  is served late can close the stream that was opened after it.
* `NoStray`, `LeakBound`, `PassSettles` and `SettledStays` speak of the time until
  rtsps stops for the first time (`Unstopped`): afterwards the task may act on
  flags and urls of the rtsps that has gone, until the event has been handled.
  They also need cameras that report fixed urls, and settings of a camera that are
  copied whole; what a user sets without a camera may be torn. Timeouts, late and
  lost requests and requests out of order are allowed: calm means that no call
  times out during the pass, not that none ever did.
* `RefsTight`, and with it `SharedRes`, needs that no call times out: a stream whose
  C_OPEN is served after the task gave up is counted and never closed. `LeakBound`
  says that this is all that is lost. `RefsCover` holds without any of these
  limits because it excepts urls that are `stray`.
* `PublishedLive` names its windows, and in each of them the display can be given
  the identifier of a fifo that was freed. For cameras it also fails when rtsps
  restarts, outside of the windows: blanked urls that are written back (above)
  keep the identifiers of the rtsps that has gone. The runs check it with
  restarts and without a camera, and with a camera and without restarts.
* `RecordingIndexed` excepts the recordings whose own error was ignored: a file
  that `unlink` did not remove loses its entry all the same, and one that TI_OPEN
  did not enter is written all the same. Neither is ever recycled or found.
  It speaks of the numbers only recordings have.
* It is about recordings. An image can be left on the disk
  without an entry: its entry is recycled before the `cp`, or it is older than
  the recycler's victim, enters between `ti_oldset_get` and `ti_oldset_rm`, and
  is what the latter removes (the victim's entry then stays without a file until
  its turn comes again). It is never recycled. Recordings are safe because only
  images are entered meanwhile: the thread that recycles is the one that
  records.
* `OpenHasWriter` needs a clock that is not set: if it goes back to the time of
  an older segment of the channel, and the file of that name cannot be opened
  again at the first audio frame (whose error is ignored, 436), the older entry
  stays open until the next start.

* `Reconnected` covers a pulled stream that has no client: the check looks at
  the time only. It does not cover a pushed stream whose thread could not be
  created: `err` is 0 then, and the check leaves it alone for good
  (`rtsp-st.c:418`). Nor does it say that a connection succeeds, or that a push
  whose frames ended (`senderr`) while its client lives is noticed: it is not.
* `CloseEnds` is about the two loops that wait. The wait for TEARDOWN has a
  timeout of two seconds; without it a peer that reads nothing would stop the
  coroutine that serves all requests.
* `Released`, `ReleaseComing`, `RebootRefused` and `LockFree` need `calm`;
  `RebootComing` and `Rebootable` do not. A cut upload ends in
  "no script" or in half an image, and `upg_stat` may stay 1; the end of an old
  task clears the `gcb` of a new one, whose events are then lost. `LockFree`
  fails in that case as well, and the next upgrade is then refused by the script
  with -3, after its files were overwritten.
* `Released` and `ReleaseComing` need a script (`ScriptThere`). After junk as the
  first upload since a reboot no line is ever printed: `upg_stat` stays 1, and
  every upload is refused until the device is rebooted. No fault is needed.
* `RebootRefused` says that a reboot cuts off no upgrade that had begun at its
  check. Those that begin between the check and the reboot are cut off.
* `Rebootable` and `RebootComing` except a task that could not be created, and
  `Rebootable` a copy that never ends: the device then cannot be rebooted by a
  request any more.

## 4. What is proved

Every theorem holds for all values of the constants that satisfy the named
assumptions (`OnvifAssumption`, `NvrAssumption`, `RecAssumption`,
`ClientAssumption`, `UpgAssumption`: finite sets of workers and callers where
they are counted, values that are told from `None`, at least one channel and
stream, bounds that are numbers) and what the theorem itself assumes.

`OnvifCli_proofs`: the invariant `IInv` is inductive (`Invariance`), and with it
`TypeCorrect`, `CountsExact`, `PtzSafe`, `OwnersUnique`, `HeldStays` and
`Implements` (every step is one of `SharedRes` or a stutter). `RefsExact` alone
is not inductive: whether a decrement reaches zero is decided by the context a
worker found earlier, so the invariant also says that this context is still the
one under its name (`PtzCtxLive`), that no other entry reaches it (`OneOwner`),
and what a worker has in hand between its steps (`WorkerOK`).

`NvrLive_proofs`: the invariant `IInv` is `TypeOK`, `RefsCover`, `HeldShmLive` (a
slot that has a reference publishes the identifier of its fifo, unless the url
is stray), where the task stands (`TaskOK`: a slot with a reference is marked open, the
outstanding call is the one of the task's step) and what a call means
(`CallOK`: a C_CLOSE without a reference makes its url stray, an answered
C_OPEN names the fifo of its entry). `ReferencesCovered` follows.
The cardinality of the slots that hold a url changes by at most one per step;
the lemmas about `HoldersOf` say how. One lemma per action keeps the types, one
the task's bookkeeping, one the counts.

The rest has a further assumption, `Steady`: a camera has one set of urls, and
every setting `Fits`: one with a camera is copied whole and has no urls or that
camera's, and the urls of no setting are cut (the run `nvr_calm` is such an
instance with a camera, `nvr_fault` one with torn copies and without). Users,
registrations of onvif, timeouts, late and lost requests stay as they are, and
rtsps may stop: the properties speak of the time until then. `SteadyInv` is what
the task relies on when it names a url in a C_CLOSE: a slot marked open has its
reference under the url that the task's copy has for it now. A camera's answer
could change that copy, but the urls it brings are those an open slot has
already; the copying of a setting does change it, but only once the streams of
the channel are closed. `ClosesItsOwn` follows at once. For `LeaksBounded` a late
C_OPEN must be counted before it is served: `Bounded` adds `lateOpen` to the
count, so that only a timeout, which is counted too, makes the sum grow.

`CountsTight` also assumes that rtsps does not stop and no call times out
(`MaxStops = 0`, `MaxTimeouts = 0`); `Tight` adds that no request is late. With
the table exact, `ImplementsPull` follows step by step: C_OPEN and C_CLOSE, as
served, are `Provide`, `Acquire` and `Release`, what the task does before and
after them is `HandOver`, everything else stutters.

`NvrShm_proofs`: `HeldShmLive` does not say what is published by a slot without a
reference, which C_CLOSE and a stop of rtsps take away. `PublishedOpen` does: a
slot that is not marked open publishes nothing, but while its channel is being
closed. What is left is that a slot marked open has its reference under the url
its setting has now (`FifoOfRef` then gives the fifo). Until rtsps stops that is
`SteadyInv`, hence `FifosPublished`, under `Steady`, with cameras and timeouts.
`FifosRepublished` is about any number of restarts, without cameras
(`NoCameras`). There `PlainInv` has to say when a reference is `Void`: rtsps is
down, its event is on the way, or the event has blanked the urls and they were
not copied yet. A slot marked open always has urls in the task's copy that the
event blanks, so that the copy differs from the setting and is made anew, which
takes the identifier back; and only for a camera is a copy written back.

`NvrPass_proofs`: `OnePassSettles` and `SettledRemains`, under `Steady`, are the
answer to whether the loop converges, but for the time it takes. `SlotInv` says
what the flags of a slot mean (one marked open belongs to an enabled channel,
one that is not has no identifier); with it and `SteadyInv`, a stream shows what
is wanted as soon as its flag is as the task's copy wants it and the copy is the
configuration (`Shown`). `CalmInv` is the loop invariant of a calm pass: the
channels behind it are done, in the channel it is at both copies agree once it
has compared them, and of the streams of that channel those behind it are open.
`PassInv` joins them, until rtsps stops.

`Recorder_proofs`: `RecordingIndexed` is not inductive, because `OldsetRm`
removes an entry without looking at the files. `IInv` adds `VictimOldest` (from
`OldsetGet` to `OldsetRm` the victim is in the index, no recording is older, and
after `FdRm` its file is gone, or its error was ignored) and `KeysInHand` (what
a worker enters is an image; a segment is in the index before it is created, or
its error was ignored). So if `OldsetRm` takes a
recording, that is the victim (`RemovesVictim`, as the order of keys is strict);
otherwise it takes an image, which the property does not mention.
`OpenHasWriter` follows, when nobody sets the clock (`~ClockMoves`) and images
have numbers of their own, from `WInv`: the
files of a channel are older than the segment it begins next (`FilesPast`), so
that a new key is never that of an older file (`BeginsFresh`), and an open entry
with a file is the one in hand (`OpenInHand`). `ImplementsArchive` is step by
step: `FdRm` and `OldsetRm` of a recording are `Recycle` of the oldest one and
its `Forget` (`VictimOldest`), two steps with workers in between; an error that
nobody looks at is `Fail` (`FailsUnnoticed`), or nothing if it is one of an image
(`Unseen`); a crash changes neither the index nor the files.

`RtspClient_proofs`: `FreedAlone` says what is not there when something is
freed, but not why no coroutine comes back meanwhile. `IInv` adds `IntrInv`
(only the client that is waited for is interrupted, and it does nothing but
end), `MediaInv` (frames have a coroutine only once the client has sent PLAY or
RECORD; a client makes one only once), `JobInv` (what `handle_ctl` is at: an
entry that is closed for the check is still counted, one for C_CLOSE or C_CLEAR
is not) and `ErrInv` (only pushes have errors, and the one that is connected
again has none left), for `ErrIsLast`. `InterruptHeeded` follows from
`IntrInv`. `ImplementsTable` needs one more fact, `ClearInv`: a C_CLEAR still
has before it every stream that is in the table, so that the table is empty when
it ends, and `ClearEnd` may be taken. The last C_CLOSE of a stream takes effect
where the entry goes (`Drop`), not where the request is taken; until then
nothing else is served, which is why no one can tell. One lemma covers each
group of actions, with one case per action.

`Upgrade_proofs`: there is one right to install, and it is handed on (`Right`):
the upload that was admitted has it, then the request to bsp, the task until its
script has printed its last line, and the event with that line. While `upg_stat`
is 0 nobody has it. `CopyUndisturbed` follows, without `calm`. `CalmTask` adds
that without faults there is one task at most, that `gcb` is set exactly while
there is one, and that the lock is its own; `LockFree` follows. So does
`NoRebootDuring`, step by step (`RefusedStep`): the check finds no task, and one
that begins from then on is `late` until it ends. `ReleaseIsComing` needs
`CalmRelease` besides: what is asked to be installed is there to be installed,
so that, if there is a script, one does run and does say a last line.
`RebootIsComing` holds with faults, too: only the end of a task clears `gcb`, and
only a task that is not created sets it for nobody. `AppendLine` and `TailLine`
are the facts about the queue of events.

Only model-checked: `Converges`, `CloseEnds`, `Reconnected`, `Released` and
`Rebootable`, because they are liveness properties, which the provers cannot
derive from fairness. Of most of them the part without time is proved:
`OnePassSettles` and `SettledRemains` for `Converges`, `InterruptsHeeded` for
`CloseEnds` (what `handle_ctl` waits for is over, at its last call, or has yet to
see that it is interrupted), `ReleaseIsComing` and `RebootIsComing` for the last two. Every
invariant, action property and refinement that a passing run checks is proved.

## 5. Not modelled

Most of the repository is not the program's own: `fw` (gsoap, nuklear, sqlite,
freetype and other libraries), `mod/mpp` and `mod/svp` (samples and glue of the
chip vendors), `mongoose.c`, JSON code that is generated. A share of its lines
says nothing about the models for that reason.

* Display of the NVR (`codec/nvr/live.c`), SRT and RTMP sessions, configuration
  files: they are exposed to the hazards `PROJECT.json` lists, at the lines
  named there. What one would like to hold of them fails at once (a file that
  is truncated before it is written, a session started by two workers without a
  lock, a layout whose attach failed), and no text of the repository promises
  it, so that a model would only restate the hazard.
* RTSP server sessions, SIP: their state is in libraries of which the
  repository has headers only.
* Encoder, discovery, HTTP calls, keyboard: settings handed on and conversions.

What is left to do: end times and TI_UPDATE in `Recorder`, so that a query can be
said to find what is on the disk.

## 6. Running

    tlc -config MCOnvifCli.cfg MCOnvifCli
    tlc -config MCNvrLive_live.cfg MCNvrLive      (and _calm, _choice, _moved)
    tlc -config MCNvrPass_fault.cfg MCNvrPass
    tlc -config MCRecorder_crash.cfg MCRecorder   (and _open, _stop)
    tlc -config MCRtspClient.cfg MCRtspClient     (and _dead)
    tlc -config MCUpgrade.cfg MCUpgrade
    tlapm OnvifCli_proofs.tla                     (and NvrLive_proofs,
                                                   NvrShm_proofs,
                                                   NvrPass_proofs,
                                                   Recorder_proofs,
                                                   RtspClient_proofs,
                                                   Upgrade_proofs)

Operators whose comment begins with "Mutant:" are not part of the
specifications. Each is a definition with a plausible mistake in it, listed in
`PROJECT.json` with the property that notices it.
