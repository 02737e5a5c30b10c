------------------------------ MODULE Upgrade ------------------------------
(***************************************************************************)
(* The upgrade of the device: the browser uploads an image to webs         *)
(* (mod/webs/src/http.c, webs.c), webs hands it to bsp (mod/bsp/src/upg.c, *)
(* msg_func.c), and bsp runs the install script of the image               *)
(* (tools/install.sh).                                                     *)
(*                                                                         *)
(*  - upg_stat of webs admits one upload at a time.  The thread that       *)
(*    receives bsp's events clears it at the last event of an install.     *)
(*  - bsp unzips the image, starts the script, and publishes each line the *)
(*    script prints.  gcb is set while an upgrade is on, and keeps the     *)
(*    device from being rebooted.                                          *)
(*  - The script has a lock of its own, the file ./runing.                 *)
(*                                                                         *)
(* Workers of bsp take requests side by side and without a lock: another   *)
(* one may begin an upgrade between the check of a reboot and its command. *)
(* The test of gcb and the call through it are one step here; in the code  *)
(* a second upgrade that ends between them, which takes a fault, makes it  *)
(* a call of NULL.  That bsp alone dies and comes back is not modelled.    *)
(*                                                                         *)
(* All images have the same name, as those that ins.sh packs for a device. *)
(***************************************************************************)
EXTENDS Naturals, Sequences

CONSTANTS
    Conns,      \* connections of browsers
    Tasks,      \* places for upgrades that bsp has begun
    MaxLines    \* bound: so many lines "part" are on their way at most

\* With an install.sh, by app.xz: as it should be, of no length (or none);
\* "junk" is whole too, but no zip, or one without an install.sh.
Scripted == {"good", "empty"}
Images == Scripted \cup {"junk"}
Last == {"done", "failed"}      \* 100, and one of -1, -2, -3

ASSUME UpgAssumption == MaxLines \in Nat \ {0}

VARIABLES
    calm,       \* no faults: see Calm below; chosen at the start
    stat,       \* upg_stat
    progress,   \* upg_progress
    conn,       \* the upload of each connection
    zip,        \* the file /tmp/<name>.upg
    sent,       \* GSF_ID_BSP_UPG requests that no worker of bsp has taken
    gcb,        \* gcb # NULL, upg_runing()
    task,       \* where each upgrade is
    dir,        \* what /tmp/upg holds
    lock,       \* the file /tmp/upg/runing exists
    ev,         \* events that webs has not received
    asked,      \* a worker of bsp has found ~upg_runing() for a reboot
    due,        \* the reboot command has been given
    orphaned,   \* history: gcb was set for a task that was never created
    late        \* history: the upgrades begun since asked or due

websVars == <<stat, progress, conn>>
bspVars == <<sent, gcb, task, orphaned>>
fileVars == <<zip, dir, lock>>
rebootVars == <<asked, due, late>>
vars == <<calm, stat, progress, conn, zip, sent, gcb, task, dir, lock, ev,
          asked, due, orphaned, late>>

Init ==
    /\ calm \in BOOLEAN
    /\ stat = 0 /\ progress = "part"
    /\ conn = [u \in Conns |-> "idle"]
    /\ sent = 0 /\ gcb = FALSE
    /\ task = [t \in Tasks |-> "free"]
    /\ zip = "none" /\ dir = "none" /\ lock = FALSE
    /\ ev = <<>> /\ asked = FALSE /\ due = FALSE
    /\ orphaned = FALSE /\ late = {}

-----------------------------------------------------------------------------
(* webs: handle_upload, handle_control, sub_recv *)

\* Mutant: an upload is admitted whatever upg_stat.
AdmittedAlways == TRUE

Admitted == stat # 1

PartBegin(u, image) ==
    /\ conn[u] = "idle"
    /\ Admitted
    /\ stat' = 1
    /\ conn' = [conn EXCEPT ![u] = image]
    /\ zip' = "partial"
    /\ UNCHANGED <<calm, progress, bspVars, dir, lock, ev, rebootVars>>

\* "Device is upgrading"
PartBeginRefused(u) ==
    /\ conn[u] = "idle"
    /\ ~Admitted
    /\ conn' = [conn EXCEPT ![u] = "refused"]
    /\ UNCHANGED <<calm, stat, progress, bspVars, fileVars, ev, rebootVars>>

\* fopen fails, for which upg_stat is not taken back.
PartBeginFails(u) ==
    /\ ~calm
    /\ conn[u] = "idle"
    /\ Admitted
    /\ stat' = 1
    /\ UNCHANGED <<calm, progress, conn, bspVars, fileVars, ev, rebootVars>>

\* The part is whole: its file is closed and bsp is asked to install it.
PartEnd(u) ==
    /\ conn[u] \in Images
    /\ calm => \A t \in Tasks : task[t] = "free"
    /\ conn' = [conn EXCEPT ![u] = "idle"]
    /\ zip' = conn[u]
    /\ sent' = sent + 1
    /\ UNCHANGED <<calm, stat, progress, gcb, task, orphaned, dir, lock, ev,
                   rebootVars>>

\* The connection is lost, or the disk is full: mongoose ends the part with
\* status -1, which the handler does not look at.
PartCut(u) ==
    /\ ~calm
    /\ conn[u] \in Images
    /\ conn' = [conn EXCEPT ![u] = "idle"]
    /\ sent' = sent + 1
    /\ UNCHANGED <<calm, stat, progress, gcb, task, orphaned, fileVars, ev,
                   rebootVars>>

\* A refused upload has no data: the connection is closed.
RefusedEnd(u) ==
    /\ conn[u] = "refused"
    /\ conn' = [conn EXCEPT ![u] = "idle"]
    /\ UNCHANGED <<calm, stat, progress, bspVars, fileVars, ev, rebootVars>>

\* Mutant: every event of an install releases webs.
ReleasesAny(e) == TRUE
\* Mutant: only a success does.
ReleasesDone(e) == e = "done"

Releases(e) == e \in Last

SubRecv ==
    /\ ev # <<>>
    /\ progress' = Head(ev)
    /\ stat' = IF Releases(Head(ev)) THEN 0 ELSE stat
    /\ ev' = Tail(ev)
    /\ UNCHANGED <<calm, conn, bspVars, fileVars, rebootVars>>

-----------------------------------------------------------------------------
(* bsp: msg_func_upg, upg_start, upg_task *)

UpgStart(t) ==
    /\ sent > 0
    /\ task[t] = "free"
    /\ sent' = sent - 1
    /\ gcb' = TRUE /\ orphaned' = FALSE
    /\ task' = [task EXCEPT ![t] = "unzip"]
    /\ late' = IF asked \/ due THEN late \cup {t} ELSE late
    /\ UNCHANGED <<calm, websVars, fileVars, ev, asked, due>>

\* system() returns and the zip is removed.  A zip with no end has no
\* directory, and nothing is taken from it; junk brings no script, and that of
\* an earlier image stays.
Unzip(t) ==
    /\ task[t] = "unzip"
    /\ dir' = IF zip \in Scripted THEN zip ELSE dir
    /\ zip' = "none"
    /\ UNCHANGED <<calm, websVars, sent, gcb, lock, ev, asked, due>>

Unzipped(t) ==
    /\ Unzip(t)
    /\ task' = [task EXCEPT ![t] = "popen"]
    /\ UNCHANGED <<orphaned, late>>

\* pthread_create fails, which the reply says and nobody acts upon.
TaskFails(t) ==
    /\ ~calm
    /\ Unzip(t)
    /\ task' = [task EXCEPT ![t] = "free"]
    /\ orphaned' = TRUE /\ late' = late \ {t}

\* A line of the script is read, and published if (gcb).
Publish(line) == ev' = IF gcb THEN Append(ev, line) ELSE ev

\* Mutant: upg_task ends without gcb = NULL.
ScriptExitKeeps(t) ==
    /\ task[t] = "exit"
    /\ task' = [task EXCEPT ![t] = "free"]
    /\ late' = late \ {t}
    /\ UNCHANGED <<calm, websVars, sent, gcb, orphaned, fileVars, ev, asked,
                   due>>

\* End of file: upg_task ends.
ScriptExit(t) ==
    /\ task[t] = "exit"
    /\ task' = [task EXCEPT ![t] = "free"]
    /\ gcb' = FALSE /\ orphaned' = FALSE
    /\ late' = late \ {t}
    /\ UNCHANGED <<calm, websVars, sent, fileVars, ev, asked, due>>

\* Mutant: the device may be rebooted during an upgrade.
MayRebootAlways == TRUE

MayReboot == ~gcb

\* GSF_SID_BSP_UPG_REBOOT: the check.
RebootAsked ==
    /\ MayReboot
    /\ asked' = TRUE
    /\ UNCHANGED <<calm, websVars, bspVars, fileVars, ev, due, late>>

\* The command, which waits two seconds.
RebootCommand ==
    /\ asked
    /\ asked' = FALSE /\ due' = TRUE
    /\ UNCHANGED <<calm, websVars, bspVars, fileVars, ev, late>>

\* The device starts afresh, with nothing in /tmp, which is in memory.
Reboot ==
    /\ due
    /\ stat' = 0 /\ progress' = "part"
    /\ conn' = [u \in Conns |-> "idle"]
    /\ sent' = 0 /\ gcb' = FALSE
    /\ task' = [t \in Tasks |-> "free"]
    /\ zip' = "none" /\ dir' = "none" /\ lock' = FALSE
    /\ ev' = <<>> /\ asked' = FALSE /\ due' = FALSE
    /\ orphaned' = FALSE /\ late' = {}
    /\ UNCHANGED calm

-----------------------------------------------------------------------------
(* install.sh *)

\* There is no script: the shell of popen ends.
NoScript(t) ==
    /\ task[t] = "popen"
    /\ dir = "none"
    /\ task' = [task EXCEPT ![t] = "exit"]
    /\ UNCHANGED <<calm, websVars, sent, gcb, orphaned, fileVars, ev,
                   rebootVars>>

\* "progress=-3"
ScriptLocked(t) ==
    /\ task[t] = "popen"
    /\ dir # "none" /\ lock
    /\ task' = [task EXCEPT ![t] = "exit"]
    /\ Publish("failed")
    /\ UNCHANGED <<calm, websVars, sent, gcb, orphaned, fileVars, rebootVars>>

\* touch ./runing, and cp in the background
ScriptCopies(t) ==
    /\ task[t] = "popen"
    /\ dir # "none" /\ ~lock
    /\ task' = [task EXCEPT ![t] = "copy"]
    /\ lock' = TRUE
    /\ UNCHANGED <<calm, websVars, sent, gcb, orphaned, zip, dir, ev,
                   rebootVars>>

\* cp fails, or the flash is full: the file never gets its length, and the
\* loop that prints it never ends.
CopyFails(t) ==
    /\ ~calm
    /\ task[t] = "copy"
    /\ task' = [task EXCEPT ![t] = "stuck"]
    /\ UNCHANGED <<calm, websVars, sent, gcb, orphaned, fileVars, ev,
                   rebootVars>>

\* progress=$x below 100
ScriptPrints(t) ==
    /\ task[t] \in {"copy", "stuck"}
    /\ Len(ev) < MaxLines
    /\ Publish("part")
    /\ UNCHANGED <<calm, websVars, bspVars, fileVars, rebootVars>>

\* 100 when cp has ended well, or -2 for an app.xz of no length
ScriptReports(t) ==
    /\ task[t] = "copy"
    /\ task' = [task EXCEPT ![t] = "reported"]
    /\ Publish(IF dir = "good" THEN "done" ELSE "failed")
    /\ UNCHANGED <<calm, websVars, sent, gcb, orphaned, fileVars, rebootVars>>

\* Mutant: ./runing is left.
ScriptEndsLocked(t) ==
    /\ task[t] = "reported"
    /\ task' = [task EXCEPT ![t] = "exit"]
    /\ UNCHANGED <<calm, websVars, sent, gcb, orphaned, fileVars, ev,
                   rebootVars>>

\* rm ./runing
ScriptEnds(t) ==
    /\ task[t] = "reported"
    /\ task' = [task EXCEPT ![t] = "exit"]
    /\ lock' = FALSE
    /\ UNCHANGED <<calm, websVars, sent, gcb, orphaned, zip, dir, ev,
                   rebootVars>>

-----------------------------------------------------------------------------
WebsStep ==
    \/ \E u \in Conns :
        \/ \E image \in Images : PartBegin(u, image)
        \/ PartBeginRefused(u)
        \/ PartBeginFails(u)
        \/ PartEnd(u)
        \/ PartCut(u)
        \/ RefusedEnd(u)
    \/ SubRecv

BspStep ==
    \/ \E t \in Tasks : UpgStart(t) \/ Unzipped(t) \/ TaskFails(t)
                          \/ ScriptExit(t)
    \/ RebootAsked
    \/ RebootCommand
    \/ Reboot

ScriptStep(t) ==
    \/ NoScript(t)
    \/ ScriptLocked(t)
    \/ ScriptCopies(t)
    \/ CopyFails(t)
    \/ ScriptPrints(t)
    \/ ScriptReports(t)
    \/ ScriptEnds(t)

Next == WebsStep \/ BspStep \/ \E t \in Tasks : ScriptStep(t)

\* An upload ends, and processes and threads that can take a step do.  A user
\* need not begin one, nor a script print a line before its last.  A copy ends
\* unless it fails.
Fairness ==
    /\ \A u \in Conns : WF_vars(PartEnd(u))
    /\ WF_vars(SubRecv)
    /\ \A t \in Tasks :
        /\ WF_vars(UpgStart(t)) /\ WF_vars(Unzipped(t))
        /\ WF_vars(ScriptExit(t))
        /\ WF_vars(NoScript(t)) /\ WF_vars(ScriptLocked(t))
        /\ WF_vars(ScriptCopies(t)) /\ WF_vars(ScriptReports(t))
        /\ WF_vars(ScriptEnds(t))

Spec == Init /\ [][Next]_vars /\ Fairness

-----------------------------------------------------------------------------
\* At most one request waits at bsp.
TypeOK ==
    /\ calm \in BOOLEAN
    /\ stat \in {0, 1} /\ progress \in Last \cup {"part"}
    /\ conn \in [Conns -> Images \cup {"idle", "refused"}]
    /\ zip \in Images \cup {"none", "partial"}
    /\ dir \in Scripted \cup {"none"}
    /\ sent \in {0, 1} /\ gcb \in BOOLEAN
    /\ task \in [Tasks -> {"free", "unzip", "popen", "copy", "stuck",
                           "reported", "exit"}]
    /\ lock \in BOOLEAN
    /\ {asked, due, orphaned} \subseteq BOOLEAN /\ late \subseteq Tasks
    /\ ev \in Seq(Last \cup {"part"})

\* While a script copies app.xz to /factory no other image is unzipped over it
\* and no other script copies: upg_stat, cleared by an event on its way between
\* three processes, is all that prevents it (the lock is only looked at once
\* the files have been overwritten).  It holds however uploads are cut or fail,
\* and for a copy that never ends.
CopyUndisturbed ==
    \A t, k \in Tasks : t # k /\ task[t] \in {"copy", "stuck"} =>
        task[k] \notin {"unzip", "copy", "stuck"}

\* Without faults, the lock of a script is never in the way of the next one.
LockFree == calm => ~ \E t \in Tasks : task[t] = "popen" /\ lock

\* Without faults, a reboot that was let through the check (msg_func_upg asks
\* upg_runing, which asks gcb) cuts off no upgrade that had begun by then: up
\* to the reboot itself, those that are on began after the check.  These it
\* does cut off: nothing is asked again at the command or two seconds later.
RebootRefused ==
    calm /\ (asked \/ due) => \A t \in Tasks : task[t] = "free" \/ t \in late

\* There is a script to run, or it is coming.
ScriptThere ==
    \/ dir # "none" \/ zip \in Scripted
    \/ \E u \in Conns : conn[u] \in Scripted

\* Without faults somebody still has to open webs again, for as long as it is
\* closed: an upload, a request, an upgrade whose script runs or will be run,
\* or the event with the last line of one.  The exception is junk that is
\* uploaded when no image with a script was before it: nobody ever prints a
\* last line, and webs stays closed until the device is rebooted.
ReleaseComing ==
    calm /\ stat = 1 /\ ScriptThere =>
        \/ \E u \in Conns : conn[u] \in Images
        \/ sent = 1
        \/ \E t \in Tasks : task[t] \in {"unzip", "popen", "copy"}
        \/ \E i \in 1 .. Len(ev) : ev[i] \in Last

\* gcb has an upgrade that will clear it when its script ends, whatever is lost
\* and however many upgrades there are: one that ends may clear it too early,
\* none too late.  The exception is an upgrade whose task was not created.
RebootComing == gcb /\ ~orphaned => \E t \in Tasks : task[t] # "free"

\* Without faults, an upload that closed webs to others opens it again in the
\* end: the last event comes, for images with a good and with an empty app.xz,
\* and for junk when an older script is there.
Released == (calm /\ stat = 1 /\ ScriptThere) ~> (stat = 0)

\* The device can be rebooted after an upgrade, which only then takes effect:
\* without a script, after a cut upload and behind a script's lock upg_runing
\* gives way as well.  Two faults alone keep it for good: a task that is not
\* created, and a copy that fails.
Rebootable ==
    gcb ~> (~gcb \/ orphaned \/ \E t \in Tasks : task[t] = "stuck")
=============================================================================
