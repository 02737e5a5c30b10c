------------------------------ MODULE NvrPass -------------------------------
(***************************************************************************)
(* What one pass of the live task (nvr_live.c:121-247) achieves.  The      *)
(* history variable calm says that since the pass in hand, or the last     *)
(* one, was begun nobody made a setting, no call timed out, and no process *)
(* stopped or registered.  Late requests may be served or dropped at any   *)
(* time, calls to cameras may fail.                                        *)
(*                                                                         *)
(* The two properties are the part of Converges (NvrLive) that is not      *)
(* about time: one calm pass brings every stream to what the configuration *)
(* wants, and from there no pass closes or opens anything again.           *)
(***************************************************************************)
EXTENDS NvrLive

VARIABLE calm

passVars == <<vars, calm>>

Undisturbed == UNCHANGED <<count, writing>>

PassInit == Init /\ calm = FALSE

PassNext ==
    /\ Next
    /\ calm' = \/ pc = "wait" /\ pc' = "cmp"
               \/ calm /\ Undisturbed

PassSpec == PassInit /\ [][PassNext]_passVars

-----------------------------------------------------------------------------
(* Properties *)

\* A pass in which nothing happens but the task's own work and late requests
\* leaves every stream as the configuration wants it, from whatever earlier
\* settings and timeouts left behind, until rtsps stops for the first time.
PassSettles ==
    Unstopped /\ calm /\ pc = "wait" =>
        mng = cfg /\ \A x \in Slots : Shows(x)

\* Nothing is left to do: the streams show what the configuration wants, and
\* no camera is still to be asked.
Settled ==
    /\ mng = cfg /\ \A x \in Slots : Shows(x)
    /\ \A i \in Chans : mng[i].en /\ HostOf(mng[i]) # None => onvif[i]
    /\ call = NoCall /\ writing = <<>>
    /\ pc \in {"wait", "cmp", "onvif", "open"}

\* The task does not close and open again what is as it should be, nor does a
\* late C_OPEN or C_CLOSE disturb it: while rtsps has not stopped only a user
\* or a process that registers ends this.
SettledStays ==
    [][Unstopped /\ Settled /\ Undisturbed => Settled']_passVars
=============================================================================
