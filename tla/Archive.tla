------------------------------ MODULE Archive -------------------------------
(***************************************************************************)
(* What a recorder promises of its recordings: one can be found before it  *)
(* is kept and as long as it is kept, and a recording is deleted only when *)
(* no older one can be found.  What can be found need not be kept: it may  *)
(* not exist yet, or not any more.  Of a recording whose error was ignored *)
(* less is promised: that it is deleted in turn, if at all.                *)
(*                                                                         *)
(* The recorder with its index and its files (Recorder) implements this.   *)
(***************************************************************************)
CONSTANTS
    Recs,           \* recordings
    Older(_, _)     \* their order in time

VARIABLES
    found,      \* the recordings a query can find
    kept,       \* the recordings on the disk
    ignored     \* those of which an error was ignored

archVars == <<found, kept, ignored>>

Init == found = {} /\ kept = {} /\ ignored = {}

\* A recording is announced, perhaps one that was forgotten meanwhile.
Enter(r) ==
    /\ found' = found \cup {r}
    /\ UNCHANGED <<kept, ignored>>

\* Entering or deleting it fails, and nobody notices.
Fail(r) ==
    /\ ignored' = ignored \cup {r}
    /\ UNCHANGED <<found, kept>>

Keep(r) ==
    /\ r \in found \cup ignored
    /\ kept' = kept \cup {r}
    /\ UNCHANGED <<found, ignored>>

\* Room is made: the oldest recording goes.
Recycle(r) ==
    /\ r \in kept
    /\ \A q \in found : q = r \/ Older(r, q)
    /\ kept' = kept \ {r}
    /\ UNCHANGED <<found, ignored>>

Forget(r) ==
    /\ r \in found /\ (r \notin kept \/ r \in ignored)
    /\ found' = found \ {r}
    /\ UNCHANGED <<kept, ignored>>

Next == \E r \in Recs :
    Enter(r) \/ Fail(r) \/ Keep(r) \/ Recycle(r) \/ Forget(r)

Spec == Init /\ [][Next]_archVars
=============================================================================
