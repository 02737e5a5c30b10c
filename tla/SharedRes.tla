----------------------------- MODULE SharedRes ------------------------------
(***************************************************************************)
(* What a cache of shared, reference-counted resources promises: a user    *)
(* that was given a resource has it until the user gives it back or hands  *)
(* it to somebody else, and a resource is taken away only when the user    *)
(* that gives it back is the last one.  A resource nobody uses may stay.   *)
(*                                                                         *)
(* The onvif client cache (OnvifCli) implements this specification, and so *)
(* do the stream table of rtsps and the live task of the NVR (NvrLive).    *)
(***************************************************************************)
CONSTANTS Res, Users

VARIABLES
    avail,      \* the resources that exist
    users       \* resource -> its users

resVars == <<avail, users>>

Init ==
    /\ avail = {}
    /\ users = [r \in Res |-> {}]

\* A resource is made for its first user.
Provide(r, u) ==
    /\ r \notin avail
    /\ avail' = avail \cup {r}
    /\ users' = [users EXCEPT ![r] = {u}]

\* One more user.
Acquire(r, u) ==
    /\ r \in avail
    /\ u \notin users[r]
    /\ users' = [users EXCEPT ![r] = @ \cup {u}]
    /\ UNCHANGED avail

\* User u hands its use of the resource to v.
HandOver(r, u, v) ==
    /\ u \in users[r] /\ v \notin users[r]
    /\ users' = [users EXCEPT ![r] = (@ \ {u}) \cup {v}]
    /\ UNCHANGED avail

\* A user is done; the resource may go with its last user.
Release(r, u) ==
    /\ u \in users[r]
    /\ users' = [users EXCEPT ![r] = @ \ {u}]
    /\ \/ UNCHANGED avail
       \/ users[r] = {u} /\ avail' = avail \ {r}

Next ==
    \E r \in Res, u \in Users :
        \/ Provide(r, u) \/ Acquire(r, u) \/ Release(r, u)
        \/ \E v \in Users : HandOver(r, u, v)

Spec == Init /\ [][Next]_resVars
=============================================================================
