------------------------------ MODULE RtspConn ------------------------------
(***************************************************************************)
(* The table of pulled RTSP streams in the rtsps process                   *)
(* (mod/rtsps/src/st-rtsp/rtsp-st.c, conn_ctxs): url -> reference count    *)
(* and the shared memory fifo the frames are written to.  One coroutine,   *)
(* handle_ctl, owns it and serves one request at a time.                   *)
(*                                                                         *)
(* The video and the audio fifo of an entry are created and freed together *)
(* and stand for one identifier here.  A url that is not in the table has  *)
(* refcnt 0 and shm None.                                                  *)
(***************************************************************************)
EXTENDS Integers

CONSTANTS
    Urls,       \* names conn_ctx_open accepts: 1 to 255 characters
    Shms,       \* shared memory identifiers
    None        \* the empty name, and shmid -1

VARIABLES
    refcnt,     \* ctx->refcnt
    shm         \* ctx->video_shmid and ctx->audio_shmid

connVars == <<refcnt, shm>>

ConnInit ==
    /\ refcnt = [u \in Urls |-> 0]
    /\ shm = [u \in Urls |-> None]

ConnType ==
    /\ refcnt \in [Urls -> Nat]
    /\ shm \in [Urls -> Shms \cup {None}]

\* Mutant: the entry that is found is not counted up.
ConnCtxOpenUncounted(u, m, remembered) ==
    IF refcnt[u] > 0
      THEN m = shm[u] /\ UNCHANGED connVars
      ELSE /\ m \in Shms \ remembered
           /\ \A v \in Urls : shm[v] # m
           /\ refcnt' = [refcnt EXCEPT ![u] = 1]
           /\ shm' = [shm EXCEPT ![u] = m]

\* C_OPEN of a url in the table adds a reference.  For another url a context
\* and its fifos are made, and m is the identifier the kernel gives them: one
\* that no entry and nobody in remembered still knows.
ConnCtxOpen(u, m, remembered) ==
    /\ refcnt' = [refcnt EXCEPT ![u] = @ + 1]
    /\ IF refcnt[u] > 0
         THEN m = shm[u] /\ UNCHANGED shm
         ELSE /\ m \in Shms \ remembered
              /\ \A v \in Urls : shm[v] # m
              /\ shm' = [shm EXCEPT ![u] = m]

\* Mutant: a url that is not in the table is counted down too.
ConnCtxCloseUnfound(u) ==
    /\ refcnt' = [refcnt EXCEPT ![u] = @ - 1]
    /\ shm' = [shm EXCEPT ![u] = IF refcnt[u] = 1 THEN None ELSE @]

\* Mutant: every C_CLOSE frees the fifos.
ConnCtxCloseFrees(u) ==
    /\ refcnt' = [refcnt EXCEPT ![u] = IF @ = 0 THEN 0 ELSE @ - 1]
    /\ shm' = [shm EXCEPT ![u] = None]

\* C_CLOSE drops a reference; the last one stops the client and frees the
\* fifos.  A url that is not in the table is no error.
ConnCtxClose(u) ==
    IF refcnt[u] = 0
      THEN UNCHANGED connVars
      ELSE /\ refcnt' = [refcnt EXCEPT ![u] = @ - 1]
           /\ shm' = [shm EXCEPT ![u] = IF refcnt[u] = 1 THEN None ELSE @]

\* The process ends: the table is gone with it.
ConnLost == refcnt' = [u \in Urls |-> 0] /\ shm' = [u \in Urls |-> None]
=============================================================================
