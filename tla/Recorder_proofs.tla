--------------------------- MODULE Recorder_proofs --------------------------
(***************************************************************************)
(* Proofs about the recorder, for any number of channels and workers, any  *)
(* bounds and any age of snapshots: every recording on the disk is in the  *)
(* index unless an error of its own was ignored, and index and disk        *)
(* implement Archive, whatever happens to the clock; and if nobody sets    *)
(* the clock, no entry of a file stays open without a writer.              *)
(***************************************************************************)
EXTENDS Recorder, TLAPS

\* The types of what a step may enter into the index or the disk.
LEMMA KeyTypes ==
    ASSUME TypeOK
    PROVE  /\ Channels \subseteq Nat /\ 0 \in Channels
           /\ \A c \in Channels : <<now, c>> \in Keys
           /\ \A t \in SnapTimes, s \in Images : <<t, s>> \in Keys
           /\ None \notin Keys
BY RecAssumption DEF RecAssumption, TypeOK, Keys, Channels, SnapTimes

\* The thread goes on to the next channel, or to the writing.
LEMMA NextChannelTypes ==
    ASSUME TypeOK, NextChannel
    PROVE  cur' \in Channels /\ pc' \in {"attach", "write"}
<1>1. cur \in Nat /\ NChan \in Nat /\ 0 \in Channels
  BY RecAssumption DEF RecAssumption, TypeOK, Channels
<1> QED
  BY <1>1 DEF NextChannel, Channels

\* Initially there is nothing.
LEMMA TypeInit == Init => TypeOK
<1> SUFFICES ASSUME Init PROVE TypeOK
  OBVIOUS
<1>1. 0 \in Channels /\ 0 \in 0 .. MaxTime
  BY RecAssumption DEF RecAssumption, Channels
<1> QED
  BY <1>1 DEF Init, TypeOK, Steps

\* Every step keeps the types.
LEMMA TypeStep == TypeOK /\ [Next]_vars => TypeOK'
<1> SUFFICES ASSUME TypeOK, [Next]_vars PROVE TypeOK'
  OBVIOUS
<1> USE KeyTypes DEF TypeOK, Steps, diskVars, chanVars, placeVars, workVars,
        GoTo, Index, Ignored
<1>1. ASSUME UNCHANGED vars PROVE TypeOK'
  BY <1>1 DEF vars
<1>2. CASE Boot
  BY <1>2, RecAssumption DEF Boot, RecAssumption
<1>3. CASE ScanDone \/ ScanFails
  BY <1>3 DEF ScanDone, ScanFails
<1>4. ASSUME NEW k \in opened, UnclosedCb(k) PROVE TypeOK'
  BY <1>4 DEF UnclosedCb, TiClose
<1>5. CASE CheckDone
  BY <1>5 DEF CheckDone
<1>6. CASE FdRm
  BY <1>6 DEF FdRm
<1>7. CASE CheckFails
  BY <1>7 DEF CheckFails, Exits
<1>8. ASSUME NEW k \in Index, OldsetGet(k) PROVE TypeOK'
  BY <1>8 DEF OldsetGet
<1>9. ASSUME NEW k \in Index, OldsetRm(k) PROVE TypeOK'
  BY <1>9 DEF OldsetRm
<1>10. CASE VisitSkip \/ VisitStop \/ VisitStart
  BY <1>10, NextChannelTypes DEF VisitSkip, VisitStop, VisitStart
<1>11. CASE VisitStartWrites
  BY <1>11 DEF VisitStartWrites, BeginSegment, TiOpen
<1>12. CASE Create
  BY <1>12, NextChannelTypes DEF Create, Return
<1>13. CASE CreateFails
  BY <1>13, NextChannelTypes DEF CreateFails, Return, Exits
<1>14. CASE NextSegment
  BY <1>14 DEF NextSegment, BeginSegment, TiOpen
<1>15. CASE WriteFails \/ WriteDone
  BY <1>15 DEF WriteFails, WriteDone, Exits
<1>16. ASSUME NEW c \in Channels, FirstFrame(c) PROVE TypeOK'
  BY <1>16 DEF FirstFrame, BeginSegment, TiOpen
<1>17. ASSUME NEW c \in Channels, EndSegment(c) PROVE TypeOK'
  BY <1>17 DEF EndSegment, TiClose
<1>18. ASSUME NEW w \in Workers, ImageCopy(w) PROVE TypeOK'
  BY <1>18 DEF ImageCopy
<1>19. ASSUME NEW w \in Workers, ImageClose(w) PROVE TypeOK'
  BY <1>19 DEF ImageClose, TiClose
<1>20. ASSUME NEW w \in Workers, NEW s \in Images, ImageOpen(w, s)
       PROVE  TypeOK'
  BY <1>20 DEF ImageOpen, TiOpen
<1>21. ASSUME NEW c \in Channels, SetCfg(c) PROVE TypeOK'
  BY <1>21 DEF SetCfg
<1>22. CASE Tick
  BY <1>22 DEF Tick
<1>23. CASE Crash
  BY <1>23 DEF Crash
<1> QED
  BY <1>1, <1>2, <1>3, <1>4, <1>5, <1>6, <1>7, <1>8, <1>9, <1>10, <1>11,
     <1>12, <1>13, <1>14, <1>15, <1>16, <1>17, <1>18, <1>19, <1>20, <1>21,
     <1>22, <1>23 DEF Next, Recycle, Attach, Write

-----------------------------------------------------------------------------
(* Every recording without an error is indexed *)

\* The order of the keys is strict.
LEMMA BeforeStrict ==
    ASSUME NEW j \in Keys, NEW k \in Keys, Before(j, k)
    PROVE  ~Before(k, j)
<1>1. Channels \cup Images \subseteq Nat
  BY RecAssumption DEF RecAssumption, Channels
<1>2. {j[1], j[2], k[1], k[2]} \subseteq Nat
  BY <1>1 DEF Keys
<1> QED
  BY <1>2 DEF Before

\* ti_oldset_rm takes a recording only if it is the victim.
LEMMA RemovesVictim ==
    ASSUME TypeOK, VictimOldest, pc = "rmidx", NEW k \in Index, IsOldest(k),
           k[2] \in Channels \ Images
    PROVE  k = victim
<1>1. victim \in Index /\ (k = victim \/ Before(victim, k))
  BY DEF VictimOldest, Recordings
<1>2. k \in Keys /\ victim \in Keys
  BY <1>1 DEF TypeOK, Index
<1> QED
  BY <1>1, <1>2, BeforeStrict DEF IsOldest

LEMMA InitIInv == Init => IInv
BY TypeInit DEF Init, IInv, RecordingIndexed, KeysInHand, VictimOldest,
   Recordings

\* What the thread does with the index and the disk.
LEMMA IInvStep == IInv /\ [Next]_vars => IInv'
<1> SUFFICES ASSUME IInv, [Next]_vars
             PROVE  RecordingIndexed' /\ KeysInHand' /\ VictimOldest'
  BY TypeStep DEF IInv
<1>0. TypeOK /\ TypeOK' /\ RecordingIndexed /\ KeysInHand /\ VictimOldest
  BY TypeStep DEF IInv
<1> USE DEF RecordingIndexed, KeysInHand, VictimOldest, diskVars, chanVars,
        placeVars, workVars, GoTo, Index, Ignored, Recordings
<1>1. CASE UNCHANGED vars
  BY <1>0, <1>1 DEF vars
<1>2. CASE Boot
  BY <1>0, <1>2 DEF Boot
<1>3. CASE ScanDone \/ ScanFails
  BY <1>0, <1>3 DEF ScanDone, ScanFails
<1>4. ASSUME NEW k \in opened, UnclosedCb(k)
      PROVE  RecordingIndexed' /\ KeysInHand' /\ VictimOldest'
  BY <1>0, <1>4 DEF UnclosedCb, TiClose
<1>5. CASE CheckDone
  BY <1>0, <1>5 DEF CheckDone
<1>6. CASE FdRm
  BY <1>0, <1>6 DEF FdRm
<1>7. CASE CheckFails
  BY <1>0, <1>7 DEF CheckFails, Exits
<1>8. ASSUME NEW k \in Index, OldsetGet(k)
      PROVE  RecordingIndexed' /\ KeysInHand' /\ VictimOldest'
  BY <1>0, <1>8 DEF OldsetGet, IsOldest
<1>9. ASSUME NEW k \in Index, OldsetRm(k)
      PROVE  RecordingIndexed' /\ KeysInHand' /\ VictimOldest'
  <2>1. k[2] \in Channels \ Images => k \notin files \ ignored
    BY <1>0, <1>9, RemovesVictim DEF OldsetRm
  <2> QED
    BY <1>0, <1>9, <2>1 DEF OldsetRm
<1>10. CASE VisitSkip \/ VisitStop \/ VisitStart
  BY <1>0, <1>10, NextChannelTypes DEF VisitSkip, VisitStop, VisitStart
<1>11. CASE VisitStartWrites
  BY <1>0, <1>11 DEF VisitStartWrites, BeginSegment, TiOpen, TypeOK
<1>12. CASE Create
  BY <1>0, <1>12, NextChannelTypes DEF Create, Return, TypeOK
<1>13. CASE CreateFails
  BY <1>0, <1>13, NextChannelTypes DEF CreateFails, Return, Exits, TypeOK
<1>14. CASE NextSegment
  BY <1>0, <1>14 DEF NextSegment, BeginSegment, TiOpen, TypeOK
<1>15. CASE WriteFails \/ WriteDone
  BY <1>0, <1>15 DEF WriteFails, WriteDone, Exits
<1>16. ASSUME NEW c \in Channels, FirstFrame(c)
       PROVE  RecordingIndexed' /\ KeysInHand' /\ VictimOldest'
  BY <1>0, <1>16 DEF FirstFrame, BeginSegment, TiOpen, TypeOK
<1>17. ASSUME NEW c \in Channels, EndSegment(c)
       PROVE  RecordingIndexed' /\ KeysInHand' /\ VictimOldest'
  BY <1>0, <1>17 DEF EndSegment, TiClose
<1>18. ASSUME NEW w \in Workers, ImageCopy(w)
       PROVE  RecordingIndexed' /\ KeysInHand' /\ VictimOldest'
  BY <1>0, <1>18 DEF ImageCopy, TypeOK
<1>19. ASSUME NEW w \in Workers, ImageClose(w)
       PROVE  RecordingIndexed' /\ KeysInHand' /\ VictimOldest'
  BY <1>0, <1>19 DEF ImageClose, TiClose, TypeOK
<1>20. ASSUME NEW w \in Workers, NEW s \in Images, ImageOpen(w, s)
       PROVE  RecordingIndexed' /\ KeysInHand' /\ VictimOldest'
  BY <1>0, <1>20 DEF ImageOpen, TiOpen, TypeOK
<1>21. ASSUME NEW c \in Channels, SetCfg(c)
       PROVE  RecordingIndexed' /\ KeysInHand' /\ VictimOldest'
  BY <1>0, <1>21 DEF SetCfg
<1>22. CASE Tick
  BY <1>0, <1>22 DEF Tick
<1>23. CASE Crash
  BY <1>0, <1>23 DEF Crash
<1> QED
  BY <1>1, <1>2, <1>3, <1>4, <1>5, <1>6, <1>7, <1>8, <1>9, <1>10, <1>11,
     <1>12, <1>13, <1>14, <1>15, <1>16, <1>17, <1>18, <1>19, <1>20, <1>21,
     <1>22, <1>23 DEF Next, Recycle, Attach, Write

\* The inductive invariant holds in every reachable state.
THEOREM Invariance == Spec => []IInv
BY InitIInv, IInvStep, PTL DEF Spec

\* The types of the recorder's state, and what the thread has in hand.
THEOREM TypeCorrect == Spec => []TypeOK
<1>1. IInv => TypeOK
  BY DEF IInv
<1> QED
  BY <1>1, Invariance, PTL

\* Every recording on the disk is in the index, whatever the clock does and
\* whenever the process is killed, unless unlink or TI_OPEN failed for it:
\* ti_oldset_rm, which takes the entry that is the oldest by then, cannot take
\* a recording other than the one given to fd_rm.
THEOREM RecordingsIndexed == Spec => []RecordingIndexed
<1>1. IInv => RecordingIndexed
  BY DEF IInv
<1> QED
  BY <1>1, Invariance, PTL

-----------------------------------------------------------------------------
(* The recorder implements Archive *)

Unseen == UNCHANGED <<Recordings(Index), Recordings(files),
                      Recordings(ignored)>>

\* Entering or closing an entry announces its recording, if it is one.
LEMMA EntersRecording ==
    ASSUME TypeOK, NEW k \in Keys, UNCHANGED <<files, ignored>>,
           Index' \in {Index, Index \cup {k}}
    PROVE  Arch!Next \/ Unseen
<1>1. CASE k[2] \in Channels \ Images /\ Index' = Index \cup {k}
  <2>1. k \in Recordings(Keys)
    BY <1>1 DEF Recordings
  <2>2. Recordings(Index)' = Recordings(Index) \cup {k}
    BY <1>1 DEF Recordings
  <2>3. UNCHANGED <<Recordings(files), Recordings(ignored)>>
    BY DEF Recordings
  <2> QED
    BY <2>1, <2>2, <2>3 DEF Arch!Next, Arch!Enter
<1>2. CASE k[2] \notin Channels \ Images \/ Index' = Index
  BY <1>2 DEF Recordings, Unseen
<1> QED
  BY <1>1, <1>2

\* An error that nobody looks at is one of Archive, if it is of a recording.
LEMMA FailsUnnoticed ==
    ASSUME NEW k \in Keys, Ignored(k), UNCHANGED <<opened, closed, files>>
    PROVE  Arch!Next \/ Unseen
<1>1. UNCHANGED <<Recordings(Index), Recordings(files)>>
  BY DEF Recordings, Index
<1>2. CASE k[2] \in Channels \ Images
  <2>1. k \in Recordings(Keys)
    BY <1>2 DEF Recordings
  <2>2. Recordings(ignored)' = Recordings(ignored) \cup {k}
    BY <1>2 DEF Recordings, Ignored
  <2> QED
    BY <1>1, <2>1, <2>2 DEF Arch!Next, Arch!Fail
<1>3. CASE k[2] \notin Channels \ Images
  BY <1>1, <1>3 DEF Recordings, Ignored, Unseen
<1> QED
  BY <1>2, <1>3

\* ti_open and ti_close, as the index sees them.
LEMMA TiSteps ==
    ASSUME TypeOK, NEW k \in Keys, UNCHANGED files
    PROVE  /\ TiOpen(k) => Arch!Next \/ Unseen
           /\ TiClose(k) /\ UNCHANGED ignored => Arch!Next \/ Unseen
<1>1. CASE Ignored(k) /\ UNCHANGED <<opened, closed>>
  BY <1>1, FailsUnnoticed
<1>2. CASE /\ UNCHANGED ignored
           /\ opened' = opened \cup {k} /\ closed' = closed \ {k}
  BY <1>2, EntersRecording DEF Index
<1>3. CASE TiClose(k) /\ UNCHANGED ignored
  BY <1>3, EntersRecording DEF Index, TiClose
<1> QED
  BY <1>1, <1>2, <1>3 DEF TiOpen

\* fd_rm: the victim is the oldest recording a query can find.
LEMMA RecyclesOldest ==
    ASSUME IInv, FdRm
    PROVE  Arch!Next \/ Unseen
<1>1. /\ TypeOK /\ victim \in Index
      /\ \A k \in Recordings(Index) : k = victim \/ Before(victim, k)
  BY DEF IInv, VictimOldest, FdRm
<1>2. victim \in Keys /\ UNCHANGED <<opened, closed>>
  BY <1>1 DEF FdRm, TypeOK, Index
<1>3. CASE Ignored(victim) /\ UNCHANGED files
  BY <1>2, <1>3, FailsUnnoticed
<1>4. CASE files' = files \ {victim} /\ UNCHANGED ignored
  <2>1. UNCHANGED <<Recordings(Index), Recordings(ignored)>>
    BY <1>2, <1>4 DEF Recordings, Index
  <2>2. CASE victim \in Recordings(files)
    <3>1. victim \in Recordings(Keys)
      BY <1>2, <2>2 DEF Recordings
    <3>2. Recordings(files)' = Recordings(files) \ {victim}
      BY <1>4 DEF Recordings
    <3>3. Arch!Recycle(victim)
      BY <1>1, <2>1, <2>2, <3>2 DEF Arch!Recycle
    <3> QED
      BY <3>1, <3>3 DEF Arch!Next
  <2>3. CASE victim \notin Recordings(files)
    BY <1>4, <2>1, <2>3 DEF Recordings, Unseen
  <2> QED
    BY <2>2, <2>3
<1> QED
  BY <1>3, <1>4 DEF FdRm

\* ti_oldset_rm: the entry it takes is not that of a recording on the disk, or
\* of one that could not be deleted.
LEMMA ForgetsGone ==
    ASSUME IInv, NEW k \in Index, OldsetRm(k)
    PROVE  Arch!Next \/ Unseen
<1>1. k[2] \in Channels \ Images => k \notin files \/ k \in ignored
  BY RemovesVictim DEF IInv, VictimOldest, OldsetRm, Recordings
<1>2. Index' = Index \ {k} /\ UNCHANGED <<files, ignored>> /\ k \in Keys
  BY DEF OldsetRm, Index, IInv, TypeOK
<1>3. UNCHANGED <<Recordings(files), Recordings(ignored)>>
  BY <1>2 DEF Recordings
<1>4. CASE k[2] \in Channels \ Images
  <2>1. /\ k \in Recordings(Keys) /\ k \in Recordings(Index)
        /\ k \notin Recordings(files) \/ k \in Recordings(ignored)
    BY <1>1, <1>2, <1>4 DEF Recordings
  <2>2. Recordings(Index)' = Recordings(Index) \ {k}
    BY <1>2 DEF Recordings
  <2>3. Arch!Forget(k)
    BY <1>3, <2>1, <2>2 DEF Arch!Forget
  <2> QED
    BY <2>1, <2>3 DEF Arch!Next
<1>5. CASE k[2] \notin Channels \ Images
  BY <1>2, <1>3, <1>5 DEF Recordings, Unseen
<1> QED
  BY <1>4, <1>5

\* fd_av_open: the recording that comes to be is in the index, or was to be.
LEMMA KeepsIndexed ==
    ASSUME IInv, Create
    PROVE  Arch!Next \/ Unseen
<1>1. /\ cur \in Channels /\ info[cur] \in Index \cup ignored
      /\ info[cur][2] = cur /\ Index \cup ignored \subseteq Keys
  BY DEF IInv, TypeOK, KeysInHand, Create, Index
<1>2. files' = files \cup {info[cur]} /\ UNCHANGED <<Index, ignored>>
  BY DEF Create, Index
<1>3. UNCHANGED <<Recordings(Index), Recordings(ignored)>>
  BY <1>2 DEF Recordings
<1>4. CASE cur \notin Images
  <2>1. /\ info[cur] \in Recordings(Keys)
        /\ info[cur] \in Recordings(Index) \cup Recordings(ignored)
    BY <1>1, <1>4 DEF Recordings
  <2>2. Recordings(files)' = Recordings(files) \cup {info[cur]}
    BY <1>1, <1>2, <1>4 DEF Recordings
  <2> QED
    BY <1>3, <2>1, <2>2 DEF Arch!Next, Arch!Keep
<1>5. CASE cur \in Images
  BY <1>1, <1>2, <1>3, <1>5 DEF Recordings, Unseen
<1> QED
  BY <1>4, <1>5

\* Each step is one of Archive or changes nothing there.
LEMMA ArchiveStep ==
    IInv /\ [Next]_vars => [Arch!Next]_(Arch!archVars)
<1> SUFFICES ASSUME IInv, [Next]_vars
             PROVE  Arch!Next \/ Unseen
  BY DEF Arch!archVars, Unseen
<1>0. TypeOK /\ KeysInHand
  BY DEF IInv
<1>a. ASSUME UNCHANGED diskVars
      PROVE  Unseen
  BY <1>a DEF diskVars, Recordings, Index, Unseen
<1>1. CASE UNCHANGED vars
  BY <1>1, <1>a DEF vars, diskVars
<1>2. CASE Boot \/ ScanDone \/ ScanFails \/ CheckDone \/ CheckFails
  BY <1>2, <1>a DEF Boot, ScanDone, ScanFails, CheckDone, CheckFails
<1>3. ASSUME NEW k \in opened, UnclosedCb(k)
      PROVE  Unseen
  BY <1>3 DEF UnclosedCb, TiClose, Index, Recordings, Unseen
<1>4. ASSUME NEW k \in Index, OldsetGet(k)
      PROVE  Unseen
  BY <1>4, <1>a DEF OldsetGet
<1>5. CASE VisitSkip \/ VisitStop \/ VisitStart \/ CreateFails \/ WriteFails
             \/ WriteDone \/ Tick \/ Crash
  BY <1>5, <1>a DEF VisitSkip, VisitStop, VisitStart, CreateFails,
     WriteFails, WriteDone, Tick, Crash
<1>6. ASSUME NEW c \in Channels, NEW b, BeginSegment(c, b)
      PROVE  Arch!Next \/ Unseen
  BY <1>0, <1>6, KeyTypes, TiSteps DEF BeginSegment
<1>7. CASE VisitStartWrites \/ NextSegment
  BY <1>0, <1>6, <1>7 DEF VisitStartWrites, NextSegment, TypeOK
<1>8. ASSUME NEW c \in Channels, FirstFrame(c)
      PROVE  Arch!Next \/ Unseen
  BY <1>6, <1>8 DEF FirstFrame
<1>9. ASSUME NEW c \in Channels, EndSegment(c)
      PROVE  Arch!Next \/ Unseen
  <2>1. info[c] \in Keys
    BY <1>0, <1>9 DEF EndSegment, TypeOK
  <2> QED
    BY <1>0, <1>9, <2>1, TiSteps DEF EndSegment
<1>10. ASSUME NEW w \in Workers, ImageCopy(w)
       PROVE  Unseen
  <2>1. imgKey[w][2] \notin Channels \ Images
    BY <1>0, <1>10 DEF ImageCopy, KeysInHand
  <2> QED
    BY <1>10, <2>1 DEF ImageCopy, Index, Recordings, Unseen
<1>11. ASSUME NEW w \in Workers, ImageClose(w)
       PROVE  Arch!Next \/ Unseen
  <2>1. imgKey[w] \in Keys
    BY <1>0, <1>11 DEF ImageClose, TypeOK
  <2> QED
    BY <1>0, <1>11, <2>1, TiSteps DEF ImageClose
<1>12. ASSUME NEW w \in Workers, NEW s \in Images, ImageOpen(w, s)
       PROVE  Arch!Next \/ Unseen
  <2>1. PICK t \in SnapTimes : TiOpen(<<t, s>>)
    BY <1>12 DEF ImageOpen
  <2>2. <<t, s>> \in Keys
    BY <1>0, KeyTypes
  <2> QED
    BY <1>0, <1>12, <2>1, <2>2, TiSteps DEF ImageOpen
<1>13. ASSUME NEW c \in Channels, SetCfg(c)
       PROVE  Unseen
  BY <1>13, <1>a DEF SetCfg
<1> QED
  BY <1>1, <1>2, <1>3, <1>4, <1>5, <1>7, <1>8, <1>9, <1>10, <1>11, <1>12,
     <1>13, RecyclesOldest, ForgetsGone, KeepsIndexed
     DEF Next, Recycle, Attach, Write

\* The recorder, with its three accesses to index and disk per recycled file,
\* its crashes, its errors that nobody looks at and a clock that may be set,
\* implements Archive: of the recordings only the oldest is deleted, and none
\* but those with an error of their own is on the disk that a query cannot find.
THEOREM ImplementsArchive == Spec => ArchiveSpec
<1>1. Init => Arch!Init
  BY DEF Init, Arch!Init, Recordings, Index
<1> QED
  BY <1>1, ArchiveStep, Invariance, PTL DEF Spec, ArchiveSpec, Arch!Spec

-----------------------------------------------------------------------------
(* No entry stays open without a writer *)

LEMMA InitWInv == Init => WInv
BY DEF Init, WInv, FilesPast, OpenInHand, Serving

\* When nobody sets the clock, the keys of a channel never come back.
LEMMA FilesPastStep ==
    ASSUME ~ClockMoves, Images \cap Channels = {}, IInv, FilesPast, [Next]_vars
    PROVE  FilesPast'
<1>0. TypeOK /\ TypeOK' /\ KeysInHand
  BY TypeStep DEF IInv
<1>a. SegTime \in Nat \ {0}
  BY RecAssumption DEF RecAssumption
<1>b. now \in Nat /\ files \subseteq Keys /\ \A k \in Keys : k[1] \in Nat
  BY <1>0 DEF TypeOK, Keys
<1>c. \A c \in Channels : info[c] = None \/ info[c] \in Keys
  BY <1>0 DEF TypeOK
<1> USE <1>0, <1>a, <1>b, <1>c DEF FilesPast, Past, Serving, diskVars,
        chanVars, placeVars, workVars, GoTo, Ignored
<1>1. CASE UNCHANGED vars
  BY <1>1 DEF vars
<1>2. CASE Boot
  BY <1>2 DEF Boot
<1>3. CASE ScanDone \/ ScanFails
  BY <1>3 DEF ScanDone, ScanFails
<1>4. ASSUME NEW k \in opened, UnclosedCb(k) PROVE FilesPast'
  BY <1>4 DEF UnclosedCb
<1>5. CASE CheckDone
  BY <1>5 DEF CheckDone
<1>6. CASE FdRm
  BY <1>6 DEF FdRm
<1>7. CASE CheckFails
  BY <1>7 DEF CheckFails, Exits
<1>8. ASSUME NEW k \in Index, OldsetGet(k) PROVE FilesPast'
  BY <1>8 DEF OldsetGet
<1>9. ASSUME NEW k \in Index, OldsetRm(k) PROVE FilesPast'
  BY <1>9 DEF OldsetRm
<1>10. CASE VisitSkip \/ VisitStop \/ VisitStart
  BY <1>10, NextChannelTypes DEF VisitSkip, VisitStop, VisitStart
<1>11. CASE VisitStartWrites
  BY <1>11 DEF VisitStartWrites, BeginSegment, TypeOK
<1>12. CASE Create
  <2>1. /\ cur \in Channels /\ info[cur] \in Keys
        /\ info[cur][2] = cur /\ info[cur][1] <= now
    BY <1>12 DEF Create, KeysInHand, TypeOK
  <2>2. /\ files' = files \cup {info[cur]} /\ fd' = fd \cup {cur}
        /\ pc' \in {"attach", "write"} /\ pc = "create"
        /\ UNCHANGED <<info, now>>
    BY <1>12, NextChannelTypes DEF Create, Return
  <2>3. \A k \in files' : k[2] = cur => k[1] < info[cur][1] + 1
    BY <2>1, <2>2
  <2>4. ASSUME NEW c \in Channels, c # cur
        PROVE  /\ c \in fd => Past(c, info[c][1] + 1)'
               /\ c \notin fd => Past(c, now)'
    BY <2>1, <2>2, <2>4
  <2> QED
    BY <2>1, <2>2, <2>3, <2>4 DEF TypeOK
<1>13. CASE CreateFails
  BY <1>13, NextChannelTypes DEF CreateFails, Return, Exits, TypeOK
<1>14. CASE NextSegment
  BY <1>14 DEF NextSegment, BeginSegment, TypeOK
<1>15. CASE WriteFails \/ WriteDone
  BY <1>15 DEF WriteFails, WriteDone, Exits
<1>16. ASSUME NEW c \in Channels, FirstFrame(c) PROVE FilesPast'
  BY <1>16 DEF FirstFrame, BeginSegment, TypeOK
<1>17. ASSUME NEW c \in Channels, EndSegment(c) PROVE FilesPast'
  BY <1>17 DEF EndSegment, Dist
<1>18. ASSUME NEW w \in Workers, ImageCopy(w) PROVE FilesPast'
  <2>1. imgKey[w][2] \notin Channels
    BY <1>18 DEF ImageCopy, KeysInHand
  <2> QED
    BY <1>18, <2>1 DEF ImageCopy
<1>19. ASSUME NEW w \in Workers, ImageClose(w) PROVE FilesPast'
  BY <1>19 DEF ImageClose
<1>20. ASSUME NEW w \in Workers, NEW s \in Images, ImageOpen(w, s)
       PROVE  FilesPast'
  BY <1>20 DEF ImageOpen
<1>21. ASSUME NEW c \in Channels, SetCfg(c) PROVE FilesPast'
  BY <1>21 DEF SetCfg
<1>22. CASE Tick
  BY <1>22 DEF Tick
<1>23. CASE Crash
  BY <1>23 DEF Crash
<1> QED
  BY <1>1, <1>2, <1>3, <1>4, <1>5, <1>6, <1>7, <1>8, <1>9, <1>10, <1>11,
     <1>12, <1>13, <1>14, <1>15, <1>16, <1>17, <1>18, <1>19, <1>20, <1>21,
     <1>22, <1>23 DEF Next, Recycle, Attach, Write

\* A segment that begins has a key no file has, and none of the channel's
\* entries was open.
LEMMA BeginsFresh ==
    ASSUME Images \cap Channels = {}, IInv, WInv,
           NEW c \in Channels, NEW b, BeginSegment(c, b), pc \in {"attach", "write", "reopen"},
           c \notin fd
    PROVE  OpenInHand'
<1>0. TypeOK /\ KeysInHand /\ FilesPast /\ OpenInHand
  BY DEF IInv, WInv
<1>1. Past(c, now) /\ Serving /\ pc # "dead"
  BY <1>0 DEF FilesPast, Serving
<1>2. now \in Nat /\ <<now, c>> \notin files
  BY <1>0, <1>1 DEF Past, TypeOK
<1>3. ASSUME NEW k \in opened \cap files PROVE k[2] # c
  BY <1>0, <1>1, <1>3 DEF OpenInHand, KeysInHand
<1>4. /\ opened' \in {opened, opened \cup {<<now, c>>}}
      /\ info' = [info EXCEPT ![c] = <<now, c>>]
      /\ UNCHANGED <<files, fd, img, imgKey>> /\ pc' = "create"
  BY DEF BeginSegment, TiOpen, workVars
<1>5. opened' \cap files' = opened \cap files
  BY <1>2, <1>4
<1> QED
  BY <1>0, <1>1, <1>3, <1>4, <1>5 DEF OpenInHand, TypeOK

LEMMA OpenInHandStep ==
    ASSUME ~ClockMoves, Images \cap Channels = {}, IInv, WInv, [Next]_vars
    PROVE  OpenInHand'
<1>0. TypeOK /\ TypeOK' /\ KeysInHand /\ FilesPast /\ OpenInHand
  BY TypeStep DEF IInv, WInv
<1> USE <1>0 DEF OpenInHand, Serving, diskVars, chanVars, placeVars,
        workVars, GoTo, Ignored, TiOpen
<1>1. CASE UNCHANGED vars
  BY <1>1 DEF vars
<1>2. CASE Boot
  BY <1>2 DEF Boot
<1>3. CASE ScanDone \/ ScanFails
  BY <1>3 DEF ScanDone, ScanFails
<1>4. ASSUME NEW k \in opened, UnclosedCb(k) PROVE OpenInHand'
  BY <1>4 DEF UnclosedCb
<1>5. CASE CheckDone
  BY <1>5 DEF CheckDone
<1>6. CASE FdRm
  BY <1>6 DEF FdRm
<1>7. CASE CheckFails
  BY <1>7 DEF CheckFails, Exits
<1>8. ASSUME NEW k \in Index, OldsetGet(k) PROVE OpenInHand'
  BY <1>8 DEF OldsetGet
<1>9. ASSUME NEW k \in Index, OldsetRm(k) PROVE OpenInHand'
  BY <1>9 DEF OldsetRm
<1>10. CASE VisitSkip \/ VisitStop \/ VisitStart
  BY <1>10, NextChannelTypes DEF VisitSkip, VisitStop, VisitStart
<1>11. CASE VisitStartWrites
  BY <1>11, BeginsFresh DEF VisitStartWrites, TypeOK
<1>12. CASE Create
  BY <1>12, NextChannelTypes DEF Create, Return, TypeOK, KeysInHand
<1>13. CASE CreateFails
  BY <1>13, NextChannelTypes DEF CreateFails, Return, Exits
<1>14. CASE NextSegment
  <2>1. pc = "reopen" /\ cur \in Channels /\ cur \notin fd
    BY <1>14 DEF NextSegment, TypeOK, FilesPast
  <2> QED
    BY <1>14, <2>1, BeginsFresh DEF NextSegment
<1>15. CASE WriteFails \/ WriteDone
  BY <1>15 DEF WriteFails, WriteDone, Exits
<1>16. ASSUME NEW c \in Channels, FirstFrame(c) PROVE OpenInHand'
  BY <1>16, BeginsFresh DEF FirstFrame
<1>17. ASSUME NEW c \in Channels, EndSegment(c) PROVE OpenInHand'
  BY <1>17 DEF EndSegment, TiClose
<1>18. ASSUME NEW w \in Workers, ImageCopy(w) PROVE OpenInHand'
  BY <1>18 DEF ImageCopy, TypeOK
<1>19. ASSUME NEW w \in Workers, ImageClose(w) PROVE OpenInHand'
  BY <1>19 DEF ImageClose, TiClose, TypeOK
<1>20. ASSUME NEW w \in Workers, NEW s \in Images, ImageOpen(w, s)
       PROVE  OpenInHand'
  BY <1>20 DEF ImageOpen, TiOpen, TypeOK
<1>21. ASSUME NEW c \in Channels, SetCfg(c) PROVE OpenInHand'
  BY <1>21 DEF SetCfg
<1>22. CASE Tick
  BY <1>22 DEF Tick
<1>23. CASE Crash
  BY <1>23 DEF Crash
<1> QED
  BY <1>1, <1>2, <1>3, <1>4, <1>5, <1>6, <1>7, <1>8, <1>9, <1>10, <1>11,
     <1>12, <1>13, <1>14, <1>15, <1>16, <1>17, <1>18, <1>19, <1>20, <1>21,
     <1>22, <1>23 DEF Next, Recycle, Attach, Write

\* If nobody sets the clock and snapshots have numbers of their own (at most
\* nine channels), an open entry whose file exists belongs to the channel or
\* the worker that is writing it, after any number of crashes.
THEOREM OpenEntriesWritten ==
    ASSUME ~ClockMoves, Images \cap Channels = {}
    PROVE  Spec => []OpenHasWriter
<1>1. IInv /\ WInv /\ [Next]_vars => WInv'
  BY FilesPastStep, OpenInHandStep DEF WInv
<1>2. WInv => OpenHasWriter
  BY DEF WInv, OpenInHand, OpenHasWriter
<1> QED
  BY <1>1, <1>2, InitWInv, Invariance, PTL DEF Spec
=============================================================================
