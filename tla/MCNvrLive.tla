----------------------------- MODULE MCNvrLive ------------------------------
(* Small instances of NvrLive for TLC.                                      *)
EXTENDS NvrLive, TLC

CONSTANTS u1, u2, m1, m2, m3, cam

Src(h, s) == [en |-> TRUE, host |-> h, st |-> [i \in Streams |-> s],
              cut |-> {}]
Off == [Src(None, u1) EXCEPT !.en = FALSE]

\* Channels that name their streams; a channel may be switched off.
RtspSettings == {Src(None, u1), Src(None, u2), Off}
\* Channels whose streams a camera names; the urls of a former write-back
\* may have been saved in the configuration file and are loaded again.
CamSettings == {Src(cam, None), Src(cam, u1), Src(None, u2), Off}
\* A camera that always reports the same stream, or one that was moved.
FixedMedia == [h \in {cam} |-> {[i \in Streams |-> u1]}]
MovedMedia == [h \in {cam} |-> {[i \in Streams |-> u1], [i \in Streams |-> u2]}]
=============================================================================
