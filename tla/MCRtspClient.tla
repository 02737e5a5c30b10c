---------------------------- MODULE MCRtspClient ----------------------------
(* Small instances of RtspClient for TLC.                                    *)
EXTENDS RtspClient

CONSTANTS pull, push
=============================================================================
