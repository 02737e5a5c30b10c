----------------------------- MODULE MCNvrPass ------------------------------
(* The instance of NvrPass for TLC, with the settings of MCNvrLive.         *)
EXTENDS MCNvrLive, NvrPass
=============================================================================
