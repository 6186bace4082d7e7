------------------------------ MODULE MCSpeech ------------------------------
(* Values for TLC: a phone call and a recording.                             *)
EXTENDS SpeechMessenger, TLC
=============================================================================
