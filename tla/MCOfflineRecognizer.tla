-------------------------- MODULE MCOfflineRecognizer --------------------------
(* OfflineRecognizer for TLC: one request thread.                            *)
EXTENDS OfflineRecognizer

CONSTANTS user      \* the request thread
================================================================================
