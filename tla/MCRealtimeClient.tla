-------------------------- MODULE MCRealtimeClient --------------------------
(* A page that starts three sessions, checked by TLC.                        *)
EXTENDS RealtimeClient
=============================================================================
