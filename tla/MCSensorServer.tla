---------------------------- MODULE MCSensorServer ----------------------------
(* Instances of SensorServer for TLC.                                      *)
EXTENDS SensorServer

\* Clients by the id they send, which is a number as the slots are.
TwoClients == 1..2
FirstIsUnusual == {<<1, 1>>}
=============================================================================
