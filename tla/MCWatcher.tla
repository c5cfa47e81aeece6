----------------------------- MODULE MCWatcher -----------------------------
(* Small instances of Watcher for TLC.                                     *)
EXTENDS Watcher

CONSTANTS c1, c2

TwoChanges == <<c1, c2>>
OneChange == <<c1>>
=============================================================================
