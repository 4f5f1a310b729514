----------------------------- MODULE MCWatcher -----------------------------
(***************************************************************************)
(* Watcher for TLC: programs end by themselves or abort, with a core image.*)
(***************************************************************************)
EXTENDS Watcher

MCExit == {<<"exited", 1>>, <<"dumped", 6>>}
=============================================================================
