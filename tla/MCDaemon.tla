----------------------------- MODULE MCDaemon ------------------------------
(* A small instance of Daemon for TLC: its constants are in the cfg.       *)
EXTENDS Daemon
=============================================================================
