------------------------------ MODULE MCDaemon ------------------------------
(***************************************************************************)
(* Three worlds: an agent with one artifact and an epoch to settle; one     *)
(* submission, retried by two HTTP clients at once; and peers that bring a   *)
(* record and an epoch to settle.  In each, sessions come and go, and one    *)
(* crash and one I/O error happen.                                          *)
(***************************************************************************)
EXTENDS Daemon

CONSTANTS s1, w1, a1, e1

MCWorlds == {{w1, e1}, {s1}, {a1, e1}}
=============================================================================
