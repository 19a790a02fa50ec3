---------------------------- MODULE MCLifecycle ----------------------------
(* A server, another one, and a command over one data directory. *)
EXTENDS Lifecycle

CONSTANTS server, second, command
=============================================================================
