--------------------------- MODULE MCShellSession ---------------------------
(***************************************************************************)
(* An instance of ShellSession for TLC.                                    *)
(***************************************************************************)
EXTENDS ShellSession

(* One port: two programs that use it one after the other share a session. *)
OnePort == {1}

(* "version" is the command whose failure is answered with more than "Unknown command". *)
SomeWords == {"version", "help"}
=============================================================================
