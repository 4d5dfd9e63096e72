--------------------------- MODULE MCShellRunner ---------------------------
(* A pipe of one piece and two pieces to write: the command blocks unless   *)
(* somebody reads.                                                          *)
EXTENDS ShellRunner
=============================================================================
