----------------------------- MODULE MCSandbox ------------------------------
(***************************************************************************)
(* Instance of Sandbox for TLC.                                            *)
(***************************************************************************)
EXTENDS Sandbox

\* Options whose step is independent of everything else are represented by
\* two of them, "limits" and "rootfs".
Representative == Options \ {"working_directory", "clean_environment"}
=============================================================================
