---------------------------- MODULE MCLaunchFlow ----------------------------
(***************************************************************************)
(* Small instances of LaunchFlow: two threads that can call launch_flow,   *)
(* a config that may change dsh.single_instance between two launches.      *)
(***************************************************************************)
EXTENDS LaunchFlow

MCSingleInstance == BOOLEAN
=============================================================================
