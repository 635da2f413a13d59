------------------------------ MODULE Startup ------------------------------
(***************************************************************************)
(* What a program finds when it starts: its command line, then the         *)
(* environment, which it may go on to change.  A program of load.cpp finds *)
(* WINAPI_SHIM_CMDLINE in it; the command line has been read by then.      *)
(***************************************************************************)
EXTENDS CommandLine, Environment

CONSTANT EnvArgvs   \* bound: the argument vectors with which the environment is used

startupVars == <<vars, envVars>>

StartupInit == Init /\ EnvInit /\ (argv \notin EnvArgvs => environ = <<>>)

\* The environment is used by the program, in either mode.
StartupNext ==
  \/ Next /\ UNCHANGED envVars
  \/ phase = "ready" /\ argv \in EnvArgvs /\ EnvNext /\ UNCHANGED vars

StartupSpec == StartupInit /\ [][StartupNext]_startupVars
=============================================================================
