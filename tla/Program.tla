------------------------------ MODULE Program ------------------------------
(***************************************************************************)
(* The program from its command line to its end: main() reads the options  *)
(* and calls run().  All that run() takes from the command line is whether *)
(* there is a configuration file, and the menu file (Entries).             *)
(***************************************************************************)
EXTENDS Options, Startup

programVars == << optionVars, startupVars >>

(* main() calls run().  What has been read from the command line is not    *)
(* looked at again, apart from log_importance by the log; it is forgotten  *)
(* here, so that the states of run() are told apart by what run() does.    *)
run ==
  /\ status = "run"
  /\ Begin(config_file # Null)
  /\ status' = "running"
  /\ line' = << >> /\ posix' = FALSE /\ argv' = << >>
  /\ config_file' = Null /\ menu_file' = Null
  /\ show_version' = FALSE /\ verbose' = 0
  /\ offset' = 0 /\ log_importance' = 1

Init == OptionsInit /\ StartupInit

Next ==
  \/ parse_one /\ UNCHANGED startupVars
  \/ main /\ UNCHANGED startupVars
  \/ run
  \/ StartupNext /\ UNCHANGED optionVars

Spec == Init /\ [][Next]_programVars

(* The loop of opt_parse goes on as long as parse_one returns 1.           *)
FairSpec == Spec /\ WF_programVars(parse_one /\ UNCHANGED startupVars)
=============================================================================
