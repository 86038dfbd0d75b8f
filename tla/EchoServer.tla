----------------------------- MODULE EchoServer -----------------------------
(***************************************************************************)
(* EchoServer, 07-networking/exercises/ex1-epoll-server/server.hpp, run by *)
(* a thread of main() in test_server.cpp: construction, run(), stop(),     *)
(* join and destruction.  run_once and what it dispatches to are           *)
(* placeholders that do nothing; the tests in between only talk to the     *)
(* server through sockets.                                                 *)
(***************************************************************************)
EXTENDS Integers

VARIABLES
  server,    \* the object: "none", "alive", "destroyed"
  stop_flag, \* stop_flag_
  thread,    \* srv_thread: "none", "starting", "testing", "serving", "ended"
  mainAt,    \* where main() is
  touched    \* history: run() has used a destroyed object

serverVars == <<server, stop_flag, thread, mainAt, touched>>

ServerInit ==
  /\ server = "none" /\ stop_flag = FALSE
  /\ thread = "none"
  /\ mainAt = "begin"
  /\ touched = FALSE

Touch == touched' = (touched \/ server # "alive")

(* EchoServer server(PORT), and the thread that calls server.run().        *)
StartServer ==
  /\ mainAt = "begin"
  /\ server' = "alive" /\ stop_flag' = FALSE
  /\ thread' = "starting"
  /\ mainAt' = "tests"
  /\ UNCHANGED touched

\* Mutant of EntryFlag: run() clears the flag when it begins.
EntryFlagReset == FALSE

(* The flag as run() leaves it at its entry: it does not touch it.         *)
EntryFlag == stop_flag

(* The thread reaches run(), at any time after its creation.               *)
EnterRun ==
  /\ thread = "starting"
  /\ thread' = "testing"
  /\ stop_flag' = EntryFlag
  /\ Touch
  /\ UNCHANGED <<server, mainAt>>

(* The condition of the loop in run().                                     *)
TestFlag ==
  /\ thread = "testing"
  /\ thread' = IF stop_flag THEN "ended" ELSE "serving"
  /\ Touch
  /\ UNCHANGED <<server, stop_flag, mainAt>>

run_once ==
  /\ thread = "serving"
  /\ thread' = "testing"
  /\ Touch
  /\ UNCHANGED <<server, stop_flag, mainAt>>

(* The tests are over, whatever their outcome: a failed one returns.       *)
stop ==
  /\ mainAt = "tests"
  /\ stop_flag' = TRUE
  /\ mainAt' = "join"
  /\ UNCHANGED <<server, thread, touched>>

\* Mutant of Joined: main does not wait for the thread.
JoinedNot == TRUE

Joined == thread = "ended"

JoinServer ==
  /\ mainAt = "join"
  /\ Joined
  /\ mainAt' = "stats"
  /\ UNCHANGED <<server, stop_flag, thread, touched>>

(* test_server_stats, then the end of main() destroys the object.          *)
DestroyServer ==
  /\ mainAt = "stats"
  /\ server' = "destroyed"
  /\ mainAt' = "end"
  /\ UNCHANGED <<stop_flag, thread, touched>>

ServerThread == EnterRun \/ TestFlag \/ run_once

ServerMain == StartServer \/ stop \/ JoinServer \/ DestroyServer

ServerNext == ServerThread \/ ServerMain

(* Both threads are scheduled again and again; the tests end.              *)
ServerSpec ==
  /\ ServerInit /\ [][ServerNext]_serverVars
  /\ WF_serverVars(ServerThread) /\ WF_serverVars(ServerMain)

-----------------------------------------------------------------------------
(***************************************************************************)
(* The server object outlives every use that its thread makes of it.       *)
(***************************************************************************)
NoUseAfterDestroy == ~touched

(***************************************************************************)
(* "Blocks until stop() is called." (server.hpp:22), and no longer: a      *)
(* stop() that comes before the thread has entered run(), or between its   *)
(* test and run_once, is not lost, and main() ends.                        *)
(***************************************************************************)
ServerStops == server = "alive" ~> (server = "destroyed" /\ thread = "ended")
=============================================================================
