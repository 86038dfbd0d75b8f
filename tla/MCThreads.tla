----------------------------- MODULE MCThreads -----------------------------
(***************************************************************************)
(* The instance for TLC of the multi-threaded test code.  Its parts are    *)
(* different processes: one of them is chosen and runs.                    *)
(***************************************************************************)
EXTENDS TestHarness, MpmcTest, EchoServer

VARIABLE part

allVars == <<part, vars, mpmcVars, serverVars>>

ThreadsInit ==
  /\ part \in {"harness", "mpmc", "server"}
  /\ Init /\ MpmcInit /\ ServerInit

InHarness(A) == part = "harness" /\ A /\ UNCHANGED <<part, mpmcVars, serverVars>>
InMpmc(A) == part = "mpmc" /\ A /\ UNCHANGED <<part, vars, serverVars>>
InServer(A) == part = "server" /\ A /\ UNCHANGED <<part, vars, mpmcVars>>

ThreadsNext == InHarness(Next) \/ InMpmc(MpmcNext) \/ InServer(ServerNext)

\* The fairness of Spec, MpmcSpec and ServerSpec.
ThreadsSpec ==
  /\ ThreadsInit /\ [][ThreadsNext]_allVars
  /\ WF_allVars(InHarness(CheckReports \/ CheckTimesOut))
  /\ \A p \in P : WF_allVars(InMpmc(ProducerStep(p)))
  /\ \A c \in Q : WF_allVars(InMpmc(ConsumerStep(c)))
  /\ WF_allVars(InMpmc(MainStep))
  /\ WF_allVars(InServer(ServerThread)) /\ WF_allVars(InServer(ServerMain))
=============================================================================
