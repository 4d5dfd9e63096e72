------------------------ MODULE MCSimulatorLifecycle ------------------------
(* Two processes, two simulators, one instance of Simulator.app.           *)
EXTENDS SimulatorLifecycle, TLC
=============================================================================
