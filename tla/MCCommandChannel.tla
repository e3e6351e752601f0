-------------------------- MODULE MCCommandChannel --------------------------
(* Instances of CommandChannel for TLC. *)
EXTENDS CommandChannel, TLC

CONSTANTS h1, h2, t1, t2

(* One host process with two threads, or two processes with a thread each. *)
TwoThreads == (t1 :> h1) @@ (t2 :> h1)
TwoHosts == (t1 :> h1) @@ (t2 :> h2)

TxOps == {"start tx", "stop tx"}
RxAndStartTx == {"start rx", "stop rx", "start tx"}
=============================================================================
