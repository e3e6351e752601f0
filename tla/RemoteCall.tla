----------------------------- MODULE RemoteCall -----------------------------
(***************************************************************************)
(* What the command channel promises its callers: a command is executed    *)
(* once, after it was called and before it returns, the board's streams    *)
(* change in no other way but that one may end by itself, and a call that  *)
(* was made returns.                                                       *)
(***************************************************************************)
CONSTANTS Callers, None

VARIABLES
  op,       \* the command each caller waits for, or None
  executed, \* the caller's command has been executed
  streaming \* which directions the board streams

vars == <<op, executed, streaming>>

Dirs == {"rx", "tx"}
StartOf == [rx |-> "start rx", tx |-> "start tx"]
StopOf  == [rx |-> "stop rx", tx |-> "stop tx"]
Names == {"init", "size rx", "size tx", "start rx", "stop rx", "start tx", "stop tx", "query"}

Init ==
  /\ op = [t \in Callers |-> None]
  /\ executed = [t \in Callers |-> FALSE]
  /\ streaming = [d \in Dirs |-> FALSE]

Call(t) ==
  /\ op[t] = None
  /\ \E n \in Names : op' = [op EXCEPT ![t] = n]
  /\ UNCHANGED <<executed, streaming>>

(* The effect of a command: init stops everything. *)
Effect(n, s) ==
  [d \in Dirs |-> (s[d] \/ n = StartOf[d]) /\ n \notin {StopOf[d], "init"}]

Execute(t) ==
  /\ op[t] # None
  /\ ~executed[t]
  /\ executed' = [executed EXCEPT ![t] = TRUE]
  /\ streaming' = Effect(op[t], streaming)
  /\ UNCHANGED op

Return(t) ==
  /\ executed[t]
  /\ op' = [op EXCEPT ![t] = None]
  /\ executed' = [executed EXCEPT ![t] = FALSE]
  /\ UNCHANGED streaming

(* A stream fails on the board. *)
StreamEnds(d) ==
  /\ streaming[d]
  /\ streaming' = [streaming EXCEPT ![d] = FALSE]
  /\ UNCHANGED <<op, executed>>

Next ==
  \/ \E t \in Callers : Call(t) \/ Execute(t) \/ Return(t)
  \/ \E d \in Dirs : StreamEnds(d)

Spec ==
  /\ Init /\ [][Next]_vars
  /\ \A t \in Callers : WF_vars(Execute(t)) /\ WF_vars(Return(t))
=============================================================================
