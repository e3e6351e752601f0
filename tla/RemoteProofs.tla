---------------------------- MODULE RemoteProofs ----------------------------
(***************************************************************************)
(* Proof that CommandChannel implements RemoteCall, for any number of      *)
(* threads of one host that send their commands one after the other, over  *)
(* a network that keeps its datagrams: initial states are initial, and     *)
(* each step is a call, an execution, a return, the end of a stream that   *)
(* fails, or none of them.                                                 *)
(***************************************************************************)
EXTENDS ChannelProofs

Reliable ==
  /\ \A c, e \in Clients : c = e
  /\ Serial
  /\ ~Losses /\ ~Crashes /\ ~Restarts

-----------------------------------------------------------------------------
(* The invariant *)

ServerTypes ==
  /\ streamq \in Seq(Frame) /\ serverAt \in {"recv", "dummy"}
  /\ streaming \in [Dirs -> BOOLEAN]

(* What is queued is what a caller waits for. *)
Matched == \A i \in 1..Len(cmdq) : \E t \in Callers : call[t] = cmdq[i]

(* The server has executed an init. *)
Met == serverAt = "dummy" \/ clientInitiated

(* A host that is past its init has met the server, and before it there is
   nothing in the stream socket. *)
InitFirst ==
  /\ \A c \in Clients : stage[c] \in {"new", "init"} => streamq = <<>> /\ ~clientInitiated
  /\ \A c \in Clients : (replyq[c] # <<>> \/ stage[c] \notin {"new", "init"}) => Met
  /\ Met => clntCMDAddr # None

(* While the server waits for the dummy nothing streams, and the dummy is
   the first thing it finds. *)
DummyFirst ==
  /\ serverAt = "dummy" => \A d \in Dirs : ~streaming[d]
  /\ \A i \in 1..Len(streamq) : streamq[i].kind = "dummy" => serverAt = "dummy" /\ i = 1

RemoteInv == ServerTypes /\ Matched /\ InitFirst /\ DummyFirst

-----------------------------------------------------------------------------
(* The initial state has nothing queued. *)
LEMMA RemoteInit == ASSUME Init PROVE RemoteInv
<1>1. ServerTypes /\ Matched /\ DummyFirst
  BY DEF Init, ServerTypes, Matched, DummyFirst, Dirs
<1>2. InitFirst
  BY DEF Init, InitFirst, Met
<1> QED BY <1>1, <1>2 DEF RemoteInv

(* What a queue holds. *)
LEMMA Elements ==
  ASSUME NEW S, NEW q \in Seq(S)
  PROVE  Len(q) \in Nat /\ (\A i \in 1..Len(q) : q[i] \in S) /\ (Len(q) = 0 => q = <<>>)
OBVIOUS

(* The empty queue has no elements. *)
LEMMA NoElements == ASSUME NEW S, NEW q \in Seq(S), q = <<>> PROVE \A i \in DOMAIN q : FALSE
OBVIOUS

(* A range that nothing is in. *)
LEMMA Hollow == ASSUME NEW n \in Nat, \A i \in 1..n : FALSE PROVE n = 0
<1>1. ASSUME n # 0 PROVE FALSE
  <2>1. 1 \in 1..n
    BY <1>1
  <2> QED BY <2>1
<1> QED BY <1>1

(* What an appended queue holds. *)
LEMMA Appended ==
  ASSUME NEW S, NEW q \in Seq(S), NEW m \in S
  PROVE  /\ Append(q, m) \in Seq(S) /\ Append(q, m) # <<>>
         /\ Len(Append(q, m)) = Len(q) + 1 /\ Len(q) \in Nat
         /\ \A i \in 1..Len(q) + 1 : Append(q, m)[i] = IF i = Len(q) + 1 THEN m ELSE q[i]
OBVIOUS

(* No two callers wait, and the queue is empty when a reply is there. *)
LEMMA OneWaits ==
  ASSUME Reliable, ChannelInv, RemoteInv
  PROVE  /\ \A t, u \in Callers : call[t] # None /\ call[u] # None => t = u
         /\ \A c \in Clients : cmdq # <<>> => replyq[c] = <<>> /\ Alive(c)
<1>1. \A t, u \in Callers : Owner[t] = Owner[u]
  BY ChannelAssumption DEF Reliable
<1>2. \A t, u \in Callers : call[t] # None /\ call[u] # None => t = u
  BY <1>1 DEF ChannelInv, OneCall
<1>3. ASSUME NEW c \in Clients, cmdq # <<>> PROVE replyq[c] = <<>> /\ Alive(c)
  <2>1. cmdq \in Seq(Command) /\ 1 \in 1..Len(cmdq) /\ cmdq[1] \in Command
    BY <1>3 DEF ChannelInv, Types
  <2>2. PICK t \in Callers : call[t] = cmdq[1]
    BY <2>1 DEF RemoteInv, Matched
  <2>3. call[t] # None /\ cmdq[1].from \in Clients /\ Owner[t] \in Clients
    BY <2>1, <2>2, NoneAssumption, ChannelAssumption, CommandFields
  <2>4. Alive(Owner[t])
    BY <2>3 DEF ChannelInv, CallsAreAlive
  <2>5. Owner[t] = c /\ cmdq[1].from = c
    BY <2>3 DEF Reliable
  <2>6. InQueue(1)
    BY <2>1 DEF ChannelInv, Queued
  <2> QED BY <2>4, <2>5, <2>6 DEF InQueue
<1> QED BY <1>2, <1>3

(* A command that is queued is that of its caller. *)
LEMMA MatchedSent ==
  ASSUME ChannelInv, Matched, NEW t \in Callers, NEW cmd \in Command, call[t] = None,
         call' = [call EXCEPT ![t] = cmd], cmdq' = cmdq \/ cmdq' = Append(cmdq, cmd)
  PROVE  Matched'
<1>1. cmdq \in Seq(Command) /\ call \in [Callers -> Command \cup {None}]
  BY DEF ChannelInv, Types
<1>2. call'[t] = cmd
  BY <1>1
<1>3. ASSUME NEW i \in 1..Len(cmdq) PROVE \E u \in Callers : call'[u] = cmdq[i]
  <2>1. PICK u \in Callers : call[u] = cmdq[i]
    BY DEF Matched
  <2>2. cmdq[i] # None
    <3>1. cmdq[i] \in Command
      BY <1>1, Elements
    <3> QED BY <3>1, NoneAssumption
  <2>3. u # t
    BY <2>1, <2>2
  <2>4. call'[u] = call[u]
    BY <1>1, <2>3
  <2> QED BY <2>1, <2>4
<1>4. CASE cmdq' = cmdq
  BY <1>3, <1>4 DEF Matched
<1>5. CASE cmdq' = Append(cmdq, cmd)
  <2>1. /\ Len(cmdq') = Len(cmdq) + 1 /\ Len(cmdq) \in Nat
        /\ \A i \in 1..Len(cmdq) + 1 : cmdq'[i] = IF i = Len(cmdq) + 1 THEN cmd ELSE cmdq[i]
    BY <1>1, <1>5, Appended
  <2>2. ASSUME NEW i \in 1..Len(cmdq) + 1 PROVE \E u \in Callers : call'[u] = cmdq'[i]
    <3>1. CASE i = Len(cmdq) + 1
      BY <1>2, <2>1, <3>1
    <3>2. CASE i # Len(cmdq) + 1
      <4>1. i \in 1..Len(cmdq) /\ cmdq'[i] = cmdq[i]
        BY <2>1, <3>2
      <4> QED BY <1>3, <4>1
    <3> QED BY <3>1, <3>2
  <2> QED BY <2>1, <2>2 DEF Matched
<1> QED BY <1>4, <1>5

(* A command is sent: it is queued, and its caller waits for it. *)
LEMMA SentInv ==
  ASSUME Reliable, ChannelInv, RemoteInv, NEW t \in Callers,
         NEW op \in AllOps \cup {"init", "size rx", "size tx"}, Send(t, op),
         UNCHANGED <<streamq, replyq, serverVars>>,
         \A c \in Clients : stage'[c] = stage[c] \/ (stage[c] = "new" /\ stage'[c] = "init")
  PROVE  RemoteInv'
<1>1. PICK cmd \in Command :
        /\ call[t] = None /\ call' = [call EXCEPT ![t] = cmd]
        /\ cmdq' = cmdq \/ cmdq' = Append(cmdq, cmd)
  BY SendFacts, ZenonT(40)
<1>3. UNCHANGED <<serverAt, clntCMDAddr, clientInitiated, streaming, streamq, replyq>>
  BY DEF serverVars
<1>4. Matched'
  BY <1>1, MatchedSent DEF RemoteInv
<1>5. InitFirst'
  BY <1>3 DEF RemoteInv, InitFirst, Met
<1>6. ServerTypes' /\ DummyFirst'
  BY <1>3 DEF RemoteInv, ServerTypes, DummyFirst
<1> QED BY <1>4, <1>5, <1>6 DEF RemoteInv

(* A reply is taken: nothing else is under way, and an ack comes before
   anything was in the stream socket. *)
LEMMA TakenInv ==
  ASSUME Reliable, ChannelInv, RemoteInv, NEW t \in Callers, ReceiveReply(t)
  PROVE  RemoteInv'
<1> DEFINE c == Owner[t]
           cmd == call[t]
           r == Head(replyq[c])
           ok == r.text = (IF cmd.op = "init" THEN "ack" ELSE "done")
           dummy == [from |-> c, kind |-> "dummy"]
<1>1. /\ cmd # None /\ replyq[c] # <<>> /\ replyq' = [replyq EXCEPT ![c] = Tail(@)]
      /\ UNCHANGED <<cmdq, serverAt, clntCMDAddr, clientInitiated, streaming>>
  BY DEF ReceiveReply, serverVars
<1>2. c \in Clients /\ \A e \in Clients : e = c
  BY ChannelAssumption DEF Reliable
<1>3. cmdq = <<>>
  BY <1>1, <1>2, OneWaits
<1>4. /\ Alive(c) /\ stage \in [Clients -> Stages]
      /\ stage[c] \in {"init", "size rx", "size tx"} => cmd.op = stage[c]
      /\ stage[c] = "ready" => cmd.op \in Ops
  BY <1>1 DEF ChannelInv, CallsAreAlive, Handshake, Types
<1>5. Met
  BY <1>1, <1>2 DEF RemoteInv, InitFirst
<1>6. Matched'
  BY <1>1, <1>3 DEF Matched
<1>7. stage[c] \in {"init", "size rx", "size tx", "ready"}
  BY <1>2, <1>4 DEF Alive, Stages
<1>8. stage'[c] \notin {"new", "init"}
  <2>1. stage' = [stage EXCEPT ![c] =
         IF stage[c] = "ready" THEN "ready"
         ELSE IF ~ok THEN "failed"
         ELSE CASE cmd.op = "init"    -> "size rx"
                [] cmd.op = "size rx" -> "size tx"
                [] cmd.op = "size tx" -> "ready"]
    BY DEF ReceiveReply
  <2>2. CASE stage[c] = "ready" \/ ~ok
    BY <1>2, <1>4, <2>1, <2>2
  <2>3. CASE stage[c] # "ready" /\ ok
    <3>1. cmd.op \in {"init", "size rx", "size tx"}
      BY <1>4, <1>7, <2>3
    <3> HIDE DEF cmd, ok
    <3> QED BY <1>2, <1>4, <2>1, <2>3, <3>1
  <2> QED BY <2>2, <2>3
<1>9. InitFirst'
  BY <1>1, <1>2, <1>5, <1>8 DEF RemoteInv, InitFirst, Met
<1>10. CASE cmd.op = "init" /\ ok
  <2>1. streamq' = Append(streamq, dummy)
    BY <1>10 DEF ReceiveReply, Delivered, Reliable
  <2>2. stage[c] = "init"
    BY <1>4, <1>7, <1>10, ChannelAssumption DEF AllOps
  <2>3. streamq = <<>> /\ ~clientInitiated
    BY <1>2, <2>2 DEF RemoteInv, InitFirst
  <2>4. serverAt = "dummy"
    BY <1>5, <2>3 DEF Met
  <2>5. streamq \in Seq(Frame) /\ dummy \in Frame
    BY <1>2 DEF RemoteInv, ServerTypes, Frame
  <2> HIDE DEF dummy
  <2>6. streamq' \in Seq(Frame) /\ Len(streamq') = 1
    BY <2>1, <2>3, <2>5, Appended
  <2>7. ServerTypes'
    BY <1>1, <2>6 DEF RemoteInv, ServerTypes
  <2>8. DummyFirst'
    BY <1>1, <2>4, <2>6 DEF RemoteInv, DummyFirst
  <2> QED BY <1>6, <1>9, <2>7, <2>8 DEF RemoteInv
<1>11. CASE ~(cmd.op = "init" /\ ok)
  <2>1. streamq' = streamq
    BY <1>11 DEF ReceiveReply
  <2>2. ServerTypes' /\ DummyFirst'
    BY <1>1, <2>1 DEF RemoteInv, ServerTypes, DummyFirst
  <2> QED BY <1>6, <1>9, <2>2 DEF RemoteInv
<1> QED BY <1>10, <1>11

(* The head of the command socket is taken. *)
LEMMA TailMatched ==
  ASSUME ChannelInv, Matched, cmdq # <<>>, cmdq' = Tail(cmdq), call' = call
  PROVE  Matched'
<1>1. cmdq \in Seq(Command)
  BY DEF ChannelInv, Types
<1>2. \A i \in 1..Len(Tail(cmdq)) : i + 1 \in 1..Len(cmdq) /\ Tail(cmdq)[i] = cmdq[i + 1]
  BY <1>1, RestOf
<1> QED BY <1>2 DEF Matched

(* The head of the stream socket is taken: no dummy is behind it. *)
LEMMA TailNoDummy ==
  ASSUME RemoteInv, streamq # <<>>
  PROVE  /\ Tail(streamq) \in Seq(Frame)
         /\ \A i \in 1..Len(Tail(streamq)) : Tail(streamq)[i].kind # "dummy"
         /\ serverAt # "dummy" => Head(streamq).kind # "dummy"
<1>1. streamq \in Seq(Frame)
  BY DEF RemoteInv, ServerTypes
<1>2. /\ Tail(streamq) \in Seq(Frame) /\ Head(streamq) = streamq[1] /\ 1 \in 1..Len(streamq)
      /\ \A i \in 1..Len(Tail(streamq)) : i + 1 \in 1..Len(streamq) /\ Tail(streamq)[i] = streamq[i + 1]
  <2>1. Len(streamq) \in Nat \ {0}
    BY <1>1, RestOf
  <2>2. 1 \in 1..Len(streamq)
    BY <2>1
  <2> QED BY <1>1, <2>2, RestOf
<1>3. ASSUME NEW i \in 1..Len(Tail(streamq)) PROVE Tail(streamq)[i].kind # "dummy"
  <2>1. i + 1 # 1
    OBVIOUS
  <2> QED BY <1>2, <2>1 DEF RemoteInv, DummyFirst
<1>4. serverAt # "dummy" => Head(streamq).kind # "dummy"
  BY <1>2 DEF RemoteInv, DummyFirst
<1> QED BY <1>2, <1>3, <1>4

(* The board's steps. *)
LEMMA BoardInv ==
  ASSUME Reliable, ChannelInv, RemoteInv, Server \/ TakeFrame
  PROVE  RemoteInv'
<1>1. CASE ServeInit
  <2>1. /\ cmdq # <<>> /\ cmdq' = Tail(cmdq) /\ streaming' = [d \in Dirs |-> FALSE]
        /\ clntCMDAddr' = Head(cmdq).from /\ serverAt = "recv" /\ serverAt' = "dummy"
        /\ UNCHANGED <<stage, call, streamq, clientInitiated>>
    BY <1>1 DEF ServeInit, clientVars
  <2>2. clntCMDAddr' # None
    <3>1. Head(cmdq) \in Command
      BY <2>1, RestOf DEF ChannelInv, Types
    <3> QED BY <2>1, <3>1, CommandFields, NoneAssumption
  <2>3. Matched'
    BY <2>1, TailMatched DEF RemoteInv
  <2>4. InitFirst'
    BY <2>1, <2>2 DEF RemoteInv, InitFirst, Met
  <2>5. ServerTypes' /\ DummyFirst'
    BY <2>1 DEF RemoteInv, ServerTypes, DummyFirst, Dirs
  <2> QED BY <2>3, <2>4, <2>5 DEF RemoteInv
<1>2. CASE ServeCommand
  <2>1. /\ cmdq # <<>> /\ cmdq' = Tail(cmdq) /\ serverAt = "recv" /\ clientInitiated
        /\ streaming' \in [Dirs -> BOOLEAN]
        /\ UNCHANGED <<stage, call, streamq, serverAt, clntCMDAddr, clientInitiated>>
    BY <1>2 DEF ServeCommand, Execute, clientVars, RemoteInv, ServerTypes
  <2>2. Matched'
    BY <2>1, TailMatched DEF RemoteInv
  <2>3. InitFirst'
    BY <2>1 DEF RemoteInv, InitFirst, Met
  <2>4. ServerTypes' /\ DummyFirst'
    BY <2>1 DEF RemoteInv, ServerTypes, DummyFirst
  <2> QED BY <2>2, <2>3, <2>4 DEF RemoteInv
<1>3. CASE ServeIgnored
  <2>1. /\ cmdq # <<>> /\ cmdq' = Tail(cmdq)
        /\ UNCHANGED <<stage, call, streamq, replyq, serverAt, clntCMDAddr, clientInitiated, streaming>>
    BY <1>3 DEF ServeIgnored, clientVars, serverVars
  <2>2. Matched'
    BY <2>1, TailMatched DEF RemoteInv
  <2> QED BY <2>1, <2>2 DEF RemoteInv, InitFirst, Met, ServerTypes, DummyFirst
<1>4. CASE ServeDummy
  <2>1. /\ serverAt = "dummy" /\ streamq # <<>> /\ streamq' = Tail(streamq)
        /\ clientInitiated' = TRUE /\ serverAt' = "recv"
        /\ UNCHANGED <<stage, call, cmdq, replyq, clntCMDAddr, streaming>>
    BY <1>4 DEF ServeDummy, clientVars
  <2>2. InitFirst'
    BY <2>1 DEF RemoteInv, InitFirst, Met
  <2>3. ServerTypes' /\ DummyFirst'
    BY <2>1, TailNoDummy DEF RemoteInv, ServerTypes, DummyFirst
  <2>4. Matched'
    BY <2>1 DEF RemoteInv, Matched
  <2> QED BY <2>2, <2>3, <2>4 DEF RemoteInv
<1>5. CASE TakeFrame
  <2>1. /\ streaming["tx"] /\ streamq # <<>> /\ streamq' = Tail(streamq)
        /\ streaming' = streaming \/ Head(streamq).kind = "dummy"
        /\ UNCHANGED <<stage, call, cmdq, replyq, serverAt, clntCMDAddr, clientInitiated>>
    BY <1>5 DEF TakeFrame, clientVars
  <2>2. serverAt # "dummy"
    BY <2>1 DEF RemoteInv, DummyFirst, Dirs
  <2>3. streaming' = streaming
    BY <2>1, <2>2, TailNoDummy
  <2>4. InitFirst'
    BY <2>1 DEF RemoteInv, InitFirst, Met
  <2>5. ServerTypes' /\ DummyFirst'
    BY <2>1, <2>3, TailNoDummy DEF RemoteInv, ServerTypes, DummyFirst
  <2>6. Matched'
    BY <2>1 DEF RemoteInv, Matched
  <2> QED BY <2>4, <2>5, <2>6 DEF RemoteInv
<1> QED BY <1>1, <1>2, <1>3, <1>4, <1>5 DEF Server

(* A frame is sent by a host that is ready, and so has met the server. *)
LEMMA FrameInv ==
  ASSUME Reliable, ChannelInv, RemoteInv, NEW c \in Clients, SendFrame(c)
  PROVE  RemoteInv'
<1> DEFINE f == [from |-> c, kind |-> "frame"]
<1>1. /\ stage[c] = "ready" /\ streamq' = Append(streamq, f)
      /\ UNCHANGED <<stage, call, cmdq, replyq, serverAt, clntCMDAddr, clientInitiated, streaming>>
  BY DEF SendFrame, clientVars, serverVars
<1>2. streamq \in Seq(Frame) /\ f \in Frame /\ f.kind # "dummy"
  BY DEF RemoteInv, ServerTypes, Frame
<1> HIDE DEF f
<1>3. /\ streamq' \in Seq(Frame) /\ Len(streamq') = Len(streamq) + 1 /\ Len(streamq) \in Nat
      /\ \A i \in 1..Len(streamq) + 1 : streamq'[i] = IF i = Len(streamq) + 1 THEN f ELSE streamq[i]
  BY <1>1, <1>2, Appended
<1>4. \A e \in Clients : stage[e] = "ready"
  BY <1>1 DEF Reliable
<1>5. InitFirst'
  BY <1>1, <1>4 DEF RemoteInv, InitFirst, Met
<1>6. ServerTypes'
  BY <1>1, <1>3 DEF RemoteInv, ServerTypes
<1>7. DummyFirst'
  <2>1. ASSUME NEW i \in 1..Len(streamq'), streamq'[i].kind = "dummy"
        PROVE  serverAt = "dummy" /\ i = 1
    <3>1. i # Len(streamq) + 1
      BY <1>2, <1>3, <2>1
    <3>2. i \in 1..Len(streamq) /\ streamq'[i] = streamq[i]
      BY <1>3, <3>1
    <3> QED BY <2>1, <3>2 DEF RemoteInv, DummyFirst
  <2> QED BY <1>1, <2>1 DEF RemoteInv, DummyFirst
<1>8. Matched'
  BY <1>1 DEF RemoteInv, Matched
<1> QED BY <1>5, <1>6, <1>7, <1>8 DEF RemoteInv

(* Every step keeps the invariant. *)
LEMMA RemoteInvStep ==
  ASSUME Reliable, ChannelInv, RemoteInv, [Next]_vars
  PROVE  RemoteInv'
<1>1. CASE \E t \in Callers : Connect(t) \/ HostStep(t) \/ \E op \in Ops : SendCommand(t, op)
  <2>1. PICK t \in Callers : Connect(t) \/ HostStep(t) \/ \E op \in Ops : SendCommand(t, op)
    BY <1>1
  <2>2. stage \in [Clients -> Stages] /\ Owner[t] \in Clients /\ Ops \subseteq AllOps
    BY ChannelAssumption DEF ChannelInv, Types
  <2>3. CASE Connect(t)
    <3>1. /\ Send(t, "init") /\ UNCHANGED <<streamq, replyq, serverVars>>
          /\ \A c \in Clients : stage'[c] = stage[c] \/ (stage[c] = "new" /\ stage'[c] = "init")
      BY <2>2, <2>3 DEF Connect
    <3> QED BY <3>1, SentInv
  <2>4. CASE SendSize(t)
    <3>1. /\ Send(t, stage[Owner[t]]) /\ UNCHANGED <<stage, streamq, replyq, serverVars>>
          /\ stage[Owner[t]] \in AllOps \cup {"init", "size rx", "size tx"}
      BY <2>4 DEF SendSize
    <3> QED BY <3>1, SentInv
  <2>5. CASE ReceiveReply(t)
    BY <2>5, TakenInv
  <2>6. ASSUME NEW op \in Ops, SendCommand(t, op) PROVE RemoteInv'
    <3>1. /\ Send(t, op) /\ UNCHANGED <<stage, streamq, replyq, serverVars>>
          /\ op \in AllOps \cup {"init", "size rx", "size tx"}
      BY <2>2, <2>6 DEF SendCommand
    <3> QED BY <3>1, SentInv
  <2> QED BY <2>1, <2>3, <2>4, <2>5, <2>6 DEF HostStep
<1>2. CASE \E c \in Clients : SendFrame(c)
  BY <1>2, FrameInv
<1>3. CASE Server \/ TakeFrame
  BY <1>3, BoardInv
<1>4. CASE UNCHANGED vars
  BY <1>4 DEF vars, clientVars, netVars, serverVars, RemoteInv, ServerTypes, Matched, InitFirst,
       Met, DummyFirst
<1>5. ~(\E c \in Clients : Crash(c)) /\ ~Restart
  BY DEF Reliable, Crash, Restart
<1>6. ASSUME NEW d \in Dirs, StreamFails(d) PROVE RemoteInv'
  <2>1. /\ streaming' = [streaming EXCEPT ![d] = FALSE]
        /\ UNCHANGED <<stage, call, cmdq, streamq, replyq, serverAt, clntCMDAddr, clientInitiated>>
    BY <1>6 DEF StreamFails, clientVars, netVars
  <2>2. Matched' /\ InitFirst'
    BY <2>1 DEF RemoteInv, Matched, InitFirst, Met
  <2>3. ServerTypes' /\ DummyFirst'
    BY <2>1 DEF RemoteInv, ServerTypes, DummyFirst, Dirs
  <2> QED BY <2>2, <2>3 DEF RemoteInv
<1> QED BY <1>1, <1>2, <1>3, <1>4, <1>5, <1>6 DEF Next

-----------------------------------------------------------------------------
(* The refinement *)

opOf == [t \in Callers |-> IF call[t] = None THEN None ELSE call[t].op]
done == [t \in Callers |-> Replied(t)]

(* A command's name is none that stands for no command. *)
LEMMA NamesAreNames ==
  ASSUME NEW cmd \in Command
  PROVE  cmd.op \in Remote!Names /\ cmd.op # None /\ cmd # None
BY NoneAssumption DEF Command, AllOps, Remote!Names

(* No commands are under way at first. *)
LEMMA RefinedInit == ASSUME Init PROVE Remote!Init
BY DEF Init, Remote!Init, Replied, Dirs, Remote!Dirs

(* A command sent is a call. *)
LEMMA RefinedSend ==
  ASSUME Reliable, ChannelInv, NEW t \in Callers,
         NEW name \in AllOps \cup {"init", "size rx", "size tx"}, Send(t, name),
         Alive(Owner[t]) \/ stage[Owner[t]] = "new",
         \A u \in Callers : call[u] = None, replyq' = replyq, streaming' = streaming
  PROVE  Remote!Call(t)
<1>1. PICK cmd \in Command : call' = [call EXCEPT ![t] = cmd]
  BY SendFacts
<1>2. call \in [Callers -> Command \cup {None}] /\ Owner[t] \in Clients
  BY ChannelAssumption DEF ChannelInv, Types
<1>3. cmd.op \in Remote!Names /\ cmd # None
  BY NamesAreNames
<1>4. opOf' = [opOf EXCEPT ![t] = cmd.op]
  BY <1>1, <1>2, <1>3 DEF opOf
<1>5. \A u \in Callers : replyq[Owner[u]] = <<>>
  <2>1. \A u \in Callers : Owner[u] = Owner[t]
    BY ChannelAssumption DEF Reliable
  <2>2. replyq \in [Clients -> Seq(Reply)]
    BY DEF ChannelInv, Types
  <2>3. CASE stage[Owner[t]] = "new"
    BY <1>2, <2>1, <2>3 DEF ChannelInv, Replies
  <2>4. CASE Alive(Owner[t])
    <3>1. \A id : ~WaitsFor(Owner[t], id)
      BY DEF WaitsFor
    <3>2. \A i \in 1..Len(replyq[Owner[t]]) : WaitsFor(Owner[t], replyq[Owner[t]][i].id)
      BY <1>2, <2>4 DEF ChannelInv, Replies
    <3>3. replyq[Owner[t]] \in Seq(Reply)
      BY <1>2, <2>2
    <3> DEFINE q == replyq[Owner[t]]
    <3>4. q \in Seq(Reply) /\ Len(q) \in Nat /\ \A i \in 1..Len(q) : FALSE
      BY <3>1, <3>2, <3>3, Elements
    <3> HIDE DEF q
    <3>5. Len(q) = 0
      BY <3>4, Hollow
    <3>6. q = <<>>
      BY <3>4, <3>5, Elements
    <3> QED BY <2>1, <3>6 DEF q
  <2> QED BY <2>3, <2>4
<1>6. done' = done
  <2>1. \A u \in Callers : replyq'[Owner[u]] = <<>>
    BY <1>5
  <2>2. \A u \in Callers : Replied(u) = FALSE
    BY <1>5 DEF Replied
  <2>3. ASSUME NEW u \in Callers PROVE Replied(u)' = FALSE
    <3>1. Owner[u] \in Clients /\ replyq' \in [Clients -> Seq(Reply)] /\ replyq'[Owner[u]] = <<>>
      BY <2>1, ChannelAssumption DEF ChannelInv, Types
    <3>2. \A i \in DOMAIN replyq'[Owner[u]] : FALSE
      <4>1. replyq'[Owner[u]] \in Seq(Reply)
        BY <3>1
      <4> QED BY <3>1, <4>1, NoElements
    <3>3. ~\E i \in DOMAIN replyq'[Owner[u]] : replyq'[Owner[u]][i].id = call'[u].id
      BY <3>2
    <3> QED BY <3>3 DEF Replied
  <2>4. done = [u \in Callers |-> FALSE]
    BY <2>2 DEF done
  <2>5. done' = [u \in Callers |-> FALSE]
    BY <2>3 DEF done
  <2> QED BY <2>4, <2>5
<1>7. opOf[t] = None
  BY DEF opOf
<1> QED BY <1>3, <1>4, <1>6, <1>7 DEF Remote!Call, opOf, done

(* A reply taken is the return of the call it answers. *)
LEMMA RefinedReturn ==
  ASSUME Reliable, ChannelInv, RemoteInv, NEW t \in Callers, ReceiveReply(t)
  PROVE  Remote!Return(t)
<1> DEFINE c == Owner[t]
<1>1. /\ call[t] # None /\ replyq[c] # <<>> /\ call' = [call EXCEPT ![t] = None]
      /\ streaming' = streaming
  BY DEF ReceiveReply, serverVars
<1>2. c \in Clients /\ replyq[c] \in Seq(Reply) /\ call \in [Callers -> Command \cup {None}]
  BY ChannelAssumption DEF ChannelInv, Types
<1>3. \A u \in Callers : u # t => call[u] = None
  BY <1>1, OneWaits
<1>4. Replied(t)
  <2>1. 1 \in 1..Len(replyq[c]) /\ 1 \in DOMAIN replyq[c]
    BY <1>1, <1>2
  <2>2. Alive(c)
    BY <1>1 DEF ChannelInv, CallsAreAlive
  <2>3. WaitsFor(c, replyq[c][1].id)
    BY <1>2, <2>1, <2>2 DEF ChannelInv, Replies
  <2>4. call[t].id = replyq[c][1].id
    BY <1>3, <2>3 DEF WaitsFor
  <2> QED BY <1>1, <2>1, <2>4 DEF Replied
<1>5. opOf' = [opOf EXCEPT ![t] = None]
  BY <1>1, <1>2 DEF opOf
<1>6. done' = [done EXCEPT ![t] = FALSE]
  <2>1. \A u \in Callers : call'[u] = None
    BY <1>1, <1>2, <1>3
  <2>2. \A u \in Callers : Replied(u)' = FALSE
    BY <2>1 DEF Replied
  <2>3. \A u \in Callers : u # t => Replied(u) = FALSE
    BY <1>3 DEF Replied
  <2>4. done' = [u \in Callers |-> FALSE]
    BY <2>2 DEF done
  <2>5. [done EXCEPT ![t] = FALSE] = [u \in Callers |-> FALSE]
    BY <2>3 DEF done
  <2> QED BY <2>4, <2>5
<1>7. done[t]
  BY <1>4 DEF done
<1> QED BY <1>1, <1>5, <1>6, <1>7 DEF Remote!Return, opOf, done

(* A command served and answered is the execution of its caller's call. *)
LEMMA RefinedServe ==
  ASSUME Reliable, ChannelInv, RemoteInv, cmdq # <<>>, NEW e \in Clients, NEW text,
         ReplyTo(e, Head(cmdq), text), call' = call,
         streaming' = Remote!Effect(Head(cmdq).op, streaming)
  PROVE  \E t \in Callers : Remote!Execute(t)
<1> DEFINE cmd == Head(cmdq)
           r == [id |-> cmd.id, of |-> cmd.from, text |-> text]
<1>1. cmd \in Command /\ cmd = cmdq[1] /\ 1 \in 1..Len(cmdq)
  <2>1. cmdq \in Seq(Command)
    BY DEF ChannelInv, Types
  <2>2. Head(cmdq) = cmdq[1] /\ Len(cmdq) \in Nat \ {0}
    BY <2>1, RestOf
  <2>3. 1 \in 1..Len(cmdq)
    BY <2>2
  <2> QED BY <2>1, <2>2, <2>3
<1>2. PICK t \in Callers : call[t] = cmd
  BY <1>1 DEF RemoteInv, Matched
<1>3. cmd # None /\ cmd.op # None
  BY <1>1, NamesAreNames
<1>4. \A u \in Callers : Owner[u] = e
  BY ChannelAssumption DEF Reliable
<1>5. replyq[e] = <<>> /\ replyq \in [Clients -> Seq(Reply)]
  BY OneWaits DEF ChannelInv, Types
<1>6. replyq' = [replyq EXCEPT ![e] = Append(replyq[e], r)]
  BY DEF ReplyTo, Delivered, Reliable
<1>7. replyq'[e] = <<r>>
  <2> HIDE DEF r
  <2> QED BY <1>5, <1>6
<1>8. \A u \in Callers : u # t => call[u] = None
  BY <1>2, <1>3, OneWaits
<1>9. \A u \in Callers : Replied(u) = FALSE
  BY <1>4, <1>5 DEF Replied
<1>10. Replied(t)'
  <2>1. r.id = cmd.id
    OBVIOUS
  <2> HIDE DEF r, cmd
  <2>2. 1 \in DOMAIN replyq'[e] /\ replyq'[e][1] = r
    BY <1>7
  <2> QED BY <1>2, <1>3, <1>4, <2>1, <2>2 DEF Replied
<1>11. \A u \in Callers : u # t => Replied(u)' = FALSE
  BY <1>8 DEF Replied
<1> HIDE DEF cmd, r
<1>12. done' = [done EXCEPT ![t] = TRUE]
  <2>1. Replied(t)' = TRUE
    BY <1>10 DEF Replied
  <2> QED BY <1>9, <1>11, <2>1 DEF done
<1>13. opOf' = opOf /\ opOf[t] = cmd.op
  BY <1>2, <1>3 DEF opOf
<1>14. done[t] = FALSE
  BY <1>9 DEF done
<1>15. streaming' = Remote!Effect(opOf[t], streaming)
  BY <1>13 DEF cmd
<1> QED BY <1>3, <1>12, <1>13, <1>14, <1>15 DEF Remote!Execute, opOf, done

(* Every step is one of the remote call, or none. *)
LEMMA RefinedStep ==
  ASSUME Reliable, ChannelInv, RemoteInv, [Next]_vars
  PROVE  [Remote!Next]_(Remote!vars)
<1>1. ASSUME NEW t \in Callers, Connect(t) PROVE Remote!Call(t)
  <2>1. /\ stage[Owner[t]] = "new" /\ Send(t, "init") /\ replyq' = replyq /\ streaming' = streaming
    BY <1>1 DEF Connect, serverVars
  <2>2. \A u \in Callers : call[u] = None
    <3>1. \A u \in Callers : Owner[u] = Owner[t]
      BY ChannelAssumption DEF Reliable
    <3> QED BY <2>1, <3>1 DEF ChannelInv, CallsAreAlive, Alive
  <2> QED BY <2>1, <2>2, RefinedSend
<1>2. ASSUME NEW t \in Callers, SendSize(t) PROVE Remote!Call(t)
  <2>1. /\ stage[Owner[t]] \in {"size rx", "size tx"} /\ outcome[t] # None
        /\ Send(t, stage[Owner[t]]) /\ replyq' = replyq /\ streaming' = streaming
    BY <1>2 DEF SendSize, serverVars
  <2>2. call[t] = None
    BY <2>1 DEF Send
  <2>3. \A u \in Callers : call[u] = None
    <3>1. \A u \in Callers : Owner[u] = Owner[t]
      BY ChannelAssumption DEF Reliable
    <3> QED BY <2>1, <2>2, <3>1 DEF ChannelInv, Handshake
  <2>4. Alive(Owner[t])
    BY <2>1 DEF Alive
  <2> QED BY <2>1, <2>3, <2>4, RefinedSend
<1>3. ASSUME NEW t \in Callers, NEW name \in Ops, SendCommand(t, name) PROVE Remote!Call(t)
  <2>1. /\ stage[Owner[t]] = "ready" /\ Send(t, name) /\ replyq' = replyq /\ streaming' = streaming
        /\ LockOf(name) # "none" =>
             ~\E u \in Callers : /\ Owner[u] = Owner[t] /\ call[u] # None
                                 /\ LockOf(call[u].op) = LockOf(name)
    BY <1>3 DEF SendCommand, serverVars
  <2>2. call[t] = None
    BY <2>1 DEF Send
  <2>3. \A u \in Callers : call[u] = None
    <3>1. \A u \in Callers : Owner[u] = Owner[t]
      BY ChannelAssumption DEF Reliable
    <3>2. \A u \in Callers : call[u] # None => call[u].op \in Ops
      BY <2>1, <3>1 DEF ChannelInv, Handshake
    <3> QED BY <2>1, <2>2, <3>1, <3>2 DEF Reliable, Serial
  <2>4. Alive(Owner[t]) /\ name \in AllOps
    BY <2>1, ChannelAssumption DEF Alive
  <2>5. name \in AllOps \cup {"init", "size rx", "size tx"}
    BY <2>4
  <2> QED BY <2>1, <2>3, <2>4, <2>5, RefinedSend
<1>4. ASSUME ServeInit PROVE \E t \in Callers : Remote!Execute(t)
  <2>1. /\ cmdq # <<>> /\ Head(cmdq).op = "init" /\ ReplyTo(Head(cmdq).from, Head(cmdq), "ack")
        /\ streaming' = [d \in Dirs |-> FALSE] /\ call' = call
    BY <1>4 DEF ServeInit, clientVars
  <2>2. Head(cmdq).from \in Clients
    <3>1. Head(cmdq) \in Command
      BY <2>1, RestOf DEF ChannelInv, Types
    <3> QED BY <3>1, CommandFields
  <2>3. streaming' = Remote!Effect(Head(cmdq).op, streaming)
    BY <2>1 DEF Remote!Effect, Remote!Dirs, Dirs
  <2> QED BY <2>1, <2>2, <2>3, RefinedServe
<1>5. ASSUME ServeCommand PROVE \E t \in Callers : Remote!Execute(t)
  <2>1. /\ cmdq # <<>> /\ Head(cmdq).op # "init" /\ ReplyTo(clntCMDAddr, Head(cmdq), "done")
        /\ clientInitiated /\ Execute(Head(cmdq).op) /\ call' = call
    BY <1>5 DEF ServeCommand, clientVars
  <2>2. clntCMDAddr \in Clients
    BY <2>1 DEF RemoteInv, InitFirst, Met, ChannelInv, Types
  <2>3. streaming' = Remote!Effect(Head(cmdq).op, streaming)
    <3> DEFINE name == Head(cmdq).op
    <3>1. streaming' = [d \in Dirs |-> (streaming[d] \/ name = StartOf[d]) /\ name # StopOf[d]]
      BY <2>1 DEF Execute
    <3>2. name # "init"
      BY <2>1
    <3> HIDE DEF name
    <3>3. streaming' = Remote!Effect(name, streaming)
      BY <3>1, <3>2 DEF Remote!Effect, Remote!Dirs, Dirs, StartOf, StopOf, Remote!StartOf, Remote!StopOf
    <3> QED BY <3>3 DEF name
  <2> QED BY <2>1, <2>2, <2>3, RefinedServe
<1>6. ASSUME (\E c \in Clients : SendFrame(c)) \/ ServeDummy \/ ServeIgnored \/ TakeFrame
             \/ UNCHANGED vars
      PROVE  UNCHANGED Remote!vars
  <2>1. call' = call /\ replyq' = replyq
    BY <1>6 DEF SendFrame, ServeDummy, ServeIgnored, TakeFrame, vars, clientVars, netVars, serverVars
  <2>2. streaming' = streaming
    <3>1. CASE TakeFrame
      <4>1. /\ streaming["tx"] /\ streamq # <<>>
            /\ streaming' = streaming \/ Head(streamq).kind = "dummy"
        BY <3>1 DEF TakeFrame
      <4>2. serverAt # "dummy"
        BY <4>1 DEF RemoteInv, DummyFirst, Dirs
      <4> QED BY <4>1, <4>2, TailNoDummy
    <3>2. CASE ~TakeFrame
      BY <1>6, <3>2 DEF SendFrame, ServeDummy, ServeIgnored, vars, serverVars
    <3> QED BY <3>1, <3>2
  <2>3. opOf' = opOf /\ done' = done
    BY <2>1 DEF opOf, done, Replied
  <2> QED BY <2>2, <2>3 DEF Remote!vars, opOf, done
<1>7. ~(\E c \in Clients : Crash(c)) /\ ~Restart
  BY DEF Reliable, Crash, Restart
<1>8. ASSUME \E t \in Callers : Connect(t) \/ HostStep(t) \/ \E name \in Ops : SendCommand(t, name)
      PROVE  Remote!Next
  BY <1>1, <1>2, <1>3, <1>8, RefinedReturn DEF HostStep, Remote!Next
<1>9. ASSUME ServeInit \/ ServeCommand PROVE Remote!Next
  BY <1>4, <1>5, <1>9 DEF Remote!Next
<1>10. ASSUME NEW d \in Dirs, StreamFails(d) PROVE Remote!Next
  <2>1. call' = call /\ replyq' = replyq
    BY <1>10 DEF StreamFails, clientVars, netVars
  <2>2. opOf' = opOf /\ done' = done
    BY <2>1 DEF opOf, done, Replied
  <2>3. Remote!StreamEnds(d) /\ d \in Remote!Dirs
    BY <1>10, <2>2 DEF StreamFails, Remote!StreamEnds, Remote!Dirs, Dirs, opOf, done
  <2> QED BY <2>3 DEF Remote!Next
<1> QED BY <1>6, <1>7, <1>8, <1>9, <1>10 DEF Next, Server

(***************************************************************************)
(* No dummy is left in the stream socket when initClient has returned,     *)
(* whatever frames its host sends: streamTX never takes one for samples.   *)
(***************************************************************************)
THEOREM DummyIsTaken == ASSUME Reliable PROVE Spec => []NoStrayDummy
<1>1. Init => ChannelInv /\ RemoteInv
  BY ChannelInit, RemoteInit
<1>2. ChannelInv /\ RemoteInv /\ [Next]_vars => ChannelInv' /\ RemoteInv'
  BY ChannelStep, RemoteInvStep DEF Reliable, OneHost
<1>3. RemoteInv => NoStrayDummy
  BY DEF RemoteInv, ServerTypes, DummyFirst, NoStrayDummy
<1> QED BY <1>1, <1>2, <1>3, PTL DEF Spec

(***************************************************************************)
(* The text protocol implements RemoteCall, but for the fairness: each     *)
(* command is executed once between its call and its return, and nothing   *)
(* else changes a stream, but that one may end by failing.                 *)
(***************************************************************************)
THEOREM ChannelIsRemoteCall ==
  ASSUME Reliable PROVE Spec => Remote!Init /\ [][Remote!Next]_(Remote!vars)
<1>1. Init => ChannelInv /\ RemoteInv /\ Remote!Init
  BY ChannelInit, RemoteInit, RefinedInit
<1>2. ChannelInv /\ RemoteInv /\ [Next]_vars => ChannelInv' /\ RemoteInv'
  BY ChannelStep, RemoteInvStep DEF Reliable, OneHost
<1>3. ChannelInv /\ RemoteInv /\ [Next]_vars => [Remote!Next]_(Remote!vars)
  BY RefinedStep
<1> QED BY <1>1, <1>2, <1>3, PTL DEF Spec
=============================================================================
