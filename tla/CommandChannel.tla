--------------------------- MODULE CommandChannel ---------------------------
(***************************************************************************)
(* The command protocol between the host driver (UDPClient.cpp, and the    *)
(* locks of AdrvSDR_Settings.cpp and AdrvSDR_Streaming.cpp around it) and  *)
(* the board's UDPServer.cpp, over UDP.  Commands and replies are texts    *)
(* without any number that would pair them: a caller takes the next        *)
(* datagram that reaches its socket for its reply.  The ids below exist    *)
(* only in the model.                                                      *)
(***************************************************************************)
EXTENDS Integers, Sequences

CONSTANTS
  Clients,     \* host processes; each makes one UDPClient
  Callers,     \* their threads
  Owner,       \* Owner[t]: the process thread t belongs to
  Ops,         \* the commands callers may send once the client is ready
  Losses,      \* TRUE: the network may lose a datagram
  Crashes,     \* TRUE: a host process may die at any time
  Restarts,    \* TRUE: the board program may be restarted at any time
  OneAtATime,  \* TRUE: a process starts only when no other one is alive
  MaxCommands, \* bound on the commands sent in a behaviour
  MaxFrames,   \* bound on the datagrams queued in the board's stream socket
  None         \* no command, no client

AllOps == {"start rx", "stop rx", "start tx", "stop tx", "query"}

ASSUME ChannelAssumption ==
  /\ Owner \in [Callers -> Clients]
  /\ Ops \subseteq AllOps
  /\ Losses \in BOOLEAN /\ Crashes \in BOOLEAN /\ Restarts \in BOOLEAN /\ OneAtATime \in BOOLEAN
  /\ MaxCommands \in Nat /\ MaxFrames \in Nat

Dirs == {"rx", "tx"}
Command == [id : Nat, from : Clients, op : AllOps \cup {"init", "size rx", "size tx"}]

ASSUME NoneAssumption ==
  /\ None \notin Clients /\ None \notin Command
  /\ None \notin AllOps \cup {"init", "size rx", "size tx"}

VARIABLES
  stage,           \* how far each client is in initProcedure
  call,            \* the command each caller waits for, or None
  outcome,         \* the last command of each caller with the reply it took
  sending,         \* the client's tx stream is active: it sends frames
  cmdq,            \* the board's command socket
  streamq,         \* the board's stream socket
  replyq,          \* each client's command socket
  serverAt,        \* "recv": in runCommand; "dummy": in initClient
  clntCMDAddr, clntSTRAddr, clientInitiated,
  streaming,       \* the controller streams in the direction
  rxDest,          \* the address the rx streaming thread was started with
  sent             \* commands sent so far

clientVars == <<stage, call, outcome, sending>>
netVars    == <<cmdq, streamq, replyq>>
serverVars == <<serverAt, clntCMDAddr, clntSTRAddr, clientInitiated, streaming, rxDest>>
vars == <<clientVars, netVars, serverVars, sent>>

Reply   == [id : Nat, of : Clients, text : {"ack", "done"}]
Frame   == [from : Clients, kind : {"dummy", "frame"}]

Stages == {"new", "init", "size rx", "size tx", "ready", "failed", "dead"}
Alive(c) == stage[c] \notin {"new", "failed", "dead"}

Init ==
  /\ stage   = [c \in Clients |-> "new"]
  /\ call    = [t \in Callers |-> None]
  /\ outcome = [t \in Callers |-> None]
  /\ sending = [c \in Clients |-> FALSE]
  /\ cmdq = <<>> /\ streamq = <<>>
  /\ replyq  = [c \in Clients |-> <<>>]
  /\ serverAt = "recv"
  /\ clntCMDAddr = None /\ clntSTRAddr = None /\ clientInitiated = FALSE
  /\ streaming = [d \in Dirs |-> FALSE]
  /\ rxDest = None
  /\ sent = 0

-----------------------------------------------------------------------------
(* The network: what a queue may be after m was sent to it. *)
Delivered(q, m) == {Append(q, m)} \cup (IF Losses THEN {q} ELSE {})

-----------------------------------------------------------------------------
(* The host *)

(* sendCommand, first half: the command is sent. *)
Send(t, op) ==
  LET cmd == [id |-> sent + 1, from |-> Owner[t], op |-> op] IN
    /\ sent < MaxCommands
    /\ call[t] = None
    /\ call' = [call EXCEPT ![t] = cmd]
    /\ cmdq' \in Delivered(cmdq, cmd)
    /\ sent' = sent + 1

(* The constructor runs initProcedure in one thread. *)
Connect(t) ==
  LET c == Owner[t] IN
    /\ stage[c] = "new"
    /\ OneAtATime => \A e \in Clients : ~Alive(e)
    /\ Send(t, "init")
    /\ stage' = [stage EXCEPT ![c] = "init"]
    /\ UNCHANGED <<outcome, sending, streamq, replyq, serverVars>>

(* initProcedure goes on to the sizes. *)
SendSize(t) ==
  /\ stage[Owner[t]] \in {"size rx", "size tx"}
  /\ outcome[t] # None
  /\ Send(t, stage[Owner[t]])
  /\ UNCHANGED <<stage, outcome, sending, streamq, replyq, serverVars>>

(* Mutant of LockOf: the setters of one direction take no lock. *)
LockOf_None(op) == "none"

(* The lock a command is sent under: one for each direction around setters,
   activateStream and deactivateStream, none around getters. *)
LockOf(op) ==
  CASE op \in {"start rx", "stop rx"} -> "rx"
    [] op \in {"start tx", "stop tx"} -> "tx"
    [] OTHER -> "none"

SendCommand(t, op) ==
  /\ stage[Owner[t]] = "ready"
  /\ LockOf(op) # "none" =>
       ~\E u \in Callers : /\ Owner[u] = Owner[t]
                           /\ call[u] # None
                           /\ LockOf(call[u].op) = LockOf(op)
  /\ Send(t, op)
  /\ UNCHANGED <<stage, outcome, sending, streamq, replyq, serverVars>>

(* sendCommand, second half, and what its callers do with the reply:
   initProcedure sends the dummy on "ack" and takes "done" from the size
   commands, and throws at any other reply; any reply to start or stop that is
   not an error returns, and the application then writes frames or no more. *)
ReceiveReply(t) ==
  LET c   == Owner[t]
      cmd == call[t]
      r   == Head(replyq[c])
      ok  == r.text = (IF cmd.op = "init" THEN "ack" ELSE "done")
  IN
    /\ cmd # None
    /\ replyq[c] # <<>>
    /\ replyq' = [replyq EXCEPT ![c] = Tail(@)]
    /\ call' = [call EXCEPT ![t] = None]
    /\ outcome' = [outcome EXCEPT ![t] = [cmd |-> cmd, reply |-> r]]
    /\ stage' = [stage EXCEPT ![c] =
         IF stage[c] = "ready" THEN "ready"
         ELSE IF ~ok THEN "failed"
         ELSE CASE cmd.op = "init"    -> "size rx"
                [] cmd.op = "size rx" -> "size tx"
                [] cmd.op = "size tx" -> "ready"]
    /\ sending' = [sending EXCEPT ![c] =
         (@ \/ cmd.op = "start tx") /\ cmd.op # "stop tx"]
    /\ IF cmd.op = "init" /\ ok
       THEN streamq' \in Delivered(streamq, [from |-> c, kind |-> "dummy"])
       ELSE UNCHANGED streamq
    /\ UNCHANGED <<cmdq, serverVars, sent>>

(* writeStream fills a buffer and sends it. *)
SendFrame(c) ==
  /\ sending[c]
  /\ stage[c] = "ready"
  /\ Len(streamq) < MaxFrames
  /\ streamq' = Append(streamq, [from |-> c, kind |-> "frame"])
  /\ UNCHANGED <<clientVars, cmdq, replyq, serverVars, sent>>

(* The host process dies; what it sent stays on its way. *)
Crash(c) ==
  /\ Crashes
  /\ Alive(c)
  /\ stage' = [stage EXCEPT ![c] = "dead"]
  /\ call' = [t \in Callers |-> IF Owner[t] = c THEN None ELSE call[t]]
  /\ UNCHANGED <<outcome, sending, netVars, serverVars, sent>>

-----------------------------------------------------------------------------
(* The board *)

(* Mutant of ReplyTo: the command is echoed instead of its response. *)
ReplyTo_Echo(addr, cmd, text) ==
  \E q \in Delivered(replyq[addr], [id |-> cmd.id, of |-> cmd.from, text |-> cmd.op]) :
    replyq' = [replyq EXCEPT ![addr] = q]

(* Replies go to the address of the last init, not to the sender. *)
ReplyTo(addr, cmd, text) ==
  \E q \in Delivered(replyq[addr], [id |-> cmd.id, of |-> cmd.from, text |-> text]) :
    replyq' = [replyq EXCEPT ![addr] = q]

(* Mutant of ServeInit: the streams of the client before are not stopped. *)
ServeInit_KeepsStreams ==
  LET cmd == Head(cmdq) IN
    /\ serverAt = "recv"
    /\ cmdq # <<>>
    /\ cmd.op = "init"
    /\ cmdq' = Tail(cmdq)
    /\ clntCMDAddr' = cmd.from
    /\ ReplyTo(cmd.from, cmd, "ack")
    /\ serverAt' = "dummy"
    /\ UNCHANGED <<clientVars, streamq, clntSTRAddr, clientInitiated, streaming, rxDest, sent>>

(* Mutant of ServeInit: only the first init sets the command address. *)
ServeInit_FirstAddress ==
  LET cmd == Head(cmdq) IN
    /\ serverAt = "recv"
    /\ cmdq # <<>>
    /\ cmd.op = "init"
    /\ cmdq' = Tail(cmdq)
    /\ streaming' = [d \in Dirs |-> FALSE]
    /\ clntCMDAddr' = IF clientInitiated THEN clntCMDAddr ELSE cmd.from
    /\ ReplyTo(cmd.from, cmd, "ack")
    /\ serverAt' = "dummy"
    /\ UNCHANGED <<clientVars, streamq, clntSTRAddr, clientInitiated, rxDest, sent>>

(* initClient up to its blocking recvfrom: both directions are stopped. *)
ServeInit ==
  LET cmd == Head(cmdq) IN
    /\ serverAt = "recv"
    /\ cmdq # <<>>
    /\ cmd.op = "init"
    /\ cmdq' = Tail(cmdq)
    /\ streaming' = [d \in Dirs |-> FALSE]
    /\ clntCMDAddr' = cmd.from
    /\ ReplyTo(cmd.from, cmd, "ack")
    /\ serverAt' = "dummy"
    /\ UNCHANGED <<clientVars, streamq, clntSTRAddr, clientInitiated, rxDest, sent>>

(* Mutant of ServeDummy: the dummy is only peeked at. *)
ServeDummy_Peeks ==
  /\ serverAt = "dummy"
  /\ streamq # <<>>
  /\ clntSTRAddr' = Head(streamq).from
  /\ clientInitiated' = TRUE
  /\ serverAt' = "recv"
  /\ UNCHANGED <<clientVars, cmdq, replyq, clntCMDAddr, streaming, rxDest, streamq, sent>>

(* initClient: the sender of the first datagram on the stream socket becomes the
   stream address. *)
ServeDummy ==
  /\ serverAt = "dummy"
  /\ streamq # <<>>
  /\ streamq' = Tail(streamq)
  /\ clntSTRAddr' = Head(streamq).from
  /\ clientInitiated' = TRUE
  /\ serverAt' = "recv"
  /\ UNCHANGED <<clientVars, cmdq, replyq, clntCMDAddr, streaming, rxDest, sent>>

(* A command before any init is dropped without a reply. *)
ServeIgnored ==
  /\ serverAt = "recv"
  /\ cmdq # <<>>
  /\ Head(cmdq).op # "init"
  /\ ~clientInitiated
  /\ cmdq' = Tail(cmdq)
  /\ UNCHANGED <<clientVars, streamq, replyq, serverVars, sent>>

StartOf == [rx |-> "start rx", tx |-> "start tx"]
StopOf  == [rx |-> "stop rx", tx |-> "stop tx"]

(* Mutant of Execute: a second start ends the stream. *)
Execute_Toggles(op) ==
  /\ streaming' = [d \in Dirs |-> IF op = StartOf[d] THEN ~streaming[d]
                                  ELSE streaming[d] /\ op # StopOf[d]]
  /\ rxDest' = IF op = "start rx" THEN clntSTRAddr ELSE rxDest

Execute(op) ==
  /\ streaming' = [d \in Dirs |-> (streaming[d] \/ op = StartOf[d]) /\ op # StopOf[d]]
  /\ rxDest' = IF op = "start rx" /\ ~streaming["rx"] THEN clntSTRAddr ELSE rxDest

(* Mutant of ServeCommand: a stop of a direction at rest is not answered. *)
ServeCommand_Silent ==
  LET cmd == Head(cmdq) IN
    /\ serverAt = "recv"
    /\ cmdq # <<>>
    /\ cmd.op # "init"
    /\ clientInitiated
    /\ cmdq' = Tail(cmdq)
    /\ Execute(cmd.op)
    /\ IF \E d \in Dirs : cmd.op = StopOf[d] /\ ~streaming[d]
       THEN UNCHANGED replyq
       ELSE ReplyTo(clntCMDAddr, cmd, "done")
    /\ UNCHANGED <<clientVars, streamq, serverAt, clntCMDAddr, clntSTRAddr, clientInitiated,
                   sent>>

ServeCommand ==
  LET cmd == Head(cmdq) IN
    /\ serverAt = "recv"
    /\ cmdq # <<>>
    /\ cmd.op # "init"
    /\ clientInitiated
    /\ cmdq' = Tail(cmdq)
    /\ Execute(cmd.op)
    /\ ReplyTo(clntCMDAddr, cmd, "done")
    /\ UNCHANGED <<clientVars, streamq, serverAt, clntCMDAddr, clntSTRAddr, clientInitiated,
                   sent>>

(* streamTX takes a datagram, whoever sent it; a dummy may be shorter than the
   size it expects, which ends the stream. *)
TakeFrame ==
  /\ streaming["tx"]
  /\ streamq # <<>>
  /\ streamq' = Tail(streamq)
  /\ \/ UNCHANGED streaming
     \/ /\ Head(streamq).kind = "dummy"
        /\ streaming' = [streaming EXCEPT !["tx"] = FALSE]
  /\ UNCHANGED <<clientVars, cmdq, replyq, serverAt, clntCMDAddr, clntSTRAddr,
                 clientInitiated, rxDest, sent>>

(* refill, push or sendto fails: the streaming thread disables the device and
   clears its flag. *)
StreamFails(d) ==
  /\ streaming[d]
  /\ streaming' = [streaming EXCEPT ![d] = FALSE]
  /\ UNCHANGED <<clientVars, netVars, serverAt, clntCMDAddr, clntSTRAddr, clientInitiated,
                 rxDest, sent>>

(* The board program ends and is started again; its sockets are new ones. *)
Restart ==
  /\ Restarts
  /\ cmdq' = <<>> /\ streamq' = <<>>
  /\ serverAt' = "recv"
  /\ clntCMDAddr' = None /\ clntSTRAddr' = None /\ clientInitiated' = FALSE
  /\ streaming' = [d \in Dirs |-> FALSE]
  /\ rxDest' = None
  /\ UNCHANGED <<clientVars, replyq, sent>>

-----------------------------------------------------------------------------
(* Mutant of HostStep: the wait for the reply ends after a second, as its comment
   has it, and the caller goes on. *)
HostStep_TimesOut(t) ==
  \/ SendSize(t) \/ ReceiveReply(t)
  \/ /\ call[t] # None /\ stage[Owner[t]] = "ready"
     /\ call' = [call EXCEPT ![t] = None]
     /\ UNCHANGED <<stage, outcome, sending, netVars, serverVars, sent>>

HostStep(t) == SendSize(t) \/ ReceiveReply(t)
Server == ServeInit \/ ServeDummy \/ ServeIgnored \/ ServeCommand

Next ==
  \/ \E t \in Callers : Connect(t) \/ HostStep(t) \/ \E op \in Ops : SendCommand(t, op)
  \/ \E c \in Clients : SendFrame(c) \/ Crash(c)
  \/ \E d \in Dirs : StreamFails(d)
  \/ Server \/ TakeFrame \/ Restart

(* The board serves what it has received, and a host thread goes on when it
   can; nothing makes a host send a further command, and nothing makes a lost
   datagram arrive. *)
Fairness ==
  /\ WF_vars(Server)
  /\ WF_vars(TakeFrame)
  /\ \A t \in Callers : WF_vars(HostStep(t))

Spec == Init /\ [][Next]_vars
FairSpec == Spec /\ Fairness

-----------------------------------------------------------------------------
TypeOK ==
  /\ stage \in [Clients -> Stages]
  /\ call \in [Callers -> Command \cup {None}]
  /\ outcome \in [Callers -> [cmd : Command, reply : Reply] \cup {None}]
  /\ sending \in [Clients -> BOOLEAN]
  /\ cmdq \in Seq(Command) /\ streamq \in Seq(Frame)
  /\ replyq \in [Clients -> Seq(Reply)]
  /\ serverAt \in {"recv", "dummy"}
  /\ {clntCMDAddr, clntSTRAddr, rxDest} \subseteq Clients \cup {None}
  /\ clientInitiated \in BOOLEAN
  /\ streaming \in [Dirs -> BOOLEAN]
  /\ sent \in 0..MaxCommands

(***************************************************************************)
(* A caller takes the reply to its own command, although nothing in the    *)
(* texts pairs them.                                                       *)
(***************************************************************************)
OwnReply == \A t \in Callers : outcome[t] # None => outcome[t].reply.id = outcome[t].cmd.id

(***************************************************************************)
(* "A new client is there, fix the addresses": once initClient is done,    *)
(* the stream address is that of the process the command address belongs   *)
(* to, so that samples go to the client that commands the board.           *)
(***************************************************************************)
AddressesFixed ==
  serverAt = "recv" /\ clientInitiated => clntSTRAddr = clntCMDAddr

(***************************************************************************)
(* While the receive stream runs, its datagrams go to the stream address   *)
(* of the last init: the address the streaming thread copied when it       *)
(* started never becomes that of an earlier client.                        *)
(***************************************************************************)
StreamFollowsInit == streaming["rx"] => rxDest = clntSTRAddr /\ serverAt = "recv"

(***************************************************************************)
(* The dummy completes the init it belongs to: none is left in the stream  *)
(* socket when initClient has returned, where streamTX would transmit it   *)
(* as samples or end over its size.                                        *)
(***************************************************************************)
NoStrayDummy ==
  serverAt = "recv" => \A i \in DOMAIN streamq : streamq[i].kind # "dummy"

(***************************************************************************)
(* "Send back the response": a reply goes to the client that sent the      *)
(* command.                                                                *)
(***************************************************************************)
ReplyGoesBack ==
  \A c \in Clients : \A i \in DOMAIN replyq[c] : replyq[c][i].of = c

(***************************************************************************)
(* A call returns: sendCommand does not block for ever in its recv, which  *)
(* "wait[s] for the response (1 second)".                                  *)
(***************************************************************************)
CallReturns == \A t \in Callers : (call[t] # None) ~> (call[t] = None)

(***************************************************************************)
(* The channel of one client over a network that keeps its datagrams       *)
(* implements a remote call: each command is executed exactly once between *)
(* its call and its return, and nothing else starts or stops a stream, but *)
(* that one may fail.                                                      *)
(***************************************************************************)
Replied(t) ==
  call[t] # None /\ \E i \in DOMAIN replyq[Owner[t]] : replyq[Owner[t]][i].id = call[t].id

Remote == INSTANCE RemoteCall WITH
  op       <- [t \in Callers |-> IF call[t] = None THEN None ELSE call[t].op],
  executed <- [t \in Callers |-> Replied(t)]

RemoteSpec == Remote!Spec
=============================================================================
