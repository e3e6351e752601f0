--------------------------- MODULE ChannelProofs ---------------------------
(***************************************************************************)
(* Proof about CommandChannel: a caller takes the reply to its own         *)
(* command, whatever the network loses and whoever dies or is restarted,   *)
(* if one host at a time is there and its commands are sent one after the  *)
(* other.  The texts have no ids: it is the order of queues and calls that *)
(* pairs them.                                                             *)
(***************************************************************************)
EXTENDS CommandChannel, TLAPS

(* A host's commands are sent by one thread, or all under one lock. *)
Serial ==
  \/ \A t, u \in Callers : Owner[t] = Owner[u] => t = u
  \/ \A o, p \in Ops : LockOf(o) # "none" /\ LockOf(o) = LockOf(p)

OneHost == OneAtATime \/ \A c, e \in Clients : c = e

-----------------------------------------------------------------------------
(* The invariant *)

Types ==
  /\ stage \in [Clients -> Stages]
  /\ call \in [Callers -> Command \cup {None}]
  /\ outcome \in [Callers -> [cmd : Command, reply : Reply] \cup {None}]
  /\ cmdq \in Seq(Command)
  /\ replyq \in [Clients -> Seq(Reply)]
  /\ clntCMDAddr \in Clients \cup {None}
  /\ sent \in Nat

OneAlive == \A c, e \in Clients : Alive(c) /\ Alive(e) => c = e

OneCall ==
  \A t, u \in Callers :
    call[t] # None /\ call[u] # None /\ Owner[t] = Owner[u] => t = u

CallsAreAlive == \A t \in Callers : call[t] # None => Alive(Owner[t])

(* Until the client is ready one thread uses it; then the commands are Ops. *)
Handshake ==
  \A t, u \in Callers :
    /\ stage[Owner[t]] = "new" => outcome[t] = None
    /\ (/\ stage[Owner[t]] \in {"init", "size rx", "size tx"} /\ Owner[t] = Owner[u]
        /\ call[t] # None \/ outcome[t] # None
        /\ call[u] # None \/ outcome[u] # None) => t = u
    /\ (stage[Owner[t]] \in {"init", "size rx", "size tx"} /\ call[t] # None)
         => call[t].op = stage[Owner[t]]
    /\ stage[Owner[t]] = "ready" /\ call[t] # None => call[t].op \in Ops

WaitsFor(c, id) == \E t \in Callers : Owner[t] = c /\ call[t] # None /\ call[t].id = id

(* A live client's command is the last one queued, and is waited for. *)
InQueue(i) ==
  /\ stage[cmdq[i].from] # "new"
  /\ Alive(cmdq[i].from) => /\ i = Len(cmdq)
                            /\ WaitsFor(cmdq[i].from, cmdq[i].id)
                            /\ replyq[cmdq[i].from] = <<>>

Queued == \A i \in 1..Len(cmdq) : InQueue(i)

(* A live client has at most one reply, which is waited for. *)
Replies ==
  \A c \in Clients :
    /\ stage[c] = "new" => replyq[c] = <<>>
    /\ Alive(c) => /\ Len(replyq[c]) <= 1
                   /\ \A i \in 1..Len(replyq[c]) : WaitsFor(c, replyq[c][i].id)

(* Once a live client has the address, the commands are its own. *)
Addressed ==
  clntCMDAddr # None =>
    /\ stage[clntCMDAddr] # "new"
    /\ Alive(clntCMDAddr) => \A i \in 1..Len(cmdq) : cmdq[i].from = clntCMDAddr

ChannelInv ==
  /\ Types /\ OneAlive /\ OneCall /\ CallsAreAlive /\ Handshake
  /\ Queued /\ Replies /\ Addressed /\ OwnReply

-----------------------------------------------------------------------------
(* What a command is made of, and what it is made of again. *)
LEMMA NewCommand ==
  ASSUME NEW id \in Nat, NEW c \in Clients, NEW op \in AllOps \cup {"init", "size rx", "size tx"}
  PROVE  [id |-> id, from |-> c, op |-> op] \in Command
BY DEF Command

LEMMA CommandFields == ASSUME NEW m \in Command PROVE m.id \in Nat /\ m.from \in Clients
BY DEF Command

(* What is left of a queue when its head is taken. *)
LEMMA RestOf ==
  ASSUME NEW S, NEW q \in Seq(S), q # <<>>
  PROVE  /\ Tail(q) \in Seq(S) /\ Head(q) = q[1]
         /\ Len(q) \in Nat \ {0} /\ Len(Tail(q)) = Len(q) - 1
         /\ \A i \in 1..Len(Tail(q)) : /\ i + 1 \in 1..Len(q) /\ Tail(q)[i] = q[i + 1]
                                       /\ i + 1 = Len(q) => i = Len(Tail(q))
OBVIOUS

(* ... and of one that has no more than one element. *)
LEMMA OnlyOne ==
  ASSUME NEW S, NEW q \in Seq(S), q # <<>>, Len(q) <= 1
  PROVE  Len(q) = 1 /\ Tail(q) = <<>> /\ Head(q) = q[1] /\ Head(q) \in S
<1>1. Len(q) = 1
  BY RestOf
<1>2. Tail(q) \in Seq(S) /\ Len(Tail(q)) = 0
  BY <1>1, RestOf
<1>3. Tail(q) = <<>>
  BY <1>2
<1>4. Head(q) = q[1] /\ q[1] \in S
  BY <1>1
<1> QED BY <1>1, <1>3, <1>4

(* Ids are numbers. *)
LEMMA NextId == ASSUME NEW n \in Nat PROVE n + 1 \in Nat
OBVIOUS

(* Nothing has been sent in the initial state. *)
LEMMA ChannelInit == ASSUME Init PROVE ChannelInv
<1>1. Types /\ OneAlive /\ OneCall /\ CallsAreAlive /\ OwnReply
  BY ChannelAssumption DEF Init, Types, Stages, OneAlive, OneCall, CallsAreAlive, Alive, OwnReply
<1>2. Handshake
  BY ChannelAssumption DEF Init, Handshake
<1>3. Queued /\ Replies /\ Addressed
  BY DEF Init, Queued, Replies, Addressed, Alive
<1> QED BY <1>1, <1>2, <1>3 DEF ChannelInv

(* Steps that leave hosts, commands and replies alone. *)
LEMMA ChannelStays ==
  ASSUME ChannelInv, UNCHANGED <<stage, call, outcome, cmdq, replyq, clntCMDAddr, sent>>
  PROVE  ChannelInv'
<1>1. Types' /\ OneAlive' /\ OneCall' /\ CallsAreAlive' /\ OwnReply'
  BY DEF ChannelInv, Types, OneAlive, OneCall, CallsAreAlive, Alive, OwnReply
<1>2. Handshake'
  BY DEF ChannelInv, Handshake
<1>3. Queued' /\ Addressed'
  BY DEF ChannelInv, Queued, InQueue, Addressed, Alive, WaitsFor
<1>4. Replies'
  BY DEF ChannelInv, Replies, Alive, WaitsFor
<1> QED BY <1>1, <1>2, <1>3, <1>4 DEF ChannelInv

(* A command is sent when none of the client's is under way. *)
LEMMA SendInv ==
  ASSUME ChannelInv, NEW t \in Callers, NEW cmd \in Command, cmd.from = Owner[t],
         call' = [call EXCEPT ![t] = cmd], sent' = sent + 1,
         cmdq' = cmdq \/ cmdq' = Append(cmdq, cmd),
         \A u \in Callers : Owner[u] = Owner[t] => call[u] = None,
         stage[Owner[t]] = "new" \/ Alive(Owner[t]),
         stage' \in [Clients -> Stages], OneAlive', Alive(Owner[t])',
         \A e \in Clients \ {Owner[t]} : stage'[e] = stage[e],
         UNCHANGED <<outcome, replyq, clntCMDAddr>>, Handshake'
  PROVE  ChannelInv'
<1> DEFINE c == Owner[t]
<1>1. c \in Clients /\ cmd # None
  BY ChannelAssumption, NoneAssumption
<1>2. sent \in Nat /\ cmdq \in Seq(Command) /\ call \in [Callers -> Command \cup {None}]
  BY DEF ChannelInv, Types
<1>4. Types'
  <2>1. cmd \in Command /\ Append(cmdq, cmd) \in Seq(Command)
    BY <1>2
  <2>2. cmdq' \in Seq(Command)
    BY <1>2, <2>1
  <2> QED BY <1>2, <2>2 DEF ChannelInv, Types
<1>5. OneCall' /\ CallsAreAlive'
  <2>1. CallsAreAlive'
    BY <1>1, <1>2, ChannelAssumption DEF ChannelInv, Types, CallsAreAlive, Alive
  <2>2. OneCall'
    BY <1>1, <1>2 DEF ChannelInv, Types, OneCall
  <2> QED BY <2>1, <2>2
<1>6. WaitsFor(c, cmd.id)'
  BY <1>1, <1>2 DEF ChannelInv, Types, WaitsFor
<1>7. \A id : ~WaitsFor(c, id)
  BY DEF WaitsFor
<1>8. replyq[c] = <<>>
  <2>1. CASE stage[c] = "new"
    BY <2>1, <1>1 DEF ChannelInv, Replies
  <2>2. CASE Alive(c)
    BY <2>2, <1>1, <1>7 DEF ChannelInv, Replies, Types
  <2> QED BY <2>1, <2>2
<1>9. \A i \in 1..Len(cmdq) : cmdq[i].from \in Clients \ {c}
  <2> SUFFICES ASSUME NEW i \in 1..Len(cmdq), cmdq[i].from = c PROVE FALSE
    BY CommandFields DEF ChannelInv, Types
  <2> QED BY <1>7 DEF ChannelInv, Queued, InQueue
<1>10. \A e \in Clients \ {c} : ~Alive(e)' /\ (stage'[e] = "new" <=> stage[e] = "new")
  BY <1>1 DEF OneAlive
<1>11. Queued'
  <2>1. CASE cmdq' = cmdq
    BY <2>1, <1>9, <1>10 DEF ChannelInv, Queued, InQueue
  <2>2. CASE cmdq' = Append(cmdq, cmd)
    <3>1. Len(cmdq') = Len(cmdq) + 1 /\ Len(cmdq) \in Nat /\ cmdq'[Len(cmdq) + 1] = cmd
      BY <2>2, <1>1 DEF ChannelInv, Types
    <3>2. \A i \in 1..Len(cmdq) : cmdq'[i] = cmdq[i]
      BY <2>2, <1>1 DEF ChannelInv, Types
    <3>3. ASSUME NEW i \in 1..Len(cmdq) PROVE InQueue(i)'
      <4>1. cmdq'[i] = cmdq[i] /\ stage[cmdq[i].from] # "new"
        BY <3>2, <3>3 DEF ChannelInv, Queued, InQueue
      <4>2. ~Alive(cmdq[i].from)' /\ stage'[cmdq[i].from] # "new"
        BY <4>1, <1>9, <1>10 DEF Alive
      <4> QED BY <4>1, <4>2 DEF InQueue, Alive
    <3>4. InQueue(Len(cmdq))'
      BY <1>6, <1>8, <3>1 DEF InQueue, Alive, WaitsFor
    <3>5. \A i \in 1..Len(cmdq') : i \in 1..Len(cmdq) \/ i = Len(cmdq')
      BY <3>1
    <3> QED BY <3>3, <3>4, <3>5 DEF Queued
  <2> QED BY <2>1, <2>2
<1>12. Replies'
  <2>1. stage'[c] # "new" /\ Len(replyq'[c]) = 0
    BY <1>8 DEF Alive
  <2>2. \A e \in Clients \ {c} : stage'[e] = "new" => replyq'[e] = <<>>
    BY DEF ChannelInv, Replies
  <2>3. \A i \in 1..Len(replyq'[c]) : FALSE
    BY <2>1
  <2> QED BY <1>10, <2>1, <2>2, <2>3 DEF Replies
<1>13. Addressed'
  <2>0. CASE clntCMDAddr = None
    BY <2>0 DEF Addressed
  <2>1. CASE clntCMDAddr # None /\ clntCMDAddr # c
    <3>1. clntCMDAddr \in Clients /\ stage[clntCMDAddr] # "new"
      BY <2>1 DEF ChannelInv, Types, Addressed
    <3>2. stage'[clntCMDAddr] # "new" /\ ~Alive(clntCMDAddr)'
      BY <2>1, <3>1, <1>10 DEF Alive
    <3> QED BY <3>2 DEF Addressed, Alive
  <2>3. CASE clntCMDAddr = c
    <3>1. stage'[c] # "new"
      BY DEF Alive
    <3>2. \A i \in 1..Len(cmdq) : FALSE
      BY <1>1, <2>3, <1>9, NoneAssumption DEF ChannelInv, Addressed, Alive
    <3>3. Len(cmdq) \in Nat
      BY DEF ChannelInv, Types
    <3>4. Len(cmdq) = 0
      BY <3>2, <3>3
    <3>5. \A i \in 1..Len(cmdq') : cmdq'[i].from = c
      BY <1>2, <3>4
    <3> QED BY <3>1, <3>5, <2>3 DEF Addressed
  <2> QED BY <2>0, <2>1, <2>3
<1>14. OwnReply'
  BY DEF ChannelInv, OwnReply
<1> QED BY <1>4, <1>5, <1>11, <1>12, <1>13, <1>14 DEF ChannelInv

(* The head of the queue is answered: the reply goes to the client that the
   address is of, which is the one that waits or is gone. *)
LEMMA AnswerInv ==
  ASSUME ChannelInv, NEW e \in Clients, NEW r \in Reply, cmdq # <<>>,
         r.id = Head(cmdq).id, Head(cmdq).from = e \/ clntCMDAddr = e,
         cmdq' = Tail(cmdq), clntCMDAddr' = e,
         replyq' = replyq \/ replyq' = [replyq EXCEPT ![e] = Append(@, r)],
         UNCHANGED <<stage, call, outcome, sent>>
  PROVE  ChannelInv'
<1>1. Types
  BY DEF ChannelInv
<1>2. Len(cmdq) \in Nat \ {0} /\ Len(cmdq') = Len(cmdq) - 1 /\ Head(cmdq) = cmdq[1]
  BY <1>1, RestOf DEF Types
<1>3. \A i \in 1..Len(cmdq') : /\ i + 1 \in 1..Len(cmdq) /\ cmdq'[i] = cmdq[i + 1]
                               /\ i + 1 = Len(cmdq) => i = Len(cmdq')
  BY <1>1, RestOf DEF Types
<1>0. InQueue(1)
  <2>1. 1 \in 1..Len(cmdq)
    BY <1>2
  <2> QED BY <2>1 DEF ChannelInv, Queued
<1>4. stage[e] # "new"
  <2>1. CASE Head(cmdq).from = e
    BY <2>1, <1>2, <1>0 DEF InQueue
  <2>2. CASE clntCMDAddr = e
    BY <2>2, NoneAssumption DEF ChannelInv, Addressed
  <2> QED BY <2>1, <2>2
<1>5. Alive(e) => /\ Len(cmdq) = 1 /\ replyq[e] = <<>>
                  /\ WaitsFor(e, r.id)
  <2>0. None \notin Clients
    BY NoneAssumption
  <2>1. Alive(e) => cmdq[1].from = e
    BY <1>2, <2>0 DEF ChannelInv, Addressed
  <2>2. cmdq[1].id = r.id
    BY <1>2
  <2> QED BY <2>1, <2>2, <1>0 DEF InQueue
<1>6. Types'
  <2>1. cmdq' \in Seq(Command)
    BY <1>1 DEF Types
  <2>a. replyq \in [Clients -> Seq(Reply)] /\ replyq[e] \in Seq(Reply)
    BY <1>1 DEF Types
  <2>b. Append(replyq[e], r) \in Seq(Reply)
    BY <2>a
  <2>2. replyq' \in [Clients -> Seq(Reply)]
    BY <2>a, <2>b
  <2> QED BY <1>1, <2>1, <2>2 DEF Types
<1>7. OneAlive' /\ OneCall' /\ CallsAreAlive' /\ OwnReply' /\ Handshake'
  <2>1. OneAlive' /\ CallsAreAlive'
    BY DEF ChannelInv, OneAlive, CallsAreAlive, Alive
  <2>2. OneCall' /\ OwnReply'
    BY DEF ChannelInv, OneCall, OwnReply
  <2>3. Handshake'
    BY DEF ChannelInv, Handshake
  <2> QED BY <2>1, <2>2, <2>3
<1>8. Queued'
  <2> SUFFICES ASSUME NEW i \in 1..Len(cmdq') PROVE InQueue(i)'
    BY DEF Queued
  <2>1. InQueue(i + 1)
    BY <1>3 DEF ChannelInv, Queued
  <2>2. ~Alive(e)
    BY <1>2, <1>5
  <2>a. cmdq[i + 1].from \in Clients
    BY <1>1, <1>3, CommandFields DEF Types
  <2>3. Alive(cmdq[i + 1].from) => replyq'[cmdq[i + 1].from] = replyq[cmdq[i + 1].from]
    BY <2>2, <2>a, <1>1 DEF Types
  <2>4. cmdq'[i] = cmdq[i + 1] /\ (i + 1 = Len(cmdq) => i = Len(cmdq'))
    BY <1>3
  <2> QED BY <2>1, <2>3, <2>4 DEF InQueue, Alive, WaitsFor
<1>9. Replies'
  <2> SUFFICES ASSUME NEW c \in Clients
               PROVE  (/\ stage[c] = "new" => replyq[c] = <<>>
                       /\ Alive(c) => /\ Len(replyq[c]) <= 1
                                      /\ \A i \in 1..Len(replyq[c]) : WaitsFor(c, replyq[c][i].id))'
    BY DEF Replies
  <2>1. CASE replyq'[c] = replyq[c]
    BY <2>1 DEF ChannelInv, Replies, Alive, WaitsFor
  <2>2. CASE replyq'[c] # replyq[c]
    <3>1. c = e /\ replyq'[c] = Append(replyq[e], r)
      BY <2>2, <1>1 DEF Types
    <3>2. CASE ~Alive(e)
      BY <3>1, <3>2, <1>4 DEF Alive
    <3>3. CASE Alive(e)
      <4>1. Len(replyq'[c]) = 1 /\ replyq'[c][1] = r
        BY <3>1, <3>3, <1>5
      <4>2. \A i \in 1..Len(replyq'[c]) : replyq'[c][i].id = r.id
        BY <4>1
      <4>3. WaitsFor(c, r.id)'
        BY <3>1, <3>3, <1>5 DEF WaitsFor
      <4> QED BY <4>1, <4>2, <4>3, <1>4, <3>1 DEF WaitsFor
    <3> QED BY <3>2, <3>3
  <2> QED BY <2>1, <2>2
<1>10. Addressed'
  <2>1. Alive(e)' => \A i \in 1..Len(cmdq') : FALSE
    BY <1>2, <1>5 DEF Alive
  <2> QED BY <2>1, <1>4 DEF Addressed
<1> QED BY <1>6, <1>7, <1>8, <1>9, <1>10 DEF ChannelInv

(* The head of the queue is dropped, or answered to nobody. *)
LEMMA DropInv ==
  ASSUME ChannelInv, cmdq # <<>>, cmdq' = Tail(cmdq),
         UNCHANGED <<stage, call, outcome, replyq, clntCMDAddr, sent>>
  PROVE  ChannelInv'
<1>1. Types
  BY DEF ChannelInv
<1>3. \A i \in 1..Len(cmdq') : /\ i + 1 \in 1..Len(cmdq) /\ cmdq'[i] = cmdq[i + 1]
                               /\ i + 1 = Len(cmdq) => i = Len(cmdq')
  BY <1>1, RestOf DEF Types
<1>4. Types'
  BY <1>1, RestOf DEF Types
<1>5. OneAlive' /\ OneCall' /\ CallsAreAlive' /\ OwnReply' /\ Handshake' /\ Replies'
  <2>1. OneAlive' /\ CallsAreAlive' /\ Replies'
    BY DEF ChannelInv, OneAlive, CallsAreAlive, Replies, Alive, WaitsFor
  <2>2. OneCall' /\ OwnReply'
    BY DEF ChannelInv, OneCall, OwnReply
  <2>3. Handshake'
    BY DEF ChannelInv, Handshake
  <2> QED BY <2>1, <2>2, <2>3
<1>6. Queued'
  <2> SUFFICES ASSUME NEW i \in 1..Len(cmdq') PROVE InQueue(i)'
    BY DEF Queued
  <2>1. InQueue(i + 1)
    BY <1>3 DEF ChannelInv, Queued
  <2>2. cmdq'[i] = cmdq[i + 1] /\ (i + 1 = Len(cmdq) => i = Len(cmdq'))
    BY <1>3
  <2> QED BY <2>1, <2>2 DEF InQueue, Alive, WaitsFor
<1>7. Addressed'
  BY <1>3 DEF ChannelInv, Addressed, Alive
<1> QED BY <1>4, <1>5, <1>6, <1>7 DEF ChannelInv

(* A reply is taken by the one that waits, and nothing of its client is left. *)
LEMMA ReceiveInv == ASSUME ChannelInv, NEW t \in Callers, ReceiveReply(t) PROVE ChannelInv'
<1> DEFINE c == Owner[t]
<1>1. Types /\ c \in Clients
  BY ChannelAssumption DEF ChannelInv
<1>2. /\ call[t] # None /\ replyq[c] # <<>>
      /\ replyq' = [replyq EXCEPT ![c] = Tail(@)]
      /\ call' = [call EXCEPT ![t] = None]
      /\ outcome' = [outcome EXCEPT ![t] = [cmd |-> call[t], reply |-> Head(replyq[c])]]
      /\ UNCHANGED <<cmdq, clntCMDAddr, sent>>
  BY DEF ReceiveReply, serverVars
<1>3. Alive(c)
  BY <1>2 DEF ChannelInv, CallsAreAlive
<1>4. \A u \in Callers : call[u] # None /\ Owner[u] = c => u = t
  BY <1>2 DEF ChannelInv, OneCall
<1>5. /\ Len(replyq[c]) = 1 /\ replyq'[c] = <<>> /\ Head(replyq[c]).id = call[t].id
      /\ Head(replyq[c]) \in Reply
  <2>a. replyq[c] \in Seq(Reply)
    BY <1>1 DEF Types
  <2>b. Len(replyq[c]) <= 1
    BY <1>1, <1>3 DEF ChannelInv, Replies
  <2>1. /\ Len(replyq[c]) = 1 /\ Tail(replyq[c]) = <<>>
        /\ Head(replyq[c]) = replyq[c][1] /\ Head(replyq[c]) \in Reply
    BY <2>a, <2>b, <1>2, OnlyOne
  <2>2. WaitsFor(c, replyq[c][1].id)
    BY <2>1, <1>1, <1>3 DEF ChannelInv, Replies
  <2>c. replyq'[c] = <<>>
    BY <1>1, <1>2, <2>1 DEF Types
  <2> QED BY <2>1, <2>2, <2>c, <1>4 DEF WaitsFor
<1>6. /\ stage' \in [Clients -> Stages] /\ \A e \in Clients \ {c} : stage'[e] = stage[e]
      /\ stage'[c] \in {"ready", "failed", "size rx", "size tx"}
      /\ stage'[c] \in {"size rx", "size tx"} => stage[c] \in {"init", "size rx", "size tx"}
  <2>1. stage[c] \in {"init", "size rx", "size tx"} => call[t].op = stage[c]
    BY <1>2 DEF ChannelInv, Handshake
  <2>2. stage[c] \in {"init", "size rx", "size tx", "ready"}
    BY <1>1, <1>3 DEF Types, Alive, Stages
  <2>3. CASE stage[c] = "ready"
    <3>1. stage' = [stage EXCEPT ![c] = "ready"]
      BY <2>3 DEF ReceiveReply
    <3> QED BY <3>1, <1>1 DEF Types, Stages
  <2>4. CASE stage[c] # "ready"
    <3>1. PICK s \in {"ready", "failed", "size rx", "size tx"} :
             stage' = [stage EXCEPT ![c] = s]
      BY <2>1, <2>2, <2>4 DEF ReceiveReply
    <3> QED BY <3>1, <2>2, <2>4, <1>1 DEF Types, Stages
  <2> QED BY <2>3, <2>4
<1>7. \A u \in Callers \ {t} : call'[u] = call[u] /\ outcome'[u] = outcome[u]
  BY <1>1, <1>2 DEF Types
<1>8. call'[t] = None
  BY <1>1, <1>2 DEF Types
<1>9. \A u \in Callers : call'[u] # None => Owner[u] # c /\ call'[u] = call[u]
  BY <1>4, <1>7, <1>8
<1>11. Types'
  <2>1. call' \in [Callers -> Command \cup {None}]
    BY <1>1, <1>2 DEF Types
  <2>2. replyq' \in [Clients -> Seq(Reply)]
    BY <1>1, <1>2 DEF Types
  <2>3. call[t] \in Command
    BY <1>1, <1>2 DEF Types
  <2>4. outcome' \in [Callers -> [cmd : Command, reply : Reply] \cup {None}]
    BY <1>1, <1>2, <1>5, <2>3 DEF Types
  <2> QED BY <1>1, <1>2, <1>6, <2>1, <2>2, <2>4 DEF Types
<1>12. OneAlive'
  BY <1>3, <1>6 DEF ChannelInv, OneAlive, Alive
<1>13. OneCall'
  BY <1>9 DEF ChannelInv, OneCall
<1>14. CallsAreAlive'
  BY <1>6, <1>9, ChannelAssumption DEF ChannelInv, CallsAreAlive, Alive
<1>15. \A e, id : e # c /\ WaitsFor(e, id) => WaitsFor(e, id)'
  BY <1>7 DEF WaitsFor
<1>16. Queued'
  <2> SUFFICES ASSUME NEW i \in 1..Len(cmdq) PROVE InQueue(i)'
    BY <1>2 DEF Queued
  <2>1. InQueue(i) /\ cmdq[i].from \in Clients
    BY <1>1, CommandFields DEF ChannelInv, Queued, Types
  <2>2. cmdq[i].from # c
    BY <2>1, <1>2, <1>3 DEF InQueue
  <2>3. stage'[cmdq[i].from] = stage[cmdq[i].from] /\ replyq'[cmdq[i].from] = replyq[cmdq[i].from]
    BY <2>1, <2>2, <1>1, <1>2, <1>6 DEF Types
  <2> QED BY <2>1, <2>2, <2>3, <1>2, <1>15 DEF InQueue, Alive
<1>17. Replies'
  <2>a. Len(replyq'[c]) = 0 /\ stage'[c] # "new"
    BY <1>5, <1>6
  <2>1. stage'[c] # "new" /\ Len(replyq'[c]) <= 1 /\ \A i \in 1..Len(replyq'[c]) : FALSE
    BY <2>a
  <2>2. \A e \in Clients \ {c} : replyq'[e] = replyq[e] /\ stage'[e] = stage[e]
    BY <1>1, <1>2, <1>6 DEF Types
  <2> QED BY <2>1, <2>2, <1>15 DEF ChannelInv, Replies, Alive
<1>18. Addressed'
  <2>1. CASE clntCMDAddr = c
    BY <2>1, <1>1, <1>2, <1>3, <1>6, NoneAssumption DEF ChannelInv, Addressed, Alive
  <2>2. CASE clntCMDAddr # c
    BY <2>2, <1>1, <1>2, <1>6 DEF ChannelInv, Types, Addressed, Alive
  <2> QED BY <2>1, <2>2
<1>19. Handshake'
  <2>1. \A u \in Callers : Owner[u] # c => /\ stage'[Owner[u]] = stage[Owner[u]]
                                          /\ call'[u] = call[u] /\ outcome'[u] = outcome[u]
    BY <1>6, <1>7, ChannelAssumption
  <2>2. stage'[c] # "new"
    BY <1>6
  <2>3. ASSUME NEW u \in Callers, NEW v \in Callers, Owner[u] = c, Owner[v] = c,
               stage'[c] \in {"init", "size rx", "size tx"},
               call'[u] # None \/ outcome'[u] # None, call'[v] # None \/ outcome'[v] # None
        PROVE  u = v
    <3>1. stage[c] \in {"init", "size rx", "size tx"}
      BY <2>3, <1>6
    <3>2. \A x \in Callers : Owner[x] = c /\ (call'[x] # None \/ outcome'[x] # None) => x = t
      BY <3>1, <1>2, <1>7 DEF ChannelInv, Handshake
    <3> QED BY <3>2, <2>3
  <2>4. \A u \in Callers : stage'[Owner[u]] = "new" => outcome'[u] = None
    BY <2>1, <2>2 DEF ChannelInv, Handshake
  <2>5. \A u, v \in Callers :
          (/\ stage'[Owner[u]] \in {"init", "size rx", "size tx"} /\ Owner[u] = Owner[v]
           /\ call'[u] # None \/ outcome'[u] # None
           /\ call'[v] # None \/ outcome'[v] # None) => u = v
    BY <2>1, <2>3, ZenonT(40) DEF ChannelInv, Handshake
  <2>6. \A u \in Callers : call'[u] # None =>
          /\ stage'[Owner[u]] = "ready" => call'[u].op \in Ops
          /\ stage'[Owner[u]] \in {"init", "size rx", "size tx"} => call'[u].op = stage'[Owner[u]]
    BY <2>1, <1>9 DEF ChannelInv, Handshake
  <2> QED BY <2>4, <2>5, <2>6 DEF Handshake
<1>20. OwnReply'
  <2>1. outcome'[t].cmd = call[t] /\ outcome'[t].reply = Head(replyq[c])
    BY <1>1, <1>2 DEF Types
  <2> QED BY <2>1, <1>5, <1>7 DEF ChannelInv, OwnReply
<1> QED BY <1>11, <1>12, <1>13, <1>14, <1>16, <1>17, <1>18, <1>19, <1>20 DEF ChannelInv

(* A host that dies takes its calls with it; what it sent no longer matters. *)
LEMMA CrashInv == ASSUME ChannelInv, NEW c \in Clients, Crash(c) PROVE ChannelInv'
<1>1. Types
  BY DEF ChannelInv
<1>2. /\ \A e \in Clients : stage'[e] = IF e = c THEN "dead" ELSE stage[e]
      /\ \A u \in Callers : call'[u] = IF Owner[u] = c THEN None ELSE call[u]
      /\ UNCHANGED <<outcome, cmdq, replyq, clntCMDAddr, sent>>
      /\ stage' \in [Clients -> Stages] /\ call' \in [Callers -> Command \cup {None}]
  BY <1>1 DEF Crash, Types, Stages, netVars, serverVars
<1>3. Types'
  BY <1>1, <1>2 DEF Types
<1>4. OneAlive' /\ OneCall' /\ OwnReply'
  BY <1>2 DEF ChannelInv, OneAlive, OneCall, OwnReply, Alive
<1>5. CallsAreAlive'
  BY <1>2, ChannelAssumption DEF ChannelInv, CallsAreAlive, Alive
<1>6. \A e, id : e # c /\ WaitsFor(e, id) => WaitsFor(e, id)'
  BY <1>2 DEF WaitsFor
<1>7. Queued'
  <2> SUFFICES ASSUME NEW i \in 1..Len(cmdq) PROVE InQueue(i)'
    BY <1>2 DEF Queued
  <2>1. InQueue(i) /\ cmdq[i].from \in Clients
    BY <1>1, CommandFields DEF ChannelInv, Queued, Types
  <2> QED BY <2>1, <1>2, <1>6 DEF InQueue, Alive
<1>8. Replies'
  BY <1>2, <1>6 DEF ChannelInv, Replies, Alive
<1>9. Addressed'
  BY <1>1, <1>2 DEF ChannelInv, Types, Addressed, Alive
<1>10. Handshake'
  BY <1>2, ChannelAssumption, ZenonT(40) DEF ChannelInv, Handshake
<1> QED BY <1>3, <1>4, <1>5, <1>7, <1>8, <1>9, <1>10 DEF ChannelInv

(* The board program forgets its commands and its client. *)
LEMMA RestartInv == ASSUME ChannelInv, Restart PROVE ChannelInv'
<1>1. cmdq' = <<>> /\ clntCMDAddr' = None /\ UNCHANGED <<stage, call, outcome, replyq, sent>>
  BY DEF Restart, clientVars
<1>2. Types' /\ Queued' /\ Addressed'
  BY <1>1 DEF ChannelInv, Types, Queued, Addressed
<1>3. OneAlive' /\ CallsAreAlive' /\ Replies'
  BY <1>1 DEF ChannelInv, OneAlive, CallsAreAlive, Replies, Alive, WaitsFor
<1>4. OneCall' /\ OwnReply'
  BY <1>1 DEF ChannelInv, OneCall, OwnReply
<1>5. Handshake'
  BY <1>1 DEF ChannelInv, Handshake
<1> QED BY <1>2, <1>3, <1>4, <1>5 DEF ChannelInv

-----------------------------------------------------------------------------
(* The commands *)

(* What sending a command does. *)
LEMMA SendFacts ==
  ASSUME ChannelInv, NEW t \in Callers, NEW op \in AllOps \cup {"init", "size rx", "size tx"},
         Send(t, op)
  PROVE  \E cmd \in Command :
           /\ cmd.from = Owner[t] /\ cmd.op = op
           /\ call[t] = None /\ call' = [call EXCEPT ![t] = cmd] /\ sent' = sent + 1
           /\ cmdq' = cmdq \/ cmdq' = Append(cmdq, cmd)
<1> DEFINE cmd == [id |-> sent + 1, from |-> Owner[t], op |-> op]
<1>0. sent \in Nat
  BY DEF ChannelInv, Types
<1>1. sent + 1 \in Nat
  BY <1>0, NextId
<1>2. cmd \in Command
  BY <1>1, NewCommand, ChannelAssumption
<1>3. /\ call[t] = None /\ call' = [call EXCEPT ![t] = cmd] /\ sent' = sent + 1
      /\ cmdq' = cmdq \/ cmdq' = Append(cmdq, cmd)
  BY DEF Send, Delivered
<1>4. cmd.from = Owner[t] /\ cmd.op = op
  OBVIOUS
<1> HIDE DEF cmd
<1> QED BY <1>2, <1>3, <1>4

(* A new host may connect only when no other one is alive. *)
LEMMA ConnectInv == ASSUME OneHost, ChannelInv, NEW t \in Callers, Connect(t) PROVE ChannelInv'
<1> DEFINE c == Owner[t]
<1>1. Types /\ c \in Clients
  BY ChannelAssumption DEF ChannelInv
<1>2. /\ stage[c] = "new" /\ Send(t, "init")
      /\ OneAtATime => \A e \in Clients : ~Alive(e)
      /\ stage' = [stage EXCEPT ![c] = "init"]
      /\ UNCHANGED <<outcome, replyq, clntCMDAddr>>
  BY DEF Connect, serverVars
<1>3. PICK cmd \in Command :
        /\ cmd.from = c /\ cmd.op = "init"
        /\ call' = [call EXCEPT ![t] = cmd] /\ sent' = sent + 1
        /\ cmdq' = cmdq \/ cmdq' = Append(cmdq, cmd)
  BY <1>2, SendFacts
<1>4. \A u \in Callers : Owner[u] = c => call[u] = None /\ outcome[u] = None
  BY <1>2 DEF ChannelInv, CallsAreAlive, Handshake, Alive
<1>5. /\ stage' \in [Clients -> Stages] /\ stage'[c] = "init"
      /\ \A e \in Clients \ {c} : stage'[e] = stage[e]
  BY <1>1, <1>2 DEF Types, Stages
<1>6. OneAlive'
  BY <1>1, <1>2, <1>5 DEF OneHost, OneAlive, Alive
<1>7. \A u \in Callers : call'[u] = IF u = t THEN cmd ELSE call[u]
  BY <1>1, <1>3 DEF Types
<1>8. Handshake'
  <2>1. \A u \in Callers : Owner[u] # c => stage'[Owner[u]] = stage[Owner[u]] /\ call'[u] = call[u]
    BY <1>5, <1>7, ChannelAssumption
  <2>2. \A u \in Callers : Owner[u] = c /\ (call'[u] # None \/ outcome'[u] # None) => u = t
    BY <1>2, <1>4, <1>7
  <2>3. \A u \in Callers : Owner[u] = c /\ call'[u] # None => call'[u].op = "init"
    BY <1>3, <1>4, <1>7
  <2>4. \A u \in Callers : /\ stage'[Owner[u]] = "new" => outcome'[u] = None
                           /\ stage'[Owner[u]] = "ready" /\ call'[u] # None => call'[u].op \in Ops
    BY <2>1, <1>2, <1>5, ZenonT(40) DEF ChannelInv, Handshake
  <2>5. \A u \in Callers : stage'[Owner[u]] \in {"init", "size rx", "size tx"} /\ call'[u] # None
                             => call'[u].op = stage'[Owner[u]]
    BY <2>1, <2>3, <1>5 DEF ChannelInv, Handshake
  <2>6. \A u, v \in Callers :
          (/\ stage'[Owner[u]] \in {"init", "size rx", "size tx"} /\ Owner[u] = Owner[v]
           /\ call'[u] # None \/ outcome'[u] # None
           /\ call'[v] # None \/ outcome'[v] # None) => u = v
    BY <2>1, <2>2, <1>2, ZenonT(40) DEF ChannelInv, Handshake
  <2> QED BY <2>4, <2>5, <2>6 DEF Handshake
<1>9. Alive(c)'
  BY <1>5 DEF Alive
<1> QED BY <1>2, <1>3, <1>4, <1>5, <1>6, <1>8, <1>9, SendInv

(* A command of a live client is of its stage's kind, if nobody else calls. *)
LEMMA LiveHandshake ==
  ASSUME Types, Handshake, NEW t \in Callers, NEW op, NEW cmd,
         cmd.op = op, call' = [call EXCEPT ![t] = cmd],
         \A u \in Callers : Owner[u] = Owner[t] => call[u] = None,
         IF stage[Owner[t]] = "ready" THEN op \in Ops ELSE op = stage[Owner[t]] /\ outcome[t] # None,
         stage' = stage, outcome' = outcome
  PROVE  Handshake'
<1>3. \A u \in Callers : call'[u] = IF u = t THEN cmd ELSE call[u]
  BY DEF Types
<1>1. \A u \in Callers : stage'[Owner[u]] = "new" => outcome'[u] = None
  BY DEF Handshake
<1>2. stage[Owner[t]] \in {"init", "size rx", "size tx"} => outcome[t] # None
  OBVIOUS
<1>5. \A u, v \in Callers :
        (/\ stage'[Owner[u]] \in {"init", "size rx", "size tx"} /\ Owner[u] = Owner[v]
         /\ call'[u] # None \/ outcome'[u] # None
         /\ call'[v] # None \/ outcome'[v] # None) => u = v
  <2>1. \A u \in Callers :
           (/\ stage[Owner[t]] \in {"init", "size rx", "size tx"} /\ Owner[u] = Owner[t]
            /\ call'[u] # None \/ outcome'[u] # None) => u = t
    BY <1>2, <1>3 DEF Handshake
  <2>2. \A u \in Callers : Owner[u] # Owner[t] => call'[u] = call[u]
    BY <1>3
  <2> QED BY <2>1, <2>2, ZenonT(40) DEF Handshake
<1>4. \A u \in Callers : call'[u] # None =>
        /\ stage'[Owner[u]] = "ready" => call'[u].op \in Ops
        /\ stage'[Owner[u]] \in {"init", "size rx", "size tx"} => call'[u].op = stage'[Owner[u]]
  <2>1. \A u \in Callers : call'[u] # None =>
           (u = t /\ call'[u].op = op) \/ (u # t /\ call'[u] = call[u])
    BY <1>3
  <2>2. /\ stage[Owner[t]] = "ready" => op \in Ops
        /\ stage[Owner[t]] \in {"init", "size rx", "size tx"} => op = stage[Owner[t]]
    OBVIOUS
  <2> QED BY <2>1, <2>2 DEF Handshake
<1> QED BY <1>1, <1>5, <1>4 DEF Handshake

(* A command of a live client keeps the invariant if nobody else of it calls
   and its kind is the stage's. *)
LEMMA LiveSendInv ==
  ASSUME ChannelInv, NEW t \in Callers, NEW op, NEW cmd \in Command,
         cmd.from = Owner[t], cmd.op = op, call' = [call EXCEPT ![t] = cmd], sent' = sent + 1,
         cmdq' = cmdq \/ cmdq' = Append(cmdq, cmd), Alive(Owner[t]),
         \A u \in Callers : Owner[u] = Owner[t] => call[u] = None,
         IF stage[Owner[t]] = "ready" THEN op \in Ops ELSE op = stage[Owner[t]] /\ outcome[t] # None,
         UNCHANGED <<stage, outcome, replyq, clntCMDAddr>>
  PROVE  ChannelInv'
<1> DEFINE c == Owner[t]
<1>1. Types /\ c \in Clients
  BY ChannelAssumption DEF ChannelInv
<1>3. \A u \in Callers : call'[u] = IF u = t THEN cmd ELSE call[u]
  BY <1>1 DEF Types
<1>4. Handshake'
  BY LiveHandshake DEF ChannelInv
<1>5. stage' \in [Clients -> Stages] /\ OneAlive' /\ Alive(c)'
  BY <1>1 DEF ChannelInv, Types, OneAlive, Alive
<1> QED BY <1>4, <1>5, SendInv

(* initProcedure's sizes are sent by the thread that connected. *)
LEMMA SizeInv == ASSUME ChannelInv, NEW t \in Callers, SendSize(t) PROVE ChannelInv'
<1>1. /\ stage[Owner[t]] \in {"size rx", "size tx"} /\ outcome[t] # None
      /\ Send(t, stage[Owner[t]]) /\ call[t] = None
      /\ UNCHANGED <<stage, outcome, replyq, clntCMDAddr>>
  <2>1. Send(t, stage[Owner[t]])
    BY DEF SendSize
  <2>2. call[t] = None
    BY <2>1 DEF Send
  <2> QED BY <2>1, <2>2 DEF SendSize, serverVars
<1>2. \A u \in Callers : Owner[u] = Owner[t] => call[u] = None
  BY <1>1 DEF ChannelInv, Handshake
<1>3. Alive(Owner[t]) /\ stage[Owner[t]] # "ready"
  BY <1>1 DEF Alive
<1>4. PICK cmd \in Command :
        /\ cmd.from = Owner[t] /\ cmd.op = stage[Owner[t]]
        /\ call' = [call EXCEPT ![t] = cmd] /\ sent' = sent + 1
        /\ cmdq' = cmdq \/ cmdq' = Append(cmdq, cmd)
  <2>1. stage[Owner[t]] \in AllOps \cup {"init", "size rx", "size tx"}
    BY <1>1
  <2> QED BY <1>1, <2>1, SendFacts
<1> QED BY <1>1, <1>2, <1>3, <1>4, LiveSendInv

(* The lock keeps the other threads of the client from calling. *)
LEMMA CommandInv ==
  ASSUME Serial, ChannelInv, NEW t \in Callers, NEW op \in Ops, SendCommand(t, op) PROVE ChannelInv'
<1>1. /\ stage[Owner[t]] = "ready" /\ Send(t, op) /\ call[t] = None
      /\ LockOf(op) # "none" =>
           ~\E u \in Callers : /\ Owner[u] = Owner[t] /\ call[u] # None
                               /\ LockOf(call[u].op) = LockOf(op)
      /\ UNCHANGED <<stage, outcome, replyq, clntCMDAddr>>
  <2>1. Send(t, op)
    BY DEF SendCommand
  <2>2. call[t] = None
    BY <2>1 DEF Send
  <2> QED BY <2>1, <2>2 DEF SendCommand, serverVars
<1>2. \A u \in Callers : Owner[u] = Owner[t] /\ call[u] # None => call[u].op \in Ops
  BY <1>1 DEF ChannelInv, Handshake
<1>3. \A u \in Callers : Owner[u] = Owner[t] => call[u] = None
  BY <1>1, <1>2 DEF Serial
<1>4. Alive(Owner[t]) /\ op \in AllOps
  BY <1>1, ChannelAssumption DEF Alive
<1>5. PICK cmd \in Command :
        /\ cmd.from = Owner[t] /\ cmd.op = op
        /\ call' = [call EXCEPT ![t] = cmd] /\ sent' = sent + 1
        /\ cmdq' = cmdq \/ cmdq' = Append(cmdq, cmd)
  <2>1. op \in AllOps \cup {"init", "size rx", "size tx"}
    BY <1>4
  <2>2. Send(t, op)
    BY <1>1
  <2> QED BY <2>1, <2>2, SendFacts
<1> QED BY <1>1, <1>3, <1>4, <1>5, LiveSendInv

(* A text sent back is a reply. *)
LEMMA ReplyFields ==
  ASSUME NEW cmd \in Command, NEW text \in {"ack", "done"}
  PROVE  [id |-> cmd.id, of |-> cmd.from, text |-> text] \in Reply
BY DEF Command, Reply

(* The server answers init at the address it came from. *)
LEMMA ServeInitInv == ASSUME ChannelInv, ServeInit PROVE ChannelInv'
<1> DEFINE cmd == Head(cmdq)
           r   == [id |-> cmd.id, of |-> cmd.from, text |-> "ack"]
<1>1. /\ cmdq # <<>> /\ cmdq' = Tail(cmdq) /\ clntCMDAddr' = cmd.from
      /\ \E q \in Delivered(replyq[cmd.from], r) : replyq' = [replyq EXCEPT ![cmd.from] = q]
      /\ UNCHANGED <<stage, call, outcome, sent>>
  BY DEF ServeInit, ReplyTo, clientVars
<1>2. cmd \in Command /\ cmd.from \in Clients
  BY <1>1, RestOf, CommandFields DEF ChannelInv, Types
<1>3. r \in Reply /\ r.id = cmd.id
  BY <1>2, ReplyFields
<1>4. replyq' = replyq \/ replyq' = [replyq EXCEPT ![cmd.from] = Append(@, r)]
  BY <1>1, <1>2 DEF Delivered, ChannelInv, Types
<1> HIDE DEF r
<1> QED BY <1>1, <1>2, <1>3, <1>4, AnswerInv

(* Another command is answered at the address of the last init. *)
LEMMA ServeCommandInv == ASSUME ChannelInv, ServeCommand PROVE ChannelInv'
<1> DEFINE cmd == Head(cmdq)
           e   == clntCMDAddr
           r   == [id |-> cmd.id, of |-> cmd.from, text |-> "done"]
<1>1. /\ cmdq # <<>> /\ cmdq' = Tail(cmdq)
      /\ \E q \in Delivered(replyq[e], r) : replyq' = [replyq EXCEPT ![e] = q]
      /\ UNCHANGED <<stage, call, outcome, clntCMDAddr, sent>>
  BY DEF ServeCommand, ReplyTo, clientVars
<1>2. cmd \in Command
  BY <1>1, RestOf DEF ChannelInv, Types
<1>3. r \in Reply /\ r.id = cmd.id
  BY <1>2, ReplyFields
<1>4. PICK q \in Delivered(replyq[e], r) : replyq' = [replyq EXCEPT ![e] = q]
  BY <1>1
<1>5. replyq \in [Clients -> Seq(Reply)] /\ e \in Clients \cup {None}
  BY DEF ChannelInv, Types
<1> HIDE DEF r
<1>6. CASE e \in Clients
  <2>1. q = replyq[e] \/ q = Append(replyq[e], r)
    BY DEF Delivered
  <2>2. replyq' = replyq \/ replyq' = [replyq EXCEPT ![e] = Append(@, r)]
    BY <2>1, <1>4, <1>5, <1>6
  <2> QED BY <2>2, <1>1, <1>3, <1>6, AnswerInv
<1>7. CASE e \notin Clients
  <2>1. replyq' = replyq
    BY <1>4, <1>5, <1>7
  <2> QED BY <2>1, <1>1, DropInv
<1> QED BY <1>6, <1>7

(* A command that comes before any init. *)
LEMMA ServeIgnoredInv == ASSUME ChannelInv, ServeIgnored PROVE ChannelInv'
<1>1. cmdq # <<>> /\ cmdq' = Tail(cmdq) /\ UNCHANGED <<stage, call, outcome, replyq, clntCMDAddr, sent>>
  BY DEF ServeIgnored, clientVars, serverVars
<1> QED BY <1>1, DropInv

-----------------------------------------------------------------------------
(* Every step keeps the invariant. *)
LEMMA ChannelStep == ASSUME OneHost, Serial, ChannelInv, [Next]_vars PROVE ChannelInv'
<1>1. CASE \E t \in Callers : Connect(t) \/ HostStep(t) \/ \E op \in Ops : SendCommand(t, op)
  <2>1. PICK t \in Callers : Connect(t) \/ HostStep(t) \/ \E op \in Ops : SendCommand(t, op)
    BY <1>1
  <2>2. CASE Connect(t)
    BY <2>2, ConnectInv
  <2>3. CASE SendSize(t)
    BY <2>3, SizeInv
  <2>4. CASE ReceiveReply(t)
    BY <2>4, ReceiveInv
  <2>5. CASE \E op \in Ops : SendCommand(t, op)
    BY <2>5, CommandInv
  <2> QED BY <2>1, <2>2, <2>3, <2>4, <2>5 DEF HostStep
<1>2. CASE \E c \in Clients : SendFrame(c) \/ Crash(c)
  <2>1. PICK c \in Clients : SendFrame(c) \/ Crash(c)
    BY <1>2
  <2>2. CASE SendFrame(c)
    <3>1. UNCHANGED <<stage, call, outcome, cmdq, replyq, clntCMDAddr, sent>>
      BY <2>2 DEF SendFrame, clientVars, serverVars
    <3> QED BY <3>1, ChannelStays
  <2>3. CASE Crash(c)
    BY <2>3, CrashInv
  <2> QED BY <2>1, <2>2, <2>3
<1>3. CASE ServeInit
  BY <1>3, ServeInitInv
<1>4. CASE ServeCommand
  BY <1>4, ServeCommandInv
<1>5. CASE ServeIgnored
  BY <1>5, ServeIgnoredInv
<1>6. CASE Restart
  BY <1>6, RestartInv
<1>7. CASE ServeDummy \/ TakeFrame \/ (\E d \in Dirs : StreamFails(d)) \/ UNCHANGED vars
  <2>1. UNCHANGED <<stage, call, outcome, cmdq, replyq, clntCMDAddr, sent>>
    BY <1>7 DEF ServeDummy, TakeFrame, StreamFails, vars, clientVars, netVars, serverVars
  <2> QED BY <2>1, ChannelStays
<1> QED BY <1>1, <1>2, <1>3, <1>4, <1>5, <1>6, <1>7 DEF Next, Server

(***************************************************************************)
(* A caller takes the reply to its own command although the texts have no  *)
(* ids, if hosts come one after the other and the commands of a host are   *)
(* sent one after the other; lost datagrams, hosts that die and a board    *)
(* that is restarted do not change it.                                     *)
(***************************************************************************)
THEOREM OneLockOwnReply == ASSUME OneHost, Serial PROVE Spec => []OwnReply
<1>1. Init => ChannelInv
  BY ChannelInit
<1>2. ChannelInv /\ [Next]_vars => ChannelInv'
  BY ChannelStep
<1>3. ChannelInv => OwnReply
  BY DEF ChannelInv
<1> QED BY <1>1, <1>2, <1>3, PTL DEF Spec

(***************************************************************************)
(* ... and the socket of a live host never holds a second reply, nor one   *)
(* that nobody waits for, so that answers cannot fall behind commands.     *)
(***************************************************************************)
THEOREM NoLateReply == ASSUME OneHost, Serial PROVE Spec => []Replies
<1>1. Init => ChannelInv
  BY ChannelInit
<1>2. ChannelInv /\ [Next]_vars => ChannelInv'
  BY ChannelStep
<1>3. ChannelInv => Replies
  BY DEF ChannelInv
<1> QED BY <1>1, <1>2, <1>3, PTL DEF Spec

-----------------------------------------------------------------------------
(* Where the receive stream goes *)

StreamInv == streaming \in [Dirs -> BOOLEAN] /\ StreamFollowsInit

(* Every step keeps the running stream's destination. *)
LEMMA StreamStep == ASSUME StreamInv, [Next]_vars PROVE StreamInv'
<1>1. CASE ServeInit \/ Restart
  BY <1>1 DEF ServeInit, Restart, StreamInv, StreamFollowsInit, Dirs
<1>2. CASE ServeDummy
  BY <1>2 DEF ServeDummy, StreamInv, StreamFollowsInit
<1>3. CASE ServeCommand
  BY <1>3 DEF ServeCommand, Execute, StreamInv, StreamFollowsInit, Dirs, StartOf, StopOf
<1>4. CASE TakeFrame
  BY <1>4 DEF TakeFrame, StreamInv, StreamFollowsInit, Dirs
<1>5. CASE UNCHANGED <<streaming, rxDest, clntSTRAddr, serverAt>>
  BY <1>5 DEF StreamInv, StreamFollowsInit
<1>8. CASE \E d \in Dirs : StreamFails(d)
  BY <1>8 DEF StreamFails, StreamInv, StreamFollowsInit, Dirs
<1>6. (\E t \in Callers : Connect(t) \/ HostStep(t) \/ \E op \in Ops : SendCommand(t, op))
        => UNCHANGED <<streaming, rxDest, clntSTRAddr, serverAt>>
  BY DEF Connect, HostStep, SendSize, ReceiveReply, SendCommand, serverVars
<1>7. (\E c \in Clients : SendFrame(c) \/ Crash(c)) \/ ServeIgnored \/ UNCHANGED vars
        => UNCHANGED <<streaming, rxDest, clntSTRAddr, serverAt>>
  BY DEF SendFrame, Crash, ServeIgnored, vars, serverVars
<1> QED BY <1>1, <1>2, <1>3, <1>4, <1>5, <1>6, <1>7, <1>8 DEF Next, Server

(***************************************************************************)
(* The address the streaming thread copied is that of the last client as   *)
(* long as it streams: an init between the start of the thread and its end *)
(* would leave it with a stale one, and init stops both directions before  *)
(* it changes the addresses.                                               *)
(***************************************************************************)
THEOREM StreamGoesToLastClient == Spec => []StreamFollowsInit
<1>1. Init => StreamInv
  BY DEF Init, StreamInv, StreamFollowsInit, Dirs
<1>2. StreamInv /\ [Next]_vars => StreamInv'
  BY StreamStep
<1>3. StreamInv => StreamFollowsInit
  BY DEF StreamInv
<1> QED BY <1>1, <1>2, <1>3, PTL DEF Spec

-----------------------------------------------------------------------------
(* The state, and replies that go back: for any number of threads that call
   at the same time. *)

HostInv == TypeOK /\ CallsAreAlive /\ Handshake

(* A count below its bound can be raised. *)
LEMMA BelowBound ==
  ASSUME NEW m \in Nat, NEW n \in 0..m, n < m
  PROVE  n + 1 \in Nat /\ n + 1 \in 0..m
OBVIOUS

(* What a queue is with another element. *)
LEMMA Longer == ASSUME NEW S, NEW q \in Seq(S), NEW x \in S PROVE Append(q, x) \in Seq(S)
OBVIOUS

(* The head of a queue and what is left of it are of the queue's kind. *)
LEMMA HeadAndRest ==
  ASSUME NEW S, NEW q \in Seq(S), q # <<>> PROVE Head(q) \in S /\ Tail(q) \in Seq(S)
OBVIOUS

(* A command as Send makes it. *)
LEMMA SendMakes ==
  ASSUME TypeOK, NEW t \in Callers, NEW op \in AllOps \cup {"init", "size rx", "size tx"},
         Send(t, op)
  PROVE  \E cmd \in Command :
           /\ cmd.from = Owner[t] /\ cmd.op = op
           /\ call[t] = None /\ call' = [call EXCEPT ![t] = cmd]
           /\ sent' = sent + 1 /\ sent' \in 0..MaxCommands
           /\ cmdq' = cmdq \/ cmdq' = Append(cmdq, cmd)
<1> DEFINE cmd == [id |-> sent + 1, from |-> Owner[t], op |-> op]
<1>0. sent \in 0..MaxCommands /\ sent < MaxCommands /\ MaxCommands \in Nat
  BY ChannelAssumption DEF TypeOK, Send
<1>1. sent + 1 \in Nat /\ sent + 1 \in 0..MaxCommands
  BY <1>0, BelowBound
<1>2. cmd \in Command
  BY <1>1, NewCommand, ChannelAssumption
<1>3. /\ call[t] = None /\ call' = [call EXCEPT ![t] = cmd] /\ sent' = sent + 1
      /\ cmdq' = cmdq \/ cmdq' = Append(cmdq, cmd)
  BY DEF Send, Delivered
<1>4. cmd.from = Owner[t] /\ cmd.op = op
  OBVIOUS
<1> HIDE DEF cmd
<1> QED BY <1>1, <1>2, <1>3, <1>4

(* A command belongs to the stage its client is in. *)
LEMMA CallInv ==
  ASSUME HostInv, NEW t \in Callers, NEW op \in AllOps \cup {"init", "size rx", "size tx"},
         Send(t, op), UNCHANGED <<outcome, sending, streamq, replyq, serverVars>>,
         \/ stage[Owner[t]] = "new" /\ op = "init" /\ stage' = [stage EXCEPT ![Owner[t]] = "init"]
         \/ /\ stage[Owner[t]] \in {"size rx", "size tx"} /\ op = stage[Owner[t]]
            /\ outcome[t] # None /\ stage' = stage
         \/ stage[Owner[t]] = "ready" /\ op \in Ops /\ stage' = stage
  PROVE  HostInv'
<1> DEFINE c == Owner[t]
<1>1. c \in Clients /\ stage \in [Clients -> Stages] /\ call \in [Callers -> Command \cup {None}]
  BY ChannelAssumption DEF HostInv, TypeOK
<1>2. PICK cmd \in Command :
        /\ cmd.from = c /\ cmd.op = op
        /\ call[t] = None /\ call' = [call EXCEPT ![t] = cmd]
        /\ sent' = sent + 1 /\ sent' \in 0..MaxCommands
        /\ cmdq' = cmdq \/ cmdq' = Append(cmdq, cmd)
  BY SendMakes DEF HostInv
<1>3. \A u \in Callers : call'[u] = IF u = t THEN cmd ELSE call[u]
  BY <1>1, <1>2
<1>4. /\ stage' \in [Clients -> Stages] /\ \A e \in Clients \ {c} : stage'[e] = stage[e]
      /\ stage'[c] = IF stage[c] = "new" THEN "init" ELSE stage[c]
  BY <1>1 DEF Stages
<1>5. TypeOK'
  <2>0. cmdq \in Seq(Command)
    BY DEF HostInv, TypeOK
  <2>1. cmdq' \in Seq(Command)
    BY <1>2, <2>0, Longer
  <2>2. call' \in [Callers -> Command \cup {None}]
    BY <1>1, <1>2
  <2> QED BY <1>2, <1>4, <2>1, <2>2 DEF HostInv, TypeOK, serverVars
<1>6. CallsAreAlive'
  BY <1>3, <1>4, ChannelAssumption DEF HostInv, CallsAreAlive, Alive
<1>7. \A u \in Callers : Owner[u] # c => stage'[Owner[u]] = stage[Owner[u]] /\ call'[u] = call[u]
  BY <1>3, <1>4, ChannelAssumption
<1>8. \A u \in Callers : stage[c] = "new" /\ Owner[u] = c => call[u] = None /\ outcome[u] = None
  BY DEF HostInv, CallsAreAlive, Handshake, Alive
<1>9. ASSUME NEW u \in Callers, NEW v \in Callers, Owner[u] = Owner[v],
             stage'[Owner[u]] \in {"init", "size rx", "size tx"},
             call'[u] # None \/ outcome'[u] # None, call'[v] # None \/ outcome'[v] # None
      PROVE  u = v
  <2>1. CASE Owner[u] # c
    BY <2>1, <1>7, <1>9 DEF HostInv, Handshake
  <2>2. CASE Owner[u] = c /\ stage[c] = "new"
    BY <2>2, <1>3, <1>8, <1>9
  <2>3. CASE Owner[u] = c /\ stage[c] # "new"
    <3>1. outcome[t] # None /\ stage[c] \in {"init", "size rx", "size tx"}
      BY <2>3, <1>4, <1>9
    <3>2. \A x \in Callers : Owner[x] = c /\ (call'[x] # None \/ outcome'[x] # None) => x = t
      BY <3>1, <1>3 DEF HostInv, Handshake
    <3> QED BY <3>2, <2>3, <1>9
  <2> QED BY <2>1, <2>2, <2>3
<1>10. \A u \in Callers : stage'[Owner[u]] = "new" => outcome'[u] = None
  BY <1>4, <1>7 DEF HostInv, Handshake
<1>11. ASSUME NEW u \in Callers, call'[u] # None
       PROVE  /\ stage'[Owner[u]] = "ready" => call'[u].op \in Ops
              /\ stage'[Owner[u]] \in {"init", "size rx", "size tx"} => call'[u].op = stage'[Owner[u]]
  <2>1. CASE u = t
    BY <2>1, <1>2, <1>3, <1>4
  <2>2. CASE u # t /\ Owner[u] = c
    <3>1. call'[u] = call[u] /\ stage[c] # "new" /\ stage'[c] = stage[c]
      BY <2>2, <1>3, <1>4, <1>8, <1>11
    <3> QED BY <3>1, <2>2, <1>11 DEF HostInv, Handshake
  <2>3. CASE Owner[u] # c
    BY <2>3, <1>7, <1>11 DEF HostInv, Handshake
  <2> QED BY <2>1, <2>2, <2>3
<1>12. Handshake'
  BY <1>9, <1>10, <1>11 DEF Handshake
<1> QED BY <1>5, <1>6, <1>12 DEF HostInv

(* A caller that has its reply calls no more, and its client may go on. *)
LEMMA ReplyTaken == ASSUME HostInv, NEW t \in Callers, ReceiveReply(t) PROVE HostInv'
<1> DEFINE c == Owner[t]
<1>1. /\ c \in Clients /\ stage \in [Clients -> Stages] /\ call \in [Callers -> Command \cup {None}]
      /\ outcome \in [Callers -> [cmd : Command, reply : Reply] \cup {None}]
      /\ replyq \in [Clients -> Seq(Reply)] /\ streamq \in Seq(Frame)
  BY ChannelAssumption DEF HostInv, TypeOK
<1>2. /\ call[t] # None /\ replyq[c] # <<>>
      /\ replyq' = [replyq EXCEPT ![c] = Tail(@)]
      /\ call' = [call EXCEPT ![t] = None]
      /\ outcome' = [outcome EXCEPT ![t] = [cmd |-> call[t], reply |-> Head(replyq[c])]]
      /\ sending' = [sending EXCEPT ![c] = (@ \/ call[t].op = "start tx") /\ call[t].op # "stop tx"]
      /\ UNCHANGED <<cmdq, serverVars, sent>>
  BY DEF ReceiveReply
<1>3. /\ stage[c] \in {"init", "size rx", "size tx", "ready"}
      /\ stage[c] # "ready" => call[t].op = stage[c]
  BY <1>1, <1>2 DEF HostInv, CallsAreAlive, Handshake, Alive, Stages
<1>4. PICK s \in {"ready", "failed", "size rx", "size tx"} :
        /\ stage' = [stage EXCEPT ![c] = s]
        /\ stage[c] = "ready" <=> (s = "ready" /\ stage[c] \notin {"init", "size rx", "size tx"})
  <2>1. CASE stage[c] = "ready"
    BY <2>1 DEF ReceiveReply
  <2>2. CASE stage[c] # "ready"
    <3>1. \E s \in {"ready", "failed", "size rx", "size tx"} : stage' = [stage EXCEPT ![c] = s]
      BY <2>2, <1>3 DEF ReceiveReply
    <3> QED BY <3>1, <2>2, <1>3
  <2> QED BY <2>1, <2>2
<1>5. /\ stage' \in [Clients -> Stages] /\ stage'[c] = s
      /\ \A e \in Clients \ {c} : stage'[e] = stage[e]
  BY <1>1, <1>4 DEF Stages
<1>6. /\ Head(replyq[c]) \in Reply /\ Tail(replyq[c]) \in Seq(Reply) /\ call[t] \in Command
  <2>1. replyq[c] \in Seq(Reply) /\ replyq[c] # <<>> /\ call[t] \in Command
    BY <1>1, <1>2
  <2> QED BY <2>1, HeadAndRest
<1>7. TypeOK'
  <2>1. replyq' \in [Clients -> Seq(Reply)] /\ call' \in [Callers -> Command \cup {None}]
    BY <1>1, <1>2, <1>6
  <2>2. outcome' \in [Callers -> [cmd : Command, reply : Reply] \cup {None}]
    BY <1>1, <1>2, <1>6
  <2>3. sending' \in [Clients -> BOOLEAN]
    BY <1>2 DEF HostInv, TypeOK
  <2>4. [from |-> c, kind |-> "dummy"] \in Frame
    BY <1>1 DEF Frame
  <2>5. streamq' = streamq \/ streamq' = Append(streamq, [from |-> c, kind |-> "dummy"])
    BY DEF ReceiveReply, Delivered
  <2>6. streamq' \in Seq(Frame)
    BY <2>4, <2>5, <1>1, Longer
  <2> QED BY <2>1, <2>2, <2>3, <2>6, <1>2, <1>5 DEF HostInv, TypeOK, serverVars
<1>8. \A u \in Callers : /\ call'[u] = IF u = t THEN None ELSE call[u]
                         /\ u # t => outcome'[u] = outcome[u]
  BY <1>1, <1>2
<1>9. \A u \in Callers : Owner[u] # c => stage'[Owner[u]] = stage[Owner[u]]
  BY <1>5, ChannelAssumption
<1>10. stage[c] # "ready" => \A u \in Callers : (Owner[u] = c /\ (call[u] # None \/ outcome[u] # None)) => u = t
  BY <1>2, <1>3 DEF HostInv, Handshake
<1>11. CallsAreAlive'
  <2>1. \A u \in Callers : call'[u] # None /\ Owner[u] = c => s = "ready"
    BY <1>4, <1>8, <1>10
  <2> QED BY <2>1, <1>5, <1>8, <1>9 DEF HostInv, CallsAreAlive, Alive
<1>12. \A u \in Callers : stage'[Owner[u]] = "new" => outcome'[u] = None
  BY <1>5, <1>8, <1>9 DEF HostInv, Handshake
<1>13. ASSUME NEW u \in Callers, NEW v \in Callers, Owner[u] = Owner[v],
             stage'[Owner[u]] \in {"init", "size rx", "size tx"},
             call'[u] # None \/ outcome'[u] # None, call'[v] # None \/ outcome'[v] # None
      PROVE  u = v
  <2>1. CASE Owner[u] # c
    BY <2>1, <1>8, <1>9, <1>13 DEF HostInv, Handshake
  <2>2. CASE Owner[u] = c
    BY <2>2, <1>4, <1>5, <1>8, <1>10, <1>13
  <2> QED BY <2>1, <2>2
<1>14. ASSUME NEW u \in Callers, call'[u] # None
       PROVE  /\ stage'[Owner[u]] = "ready" => call'[u].op \in Ops
              /\ stage'[Owner[u]] \in {"init", "size rx", "size tx"} => call'[u].op = stage'[Owner[u]]
  <2>1. u # t /\ call'[u] = call[u]
    BY <1>8, <1>14
  <2>2. CASE Owner[u] # c
    BY <2>1, <2>2, <1>9, <1>14 DEF HostInv, Handshake
  <2>3. CASE Owner[u] = c
    <3>1. stage[c] = "ready" /\ stage'[c] = "ready"
      BY <2>1, <2>3, <1>4, <1>5, <1>10, <1>14
    <3> QED BY <3>1, <2>1, <2>3, <1>14 DEF HostInv, Handshake
  <2> QED BY <2>2, <2>3
<1>15. Handshake'
  BY <1>12, <1>13, <1>14 DEF Handshake
<1> QED BY <1>7, <1>11, <1>15 DEF HostInv

(* A host that dies calls no more. *)
LEMMA CrashKeeps == ASSUME HostInv, NEW c \in Clients, Crash(c) PROVE HostInv'
<1>1. /\ \A e \in Clients : stage'[e] = IF e = c THEN "dead" ELSE stage[e]
      /\ \A u \in Callers : call'[u] = IF Owner[u] = c THEN None ELSE call[u]
      /\ stage' \in [Clients -> Stages] /\ call' \in [Callers -> Command \cup {None}]
      /\ UNCHANGED <<outcome, sending, netVars, serverVars, sent>>
  BY DEF Crash, HostInv, TypeOK, Stages
<1>2. TypeOK'
  BY <1>1 DEF HostInv, TypeOK, netVars, serverVars
<1>3. CallsAreAlive'
  BY <1>1, ChannelAssumption DEF HostInv, CallsAreAlive, Alive
<1>4. Handshake'
  BY <1>1, ChannelAssumption, ZenonT(40) DEF HostInv, Handshake
<1> QED BY <1>2, <1>3, <1>4 DEF HostInv

(* What the board does leaves the hosts' stages and calls alone. *)
LEMMA BoardKeeps ==
  ASSUME HostInv, UNCHANGED <<stage, call, outcome>>, TypeOK'
  PROVE  HostInv'
<1>1. CallsAreAlive'
  BY DEF HostInv, CallsAreAlive, Alive
<1>2. Handshake'
  BY DEF HostInv, Handshake
<1> QED BY <1>1, <1>2 DEF HostInv

(* A reply leaves its queue longer, or is lost, or has no address. *)
LEMMA ReplySent ==
  ASSUME TypeOK, NEW addr, NEW cmd \in Command, NEW text \in {"ack", "done"},
         ReplyTo(addr, cmd, text)
  PROVE  /\ replyq' \in [Clients -> Seq(Reply)]
         /\ \/ replyq' = replyq
            \/ /\ addr \in Clients
               /\ replyq' = [replyq EXCEPT ![addr] =
                               Append(@, [id |-> cmd.id, of |-> cmd.from, text |-> text])]
<1> DEFINE r == [id |-> cmd.id, of |-> cmd.from, text |-> text]
<1>1. r \in Reply
  BY ReplyFields
<1>2. PICK q \in Delivered(replyq[addr], r) : replyq' = [replyq EXCEPT ![addr] = q]
  BY DEF ReplyTo
<1>3. replyq \in [Clients -> Seq(Reply)] /\ (q = replyq[addr] \/ q = Append(replyq[addr], r))
  BY <1>2 DEF TypeOK, Delivered
<1> HIDE DEF r
<1>4. CASE addr \notin Clients
  BY <1>2, <1>3, <1>4
<1>5. CASE addr \in Clients /\ q = replyq[addr]
  BY <1>2, <1>3, <1>5
<1>6. CASE addr \in Clients /\ q = Append(replyq[addr], r)
  <2>1. replyq[addr] \in Seq(Reply)
    BY <1>3, <1>6
  <2>2. q \in Seq(Reply)
    BY <2>1, <1>1, <1>6, Longer
  <2> QED BY <2>2, <1>2, <1>3, <1>6 DEF r
<1> QED BY <1>3, <1>4, <1>5, <1>6

(* What the board serves, transmits and forgets. *)
LEMMA BoardTypes ==
  ASSUME TypeOK,
         \/ Server \/ TakeFrame \/ Restart \/ \E c \in Clients : SendFrame(c)
         \/ (\E d \in Dirs : StreamFails(d)) \/ UNCHANGED vars
  PROVE  TypeOK' /\ UNCHANGED <<stage, call, outcome>>
<1>1. cmdq \in Seq(Command) /\ streamq \in Seq(Frame) /\ replyq \in [Clients -> Seq(Reply)]
  BY DEF TypeOK
<1>2. CASE ServeInit
  <2>1. /\ cmdq # <<>> /\ cmdq' = Tail(cmdq) /\ clntCMDAddr' = Head(cmdq).from /\ serverAt' = "dummy"
        /\ streaming' = [d \in Dirs |-> FALSE] /\ ReplyTo(Head(cmdq).from, Head(cmdq), "ack")
        /\ UNCHANGED <<clientVars, streamq, clntSTRAddr, clientInitiated, rxDest, sent>>
    BY <1>2 DEF ServeInit
  <2>2. Head(cmdq) \in Command /\ Tail(cmdq) \in Seq(Command)
    BY <1>1, <2>1, HeadAndRest
  <2>3. Head(cmdq).from \in Clients /\ replyq' \in [Clients -> Seq(Reply)]
    BY <2>1, <2>2, ReplySent, CommandFields
  <2> QED BY <2>1, <2>2, <2>3 DEF TypeOK, clientVars, Dirs
<1>3. CASE ServeCommand
  <2>1. /\ cmdq # <<>> /\ cmdq' = Tail(cmdq) /\ ReplyTo(clntCMDAddr, Head(cmdq), "done")
        /\ Execute(Head(cmdq).op)
        /\ UNCHANGED <<clientVars, streamq, serverAt, clntCMDAddr, clntSTRAddr, clientInitiated, sent>>
    BY <1>3 DEF ServeCommand
  <2>2. Head(cmdq) \in Command /\ Tail(cmdq) \in Seq(Command)
    BY <1>1, <2>1, HeadAndRest
  <2>3. replyq' \in [Clients -> Seq(Reply)]
    BY <2>1, <2>2, ReplySent
  <2>4. streaming' \in [Dirs -> BOOLEAN]
    <3> DEFINE on(d) == (streaming[d] \/ Head(cmdq).op = StartOf[d]) /\ Head(cmdq).op # StopOf[d]
    <3>1. streaming' = [d \in Dirs |-> on(d)]
      BY <2>1 DEF Execute
    <3>2. \A d \in Dirs : on(d) \in BOOLEAN
      BY ZenonT(20)
    <3> HIDE DEF on
    <3> QED BY <3>1, <3>2
  <2>5. rxDest' \in {clntSTRAddr, rxDest}
    BY <2>1 DEF Execute
  <2> QED BY <2>1, <2>2, <2>3, <2>4, <2>5 DEF TypeOK, clientVars
<1>4. CASE ServeIgnored
  <2>1. /\ cmdq # <<>> /\ cmdq' = Tail(cmdq)
        /\ UNCHANGED <<clientVars, streamq, replyq, serverVars, sent>>
    BY <1>4 DEF ServeIgnored
  <2> QED BY <2>1, <1>1, HeadAndRest DEF TypeOK, clientVars, serverVars
<1>5. CASE ServeDummy
  <2>1. /\ streamq # <<>> /\ streamq' = Tail(streamq) /\ clntSTRAddr' = Head(streamq).from
        /\ clientInitiated' = TRUE /\ serverAt' = "recv"
        /\ UNCHANGED <<clientVars, cmdq, replyq, clntCMDAddr, streaming, rxDest, sent>>
    BY <1>5 DEF ServeDummy
  <2>a. Head(streamq) \in Frame /\ Tail(streamq) \in Seq(Frame)
    BY <2>1, <1>1, HeadAndRest
  <2>2. Head(streamq).from \in Clients /\ Tail(streamq) \in Seq(Frame)
    BY <2>a DEF Frame
  <2> QED BY <2>1, <2>2 DEF TypeOK, clientVars
<1>6. CASE TakeFrame
  <2>1. /\ streamq # <<>> /\ streamq' = Tail(streamq)
        /\ streaming' = streaming \/ streaming' = [streaming EXCEPT !["tx"] = FALSE]
        /\ UNCHANGED <<clientVars, cmdq, replyq, serverAt, clntCMDAddr, clntSTRAddr,
                       clientInitiated, rxDest, sent>>
    BY <1>6 DEF TakeFrame
  <2>2. Tail(streamq) \in Seq(Frame)
    BY <2>1, <1>1, HeadAndRest
  <2> QED BY <2>1, <2>2 DEF TypeOK, clientVars
<1>7. CASE Restart
  <2>1. streaming' \in [Dirs -> BOOLEAN]
    BY <1>7 DEF Restart
  <2>2. cmdq' \in Seq(Command) /\ streamq' \in Seq(Frame)
    BY <1>7 DEF Restart
  <2>3. /\ serverAt' = "recv" /\ clntCMDAddr' = None /\ clntSTRAddr' = None
        /\ clientInitiated' = FALSE /\ rxDest' = None /\ UNCHANGED <<clientVars, replyq, sent>>
    BY <1>7 DEF Restart
  <2> QED BY <2>1, <2>2, <2>3 DEF TypeOK, clientVars
<1>8. ASSUME NEW c \in Clients, SendFrame(c) PROVE TypeOK' /\ UNCHANGED <<stage, call, outcome>>
  <2>1. /\ streamq' = Append(streamq, [from |-> c, kind |-> "frame"])
        /\ UNCHANGED <<clientVars, cmdq, replyq, serverVars, sent>>
    BY <1>8 DEF SendFrame
  <2>2. [from |-> c, kind |-> "frame"] \in Frame
    BY DEF Frame
  <2>3. streamq' \in Seq(Frame)
    BY <1>1, <2>1, <2>2, Longer
  <2> QED BY <2>1, <2>3 DEF TypeOK, clientVars, serverVars
<1>9. CASE UNCHANGED vars
  BY <1>9 DEF vars, clientVars, netVars, serverVars, TypeOK
<1>10. ASSUME NEW d \in Dirs, StreamFails(d) PROVE TypeOK' /\ UNCHANGED <<stage, call, outcome>>
  <2>1. /\ streaming' = [streaming EXCEPT ![d] = FALSE]
        /\ UNCHANGED <<clientVars, netVars, serverAt, clntCMDAddr, clntSTRAddr, clientInitiated,
                       rxDest, sent>>
    BY <1>10 DEF StreamFails
  <2> QED BY <2>1 DEF TypeOK, clientVars, netVars
<1> QED BY <1>2, <1>3, <1>4, <1>5, <1>6, <1>7, <1>8, <1>9, <1>10 DEF Server

(* Every step keeps the types, and each call at the stage of its client. *)
LEMMA HostsStep == ASSUME HostInv, [Next]_vars PROVE HostInv'
<1>1. CASE \E t \in Callers : Connect(t) \/ HostStep(t) \/ \E op \in Ops : SendCommand(t, op)
  <2>1. PICK t \in Callers : Connect(t) \/ HostStep(t) \/ \E op \in Ops : SendCommand(t, op)
    BY <1>1
  <2>2. CASE Connect(t)
    BY <2>2, CallInv DEF Connect
  <2>3. CASE SendSize(t)
    BY <2>3, CallInv DEF SendSize
  <2>4. CASE ReceiveReply(t)
    BY <2>4, ReplyTaken
  <2>5. ASSUME NEW op \in Ops, SendCommand(t, op) PROVE HostInv'
    BY <2>5, CallInv, ChannelAssumption DEF SendCommand
  <2> QED BY <2>1, <2>2, <2>3, <2>4, <2>5 DEF HostStep
<1>2. CASE \E c \in Clients : Crash(c)
  BY <1>2, CrashKeeps
<1>3. CASE \/ Server \/ TakeFrame \/ Restart \/ (\E c \in Clients : SendFrame(c))
           \/ (\E d \in Dirs : StreamFails(d)) \/ UNCHANGED vars
  <2>1. TypeOK' /\ UNCHANGED <<stage, call, outcome>>
    BY <1>3, BoardTypes DEF HostInv
  <2> QED BY <2>1, BoardKeeps
<1> QED BY <1>1, <1>2, <1>3 DEF Next

(* No host is there at first. *)
LEMMA HostsInit == ASSUME Init PROVE HostInv
<1>1. TypeOK
  <2>1. streaming \in [Dirs -> BOOLEAN] /\ sending \in [Clients -> BOOLEAN]
    BY DEF Init
  <2>2. cmdq \in Seq(Command) /\ streamq \in Seq(Frame) /\ replyq \in [Clients -> Seq(Reply)]
    BY DEF Init
  <2>3. stage \in [Clients -> Stages] /\ sent \in 0..MaxCommands
    BY ChannelAssumption DEF Init, Stages
  <2>4. /\ call \in [Callers -> Command \cup {None}]
        /\ outcome \in [Callers -> [cmd : Command, reply : Reply] \cup {None}]
    BY DEF Init
  <2> QED BY <2>1, <2>2, <2>3, <2>4 DEF Init, TypeOK
<1>2. CallsAreAlive /\ Handshake
  BY ChannelAssumption DEF Init, CallsAreAlive, Handshake
<1> QED BY <1>1, <1>2 DEF HostInv

(* The state of hosts, network and board is what it is declared to be,
   whatever hosts there are and however many commands they send at a time. *)
THEOREM ChannelTypes == Spec => []TypeOK
<1>1. Init => HostInv
  BY HostsInit
<1>2. HostInv /\ [Next]_vars => HostInv'
  BY HostsStep
<1>3. HostInv => TypeOK
  BY DEF HostInv
<1> QED BY <1>1, <1>2, <1>3, PTL DEF Spec

-----------------------------------------------------------------------------
(* Where replies go *)

(* The board knows no client, since it has been started anew. *)
Forgot == clntCMDAddr = None /\ ~clientInitiated /\ serverAt = "recv"

(* The client has taken the reply to its init, or can take it. *)
Joined(c) ==
  \/ stage[c] \in {"size rx", "size tx", "ready"}
  \/ stage[c] = "init" /\ replyq[c] # <<>>

(* A command but init follows one of the same client, or is served while
   the address is that client's. *)
Follows(i) ==
  cmdq[i].op # "init" =>
    IF i = 1 THEN (~clientInitiated /\ serverAt = "recv") \/ cmdq[1].from = clntCMDAddr
    ELSE cmdq[i - 1].from = cmdq[i].from

InTurn == \A i \in 1..Len(cmdq) : Follows(i)

(* A client's first command is behind all of the clients before it, and once
   it has been served all that is queued is the client's. *)
Turn(c) ==
  /\ stage[c] = "new" => replyq[c] = <<>> /\ \A i \in 1..Len(cmdq) : cmdq[i].from # c
  /\ stage[c] = "init" => \A i \in 1..Len(cmdq) : cmdq[i].from = c => i = Len(cmdq)
  /\ Joined(c) => /\ clntCMDAddr = c \/ Forgot
                  /\ \A i \in 1..Len(cmdq) : cmdq[i].from = c

BackInv == OneAlive /\ InTurn /\ (\A c \in Clients : Turn(c)) /\ ReplyGoesBack

(* What a queue is with one more element. *)
LEMMA AppendedTo ==
  ASSUME NEW S, NEW q \in Seq(S), NEW x \in S, NEW p, p = Append(q, x)
  PROVE  /\ Len(q) \in Nat /\ Len(p) = Len(q) + 1
         /\ \A i \in 1..Len(q) : i \in 1..Len(p) /\ i # Len(p) /\ p[i] = q[i]
         /\ \A i \in 1..Len(p) :
              /\ i = 1 \/ i - 1 \in 1..Len(q)
              /\ (i \in 1..Len(q) /\ p[i] = q[i]) \/ (i = Len(p) /\ p[i] = x)
<1>1. /\ Len(q) \in Nat /\ Len(p) = Len(q) + 1 /\ p[Len(q) + 1] = x
      /\ \A i \in 1..Len(q) : p[i] = q[i]
  OBVIOUS

<1> QED BY <1>1

(* ... and the command socket with one more command. *)
LEMMA Queueing ==
  ASSUME TypeOK, NEW cmd \in Command, cmdq' = Append(cmdq, cmd)
  PROVE  /\ \A i \in 1..Len(cmdq) : i \in 1..Len(cmdq') /\ cmdq'[i] = cmdq[i]
         /\ \A i \in 1..Len(cmdq') :
              /\ i = 1 \/ i - 1 \in 1..Len(cmdq)
              /\ (i \in 1..Len(cmdq) /\ cmdq'[i] = cmdq[i]) \/ (i = Len(cmdq') /\ cmdq'[i] = cmd)
<1>1. cmdq \in Seq(Command)
  BY DEF TypeOK
<1> QED BY <1>1, AppendedTo

(* A host that has joined has its commands queued after its own. *)
LEMMA CommandTurn ==
  ASSUME TypeOK, BackInv, NEW t \in Callers, NEW cmd \in Command, cmd.from = Owner[t],
         stage[Owner[t]] \in {"size rx", "size tx", "ready"},
         cmdq' = cmdq \/ cmdq' = Append(cmdq, cmd),
         UNCHANGED <<stage, replyq, serverAt, clntCMDAddr, clientInitiated>>
  PROVE  BackInv'
<1> DEFINE c == Owner[t]
<1>1. c \in Clients /\ cmdq \in Seq(Command) /\ Joined(c) /\ Alive(c)
  BY ChannelAssumption DEF TypeOK, Joined, Alive
<1>2. /\ clntCMDAddr = c \/ Forgot
      /\ \A i \in 1..Len(cmdq) : cmdq[i].from = c
  BY <1>1 DEF BackInv, Turn
<1>3. CASE cmdq' = cmdq
  BY <1>3, ZenonT(40) DEF BackInv, OneAlive, Alive, InTurn, Follows, Turn, Joined, Forgot, ReplyGoesBack
<1>4. CASE cmdq' = Append(cmdq, cmd)
  <2>1. /\ \A i \in 1..Len(cmdq) : i \in 1..Len(cmdq') /\ cmdq'[i] = cmdq[i]
        /\ \A i \in 1..Len(cmdq') :
             /\ i = 1 \/ i - 1 \in 1..Len(cmdq)
             /\ (i \in 1..Len(cmdq) /\ cmdq'[i] = cmdq[i]) \/ (i = Len(cmdq') /\ cmdq'[i] = cmd)
    BY <1>4, Queueing
  <2>2. \A i \in 1..Len(cmdq') : cmdq'[i].from = c
    BY <2>1, <1>2
  <2>3. InTurn'
    <3> SUFFICES ASSUME NEW i \in 1..Len(cmdq') PROVE Follows(i)'
      BY DEF InTurn
    <3>1. CASE i = 1
      BY <3>1, <2>1, <2>2, <1>2 DEF Follows, Forgot
    <3>2. CASE i # 1
      <4>1. cmdq'[i - 1].from = c
        BY <3>2, <2>1, <1>2
      <4> QED BY <4>1, <3>2, <2>2 DEF Follows
    <3> QED BY <3>1, <3>2
  <2>4. ASSUME NEW e \in Clients PROVE Turn(e)'
    <3>1. CASE e = c
      BY <3>1, <2>2, <1>2 DEF Turn, Joined, Forgot
    <3>2. CASE e # c
      <4>1. ~Alive(e)
        BY <3>2, <1>1 DEF BackInv, OneAlive
      <4>2. stage[e] # "init" /\ ~Joined(e)
        BY <4>1 DEF Alive, Joined
      <4>3. stage[e] = "new" => replyq[e] = <<>>
        BY DEF BackInv, Turn
      <4> QED BY <4>2, <4>3, <3>2, <2>2 DEF Turn, Joined
    <3> QED BY <3>1, <3>2
  <2> QED BY <2>3, <2>4 DEF BackInv, OneAlive, Alive, ReplyGoesBack
<1> QED BY <1>3, <1>4

(* A new host's init is behind what the hosts before it have sent. *)
LEMMA ConnectTurn ==
  ASSUME OneHost, TypeOK, BackInv, NEW t \in Callers, Connect(t) PROVE BackInv'
<1> DEFINE c == Owner[t]
<1>1. /\ c \in Clients /\ cmdq \in Seq(Command) /\ stage \in [Clients -> Stages]
      /\ stage[c] = "new" /\ Send(t, "init") /\ stage' = [stage EXCEPT ![c] = "init"]
      /\ OneAtATime => \A e \in Clients : ~Alive(e)
      /\ UNCHANGED <<replyq, serverVars>>
  BY ChannelAssumption DEF Connect, TypeOK
<1>2. PICK cmd \in Command :
        /\ cmd.from = c /\ cmd.op = "init"
        /\ call[t] = None /\ call' = [call EXCEPT ![t] = cmd]
        /\ sent' = sent + 1 /\ sent' \in 0..MaxCommands
        /\ cmdq' = cmdq \/ cmdq' = Append(cmdq, cmd)
  <2>1. "init" \in AllOps \cup {"init", "size rx", "size tx"} /\ Send(t, "init")
    BY <1>1
  <2> QED BY <2>1, SendMakes
<1>3. stage'[c] = "init" /\ \A e \in Clients \ {c} : stage'[e] = stage[e]
  BY <1>1
<1>4. \A e \in Clients \ {c} : ~Alive(e)
  BY <1>1 DEF OneHost
<1>5. OneAlive'
  BY <1>3, <1>4 DEF OneAlive, Alive
<1>6. \A i \in 1..Len(cmdq) : cmdq[i].from # c
  BY <1>1 DEF BackInv, Turn
<1>7. /\ \A i \in 1..Len(cmdq) : i \in 1..Len(cmdq') /\ cmdq'[i] = cmdq[i]
      /\ \A i \in 1..Len(cmdq') :
           \/ i \in 1..Len(cmdq) /\ cmdq'[i] = cmdq[i] /\ (i = 1 \/ i - 1 \in 1..Len(cmdq))
           \/ i = Len(cmdq') /\ cmdq'[i] = cmd
  <2>1. CASE cmdq' = cmdq
    <3>1. Len(cmdq) \in Nat
      BY <1>1
    <3>2. \A i \in 1..Len(cmdq) : i = 1 \/ i - 1 \in 1..Len(cmdq)
      BY <3>1
    <3> QED BY <3>2, <2>1
  <2>2. CASE cmdq' = Append(cmdq, cmd)
    BY <2>2, <1>1, AppendedTo
  <2> QED BY <2>1, <2>2, <1>2
<1>8. InTurn'
  <2> SUFFICES ASSUME NEW i \in 1..Len(cmdq') PROVE Follows(i)'
    BY DEF InTurn
  <2>1. CASE i \in 1..Len(cmdq) /\ cmdq'[i] = cmdq[i] /\ (i = 1 \/ i - 1 \in 1..Len(cmdq))
    BY <2>1, <1>1, <1>7 DEF BackInv, InTurn, Follows, serverVars
  <2>2. CASE cmdq'[i] = cmd
    BY <2>2, <1>2 DEF Follows
  <2> QED BY <2>1, <2>2, <1>7
<1>9. ASSUME NEW e \in Clients PROVE Turn(e)'
  <2>1. CASE e = c
    <3>1. replyq[c] = <<>>
      BY <1>1 DEF BackInv, Turn
    <3>2. \A i \in 1..Len(cmdq') : cmdq'[i].from = c => i = Len(cmdq')
      BY <1>6, <1>7
    <3> QED BY <3>1, <3>2, <2>1, <1>1, <1>3 DEF Turn, Joined
  <2>2. CASE e # c
    <3>1. stage'[e] = stage[e] /\ stage[e] # "init" /\ ~Joined(e)
      BY <2>2, <1>3, <1>4 DEF Alive, Joined
    <3>2. stage[e] = "new" => replyq[e] = <<>> /\ \A i \in 1..Len(cmdq') : cmdq'[i].from # e
      BY <2>2, <1>2, <1>7 DEF BackInv, Turn
    <3> QED BY <3>1, <3>2, <1>1 DEF Turn, Joined
  <2> QED BY <2>1, <2>2
<1> QED BY <1>1, <1>5, <1>8, <1>9 DEF BackInv, ReplyGoesBack

(* Steps that change neither the commands, nor the replies, nor the address. *)
LEMMA TurnStays ==
  ASSUME BackInv, UNCHANGED <<stage, cmdq, replyq, serverAt, clntCMDAddr, clientInitiated>>
  PROVE  BackInv'
<1>1. InTurn'
  BY DEF BackInv, InTurn, Follows
<1>2. \A c \in Clients : Turn(c)'
  BY DEF BackInv, Turn, Joined, Forgot
<1> QED BY <1>1, <1>2 DEF BackInv, OneAlive, Alive, ReplyGoesBack

(* Places of a sequence and of what is left of it. *)
LEMMA Indices ==
  ASSUME NEW n \in Nat \ {0}, NEW m, m = n - 1, NEW i \in 1..m
  PROVE  /\ i + 1 \in 1..n /\ i + 1 # 1 /\ (i + 1) - 1 = i
         /\ i + 1 = n => i = m
         /\ i # 1 => i - 1 \in 1..m /\ (i - 1) + 1 = i
OBVIOUS

(* What is behind the head of a queue. *)
LEMMA BehindHead ==
  ASSUME NEW S, NEW q \in Seq(S), q # <<>>, NEW p, p = Tail(q)
  PROVE  /\ 1 \in 1..Len(q) /\ (1 = Len(q) => \A i \in 1..Len(p) : FALSE)
         /\ \A i \in 1..Len(p) :
              /\ p[i] = q[i + 1] /\ i + 1 \in 1..Len(q) /\ i + 1 # 1
              /\ i + 1 = Len(q) => i = Len(p)
              /\ i # 1 => p[i - 1] = q[(i + 1) - 1]
              /\ i = 1 => q[1] = q[(i + 1) - 1]
<1> DEFINE n == Len(q)
           m == Len(p)
<1>1. n \in Nat \ {0} /\ m = n - 1 /\ \A i \in 1..m : p[i] = q[i + 1]
  BY RestOf
<1> HIDE DEF n, m
<1>2. 1 \in 1..n /\ (1 = n => \A i \in 1..m : FALSE)
  BY <1>1
<1>3. ASSUME NEW i \in 1..m
      PROVE  /\ p[i] = q[i + 1] /\ i + 1 \in 1..n /\ i + 1 # 1
             /\ i + 1 = n => i = m
             /\ i # 1 => p[i - 1] = q[(i + 1) - 1]
             /\ i = 1 => q[1] = q[(i + 1) - 1]
  <2>1. /\ i + 1 \in 1..n /\ i + 1 # 1 /\ (i + 1) - 1 = i
        /\ i + 1 = n => i = m
        /\ i # 1 => i - 1 \in 1..m /\ (i - 1) + 1 = i
    BY <1>1, Indices
  <2>2. i # 1 => p[i - 1] = q[(i - 1) + 1]
    BY <1>1, <2>1
  <2> QED BY <1>1, <2>1, <2>2
<1> QED BY <1>2, <1>3 DEF n, m

(* ... of the command that is served. *)
LEMMA Behind ==
  ASSUME TypeOK, cmdq # <<>>, cmdq' = Tail(cmdq)
  PROVE  /\ Head(cmdq) = cmdq[1] /\ Head(cmdq) \in Command
         /\ 1 \in 1..Len(cmdq) /\ (1 = Len(cmdq) => \A i \in 1..Len(cmdq') : FALSE)
         /\ \A i \in 1..Len(cmdq') :
              /\ cmdq'[i] = cmdq[i + 1] /\ i + 1 \in 1..Len(cmdq) /\ i + 1 # 1
              /\ i + 1 = Len(cmdq) => i = Len(cmdq')
              /\ i # 1 => cmdq'[i - 1] = cmdq[(i + 1) - 1]
              /\ i = 1 => cmdq[1] = cmdq[(i + 1) - 1]
<1>1. cmdq \in Seq(Command)
  BY DEF TypeOK
<1>2. Head(cmdq) = cmdq[1] /\ Head(cmdq) \in Command
  BY <1>1, RestOf, HeadAndRest
<1> QED BY <1>1, <1>2, BehindHead

(* The elements of a queue with one more. *)
LEMMA LastOrBefore ==
  ASSUME NEW S, NEW q \in Seq(S), NEW x, NEW p, p = Append(q, x)
  PROVE  \A i \in DOMAIN p : p[i] = x \/ (i \in DOMAIN q /\ p[i] = q[i])
OBVIOUS

(* The head of the queue is served, and its client has the address. *)
LEMMA AnswerTurn ==
  ASSUME TypeOK, BackInv, NEW h \in Clients, NEW r, cmdq # <<>>, cmdq' = Tail(cmdq),
         Head(cmdq).from = h, r.of = h, clntCMDAddr' = h,
         replyq' = replyq \/ replyq' = [replyq EXCEPT ![h] = Append(@, r)],
         UNCHANGED <<stage, clientInitiated>>
  PROVE  BackInv'
<1>1. /\ cmdq[1].from = h /\ 1 \in 1..Len(cmdq)
      /\ 1 = Len(cmdq) => \A i \in 1..Len(cmdq') : FALSE
      /\ \A i \in 1..Len(cmdq') :
           /\ cmdq'[i] = cmdq[i + 1] /\ i + 1 \in 1..Len(cmdq) /\ i + 1 # 1
           /\ i + 1 = Len(cmdq) => i = Len(cmdq')
           /\ i # 1 => cmdq'[i - 1] = cmdq[(i + 1) - 1]
           /\ i = 1 => cmdq[1] = cmdq[(i + 1) - 1]
  BY Behind
<1>2. replyq \in [Clients -> Seq(Reply)]
  BY DEF TypeOK
<1>3. \A e \in Clients \ {h} : replyq'[e] = replyq[e]
  BY <1>2
<1>4. InTurn'
  <2> SUFFICES ASSUME NEW i \in 1..Len(cmdq') PROVE Follows(i)'
    BY DEF InTurn
  <2>1. cmdq[i + 1].op # "init" => cmdq[(i + 1) - 1].from = cmdq[i + 1].from
    BY <1>1 DEF BackInv, InTurn, Follows
  <2> QED BY <2>1, <1>1 DEF Follows
<1>5. ASSUME NEW e \in Clients PROVE Turn(e)'
  <2>1. stage[e] = "new" => replyq'[e] = <<>> /\ \A i \in 1..Len(cmdq') : cmdq'[i].from # e
    BY <1>1, <1>3 DEF BackInv, Turn
  <2>2. stage[e] = "init" => \A i \in 1..Len(cmdq') : cmdq'[i].from = e => i = Len(cmdq')
    BY <1>1 DEF BackInv, Turn
  <2>3. CASE Joined(e)
    BY <2>1, <2>2, <2>3, <1>1 DEF BackInv, Turn
  <2>4. CASE ~Joined(e) /\ Joined(e)'
    <3>1. stage[e] = "init" /\ replyq'[e] # replyq[e]
      BY <2>4 DEF Joined
    <3>2. e = h
      BY <3>1, <1>3
    <3>3. \A i \in 1..Len(cmdq') : FALSE
      BY <3>1, <3>2, <1>1 DEF BackInv, Turn
    <3> QED BY <2>1, <2>2, <3>2, <3>3 DEF Turn
  <2>5. CASE ~Joined(e)'
    BY <2>1, <2>2, <2>5 DEF Turn
  <2> QED BY <2>3, <2>4, <2>5
<1>6. ReplyGoesBack'
  <2> SUFFICES ASSUME NEW e \in Clients PROVE \A i \in DOMAIN replyq'[e] : replyq'[e][i].of = e
    BY DEF ReplyGoesBack
  <2>1. CASE replyq'[e] = replyq[e]
    BY <2>1 DEF BackInv, ReplyGoesBack
  <2>2. CASE replyq'[e] # replyq[e]
    <3>1. e = h /\ replyq'[e] = Append(replyq[e], r) /\ replyq[e] \in Seq(Reply)
      BY <2>2, <1>2, <1>3
    <3>2. \A i \in DOMAIN replyq'[e] : replyq'[e][i] = r \/ (i \in DOMAIN replyq[e] /\ replyq'[e][i] = replyq[e][i])
      BY <3>1, LastOrBefore
    <3>3. \A i \in DOMAIN replyq[e] : replyq[e][i].of = e
      BY DEF BackInv, ReplyGoesBack
    <3> QED BY <3>1, <3>2, <3>3
  <2> QED BY <2>1, <2>2
<1> QED BY <1>4, <1>5, <1>6 DEF BackInv, OneAlive, Alive

(* A command that is not answered: the board has been started anew. *)
LEMMA IgnoredTurn == ASSUME TypeOK, BackInv, ServeIgnored PROVE BackInv'
<1>0. /\ serverAt = "recv" /\ cmdq # <<>> /\ ~clientInitiated /\ cmdq' = Tail(cmdq)
      /\ UNCHANGED <<stage, replyq, serverAt, clntCMDAddr, clientInitiated>>
  BY DEF ServeIgnored, clientVars, serverVars
<1>1. \A i \in 1..Len(cmdq') :
        /\ cmdq'[i] = cmdq[i + 1] /\ i + 1 \in 1..Len(cmdq) /\ i + 1 # 1
        /\ i + 1 = Len(cmdq) => i = Len(cmdq')
        /\ i # 1 => cmdq'[i - 1] = cmdq[(i + 1) - 1]
  BY <1>0, Behind
<1>2. InTurn'
  <2> SUFFICES ASSUME NEW i \in 1..Len(cmdq') PROVE Follows(i)'
    BY DEF InTurn
  <2>1. cmdq[i + 1].op # "init" => cmdq[(i + 1) - 1].from = cmdq[i + 1].from
    BY <1>1 DEF BackInv, InTurn, Follows
  <2> QED BY <2>1, <1>0, <1>1 DEF Follows
<1>3. ASSUME NEW e \in Clients PROVE Turn(e)'
  <2>1. Joined(e)' <=> Joined(e)
    BY <1>0 DEF Joined
  <2>2. clntCMDAddr = e \/ Forgot => clntCMDAddr' = e \/ Forgot'
    BY <1>0 DEF Forgot
  <2>3. Turn(e)
    BY DEF BackInv
  <2>4. stage[e] = "new" => replyq'[e] = <<>> /\ \A i \in 1..Len(cmdq') : cmdq'[i].from # e
    BY <2>3, <1>0, <1>1 DEF Turn
  <2>5. stage[e] = "init" => \A i \in 1..Len(cmdq') : cmdq'[i].from = e => i = Len(cmdq')
    BY <2>3, <1>0, <1>1 DEF Turn
  <2>6. Joined(e) => (clntCMDAddr = e \/ Forgot) /\ \A i \in 1..Len(cmdq') : cmdq'[i].from = e
    BY <2>3, <1>0, <1>1 DEF Turn
  <2> QED BY <1>0, <2>1, <2>2, <2>4, <2>5, <2>6 DEF Turn
<1> QED BY <1>0, <1>2, <1>3 DEF BackInv, OneAlive, Alive, ReplyGoesBack

(* A client takes its init's reply only after the board has served the init. *)
LEMMA ReceiveTurn ==
  ASSUME HostInv, BackInv, NEW t \in Callers, ReceiveReply(t) PROVE BackInv'
<1> DEFINE c == Owner[t]
<1>1. /\ c \in Clients /\ Alive(c) /\ replyq[c] # <<>> /\ replyq' = [replyq EXCEPT ![c] = Tail(@)]
      /\ UNCHANGED <<cmdq, serverAt, clntCMDAddr, clientInitiated>>
  BY ChannelAssumption DEF ReceiveReply, HostInv, CallsAreAlive, serverVars
<1>2. /\ \A e \in Clients \ {c} : stage'[e] = stage[e]
      /\ stage'[c] \in {"ready", "failed", "size rx", "size tx"}
  <2>1. stage[c] # "ready" => call[t].op = stage[c] /\ stage[c] \in {"init", "size rx", "size tx"}
    BY <1>1 DEF ReceiveReply, HostInv, Handshake, TypeOK, Alive, Stages
  <2>2. \E s \in {"ready", "failed", "size rx", "size tx"} : stage' = [stage EXCEPT ![c] = s]
    <3>1. CASE stage[c] = "ready"
      BY <3>1 DEF ReceiveReply
    <3>2. CASE stage[c] # "ready"
      BY <3>2, <2>1 DEF ReceiveReply
    <3> QED BY <3>1, <3>2
  <2> QED BY <2>2, <1>1 DEF HostInv, TypeOK
<1>3. replyq \in [Clients -> Seq(Reply)]
  BY DEF HostInv, TypeOK
<1>4. \A e \in Clients \ {c} : replyq'[e] = replyq[e]
  BY <1>1, <1>3
<1>5. Joined(c)
  <2>1. stage[c] \in Stages
    BY <1>1 DEF HostInv, TypeOK
  <2> QED BY <2>1, <1>1 DEF Alive, Joined, Stages
<1>6. OneAlive'
  BY <1>1, <1>2 DEF BackInv, OneAlive, Alive
<1>7. InTurn'
  BY <1>1 DEF BackInv, InTurn, Follows
<1>8. ASSUME NEW e \in Clients PROVE Turn(e)'
  <2>1. CASE e = c
    BY <2>1, <1>1, <1>2, <1>5 DEF BackInv, Turn, Forgot
  <2>2. CASE e # c
    BY <2>2, <1>1, <1>2, <1>4 DEF BackInv, Turn, Joined, Forgot
  <2> QED BY <2>1, <2>2
<1>9. ReplyGoesBack'
  <2> SUFFICES ASSUME NEW e \in Clients PROVE \A i \in DOMAIN replyq'[e] : replyq'[e][i].of = e
    BY DEF ReplyGoesBack
  <2>1. CASE e # c
    BY <2>1, <1>4 DEF BackInv, ReplyGoesBack
  <2>2. CASE e = c
    <3>1. replyq[c] \in Seq(Reply) /\ replyq[c] # <<>> /\ replyq'[c] = Tail(replyq[c])
      BY <1>1, <1>3
    <3>2. \A i \in DOMAIN replyq'[c] : i + 1 \in DOMAIN replyq[c] /\ replyq'[c][i] = replyq[c][i + 1]
      BY <3>1
    <3> QED BY <3>2, <2>2, <1>1 DEF BackInv, ReplyGoesBack
  <2> QED BY <2>1, <2>2
<1> QED BY <1>6, <1>7, <1>8, <1>9 DEF BackInv

(* init takes the address, another command is that of the address's client. *)
LEMMA ServeTurn == ASSUME TypeOK, BackInv, ServeInit \/ ServeCommand PROVE BackInv'
<1> DEFINE h == Head(cmdq).from
           text == IF Head(cmdq).op = "init" THEN "ack" ELSE "done"
           r == [id |-> Head(cmdq).id, of |-> h, text |-> text]
<1>1. /\ cmdq # <<>> /\ cmdq' = Tail(cmdq) /\ UNCHANGED <<stage, clientInitiated>>
      /\ ReplyTo(clntCMDAddr', Head(cmdq), text)
  BY DEF ServeInit, ServeCommand, clientVars
<1>2. Head(cmdq) = cmdq[1] /\ Head(cmdq) \in Command /\ 1 \in 1..Len(cmdq)
  BY <1>1, Behind
<1>3. h \in Clients
  BY <1>2, CommandFields
<1>4. clntCMDAddr' = h
  <2>1. CASE ServeInit
    BY <2>1 DEF ServeInit
  <2>2. CASE ServeCommand
    <3>1. clntCMDAddr' = clntCMDAddr /\ clientInitiated /\ cmdq[1].op # "init"
      BY <2>2, <1>2 DEF ServeCommand
    <3>2. Follows(1)
      BY <1>2 DEF BackInv, InTurn
    <3> QED BY <3>1, <3>2, <1>2 DEF Follows
  <2> QED BY <2>1, <2>2
<1>5. replyq' = replyq \/ replyq' = [replyq EXCEPT ![h] = Append(@, r)]
  <2>1. text \in {"ack", "done"}
    OBVIOUS
  <2> HIDE DEF text
  <2>2. ReplyTo(h, Head(cmdq), text)
    BY <1>1, <1>4
  <2>3. Head(cmdq) \in Command
    BY <1>2
  <2>4. \/ replyq' = replyq
        \/ /\ h \in Clients
           /\ replyq' = [replyq EXCEPT ![h] =
                           Append(@, [id |-> Head(cmdq).id, of |-> Head(cmdq).from, text |-> text])]
    BY <2>1, <2>2, <2>3, ReplySent, ZenonT(40)
  <2> QED BY <2>4
<1>6. r.of = h
  OBVIOUS
<1> HIDE DEF r, text
<1> QED BY <1>1, <1>3, <1>4, <1>5, <1>6, AnswerTurn

(* A host that dies, a dummy that is taken, a board that is restarted. *)
LEMMA OtherTurn ==
  ASSUME TypeOK, BackInv, ServeDummy \/ Restart \/ \E c \in Clients : Crash(c) PROVE BackInv'
<1>1. CASE ServeDummy
  <2>1. /\ serverAt = "dummy" /\ UNCHANGED <<stage, cmdq, replyq, clntCMDAddr>>
    BY <1>1 DEF ServeDummy, clientVars
  <2>2. InTurn'
    BY <2>1 DEF BackInv, InTurn, Follows
  <2>3. \A c \in Clients : Turn(c)'
    BY <2>1 DEF BackInv, Turn, Joined, Forgot
  <2> QED BY <2>1, <2>2, <2>3 DEF BackInv, OneAlive, Alive, ReplyGoesBack
<1>2. CASE Restart
  <2>1. cmdq' = <<>> /\ Forgot' /\ UNCHANGED <<stage, replyq>>
    BY <1>2 DEF Restart, Forgot, clientVars
  <2>2. \A i \in 1..Len(cmdq') : FALSE
    BY <2>1
  <2>3. \A c \in Clients : Turn(c)'
    BY <2>1, <2>2 DEF BackInv, Turn, Joined
  <2> QED BY <2>1, <2>2, <2>3 DEF BackInv, InTurn, OneAlive, Alive, ReplyGoesBack
<1>3. ASSUME NEW c \in Clients, Crash(c) PROVE BackInv'
  <2>1. /\ \A e \in Clients : stage'[e] = IF e = c THEN "dead" ELSE stage[e]
        /\ UNCHANGED <<cmdq, replyq, serverAt, clntCMDAddr, clientInitiated>>
    BY <1>3 DEF Crash, TypeOK, netVars, serverVars
  <2>2. InTurn'
    BY <2>1 DEF BackInv, InTurn, Follows
  <2>3. ASSUME NEW e \in Clients PROVE Turn(e)'
    <3>1. CASE e = c
      BY <3>1, <2>1 DEF Turn, Joined
    <3>2. CASE e # c
      BY <3>2, <2>1 DEF BackInv, Turn, Joined, Forgot
    <3> QED BY <3>1, <3>2
  <2>4. OneAlive'
    BY <2>1 DEF BackInv, OneAlive, Alive
  <2> QED BY <2>1, <2>2, <2>3, <2>4 DEF BackInv, ReplyGoesBack
<1> QED BY <1>1, <1>2, <1>3

(* Every step keeps the turns of the hosts. *)
LEMMA TurnStep == ASSUME OneHost, HostInv, BackInv, [Next]_vars PROVE BackInv'
<1>0. TypeOK
  BY DEF HostInv
<1>1. CASE \E t \in Callers : Connect(t) \/ HostStep(t) \/ \E op \in Ops : SendCommand(t, op)
  <2>1. PICK t \in Callers : Connect(t) \/ HostStep(t) \/ \E op \in Ops : SendCommand(t, op)
    BY <1>1
  <2>2. CASE Connect(t)
    BY <2>2, <1>0, ConnectTurn
  <2>3. ASSUME NEW op \in AllOps \cup {"init", "size rx", "size tx"},
               stage[Owner[t]] \in {"size rx", "size tx", "ready"}, Send(t, op),
               UNCHANGED <<stage, outcome, sending, streamq, replyq, serverVars>>
        PROVE  BackInv'
    <3>1. PICK cmd \in Command :
            /\ cmd.from = Owner[t] /\ cmd.op = op
            /\ call[t] = None /\ call' = [call EXCEPT ![t] = cmd]
            /\ sent' = sent + 1 /\ sent' \in 0..MaxCommands
            /\ cmdq' = cmdq \/ cmdq' = Append(cmdq, cmd)
      BY <1>0, <2>3, SendMakes
    <3>2. UNCHANGED <<stage, replyq, serverAt, clntCMDAddr, clientInitiated>>
      BY <2>3 DEF serverVars
    <3> QED BY <1>0, <2>3, <3>1, <3>2, CommandTurn
  <2>4. CASE SendSize(t)
    BY <2>3, <2>4 DEF SendSize
  <2>5. ASSUME NEW op \in Ops, SendCommand(t, op) PROVE BackInv'
    BY <2>3, <2>5, ChannelAssumption DEF SendCommand
  <2>6. CASE ReceiveReply(t)
    BY <2>6, ReceiveTurn
  <2> QED BY <2>1, <2>2, <2>4, <2>5, <2>6 DEF HostStep
<1>2. CASE \/ (\E c \in Clients : SendFrame(c)) \/ TakeFrame
           \/ (\E d \in Dirs : StreamFails(d)) \/ UNCHANGED vars
  <2>1. UNCHANGED <<stage, cmdq, replyq, serverAt, clntCMDAddr, clientInitiated>>
    BY <1>2 DEF SendFrame, TakeFrame, StreamFails, vars, clientVars, netVars, serverVars
  <2> QED BY <2>1, TurnStays
<1>3. CASE (\E c \in Clients : Crash(c)) \/ ServeDummy \/ Restart
  BY <1>0, <1>3, OtherTurn
<1>4. CASE ServeInit \/ ServeCommand
  BY <1>0, <1>4, ServeTurn
<1>5. CASE ServeIgnored
  BY <1>0, <1>5, IgnoredTurn
<1> QED BY <1>1, <1>2, <1>3, <1>4, <1>5 DEF Next, Server

(* Before anything is sent, nothing is out of turn. *)
LEMMA TurnInit == ASSUME Init PROVE BackInv
<1>1. cmdq = <<>> /\ \A c \in Clients : stage[c] = "new" /\ replyq[c] = <<>>
  BY DEF Init
<1>2. (\A i \in 1..Len(cmdq) : FALSE) /\ \A c \in Clients : \A i \in DOMAIN replyq[c] : FALSE
  BY <1>1
<1>3. OneAlive /\ InTurn /\ ReplyGoesBack
  BY <1>1, <1>2 DEF OneAlive, Alive, InTurn, ReplyGoesBack
<1>4. \A c \in Clients : Turn(c)
  BY <1>1, <1>2 DEF Turn, Joined
<1> QED BY <1>3, <1>4 DEF BackInv

(***************************************************************************)
(* The board answers at the address of the last init, not at that of the   *)
(* command.  Replies reach the sender all the same, for any hosts that are *)
(* there one at a time, with any number of threads that call at the same   *)
(* time: commands are served in the order they were sent, so that those of *)
(* a host are served between its init and the next one.                    *)
(***************************************************************************)
THEOREM RepliesGoBack == ASSUME OneHost PROVE Spec => []ReplyGoesBack
<1>1. Init => HostInv /\ BackInv
  BY HostsInit, TurnInit
<1>2. HostInv /\ BackInv /\ [Next]_vars => (HostInv /\ BackInv)'
  BY HostsStep, TurnStep
<1>3. BackInv => ReplyGoesBack
  BY DEF BackInv
<1> QED BY <1>1, <1>2, <1>3, PTL DEF Spec
=============================================================================
