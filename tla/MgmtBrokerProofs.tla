--------------------------- MODULE MgmtBrokerProofs ---------------------------
(***************************************************************************)
(* Proofs about MgmtBroker, for any clients, callers and connections.      *)
(*                                                                         *)
(* Replies on the console carry no tag, so that a reply belongs to its     *)
(* command is a fact about everything that is on its way: what the loop    *)
(* has written, what OpenVPN has answered and what the loop has collected. *)
(* StatusOK and ExchangeOK say for each connection what these can be.      *)
(***************************************************************************)
EXTENDS MgmtBroker, TLAPS

InflightRec == [busy : BOOLEAN, cmd : Cmd, for : SUBSET Callers, buf : Seq(Line)]
CallRec == [stage : Stage, cmd : Cmd, broker : 0 .. MaxConns, resp : SUBSET Answer,
            answer : Answer, victim : Users]

-----------------------------------------------------------------------------
(* Typing *)

\* The commands of callers and of the loop.
LEMMA CmdTypes ==
    /\ Status \in Cmd
    /\ \A u \in Users : Kill(u) \in Cmd /\ ClientAuth(u) \in Cmd /\ ClientDeny(u) \in Cmd
BY DEF Cmd

\* A command that changes who is connected names a user.
LEMMA CmdUser ==
    ASSUME NEW c \in Cmd, c.op \in {"kill", "client-auth-nt"}
    PROVE  c.user \in Users
BY DEF Cmd, Status, Kill, ClientAuth, ClientDeny

\* The lines that OpenVPN writes.
LEMMA LineTypes ==
    /\ SUCCESS \in Line /\ ERROR \in Line /\ END \in Line
    /\ \A L \in SUBSET Users : Data(L) \in Line
    /\ \A u \in Users : CONNECT(u) \in Line
BY DEF Line

\* What a line carries.
LEMMA LineContents ==
    ASSUME NEW l \in Line
    PROVE  /\ l.kind = "DATA" => l.clients \in SUBSET Users
           /\ l.kind = "CONNECT" => l.user \in Users
BY DEF Line, SUCCESS, ERROR, END, Data, CONNECT

\* The resting values have their types.
LEMMA RestTypes ==
    /\ NoConn \in Conn
    /\ NoInflight \in InflightRec
    /\ NoAnswer \in Answer
    /\ NoCall \in CallRec
<1>1. NoConn \in Conn
  BY BrokerAssumption DEF NoConn, Conn, Phase
<1>2. <<>> \in Seq(Line)
  OBVIOUS
<1>3. NoInflight \in InflightRec
  BY <1>2, CmdTypes DEF NoInflight, InflightRec
<1>4. NoAnswer \in Answer
  BY DEF NoAnswer, Answer
<1>5. AnyUser \in Users
  BY BrokerAssumption DEF AnyUser
<1> QED
  BY <1>1, <1>3, <1>4, <1>5, CmdTypes, BrokerAssumption
     DEF NoCall, CallRec, Stage, Nobody

\* What callers make of the lines of a reply is an answer.
LEMMA ParsedType ==
    ASSUME NEW c, NEW b \in Seq(Line)
    PROVE  ParsedReply(c, b) \in Answer
<1>1. ParsedClients(b) \in SUBSET Users
  <2>1. \A i \in DOMAIN b : b[i] \in Line
    OBVIOUS
  <2> QED
    BY <2>1, LineContents DEF ParsedClients
<1> DEFINE ok == \E i \in DOMAIN b : b[i] = IF c = Status THEN END ELSE SUCCESS
<1>2. ok \in BOOLEAN
  OBVIOUS
<1> HIDE DEF ok
<1>3. (IF c = Status THEN ParsedClients(b) ELSE {}) \in SUBSET Users
  BY <1>1
<1> QED
  BY <1>2, <1>3 DEF ParsedReply, Answer, ok

\* What OpenVPN replies is made of lines.
LEMMA ReplyType ==
    ASSUME NEW c, live \in SUBSET Users
    PROVE  Reply(c) \in Seq(Line)
<1>1. Data(live) \in Line /\ END \in Line /\ ERROR \in Line /\ SUCCESS \in Line
  BY LineTypes
<1> QED
  BY <1>1 DEF Reply

\* The next step of a caller that has its answer.
LEMMA AnsweredType ==
    ASSUME NEW r \in Callers, call[r] \in CallRec, NEW a \in Answer
    PROVE  Answered(r, a) \in CallRec
<1> DEFINE c == [NoCall EXCEPT !.victim = call[r].victim]
<1>1. c \in CallRec /\ c.victim \in Users /\ a.ok \in BOOLEAN
  BY RestTypes DEF CallRec, Answer
<1>2. [c EXCEPT !.stage = "answered", !.answer = a] \in CallRec
  BY <1>1 DEF CallRec, Stage
<1>3. Kill(c.victim) \in Cmd
  BY <1>1, CmdTypes
<1> HIDE DEF c
<1>4. [c EXCEPT !.stage = "lookup", !.cmd = Kill(c.victim)] \in CallRec
  BY <1>1, <1>3 DEF CallRec, Stage
<1>5. [c.answer EXCEPT !.ok = a.ok] \in Answer
  BY <1>1 DEF CallRec, Answer
<1>6. [c EXCEPT !.stage = "reported", !.answer.ok = a.ok] \in CallRec
  BY <1>1, <1>5 DEF CallRec, Stage
<1> QED
  BY <1>2, <1>4, <1>6 DEF Answered, c

\* Init establishes the types.
LEMMA InitTypeOK == Init => TypeOK
<1> SUFFICES ASSUME Init PROVE TypeOK
  OBVIOUS
<1>1. /\ conn \in [Conns -> Conn] /\ inflight \in [Conns -> InflightRec]
      /\ call \in [Callers -> CallRec]
  BY RestTypes DEF Init
<1>2. sent \in [Conns -> Seq(Cmd)] /\ wire \in [Conns -> Seq(Line)]
  <2>1. <<>> \in Seq(Cmd) /\ <<>> \in Seq(Line)
    OBVIOUS
  <2> QED
    BY <2>1 DEF Init
<1>3. /\ live \in SUBSET Users /\ revoked \in SUBSET Users
      /\ seen \in [Pollers -> SUBSET SUBSET Users]
  BY DEF Init
<1>4. /\ gen \in 0 .. MaxGens /\ serving \in 0 .. MaxConns /\ registry \in 0 .. MaxConns
      /\ auths \in 0 .. MaxAuths /\ stalls \in 0 .. MaxStalls
  BY BrokerAssumption DEF Init, Nobody
<1>5. enabled \in BOOLEAN
  BY Zenon DEF Init
<1> QED
  BY <1>1, <1>2, <1>3, <1>4, <1>5 DEF TypeOK, InflightRec, CallRec

\* The same, with names for the records.
LEMMA Unpacked ==
    TypeOK <=>
      /\ enabled \in BOOLEAN
      /\ gen \in 0 .. MaxGens
      /\ conn \in [Conns -> Conn]
      /\ sent \in [Conns -> Seq(Cmd)]
      /\ wire \in [Conns -> Seq(Line)]
      /\ inflight \in [Conns -> InflightRec]
      /\ serving \in 0 .. MaxConns
      /\ registry \in 0 .. MaxConns
      /\ call \in [Callers -> CallRec]
      /\ live \in SUBSET Users
      /\ revoked \in SUBSET Users
      /\ auths \in 0 .. MaxAuths
      /\ stalls \in 0 .. MaxStalls
      /\ seen \in [Pollers -> SUBSET SUBSET Users]
BY DEF TypeOK, InflightRec, CallRec

\* A command of OpenVPN leaves a set of users connected.
LEMMA EffectType ==
    ASSUME live \in SUBSET Users, NEW c \in Cmd
    PROVE  Effect(c) \in SUBSET Users
BY CmdUser DEF Effect

\* A change of the connected clients keeps the types.
LEMMA SetLiveType ==
    ASSUME TypeOK, NEW L \in SUBSET Users, SetLive(L)
    PROVE  live' \in SUBSET Users /\ seen' \in [Pollers -> SUBSET SUBSET Users]
<1>1. \A r \in Pollers : seen[r] \in SUBSET SUBSET Users
  BY DEF TypeOK
<1>2. \A r \in Pollers : (IF Calling(r) THEN seen[r] \cup {L} ELSE seen[r])
                            \in SUBSET SUBSET Users
  BY <1>1
<1> QED
  BY <1>2 DEF SetLive

\* An answer in a channel keeps the types.
LEMMA RespondType ==
    ASSUME TypeOK, NEW o \in Conns, NEW a \in Answer, Respond(o, a)
    PROVE  call' \in [Callers -> CallRec]
<1>1. \A r \in Callers : call[r] \in CallRec
  BY Unpacked
<1>2. \A r \in Callers : [call[r] EXCEPT !.resp = @ \cup {a}] \in CallRec
  BY <1>1 DEF CallRec
<1> QED
  BY <1>1, <1>2 DEF Respond

\* A connection that changes its phase, or goes down, is a connection.
LEMMA ConnType ==
    ASSUME NEW c \in Conn, NEW p \in Phase
    PROVE  /\ [c EXCEPT !.phase = p] \in Conn
           /\ [c EXCEPT !.up = FALSE] \in Conn
           /\ [c EXCEPT !.phase = p, !.up = FALSE] \in Conn
BY DEF Conn

\* A connection that is hung up keeps the types.
LEMMA HangupType ==
    ASSUME TypeOK, NEW o \in Conns, Hangup(o)
    PROVE  sent' \in [Conns -> Seq(Cmd)] /\ serving' \in 0 .. MaxConns
<1>1. <<>> \in Seq(Cmd) /\ Nobody \in 0 .. MaxConns
  BY BrokerAssumption DEF Nobody
<1> QED
  BY <1>1 DEF Hangup, TypeOK

\* The lines of a connection that is closed are gone.
LEMMA WireCleared ==
    ASSUME TypeOK, NEW o \in Conns
    PROVE  [wire EXCEPT ![o] = <<>>] \in [Conns -> Seq(Line)]
<1>1. <<>> \in Seq(Line)
  OBVIOUS
<1> QED
  BY <1>1 DEF TypeOK

\* The steps of the supervisor, of the loop's connection and of its watcher keep
\* the types.
LEMMA ConnStepType ==
    ASSUME TypeOK, NEW o \in Conns,
           \/ Dial(o) \/ Welcome(o) \/ WelcomeFails(o) \/ registerBroker(o)
           \/ WatcherCloses(o) \/ PeerCloses(o)
           \/ CloseDone(o) \/ unregisterBroker(o) \/ CloseConn(o)
    PROVE  TypeOK'
<1>0. conn[o] \in Conn /\ conn \in [Conns -> Conn] /\ o \in 0 .. MaxConns
  BY DEF TypeOK, Conns
<1>1. CASE Dial(o)
  <2>1. [phase |-> "dialled", gen |-> gen, up |-> TRUE] \in Conn
    BY DEF TypeOK, Conn, Phase
  <2>2. conn' \in [Conns -> Conn]
    BY <1>0, <1>1, <2>1 DEF Dial
  <2> QED
    BY <1>1, <2>2 DEF Dial, TypeOK, console, clients
<1>2. CASE Welcome(o)
  <2>1. conn' \in [Conns -> Conn]
    BY <1>0, <1>2, ConnType DEF Welcome, Phase
  <2> QED
    BY <1>0, <1>2, <2>1 DEF Welcome, TypeOK, clients
<1>3. CASE WelcomeFails(o)
  <2>1. conn' \in [Conns -> Conn]
    BY <1>0, <1>3, ConnType DEF WelcomeFails, Phase
  <2> QED
    BY <1>3, <2>1 DEF WelcomeFails, TypeOK, console, clients
<1>4. CASE registerBroker(o)
  <2>1. conn' \in [Conns -> Conn]
    BY <1>0, <1>4, ConnType DEF registerBroker, Phase
  <2> QED
    BY <1>0, <1>4, <2>1 DEF registerBroker, TypeOK, console, clients
<1>5. CASE WatcherCloses(o)
  <2>1. conn' \in [Conns -> Conn]
    BY <1>0, <1>5, ConnType DEF WatcherCloses, Phase
  <2>2. wire' \in [Conns -> Seq(Line)] /\ Hangup(o)
    BY <1>5, WireCleared DEF WatcherCloses
  <2> QED
    BY <1>5, <2>1, <2>2, HangupType DEF WatcherCloses, TypeOK, clients
<1>6. CASE PeerCloses(o)
  <2>1. conn' \in [Conns -> Conn]
    BY <1>0, <1>6, ConnType DEF PeerCloses, Phase
  <2>2. Hangup(o)
    BY <1>6 DEF PeerCloses
  <2> QED
    BY <1>6, <2>1, <2>2, HangupType DEF PeerCloses, TypeOK, clients
<1>7. CASE CloseDone(o)
  <2>1. conn' \in [Conns -> Conn]
    BY <1>0, <1>7, ConnType DEF CloseDone, Leaves, Phase
  <2> QED
    BY <1>7, <2>1 DEF CloseDone, Leaves, TypeOK, console, clients
<1>8. CASE unregisterBroker(o)
  <2>1. conn' \in [Conns -> Conn]
    BY <1>0, <1>8, ConnType DEF unregisterBroker, Leaves, Phase
  <2>2. registry' \in 0 .. MaxConns
    BY <1>8, BrokerAssumption DEF unregisterBroker, TypeOK, Nobody
  <2> QED
    BY <1>8, <2>1, <2>2 DEF unregisterBroker, Leaves, TypeOK, console, clients
<1>9. CASE CloseConn(o)
  <2>1. conn' \in [Conns -> Conn]
    BY <1>0, <1>9, ConnType DEF CloseConn, Phase
  <2>2. wire' \in [Conns -> Seq(Line)] /\ Hangup(o)
    BY <1>9, WireCleared DEF CloseConn
  <2>3. inflight' \in [Conns -> InflightRec]
    BY <1>9, RestTypes, Unpacked DEF CloseConn
  <2> QED
    BY <1>9, <2>1, <2>2, <2>3, HangupType, Unpacked
       DEF CloseConn, TypeOK, clients, InflightRec
<1> QED
  BY <1>1, <1>2, <1>3, <1>4, <1>5, <1>6, <1>7, <1>8, <1>9

\* The steps of the loop that concern commands and lines keep the types.
LEMMA LoopStepType ==
    ASSUME TypeOK, NEW o \in Conns,
           \/ LoopEnds(o) \/ ReadReply(o) \/ ReadConnect(o) \/ ReadConnectFails(o)
           \/ \E r \in Callers : TakeCommand(o, r) \/ TakeCommandFails(o, r)
           \/ CommandTimesOut(o)
    PROVE  TypeOK'
<1>0. /\ conn[o] \in Conn /\ conn \in [Conns -> Conn] /\ inflight \in [Conns -> InflightRec]
      /\ call \in [Callers -> CallRec] /\ wire[o] \in Seq(Line) /\ sent[o] \in Seq(Cmd)
      /\ inflight[o] \in InflightRec
  BY Unpacked
<1>00. NoInflight \in InflightRec /\ NoAnswer \in Answer
  BY RestTypes
<1>1. CASE LoopEnds(o)
  <2>1. conn' \in [Conns -> Conn] /\ inflight' \in [Conns -> InflightRec]
    BY <1>0, <1>00, <1>1, ConnType DEF LoopEnds, Phase
  <2>2. call' \in [Callers -> CallRec]
    BY <1>00, <1>1, RespondType DEF LoopEnds
  <2> QED
    BY <1>1, <2>1, <2>2, Unpacked DEF LoopEnds, TypeOK, console, clients, InflightRec, CallRec
<1>2. CASE ReadReply(o)
  <2>1. wire[o] # <<>> /\ wire' = [wire EXCEPT ![o] = Tail(wire[o])]
    BY <1>2 DEF ReadReply
  <2>2. Tail(wire[o]) \in Seq(Line) /\ Head(wire[o]) \in Line
    BY <1>0, <2>1
  <2>3. wire' \in [Conns -> Seq(Line)]
    BY <2>1, <2>2 DEF TypeOK
  <2>4. Append(inflight[o].buf, Head(wire[o])) \in Seq(Line)
    BY <1>0, <2>2 DEF InflightRec
  <2>5. [inflight[o] EXCEPT !.buf = Append(inflight[o].buf, Head(wire[o]))] \in InflightRec
    BY <1>0, <2>4 DEF InflightRec
  <2>6. inflight' \in [Conns -> InflightRec]
    BY <1>0, <1>00, <1>2, <2>5 DEF ReadReply
  <2>7. ParsedReply(inflight[o].cmd, Append(inflight[o].buf, Head(wire[o]))) \in Answer
    BY <2>4, ParsedType
  <2>8. call' \in [Callers -> CallRec]
    BY <1>0, <1>2, <2>7, RespondType DEF ReadReply
  <2> QED
    BY <1>2, <2>3, <2>6, <2>8, Unpacked DEF ReadReply, TypeOK, clients, InflightRec, CallRec
<1>3. CASE ReadConnect(o) \/ ReadConnectFails(o)
  <2>1. wire[o] # <<>> /\ wire' = [wire EXCEPT ![o] = Tail(wire[o])]
    BY <1>3 DEF ReadConnect, ReadConnectFails
  <2>2. Tail(wire[o]) \in Seq(Line) /\ Head(wire[o]) \in Line
    BY <1>0, <2>1
  <2>3. wire' \in [Conns -> Seq(Line)]
    BY <2>1, <2>2 DEF TypeOK
  <2>4. CASE ReadConnect(o)
    <3> DEFINE u == Head(wire[o]).user
               v == IF u \in revoked THEN ClientDeny(u) ELSE ClientAuth(u)
    <3>1. u \in Users
      BY <2>2, <2>4, LineContents DEF ReadConnect
    <3>2. v \in Cmd
      BY <3>1, CmdTypes
    <3>3. sent' = [sent EXCEPT ![o] = Append(sent[o], v)]
      BY <2>4 DEF ReadConnect
    <3> HIDE DEF v
    <3>4. Append(sent[o], v) \in Seq(Cmd)
      BY <1>0, <3>2
    <3>5. sent' \in [Conns -> Seq(Cmd)]
      BY <3>3, <3>4 DEF TypeOK
    <3> QED
      BY <2>3, <2>4, <3>5 DEF ReadConnect, TypeOK, loopVars, clients
  <2>5. CASE ReadConnectFails(o)
    <3>1. conn' \in [Conns -> Conn]
      BY <1>0, <2>5, ConnType DEF ReadConnectFails, Phase
    <3> QED
      BY <2>3, <2>5, <3>1 DEF ReadConnectFails, TypeOK, clients
  <2> QED
    BY <1>3, <2>4, <2>5
<1>4. ASSUME NEW r \in Callers, TakeCommand(o, r)
      PROVE  TypeOK'
  <2>1. call[r] \in CallRec /\ call[r].cmd \in Cmd
    BY <1>0 DEF CallRec
  <2>2. Append(sent[o], call[r].cmd) \in Seq(Cmd)
    BY <1>0, <2>1
  <2>3. sent' \in [Conns -> Seq(Cmd)]
    BY <1>4, <2>2 DEF TakeCommand, TypeOK
  <2>4. <<>> \in Seq(Line)
    OBVIOUS
  <2>5. Outstanding(call[r].cmd, r) \in InflightRec
    BY <2>1, <2>4 DEF Outstanding, InflightRec
  <2>6. inflight' \in [Conns -> InflightRec]
    BY <1>0, <1>4, <2>5 DEF TakeCommand
  <2>7. [call[r] EXCEPT !.stage = "wait"] \in CallRec
    BY <2>1 DEF CallRec, Stage
  <2>8. call' \in [Callers -> CallRec]
    BY <1>0, <1>4, <2>7 DEF TakeCommand
  <2> QED
    BY <1>4, <2>3, <2>6, <2>8, Unpacked DEF TakeCommand, TypeOK, clients, InflightRec, CallRec
<1>5. ASSUME NEW r \in Callers, TakeCommandFails(o, r)
      PROVE  TypeOK'
  <2>1. [call[r] EXCEPT !.stage = "wait", !.resp = {NoAnswer}] \in CallRec
    BY <1>0, <1>00 DEF CallRec, Stage
  <2>2. call' \in [Callers -> CallRec]
    BY <1>0, <1>5, <2>1 DEF TakeCommandFails
  <2>3. conn' \in [Conns -> Conn]
    BY <1>0, <1>5, ConnType DEF TakeCommandFails, Phase
  <2> QED
    BY <1>5, <2>2, <2>3, Unpacked DEF TakeCommandFails, TypeOK, console, clients, CallRec
<1>6. CASE CommandTimesOut(o)
  <2>1. inflight' \in [Conns -> InflightRec]
    BY <1>0, <1>00, <1>6 DEF CommandTimesOut
  <2>2. call' \in [Callers -> CallRec]
    BY <1>00, <1>6, RespondType DEF CommandTimesOut
  <2>3. stalls' \in 0 .. MaxStalls
    BY <1>6, BrokerAssumption DEF CommandTimesOut, TypeOK
  <2> QED
    BY <1>6, <2>1, <2>2, <2>3, Unpacked
       DEF CommandTimesOut, TypeOK, console, clients, InflightRec, CallRec
<1> QED
  BY <1>1, <1>2, <1>3, <1>4, <1>5, <1>6

\* The steps of OpenVPN and its clients keep the types.
LEMMA ConsoleStepType ==
    ASSUME TypeOK,
           \/ \E o \in Conns : ConsoleAnswers(o)
           \/ \E u \in Users : ClientConnects(u) \/ ClientDisconnects(u)
    PROVE  TypeOK'
<1>1. ASSUME NEW o \in Conns, ConsoleAnswers(o)
      PROVE  TypeOK'
  <2> DEFINE c == Head(sent[o])
  <2>1. sent[o] \in Seq(Cmd) /\ sent[o] # <<>> /\ wire[o] \in Seq(Line)
    BY <1>1 DEF ConsoleAnswers, TypeOK
  <2>2. c \in Cmd /\ Tail(sent[o]) \in Seq(Cmd)
    BY <2>1
  <2>3. sent' \in [Conns -> Seq(Cmd)]
    BY <1>1, <2>2 DEF ConsoleAnswers, TypeOK
  <2>4. Reply(c) \in Seq(Line) /\ Effect(c) \in SUBSET Users
    BY <2>2, ReplyType, EffectType DEF TypeOK
  <2>5. wire' = [wire EXCEPT ![o] = wire[o] \o Reply(c)] /\ SetLive(Effect(c))
    BY <1>1 DEF ConsoleAnswers
  <2> HIDE DEF c
  <2>6. wire[o] \o Reply(c) \in Seq(Line)
    BY <2>1, <2>4
  <2>7. wire' \in [Conns -> Seq(Line)]
    BY <2>5, <2>6 DEF TypeOK
  <2>8. live' \in SUBSET Users /\ seen' \in [Pollers -> SUBSET SUBSET Users]
    BY <2>4, <2>5, SetLiveType
  <2> QED
    BY <1>1, <2>3, <2>7, <2>8 DEF ConsoleAnswers, TypeOK, loopVars
<1>2. ASSUME NEW u \in Users, ClientConnects(u)
      PROVE  TypeOK'
  <2>1. serving \in Conns /\ wire[serving] \in Seq(Line)
    BY <1>2, BrokerAssumption DEF ClientConnects, TypeOK, Conns, Nobody
  <2>2. Append(wire[serving], CONNECT(u)) \in Seq(Line)
    BY <2>1, LineTypes
  <2>3. wire' \in [Conns -> Seq(Line)]
    BY <1>2, <2>1, <2>2 DEF ClientConnects, TypeOK
  <2>4. auths' \in 0 .. MaxAuths
    BY <1>2, BrokerAssumption DEF ClientConnects, TypeOK
  <2> QED
    BY <1>2, <2>3, <2>4 DEF ClientConnects, TypeOK, loopVars
<1>3. ASSUME NEW u \in Users, ClientDisconnects(u)
      PROVE  TypeOK'
  <2>1. live \ {u} \in SUBSET Users /\ SetLive(live \ {u})
    BY <1>3 DEF ClientDisconnects, TypeOK
  <2>2. live' \in SUBSET Users /\ seen' \in [Pollers -> SUBSET SUBSET Users]
    BY <2>1, SetLiveType
  <2> QED
    BY <1>3, <2>2 DEF ClientDisconnects, TypeOK, loopVars, console
<1> QED
  BY <1>1, <1>2, <1>3

\* The steps of the callers keep the types.
LEMMA CallStepType ==
    ASSUME TypeOK, NEW r \in Callers, CallStep(r)
    PROVE  TypeOK'
<1>0. call \in [Callers -> CallRec] /\ call[r] \in CallRec
  BY Unpacked
<1>1. CASE BeginPoll(r)
  <2>1. [NoCall EXCEPT !.stage = "lookup"] \in CallRec
    BY RestTypes DEF CallRec, Stage
  <2>2. call' \in [Callers -> CallRec]
    BY <1>0, <1>1, <2>1 DEF BeginPoll
  <2>3. seen' \in [Pollers -> SUBSET SUBSET Users]
    BY <1>1 DEF BeginPoll, TypeOK
  <2> QED
    BY <1>1, <2>2, <2>3, Unpacked DEF BeginPoll, TypeOK, loopVars, console, CallRec
<1>2. ASSUME NEW u \in Users, BeginKill(r, u)
      PROVE  TypeOK'
  <2>1. [NoCall EXCEPT !.stage = "lookup", !.victim = u] \in CallRec
    BY RestTypes DEF CallRec, Stage
  <2>2. call' \in [Callers -> CallRec]
    BY <1>0, <1>2, <2>1 DEF BeginKill
  <2> QED
    BY <1>2, <2>2, Unpacked DEF BeginKill, TypeOK, loopVars, console, CallRec
<1>3. CASE lookupBroker(r)
  <2>1. \A s \in Stage, b \in 0 .. MaxConns :
           [call[r] EXCEPT !.stage = s, !.broker = b] \in CallRec
    BY <1>0 DEF CallRec
  <2>2. call' \in [Callers -> CallRec]
    BY <1>0, <1>3, <2>1 DEF lookupBroker, Stage, TypeOK
  <2> QED
    BY <1>3, <2>2, Unpacked DEF lookupBroker, TypeOK, loopVars, console, clients, CallRec
<1>4. CASE Receive(r)
  <2>1. PICK a \in call[r].resp : call' = [call EXCEPT ![r] = Answered(r, a)]
    BY <1>4 DEF Receive
  <2>2. a \in Answer
    BY <1>0, <2>1 DEF CallRec
  <2>3. call' \in [Callers -> CallRec]
    BY <1>0, <2>1, <2>2, AnsweredType
  <2> QED
    BY <1>4, <2>3, Unpacked DEF Receive, TypeOK, loopVars, console, clients, CallRec
<1>5. CASE GivesUp(r)
  <2>1. Answered(r, NoAnswer) \in CallRec
    BY <1>0, RestTypes, AnsweredType
  <2>2. call' \in [Callers -> CallRec]
    BY <1>0, <1>5, <2>1 DEF GivesUp
  <2>3. \A o \in Conns : [inflight[o] EXCEPT !.for = @ \ {r}] \in InflightRec
    BY Unpacked DEF InflightRec
  <2>4. inflight' \in [Conns -> InflightRec]
    BY <1>5, <2>3 DEF GivesUp
  <2> QED
    BY <1>5, <2>2, <2>4, Unpacked DEF GivesUp, TypeOK, console, clients, CallRec, InflightRec
<1>6. CASE DirectExchange(r)
  <2> DEFINE c == call[r].cmd
  <2>1. c \in Cmd
    BY <1>0 DEF CallRec
  <2>2. SetLive(Effect(c)) /\ call' = [call EXCEPT ![r] = Answered(r, ParsedReply(c, Reply(c)))]
    BY <1>6 DEF DirectExchange
  <2> HIDE DEF c
  <2>3. Reply(c) \in Seq(Line) /\ Effect(c) \in SUBSET Users
    BY <2>1, ReplyType, EffectType DEF TypeOK
  <2>4. ParsedReply(c, Reply(c)) \in Answer
    BY <2>3, ParsedType
  <2>5. call' \in [Callers -> CallRec]
    BY <1>0, <2>2, <2>4, AnsweredType
  <2>6. live' \in SUBSET Users /\ seen' \in [Pollers -> SUBSET SUBSET Users]
    BY <2>2, <2>3, SetLiveType
  <2> QED
    BY <1>6, <2>5, <2>6, Unpacked DEF DirectExchange, TypeOK, loopVars, console, CallRec
<1>7. CASE DirectFails(r)
  <2>1. call' \in [Callers -> CallRec]
    BY <1>0, <1>7, RestTypes, AnsweredType DEF DirectFails
  <2> QED
    BY <1>7, <2>1, Unpacked DEF DirectFails, TypeOK, loopVars, console, clients, CallRec
<1> QED
  BY <1>1, <1>2, <1>3, <1>4, <1>5, <1>6, <1>7 DEF CallStep, BrokerClosed, CallTimesOut

\* Every step keeps the types.
LEMMA NextTypeOK == TypeOK /\ [Next]_vars => TypeOK'
<1> SUFFICES ASSUME TypeOK, [Next]_vars PROVE TypeOK'
  OBVIOUS
<1>1. CASE startMgmtClientAuth \/ stopMgmtClientAuth
  <2>1. enabled' \in BOOLEAN
    BY <1>1, Zenon DEF startMgmtClientAuth, stopMgmtClientAuth
  <2>2. gen' \in 0 .. MaxGens
    BY <1>1, BrokerAssumption DEF startMgmtClientAuth, stopMgmtClientAuth, TypeOK
  <2> QED
    BY <1>1, <2>1, <2>2
       DEF startMgmtClientAuth, stopMgmtClientAuth, TypeOK, console, clients
<1>2. ASSUME NEW o \in Conns, LoopStep(o) \/ WatcherCloses(o) \/ CommandTimesOut(o)
      PROVE  TypeOK'
  BY <1>2, ConnStepType, LoopStepType DEF LoopStep
<1>3. CASE ConsoleStep
  BY <1>3, ConnStepType, ConsoleStepType DEF ConsoleStep
<1>4. ASSUME NEW r \in Callers, CallStep(r)
      PROVE  TypeOK'
  BY <1>4, CallStepType
<1>5. CASE UNCHANGED vars
  BY <1>5 DEF vars, loopVars, console, clients, TypeOK
<1> QED
  BY <1>1, <1>2, <1>3, <1>4, <1>5 DEF Next

\* TypeOK holds in every reachable state of mgmtClientAuthLoop, its supervisor and
\* the callers of exec, whatever the constants.
THEOREM TypeCorrect == Spec => []TypeOK
BY InitTypeOK, NextTypeOK, PTL DEF Spec

-----------------------------------------------------------------------------
(* A command is answered once *)

\* A loop with nothing outstanding works for nobody.
IdleForNobody == \A o \in Conns : ~inflight[o].busy => inflight[o].for = {}

\* No two loops work for one caller.
OneLoopEach ==
    \A o, p \in Conns, r \in Callers :
        r \in inflight[o].for /\ r \in inflight[p].for => o = p

\* The channel of a command is empty until the command is handed over, and the
\* next command has a channel of its own.
FreshChannel == \A r \in Callers : call[r].stage # "wait" => call[r].resp = {}

OnceInv ==
    /\ TypeOK
    /\ AnsweredOnce
    /\ IdleForNobody
    /\ OneLoopEach
    /\ FreshChannel

\* The next step of a caller that has its answer has an empty channel.
LEMMA AnsweredFresh ==
    ASSUME NEW r, NEW a
    PROVE  Answered(r, a).stage \in {"lookup", "answered", "reported"}
           /\ Answered(r, a).resp = {}
BY DEF Answered, NoCall, NoAnswer

\* Init establishes it.
LEMMA InitOnceInv == Init => OnceInv
<1> SUFFICES ASSUME Init PROVE OnceInv
  OBVIOUS
<1>1. TypeOK
  BY InitTypeOK
<1>2. AnsweredOnce /\ IdleForNobody /\ OneLoopEach
  BY DEF Init, NoInflight, AnsweredOnce, IdleForNobody, OneLoopEach
<1>3. FreshChannel
  BY DEF Init, NoCall, FreshChannel
<1> QED
  BY <1>1, <1>2, <1>3 DEF OnceInv

\* A loop that answers a caller is done with it.
LEMMA AnswerClears ==
    ASSUME OnceInv, TypeOK', NEW o \in Conns, NEW a, Respond(o, a),
           inflight' = [inflight EXCEPT ![o] = NoInflight]
    PROVE  OnceInv'
<1>0. inflight \in [Conns -> InflightRec] /\ call \in [Callers -> CallRec]
  BY Unpacked DEF OnceInv
<1>1. inflight'[o] = NoInflight /\ \A p \in Conns : p # o => inflight'[p] = inflight[p]
  BY <1>0
<1>2. \A r \in Callers : /\ call'[r].stage = call[r].stage
                         /\ r \notin inflight[o].for => call'[r] = call[r]
  BY <1>0 DEF Respond, CallRec
<1>3. NoInflight.for = {} /\ NoInflight.busy = FALSE
  BY DEF NoInflight
<1>4. IdleForNobody' /\ OneLoopEach'
  BY <1>1, <1>3 DEF OnceInv, IdleForNobody, OneLoopEach
<1>5. AnsweredOnce'
  <2> SUFFICES ASSUME NEW p \in Conns, NEW r \in Callers, r \in inflight'[p].for
               PROVE  call'[r].resp = {} /\ call'[r].stage = "wait"
    BY DEF AnsweredOnce
  <2>1. p # o /\ r \in inflight[p].for
    BY <1>1, <1>3
  <2>2. r \notin inflight[o].for
    BY <2>1 DEF OnceInv, OneLoopEach
  <2> QED
    BY <1>2, <2>1, <2>2 DEF OnceInv, AnsweredOnce
<1>6. FreshChannel'
  <2> SUFFICES ASSUME NEW r \in Callers, call'[r].stage # "wait"
               PROVE  call'[r].resp = {}
    BY DEF FreshChannel
  <2>1. r \notin inflight[o].for
    BY <1>2 DEF OnceInv, AnsweredOnce
  <2> QED
    BY <1>2, <2>1 DEF OnceInv, FreshChannel
<1> QED
  BY <1>4, <1>5, <1>6 DEF OnceInv

\* A step that leaves the callers alone, and gives no loop a caller, preserves it.
LEMMA CallersRest ==
    ASSUME OnceInv, TypeOK', UNCHANGED call,
           \A o \in Conns :
             \/ inflight'[o].busy = inflight[o].busy /\ inflight'[o].for = inflight[o].for
             \/ inflight'[o].for = {}
    PROVE  OnceInv'
BY DEF OnceInv, AnsweredOnce, IdleForNobody, OneLoopEach, FreshChannel

\* A caller that no loop works for (any more) moves on.
LEMMA CallerMoves ==
    ASSUME OnceInv, TypeOK', NEW r \in Callers, NEW c,
           call' = [call EXCEPT ![r] = c], c.stage # "wait", c.resp = {},
           \A o \in Conns :
             /\ inflight'[o].busy = inflight[o].busy
             /\ inflight'[o].for = inflight[o].for \ {r}
    PROVE  OnceInv'
<1>0. call \in [Callers -> CallRec]
  BY Unpacked DEF OnceInv
<1>1. call'[r] = c /\ \A q \in Callers : q # r => call'[q] = call[q]
  BY <1>0
<1>2. AnsweredOnce' /\ FreshChannel'
  BY <1>1 DEF OnceInv, AnsweredOnce, FreshChannel
<1>3. IdleForNobody' /\ OneLoopEach'
  BY DEF OnceInv, IdleForNobody, OneLoopEach
<1> QED
  BY <1>2, <1>3 DEF OnceInv

\* A caller that is not waiting, or has its answer, is no loop's.
LEMMA NotWorkedFor ==
    ASSUME OnceInv, NEW r \in Callers, call[r].stage # "wait" \/ call[r].resp # {}
    PROVE  \A o \in Conns : r \notin inflight[o].for
BY DEF OnceInv, AnsweredOnce

\* The steps of the loop preserve it.
LEMMA LoopStepOnce ==
    ASSUME OnceInv, TypeOK', NEW o \in Conns,
           LoopStep(o) \/ WatcherCloses(o) \/ CommandTimesOut(o)
    PROVE  OnceInv'
<1>0. inflight \in [Conns -> InflightRec] /\ call \in [Callers -> CallRec]
  BY Unpacked DEF OnceInv
<1>1. CASE \/ Dial(o) \/ Welcome(o) \/ WelcomeFails(o) \/ registerBroker(o)
           \/ WatcherCloses(o) \/ ReadConnect(o) \/ ReadConnectFails(o)
           \/ CloseDone(o) \/ unregisterBroker(o)
  <2>1. UNCHANGED <<inflight, call>>
    BY <1>1 DEF Dial, Welcome, WelcomeFails, registerBroker, WatcherCloses, ReadConnect,
                ReadConnectFails, CloseDone, unregisterBroker, Leaves, loopVars
  <2> QED
    BY <2>1, CallersRest
<1>2. CASE CloseConn(o)
  BY <1>0, <1>2, CallersRest DEF CloseConn, NoInflight
<1>3. CASE LoopEnds(o) \/ CommandTimesOut(o)
  BY <1>3, AnswerClears DEF LoopEnds, CommandTimesOut
<1>4. CASE ReadReply(o)
  <2>1. CASE UNCHANGED <<inflight, call>>
    BY <2>1, CallersRest
  <2>2. ASSUME NEW a, Respond(o, a), inflight' = [inflight EXCEPT ![o] = NoInflight]
        PROVE  OnceInv'
    BY <2>2, AnswerClears
  <2>3. ASSUME NEW b, inflight' = [inflight EXCEPT ![o].buf = b], UNCHANGED call
        PROVE  OnceInv'
    <3>1. \A p \in Conns : /\ inflight'[p].busy = inflight[p].busy
                           /\ inflight'[p].for = inflight[p].for
      BY <1>0, <2>3 DEF InflightRec
    <3> QED
      BY <2>3, <3>1, CallersRest
  <2> QED
    BY <1>4, <2>1, <2>2, <2>3 DEF ReadReply
<1>5. ASSUME NEW r \in Callers, TakeCommand(o, r)
      PROVE  OnceInv'
  <2>1. call[r].stage = "offer" /\ ~inflight[o].busy
    BY <1>5 DEF TakeCommand, Offered
  <2>2. \A p \in Conns : r \notin inflight[p].for
    BY <2>1, NotWorkedFor
  <2>3. call' = [call EXCEPT ![r].stage = "wait"]
    BY <1>5 DEF TakeCommand
  <2>4. /\ call'[r].stage = "wait" /\ call'[r].resp = call[r].resp
        /\ \A q \in Callers : q # r => call'[q] = call[q]
    BY <1>0, <2>3 DEF CallRec
  <2>5. call[r].resp = {}
    BY <2>1 DEF OnceInv, FreshChannel
  <2>6. inflight' = [inflight EXCEPT ![o] = Outstanding(call[r].cmd, r)]
    BY <1>5 DEF TakeCommand
  <2>7. /\ inflight'[o].busy /\ inflight'[o].for = {r}
        /\ \A p \in Conns : p # o => inflight'[p] = inflight[p]
    BY <1>0, <2>6 DEF Outstanding
  <2>8. AnsweredOnce' /\ FreshChannel'
    BY <2>2, <2>4, <2>5, <2>7 DEF OnceInv, AnsweredOnce, FreshChannel
  <2>9. IdleForNobody' /\ OneLoopEach'
    BY <2>2, <2>7 DEF OnceInv, IdleForNobody, OneLoopEach
  <2> QED
    BY <2>8, <2>9 DEF OnceInv
<1>6. ASSUME NEW r \in Callers, TakeCommandFails(o, r)
      PROVE  OnceInv'
  <2>1. call[r].stage = "offer" /\ UNCHANGED inflight
    BY <1>6 DEF TakeCommandFails, Offered
  <2>2. \A p \in Conns : r \notin inflight[p].for
    BY <2>1, NotWorkedFor
  <2>3. call'[r].stage = "wait" /\ \A q \in Callers : q # r => call'[q] = call[q]
    BY <1>0, <1>6 DEF TakeCommandFails, CallRec
  <2> QED
    BY <2>1, <2>2, <2>3 DEF OnceInv, AnsweredOnce, FreshChannel, IdleForNobody, OneLoopEach
<1> QED
  BY <1>1, <1>2, <1>3, <1>4, <1>5, <1>6 DEF LoopStep

\* The steps of the callers preserve it.
LEMMA CallStepOnce ==
    ASSUME OnceInv, TypeOK', NEW r \in Callers, CallStep(r)
    PROVE  OnceInv'
<1>0. inflight \in [Conns -> InflightRec] /\ call \in [Callers -> CallRec]
  BY Unpacked DEF OnceInv
<1>1. ASSUME call[r].stage # "wait" \/ call[r].resp # {}, UNCHANGED inflight
      PROVE  \A o \in Conns : /\ inflight'[o].busy = inflight[o].busy
                              /\ inflight'[o].for = inflight[o].for \ {r}
  <2>1. \A o \in Conns : r \notin inflight[o].for
    BY <1>1, NotWorkedFor
  <2> QED
    BY <1>1, <2>1
<1>2. CASE BeginPoll(r)
  <2> DEFINE c == [NoCall EXCEPT !.stage = "lookup"]
  <2>1. c.stage # "wait" /\ c.resp = {}
    BY DEF NoCall
  <2>2. call' = [call EXCEPT ![r] = c] /\ UNCHANGED inflight /\ call[r].stage # "wait"
    BY <1>2 DEF BeginPoll, loopVars
  <2> HIDE DEF c
  <2> QED
    BY <1>1, <2>1, <2>2, CallerMoves
<1>3. ASSUME NEW u \in Users, BeginKill(r, u)
      PROVE  OnceInv'
  <2> DEFINE c == [NoCall EXCEPT !.stage = "lookup", !.victim = u]
  <2>1. c.stage # "wait" /\ c.resp = {}
    BY DEF NoCall
  <2>2. call' = [call EXCEPT ![r] = c] /\ UNCHANGED inflight /\ call[r].stage # "wait"
    BY <1>3 DEF BeginKill, loopVars
  <2> HIDE DEF c
  <2> QED
    BY <1>1, <2>1, <2>2, CallerMoves
<1>4. CASE lookupBroker(r)
  <2> DEFINE c == [call[r] EXCEPT !.stage = IF registry = Nobody THEN "direct" ELSE "offer",
                                  !.broker = registry]
  <2>1. call[r].stage = "lookup" /\ UNCHANGED inflight
    BY <1>4 DEF lookupBroker, loopVars
  <2>2. call' = [call EXCEPT ![r] = c]
    BY <1>0, <1>4 DEF lookupBroker
  <2>3. c.stage # "wait" /\ c.resp = call[r].resp
    BY <1>0 DEF CallRec
  <2>4. call[r].resp = {}
    BY <2>1 DEF OnceInv, FreshChannel
  <2> HIDE DEF c
  <2> QED
    BY <1>1, <2>1, <2>2, <2>3, <2>4, CallerMoves
<1>5. CASE Receive(r)
  <2>1. PICK a \in call[r].resp : call' = [call EXCEPT ![r] = Answered(r, a)]
    BY <1>5 DEF Receive
  <2>2. Answered(r, a).stage # "wait" /\ Answered(r, a).resp = {} /\ UNCHANGED inflight
    BY <1>5, AnsweredFresh DEF Receive, loopVars
  <2> QED
    BY <1>1, <2>1, <2>2, CallerMoves
<1>6. CASE GivesUp(r)
  <2>1. \A o \in Conns : /\ inflight'[o].busy = inflight[o].busy
                         /\ inflight'[o].for = inflight[o].for \ {r}
    BY <1>0, <1>6 DEF GivesUp, InflightRec
  <2>2. /\ Answered(r, NoAnswer).stage # "wait" /\ Answered(r, NoAnswer).resp = {}
        /\ call' = [call EXCEPT ![r] = Answered(r, NoAnswer)]
    BY <1>6, AnsweredFresh DEF GivesUp
  <2> QED
    BY <2>1, <2>2, CallerMoves
<1>7. CASE DirectExchange(r) \/ DirectFails(r)
  <2>1. PICK a : call' = [call EXCEPT ![r] = Answered(r, a)]
    BY <1>7 DEF DirectExchange, DirectFails
  <2>2. Answered(r, a).stage # "wait" /\ Answered(r, a).resp = {}
    BY AnsweredFresh
  <2>3. UNCHANGED inflight /\ call[r].stage = "direct"
    BY <1>7 DEF DirectExchange, DirectFails, loopVars
  <2> QED
    BY <1>1, <2>1, <2>2, <2>3, CallerMoves
<1> QED
  BY <1>2, <1>3, <1>4, <1>5, <1>6, <1>7 DEF CallStep, BrokerClosed, CallTimesOut

\* Every step preserves it.
LEMMA NextOnceInv == OnceInv /\ [Next]_vars => OnceInv'
<1> SUFFICES ASSUME OnceInv, [Next]_vars PROVE OnceInv'
  OBVIOUS
<1>0. TypeOK'
  BY NextTypeOK DEF OnceInv
<1>1. CASE startMgmtClientAuth \/ stopMgmtClientAuth \/ ConsoleStep \/ UNCHANGED vars
  <2>1. UNCHANGED <<inflight, call>>
    BY <1>1 DEF startMgmtClientAuth, stopMgmtClientAuth, ConsoleStep, PeerCloses,
                ConsoleAnswers, ClientConnects, ClientDisconnects, vars, loopVars
  <2> QED
    BY <1>0, <2>1, CallersRest
<1> QED
  BY <1>0, <1>1, LoopStepOnce, CallStepOnce DEF Next

\* It holds in every reachable state.
LEMMA OnceInductive == Spec => []OnceInv
BY InitOnceInv, NextOnceInv, PTL DEF Spec

\* The loop answers a command once, and answers only a caller that waits with an
\* empty channel, so that it never blocks on resp; for any number of callers and
\* connections, verdicts, timeouts and loops that overlap (mgmtClientAuthLoop, exec).
THEOREM CommandsAnsweredOnce == Spec => []AnsweredOnce
<1>1. OnceInv => AnsweredOnce
  BY DEF OnceInv
<1> QED
  BY <1>1, OnceInductive, PTL

-----------------------------------------------------------------------------
(* A status belongs to its poll *)

\* The loop gives up on no command.  A status that it gave up on can be answered
\* later, and is then taken for the reply to the next one.
NoTimeouts == MaxStalls = 0

\* The lines that only the reply to a status has.
Listing(l) == l.kind = "DATA" \/ l = END
NoListing(s) == \A i \in DOMAIN s : ~Listing(s[i])
NoStatus(s) == \A i \in DOMAIN s : s[i] # Status

\* Lines with one list of clients and its end among them, the end of one, and
\* collected lines with one list.
Coming(s, L) ==
    \E i \in 2 .. Len(s) :
        /\ s[i - 1] = Data(L) /\ s[i] = END
        /\ \A j \in 1 .. Len(s) : j \notin {i - 1, i} => ~Listing(s[j])
Ending(s) == Len(s) > 0 /\ s[1] = END /\ \A j \in 2 .. Len(s) : ~Listing(s[j])
Listed(b, L) ==
    \E k \in DOMAIN b : b[k] = Data(L) /\ \A j \in DOMAIN b : j # k => ~Listing(b[j])

\* The clients of one moment of every poll that the loop works for.
Current(o, L) == \A r \in inflight[o].for \cap Pollers : L \in seen[r]

\* Where the status of a running loop is: nowhere (there is none, or it is lost with
\* the connection), with OpenVPN, or on its way back, before or after its list.
StatusNowhere(o) == NoStatus(sent[o]) /\ NoListing(wire[o])
StatusWritten(o) ==
    /\ \A i, j \in DOMAIN sent[o] : sent[o][i] = Status /\ sent[o][j] = Status => i = j
    /\ NoListing(wire[o])
    /\ NoListing(inflight[o].buf)
StatusComing(o, L) ==
    /\ NoStatus(sent[o])
    /\ Coming(wire[o], L)
    /\ NoListing(inflight[o].buf)
    /\ Current(o, L)
StatusEnding(o, L) ==
    /\ NoStatus(sent[o])
    /\ Ending(wire[o])
    /\ Listed(inflight[o].buf, L)
    /\ Current(o, L)

Asking(o) == inflight[o].busy /\ inflight[o].cmd = Status

\* The phases of a connection before its loop runs.
Early == {"unused", "dialled", "ready"}

StatusOK(o) ==
    /\ conn[o].phase \in Early => StatusNowhere(o)
    /\ conn[o].phase = "run" =>
         \/ StatusNowhere(o)
         \/ Asking(o) /\ StatusWritten(o)
         \/ Asking(o) /\ \E L \in SUBSET Users : StatusComing(o, L) \/ StatusEnding(o, L)

\* What a poll asks, has recorded, is handed and reports.
PollOK(r) ==
    /\ call[r].cmd = Status
    /\ Calling(r) => live \in seen[r]
    /\ \A a \in call[r].resp : a.ok => a.clients \in seen[r]
    /\ call[r].stage = "answered" /\ call[r].answer.ok => call[r].answer.clients \in seen[r]

StatusForPolls == \A o \in Conns, r \in Pollers : r \in inflight[o].for => inflight[o].cmd = Status

StatusInv ==
    /\ \A o \in Conns : StatusOK(o)
    /\ \A r \in Pollers : PollOK(r)
    /\ StatusForPolls

\* Which lines are of a listing.
LEMMA ListingLines ==
    /\ ~Listing(SUCCESS) /\ ~Listing(ERROR) /\ Listing(END)
    /\ \A u : ~Listing(CONNECT(u)) /\ CONNECT(u).kind = "CONNECT"
    /\ \A L : Listing(Data(L)) /\ Data(L) # END /\ Data(L).clients = L /\ Data(L).kind = "DATA"
    /\ END.kind = "END"
BY DEF Listing, SUCCESS, ERROR, END, CONNECT, Data

\* Reading and adding lines that are not of a listing.
LEMMA NoListingSeq ==
    ASSUME NEW s \in Seq(Line), NoListing(s)
    PROVE  /\ s # <<>> => NoListing(Tail(s)) /\ ~Listing(Head(s))
           /\ \A l \in Line : ~Listing(l) => NoListing(Append(s, l))
           /\ \A t \in Seq(Line) : NoListing(t) => NoListing(s \o t)
<1>1. s # <<>> => NoListing(Tail(s)) /\ ~Listing(Head(s))
  BY DEF NoListing
<1>2. \A l \in Line : ~Listing(l) => NoListing(Append(s, l))
  BY DEF NoListing
<1>3. \A t \in Seq(Line) : NoListing(t) => NoListing(s \o t)
  BY DEF NoListing
<1> QED
  BY <1>1, <1>2, <1>3

\* A listing comes after what is on its way.
LEMMA ListingAdded ==
    ASSUME NEW s \in Seq(Line), NoListing(s), NEW L \in SUBSET Users
    PROVE  Coming(s \o <<Data(L), END>>, L)
<1> DEFINE t == s \o <<Data(L), END>>
           i == Len(s) + 2
<1>1. Data(L) \in Line /\ END \in Line
  BY LineTypes
<1>2. <<Data(L), END>> \in Seq(Line)
  BY <1>1
<1>3. Len(t) = i /\ t[i - 1] = Data(L) /\ t[i] = END
  BY <1>1
<1>4. \A j \in 1 .. Len(t) : j \notin {i - 1, i} => t[j] = s[j] /\ j \in DOMAIN s
  BY <1>1, <1>3
<1>5. i \in 2 .. Len(t)
  BY <1>3
<1> HIDE DEF t, i
<1> QED
  BY <1>3, <1>4, <1>5 DEF Coming, NoListing, t

\* Lines that follow a listing.
LEMMA ListingFollowed ==
    ASSUME NEW s \in Seq(Line), NEW t \in Seq(Line), NoListing(t), NEW L \in SUBSET Users
    PROVE  /\ Coming(s, L) => Coming(s \o t, L)
           /\ Ending(s) => Ending(s \o t)
<1>1. /\ s \o t \in Seq(Line) /\ Len(s \o t) = Len(s) + Len(t)
      /\ \A j \in 1 .. Len(s) : (s \o t)[j] = s[j]
      /\ \A j \in 1 .. Len(s) + Len(t) : j > Len(s) => (s \o t)[j] = t[j - Len(s)]
      /\ Len(s) \in Nat /\ Len(t) \in Nat
  OBVIOUS
<1>2. \A j \in 1 .. Len(s) + Len(t) : j > Len(s) => ~Listing((s \o t)[j])
  BY <1>1 DEF NoListing
<1>3. ASSUME Coming(s, L) PROVE Coming(s \o t, L)
  <2>1. PICK i \in 2 .. Len(s) :
          /\ s[i - 1] = Data(L) /\ s[i] = END
          /\ \A j \in 1 .. Len(s) : j \notin {i - 1, i} => ~Listing(s[j])
    BY <1>3 DEF Coming
  <2>2. i \in 2 .. Len(s \o t) /\ (s \o t)[i - 1] = Data(L) /\ (s \o t)[i] = END
    BY <1>1, <2>1
  <2>3. \A j \in 1 .. Len(s \o t) : j \notin {i - 1, i} => ~Listing((s \o t)[j])
    BY <1>1, <1>2, <2>1
  <2> QED
    BY <2>2, <2>3 DEF Coming
<1>4. ASSUME Ending(s) PROVE Ending(s \o t)
  BY <1>1, <1>2, <1>4 DEF Ending
<1> QED
  BY <1>3, <1>4

\* Reading the lines of a listing.
LEMMA ListingRead ==
    ASSUME NEW s \in Seq(Line), NEW L \in SUBSET Users
    PROVE  /\ Coming(s, L) => /\ s # <<>>
                              /\ \/ Head(s) = Data(L) /\ Ending(Tail(s))
                                 \/ ~Listing(Head(s)) /\ Coming(Tail(s), L)
           /\ Ending(s) => s # <<>> /\ Head(s) = END /\ NoListing(Tail(s))
<1>1. ASSUME s # <<>>
      PROVE  /\ Tail(s) \in Seq(Line) /\ Len(Tail(s)) = Len(s) - 1 /\ Head(s) = s[1]
             /\ \A j \in 1 .. Len(s) - 1 : Tail(s)[j] = s[j + 1]
             /\ Len(s) \in Nat /\ Len(s) > 0
  BY <1>1
<1>2. ASSUME Coming(s, L)
      PROVE  /\ s # <<>>
             /\ \/ Head(s) = Data(L) /\ Ending(Tail(s))
                \/ ~Listing(Head(s)) /\ Coming(Tail(s), L)
  <2>1. PICK i \in 2 .. Len(s) :
          /\ s[i - 1] = Data(L) /\ s[i] = END
          /\ \A j \in 1 .. Len(s) : j \notin {i - 1, i} => ~Listing(s[j])
    BY <1>2 DEF Coming
  <2>2. s # <<>>
    BY <2>1
  <2>3. CASE i = 2
    <3>1. Head(s) = Data(L) /\ Tail(s)[1] = END /\ Len(Tail(s)) > 0
      BY <1>1, <2>1, <2>2, <2>3
    <3>2. \A j \in 2 .. Len(Tail(s)) : ~Listing(Tail(s)[j])
      BY <1>1, <2>1, <2>2, <2>3
    <3> QED
      BY <2>2, <3>1, <3>2 DEF Ending
  <2>4. CASE i > 2
    <3>1. ~Listing(Head(s)) /\ i - 1 \in 2 .. Len(Tail(s))
      BY <1>1, <2>1, <2>2, <2>4
    <3>2. Tail(s)[i - 2] = Data(L) /\ Tail(s)[i - 1] = END
      BY <1>1, <2>1, <2>2, <2>4
    <3>3. \A j \in 1 .. Len(Tail(s)) : j \notin {i - 2, i - 1} => ~Listing(Tail(s)[j])
      BY <1>1, <2>1, <2>2, <2>4
    <3>4. (i - 1) - 1 = i - 2
      BY <2>1
    <3>5. Coming(Tail(s), L)
      BY <3>1, <3>2, <3>3, <3>4 DEF Coming
    <3> QED
      BY <2>2, <3>1, <3>5
  <2> QED
    BY <2>1, <2>3, <2>4
<1>3. ASSUME Ending(s)
      PROVE  s # <<>> /\ Head(s) = END /\ NoListing(Tail(s))
  <2>1. s # <<>>
    BY <1>3 DEF Ending
  <2> QED
    BY <1>1, <1>3, <2>1 DEF Ending, NoListing
<1> QED
  BY <1>2, <1>3

\* What a caller reads in the collected lines of a listing.
LEMMA ListingParsed ==
    ASSUME NEW b \in Seq(Line), NEW L \in SUBSET Users, Listed(b, L)
    PROVE  ParsedReply(Status, Append(b, END)).clients = L
<1> DEFINE t == Append(b, END)
<1>1. /\ END \in Line /\ Len(t) = Len(b) + 1 /\ t[Len(b) + 1] = END
      /\ DOMAIN t = 1 .. Len(b) + 1 /\ Len(b) \in Nat /\ DOMAIN b = 1 .. Len(b)
      /\ \A j \in 1 .. Len(b) : t[j] = b[j]
  BY LineTypes
<1>2. PICK k \in DOMAIN b : b[k] = Data(L) /\ \A j \in DOMAIN b : j # k => ~Listing(b[j])
  BY DEF Listed
<1> HIDE DEF t
<1>3. {j \in DOMAIN t : t[j].kind = "DATA"} = {k}
  BY <1>1, <1>2, ListingLines DEF Listing
<1>4. ParsedClients(t) = UNION {t[i].clients : i \in {k}}
  BY <1>3 DEF ParsedClients
<1>5. t[k].clients = L
  BY <1>1, <1>2, ListingLines
<1>6. ParsedClients(t) = L
  BY <1>4, <1>5
<1> QED
  BY <1>6 DEF ParsedReply, t

\* A list that is collected.
LEMMA ListingCollected ==
    ASSUME NEW b \in Seq(Line), NoListing(b), NEW L \in SUBSET Users
    PROVE  Listed(Append(b, Data(L)), L)
<1> DEFINE t == Append(b, Data(L))
<1>1. /\ Data(L) \in Line /\ Len(t) = Len(b) + 1 /\ t[Len(b) + 1] = Data(L)
      /\ DOMAIN t = 1 .. Len(b) + 1 /\ Len(b) \in Nat /\ DOMAIN b = 1 .. Len(b)
      /\ \A j \in 1 .. Len(b) : t[j] = b[j]
  BY LineTypes
<1> HIDE DEF t
<1>2. \A j \in DOMAIN t : j # Len(b) + 1 => ~Listing(t[j])
  BY <1>1 DEF NoListing
<1>3. Len(b) + 1 \in DOMAIN t
  BY <1>1
<1>4. Listed(t, L)
  BY <1>1, <1>2, <1>3 DEF Listed
<1> QED
  BY <1>4 DEF t

\* Commands that are written and read.
LEMMA NoStatusSeq ==
    ASSUME NEW s \in Seq(Cmd), NoStatus(s)
    PROVE  /\ s # <<>> => NoStatus(Tail(s)) /\ Head(s) # Status
           /\ \A c \in Cmd : c # Status => NoStatus(Append(s, c))
<1>1. s # <<>> => NoStatus(Tail(s)) /\ Head(s) # Status
  BY DEF NoStatus
<1>2. \A c \in Cmd : c # Status => NoStatus(Append(s, c))
  BY DEF NoStatus
<1> QED
  BY <1>1, <1>2

\* Only a status is replied to with a listing.
LEMMA ReplyListing ==
    ASSUME NEW c \in Cmd, live \in SUBSET Users
    PROVE  IF c = Status THEN Reply(c) = <<Data(live), END>> ELSE NoListing(Reply(c))
<1>1. CASE c = Status
  BY <1>1 DEF Reply, Status
<1>2. CASE c # Status
  <2>1. c.op # "status"
    BY <1>2 DEF Cmd, Status, Kill, ClientAuth, ClientDeny
  <2>2. NoListing(<<ERROR>>) /\ NoListing(<<SUCCESS>>)
    BY ListingLines DEF NoListing
  <2> QED
    BY <1>2, <2>1, <2>2 DEF Reply
<1> QED
  BY <1>1, <1>2

\* Init establishes it.
LEMMA InitStatusInv == Init => StatusInv
<1> SUFFICES ASSUME Init PROVE StatusInv
  OBVIOUS
<1>1. \A o \in Conns : StatusOK(o)
  BY DEF Init, StatusOK, StatusNowhere, NoStatus, NoListing, NoConn, Early
<1>2. \A r \in Pollers : PollOK(r)
  BY DEF Init, PollOK, Calling, NoCall, Callers
<1>3. StatusForPolls
  BY DEF Init, StatusForPolls, NoInflight
<1> QED
  BY <1>1, <1>2, <1>3 DEF StatusInv

\* A connection that is left alone.
LEMMA StatusStays ==
    ASSUME NEW o \in Conns, StatusOK(o),
           conn'[o].phase \in Early => conn[o].phase \in Early,
           conn'[o].phase = "run" => conn[o].phase \in Early \cup {"run"},
           sent'[o] = sent[o], wire'[o] = wire[o],
           inflight'[o].busy = inflight[o].busy, inflight'[o].cmd = inflight[o].cmd,
           inflight'[o].buf = inflight[o].buf, inflight'[o].for \subseteq inflight[o].for,
           \A r \in inflight'[o].for \cap Pollers : seen[r] \subseteq seen'[r]
    PROVE  StatusOK(o)'
<1>1. StatusNowhere(o) => StatusNowhere(o)'
  BY DEF StatusNowhere
<1>2. StatusWritten(o) => StatusWritten(o)'
  BY DEF StatusWritten
<1>3. \A L \in SUBSET Users : Current(o, L) => Current(o, L)'
  BY DEF Current
<1>4. \A L \in SUBSET Users : /\ StatusComing(o, L) => StatusComing(o, L)'
                              /\ StatusEnding(o, L) => StatusEnding(o, L)'
  BY <1>3 DEF StatusComing, StatusEnding
<1>5. Asking(o)' = Asking(o)
  BY DEF Asking
<1> QED
  BY <1>1, <1>2, <1>4, <1>5 DEF StatusOK, Early

\* A poll that is left alone.
LEMMA PollStays ==
    ASSUME NEW r \in Pollers, PollOK(r), call'[r] = call[r], seen[r] \subseteq seen'[r],
           Calling(r) => live' \in seen'[r]
    PROVE  PollOK(r)'
BY DEF PollOK, Calling

\* Who is connected changes in the sight of the polls.
LEMMA SeenGrows ==
    ASSUME TypeOK, StatusInv, (\E L : SetLive(L)) \/ UNCHANGED <<live, seen>>
    PROVE  \A r \in Pollers : /\ seen[r] \subseteq seen'[r]
                              /\ Calling(r) => live' \in seen'[r]
<1>1. CASE UNCHANGED <<live, seen>>
  BY <1>1 DEF StatusInv, PollOK
<1>2. ASSUME NEW L, SetLive(L)
      PROVE  \A r \in Pollers : seen[r] \subseteq seen'[r] /\ (Calling(r) => live' \in seen'[r])
  BY <1>2 DEF SetLive
<1> QED
  BY <1>1, <1>2

\* A step on one connection.
LEMMA StatusOneConn ==
    ASSUME TypeOK, StatusInv, NEW o \in Conns,
           \A p \in Conns : p # o =>
             /\ conn'[p] = conn[p] /\ sent'[p] = sent[p] /\ wire'[p] = wire[p]
             /\ inflight'[p] = inflight[p],
           \A r \in Pollers : seen[r] \subseteq seen'[r],
           \A r \in Pollers : PollOK(r)',
           StatusOK(o)',
           \A r \in Pollers : r \in inflight'[o].for => inflight'[o].cmd = Status
    PROVE  StatusInv'
<1>1. \A p \in Conns : p # o => StatusOK(p)'
  BY StatusStays DEF StatusInv
<1>2. StatusForPolls'
  BY DEF StatusInv, StatusForPolls
<1> QED
  BY <1>1, <1>2 DEF StatusInv

\* A step of a caller.
LEMMA StatusOneCall ==
    ASSUME TypeOK, StatusInv, UNCHANGED <<conn, sent, wire>>,
           \A o \in Conns :
             /\ inflight'[o].busy = inflight[o].busy /\ inflight'[o].cmd = inflight[o].cmd
             /\ inflight'[o].buf = inflight[o].buf
             /\ inflight'[o].for \subseteq inflight[o].for
             /\ \A r \in inflight'[o].for \cap Pollers : seen[r] \subseteq seen'[r],
           \A r \in Pollers : PollOK(r)'
    PROVE  StatusInv'
<1>1. \A o \in Conns : StatusOK(o)'
  BY StatusStays DEF StatusInv
<1>2. StatusForPolls'
  BY DEF StatusInv, StatusForPolls
<1> QED
  BY <1>1, <1>2 DEF StatusInv

\* An answer that is not good, or lists the clients of the moment, may be handed out.
LEMMA PollAnswered ==
    ASSUME TypeOK, StatusInv, NEW o \in Conns, NEW a \in Answer, Respond(o, a),
           UNCHANGED <<live, seen>>,
           \A r \in inflight[o].for \cap Pollers : a.ok => a.clients \in seen[r]
    PROVE  \A r \in Pollers : PollOK(r)'
<1> SUFFICES ASSUME NEW r \in Pollers PROVE PollOK(r)'
  OBVIOUS
<1>0. r \in Callers /\ call \in [Callers -> CallRec] /\ PollOK(r)
  BY Unpacked DEF Callers, StatusInv
<1>1. CASE r \notin inflight[o].for
  <2>1. call'[r] = call[r]
    BY <1>0, <1>1 DEF Respond
  <2> QED
    BY <1>0, <2>1, PollStays, SeenGrows
<1>2. CASE r \in inflight[o].for
  <2>1. call'[r] = [call[r] EXCEPT !.resp = @ \cup {a}]
    BY <1>0, <1>2 DEF Respond
  <2>2. /\ call'[r].resp = call[r].resp \cup {a} /\ call'[r].stage = call[r].stage
        /\ call'[r].cmd = call[r].cmd /\ call'[r].answer = call[r].answer
    BY <1>0, <2>1 DEF CallRec
  <2> QED
    BY <1>0, <1>2, <2>2 DEF PollOK, Calling
<1> QED
  BY <1>1, <1>2

\* The steps of the loop's connection preserve it.
LEMMA ConnStepStatus ==
    ASSUME TypeOK, StatusInv, NEW o \in Conns,
           \/ Dial(o) \/ Welcome(o) \/ WelcomeFails(o) \/ registerBroker(o)
           \/ WatcherCloses(o) \/ PeerCloses(o) \/ ReadConnectFails(o)
           \/ CloseDone(o) \/ unregisterBroker(o) \/ CloseConn(o)
    PROVE  StatusInv'
<1>0. /\ conn \in [Conns -> Conn] /\ inflight \in [Conns -> InflightRec]
      /\ sent \in [Conns -> Seq(Cmd)] /\ wire \in [Conns -> Seq(Line)]
      /\ StatusOK(o) /\ conn[o] \in Conn
  BY Unpacked DEF StatusInv
<1>1. UNCHANGED <<call, live, seen>>
  BY DEF Dial, Welcome, WelcomeFails, registerBroker, WatcherCloses, PeerCloses,
         ReadConnectFails, CloseDone, unregisterBroker, CloseConn, Leaves, clients
<1>2. \A r \in Pollers : seen[r] \subseteq seen'[r] /\ PollOK(r)'
  BY <1>1, PollStays, SeenGrows DEF StatusInv
<1>3. \A p \in Conns : p # o =>
        /\ conn'[p] = conn[p] /\ sent'[p] = sent[p] /\ wire'[p] = wire[p]
        /\ inflight'[p] = inflight[p]
  BY <1>0 DEF Dial, Welcome, WelcomeFails, registerBroker, WatcherCloses, PeerCloses,
              ReadConnectFails, CloseDone, unregisterBroker, CloseConn, Leaves, Hangup,
              console
<1>4. \A r \in Pollers : r \in inflight'[o].for => inflight'[o].cmd = Status
  <2>1. inflight'[o] = inflight[o] \/ inflight'[o] = NoInflight
    BY <1>0 DEF Dial, Welcome, WelcomeFails, registerBroker, WatcherCloses, PeerCloses,
                ReadConnectFails, CloseDone, unregisterBroker, CloseConn, Leaves
  <2> QED
    BY <2>1 DEF StatusInv, StatusForPolls, NoInflight
<1>5. StatusOK(o)'
  <2>1. CASE Dial(o) \/ Welcome(o) \/ registerBroker(o)
    <3>1. UNCHANGED <<sent, wire, inflight>>
      BY <2>1 DEF Dial, Welcome, registerBroker, console
    <3>2. /\ conn[o].phase \in Early
          /\ conn'[o].phase \in {"dialled", "ready", "run"}
      BY <1>0, <2>1 DEF Dial, Welcome, registerBroker, Conn, Early
    <3> QED
      BY <1>0, <1>1, <3>1, <3>2, StatusStays DEF Early
  <2>2. CASE WelcomeFails(o) \/ ReadConnectFails(o) \/ CloseDone(o) \/ unregisterBroker(o) \/ CloseConn(o)
    <3>1. conn'[o].phase \in {"leaving", "done", "unregistered", "closed"}
      BY <1>0, <2>2 DEF WelcomeFails, ReadConnectFails, CloseDone, unregisterBroker,
                        CloseConn, Leaves, Conn
    <3> QED
      BY <3>1 DEF StatusOK, Early
  <2>3. CASE WatcherCloses(o)
    <3>1. sent'[o] = <<>> /\ wire'[o] = <<>>
      BY <1>0, <2>3 DEF WatcherCloses, Hangup
    <3>2. StatusNowhere(o)'
      BY <3>1 DEF StatusNowhere, NoStatus, NoListing
    <3> QED
      BY <3>2 DEF StatusOK
  <2>4. CASE PeerCloses(o)
    <3>1. /\ sent'[o] = <<>> /\ wire'[o] = wire[o] /\ inflight'[o] = inflight[o]
          /\ conn'[o].phase = conn[o].phase
      BY <1>0, <2>4 DEF PeerCloses, Hangup, Conn
    <3>2. NoStatus(sent[o])'
      BY <3>1 DEF NoStatus
    <3>3. StatusNowhere(o) \/ StatusWritten(o) => StatusNowhere(o)'
      BY <3>1, <3>2 DEF StatusNowhere, StatusWritten
    <3>4. \A L \in SUBSET Users : Current(o, L) => Current(o, L)'
      BY <1>1, <3>1 DEF Current
    <3>5. \A L \in SUBSET Users : /\ StatusComing(o, L) => StatusComing(o, L)'
                                  /\ StatusEnding(o, L) => StatusEnding(o, L)'
      BY <3>1, <3>2, <3>4 DEF StatusComing, StatusEnding
    <3>6. Asking(o)' = Asking(o)
      BY <3>1 DEF Asking
    <3> QED
      BY <1>0, <3>1, <3>3, <3>5, <3>6 DEF StatusOK
  <2> QED
    BY <2>1, <2>2, <2>3, <2>4
<1> QED
  BY <1>2, <1>3, <1>4, <1>5, StatusOneConn

\* Reading a line of a reply preserves it.
LEMMA ReadReplyStatus ==
    ASSUME TypeOK, StatusInv, NEW o \in Conns, ReadReply(o)
    PROVE  StatusInv'
<1> DEFINE s == wire[o]
           b == inflight[o].buf
           l == Head(s)
<1>0. /\ inflight \in [Conns -> InflightRec] /\ inflight[o] \in InflightRec
      /\ s \in Seq(Line) /\ b \in Seq(Line) /\ s # <<>> /\ wire \in [Conns -> Seq(Line)]
      /\ StatusOK(o)
  BY Unpacked DEF ReadReply, StatusInv, InflightRec
<1>1. /\ wire' = [wire EXCEPT ![o] = Tail(s)] /\ Running(o) /\ l.kind # "CONNECT"
      /\ UNCHANGED <<conn, sent, live, seen>>
  BY DEF ReadReply, clients
<1>2. wire'[o] = Tail(s) /\ l \in Line /\ Tail(s) \in Seq(Line)
  BY <1>0, <1>1
<1>3. /\ \A r \in Pollers : seen[r] \subseteq seen'[r]
      /\ UNCHANGED call => \A r \in Pollers : PollOK(r)'
  BY <1>1, PollStays, SeenGrows DEF StatusInv
<1> HIDE DEF l, s
<1>4. CASE ~inflight[o].busy /\ UNCHANGED <<inflight, call>>
  <2>1. StatusNowhere(o)
    BY <1>0, <1>1, <1>4 DEF StatusOK, Running, Asking
  <2>2. StatusNowhere(o)'
    BY <1>0, <1>1, <1>2, <2>1, NoListingSeq DEF StatusNowhere, s
  <2> QED
    BY <1>0, <1>1, <1>3, <1>4, <2>2, StatusOneConn DEF StatusOK, StatusInv, StatusForPolls
<1>5. CASE /\ isComplete(inflight[o].cmd, l)
           /\ Respond(o, ParsedReply(inflight[o].cmd, Append(b, l)))
           /\ inflight' = [inflight EXCEPT ![o] = NoInflight]
           /\ inflight[o].busy
  <2> DEFINE a == ParsedReply(inflight[o].cmd, Append(b, l))
  <2>1. Append(b, l) \in Seq(Line)
    BY <1>0, <1>2
  <2>2. a \in Answer
    BY <2>1, ParsedType
  <2>3. /\ inflight'[o].for = {} /\ inflight'[o].busy = FALSE
        /\ \A p \in Conns : p # o => inflight'[p] = inflight[p]
    BY <1>0, <1>5 DEF NoInflight
  \* Nothing of a listing is left.
  <2>4. StatusNowhere(o)'
    <3>1. CASE StatusNowhere(o)
      BY <1>0, <1>1, <1>2, <3>1, NoListingSeq DEF StatusNowhere, s
    <3>2. CASE Asking(o) /\ StatusWritten(o)
      <4>1. l = END /\ ~Listing(l)
        BY <1>0, <1>5, <3>2, NoListingSeq DEF Asking, isComplete, StatusWritten, s, l
      <4> QED
        BY <4>1, ListingLines
    <3>3. ASSUME NEW L \in SUBSET Users, Asking(o), StatusComing(o, L) \/ StatusEnding(o, L)
          PROVE  StatusNowhere(o)'
      <4>1. l = END
        BY <1>5, <3>3 DEF Asking, isComplete
      <4>2. ~StatusComing(o, L)
        BY <1>0, <4>1, ListingRead, ListingLines DEF StatusComing, s, l
      <4>3. NoListing(Tail(s)) /\ NoStatus(sent[o])
        BY <1>0, <3>3, <4>2, ListingRead DEF StatusEnding, s
      <4> QED
        BY <1>1, <1>2, <4>3 DEF StatusNowhere
    <3> QED
      BY <1>0, <1>1, <3>1, <3>2, <3>3 DEF StatusOK, Running
  \* What the polls are handed is current.
  <2>5. ASSUME NEW r \in inflight[o].for \cap Pollers, a.ok
        PROVE  a.clients \in seen[r]
    <3>1. inflight[o].cmd = Status /\ l = END /\ Asking(o)
      BY <1>5, <2>5 DEF StatusInv, StatusForPolls, isComplete, Asking
    <3>2. ~StatusNowhere(o) /\ ~StatusWritten(o)
      BY <1>0, <3>1, NoListingSeq, ListingLines DEF StatusNowhere, StatusWritten, s, l
    <3>3. PICK L \in SUBSET Users : StatusComing(o, L) \/ StatusEnding(o, L)
      BY <1>0, <1>1, <3>2 DEF StatusOK, Running
    <3>4. ~StatusComing(o, L)
      BY <1>0, <3>1, ListingRead, ListingLines DEF StatusComing, s, l
    <3>5. Listed(b, L) /\ Current(o, L)
      BY <3>3, <3>4 DEF StatusEnding
    <3>6. a.clients = L
      BY <1>0, <3>1, <3>5, ListingParsed
    <3> QED
      BY <2>5, <3>5, <3>6 DEF Current
  <2> HIDE DEF a
  <2>6. Respond(o, a)
    BY <1>5 DEF a
  <2>7. \A r \in Pollers : PollOK(r)'
    BY <1>1, <2>2, <2>5, <2>6, PollAnswered
  <2> QED
    BY <1>0, <1>1, <1>3, <2>3, <2>4, <2>7, StatusOneConn DEF StatusOK
<1>6. CASE /\ ~isComplete(inflight[o].cmd, l)
           /\ inflight' = [inflight EXCEPT ![o].buf = Append(b, l)]
           /\ UNCHANGED call
           /\ inflight[o].busy
  <2>1. /\ inflight'[o].buf = Append(b, l) /\ inflight'[o].busy = inflight[o].busy
        /\ inflight'[o].cmd = inflight[o].cmd /\ inflight'[o].for = inflight[o].for
        /\ \A p \in Conns : p # o => inflight'[p] = inflight[p]
    BY <1>0, <1>6 DEF InflightRec
  <2>2. Asking(o)' = Asking(o) /\ \A L \in SUBSET Users : Current(o, L) => Current(o, L)'
    BY <1>1, <2>1 DEF Asking, Current
  <2>3. CASE StatusNowhere(o)
    <3>1. StatusNowhere(o)'
      BY <1>0, <1>1, <1>2, <2>3, NoListingSeq DEF StatusNowhere, s
    <3> QED
      BY <1>0, <1>1, <1>3, <1>6, <2>1, <3>1, StatusOneConn
         DEF StatusOK, StatusInv, StatusForPolls
  <2>4. CASE Asking(o) /\ StatusWritten(o)
    <3>1. NoListing(Tail(s)) /\ ~Listing(l) /\ NoListing(b)
      BY <1>0, <2>4, NoListingSeq DEF StatusWritten, s, l
    <3>2. NoListing(Append(b, l))
      BY <1>0, <1>2, <3>1, NoListingSeq
    <3>3. StatusWritten(o)'
      BY <1>1, <1>2, <2>1, <2>4, <3>1, <3>2 DEF StatusWritten
    <3>4. StatusOK(o)'
      BY <1>1, <2>2, <2>4, <3>3 DEF StatusOK, Running, Early
    <3> QED
      BY <1>0, <1>1, <1>3, <1>6, <2>1, <3>4, StatusOneConn DEF StatusInv, StatusForPolls
  <2>5. ASSUME NEW L \in SUBSET Users, Asking(o), StatusComing(o, L) \/ StatusEnding(o, L)
        PROVE  StatusInv'
    <3>1. l # END
      BY <1>6, <2>5 DEF Asking, isComplete
    <3>2. StatusComing(o, L)
      BY <1>0, <2>5, <3>1, ListingRead DEF StatusEnding, s, l
    <3>3. StatusComing(o, L)' \/ StatusEnding(o, L)'
      <4>1. CASE l = Data(L) /\ Ending(Tail(s))
        <5>1. Listed(Append(b, l), L)
          BY <1>0, <3>2, <4>1, ListingCollected DEF StatusComing
        <5> QED
          BY <1>1, <1>2, <2>1, <2>2, <3>2, <4>1, <5>1 DEF StatusComing, StatusEnding
      <4>2. CASE ~Listing(l) /\ Coming(Tail(s), L)
        <5>1. NoListing(Append(b, l))
          BY <1>0, <1>2, <3>2, <4>2, NoListingSeq DEF StatusComing
        <5> QED
          BY <1>1, <1>2, <2>1, <2>2, <3>2, <4>2, <5>1 DEF StatusComing
      <4> QED
        BY <1>0, <3>2, <4>1, <4>2, ListingRead DEF StatusComing, s, l
    <3>4. StatusOK(o)'
      BY <1>1, <2>2, <2>5, <3>3 DEF StatusOK, Running, Early
    <3> QED
      BY <1>0, <1>1, <1>3, <1>6, <2>1, <3>4, StatusOneConn DEF StatusInv, StatusForPolls
  <2> QED
    BY <1>0, <1>1, <2>3, <2>4, <2>5 DEF StatusOK, Running
<1> QED
  BY <1>4, <1>5, <1>6 DEF ReadReply, l, s

\* A verdict, a command that is taken and the end of the loop preserve it.
LEMMA LoopStepStatus ==
    ASSUME TypeOK, StatusInv, NEW o \in Conns,
           \/ LoopEnds(o) \/ ReadConnect(o)
           \/ \E r \in Callers : TakeCommand(o, r) \/ TakeCommandFails(o, r)
    PROVE  StatusInv'
<1>0. /\ conn \in [Conns -> Conn] /\ inflight \in [Conns -> InflightRec]
      /\ sent \in [Conns -> Seq(Cmd)] /\ wire \in [Conns -> Seq(Line)]
      /\ call \in [Callers -> CallRec]
      /\ StatusOK(o) /\ conn[o] \in Conn /\ inflight[o] \in InflightRec
      /\ wire[o] \in Seq(Line) /\ sent[o] \in Seq(Cmd)
  BY Unpacked DEF StatusInv
<1>1. UNCHANGED <<live, seen>> /\ \A r \in Pollers : seen[r] \subseteq seen'[r]
  <2>1. UNCHANGED <<live, seen>>
    BY DEF LoopEnds, ReadConnect, TakeCommand, TakeCommandFails, clients
  <2> QED
    BY <2>1
<1>2. UNCHANGED call => \A r \in Pollers : PollOK(r)'
  BY <1>1, PollStays, SeenGrows DEF StatusInv
<1>3. CASE LoopEnds(o)
  <2>1. /\ conn'[o].phase = "leaving" /\ inflight'[o].for = {}
        /\ \A p \in Conns : p # o => conn'[p] = conn[p] /\ inflight'[p] = inflight[p]
        /\ UNCHANGED <<sent, wire>>
    BY <1>0, <1>3 DEF LoopEnds, NoInflight, Conn, console
  <2>2. \A r \in Pollers : PollOK(r)'
    BY <1>1, <1>3, RestTypes, PollAnswered DEF LoopEnds, NoAnswer
  <2>3. StatusOK(o)'
    BY <2>1 DEF StatusOK, Early
  <2> QED
    BY <1>1, <2>1, <2>2, <2>3, StatusOneConn
<1>4. CASE ReadConnect(o)
  <2> DEFINE u == Head(wire[o]).user
             v == IF u \in revoked THEN ClientDeny(u) ELSE ClientAuth(u)
  <2>1. wire[o] # <<>> /\ Head(wire[o]) \in Line /\ Head(wire[o]).kind = "CONNECT" /\ Running(o)
    BY <1>0, <1>4 DEF ReadConnect
  <2>2. u \in Users /\ ~Listing(Head(wire[o]))
    BY <2>1, LineContents, ListingLines DEF Listing
  <2>3. v \in Cmd /\ v # Status
    BY <2>2, CmdTypes DEF ClientDeny, ClientAuth, Status
  <2>4. sent' = [sent EXCEPT ![o] = Append(sent[o], v)]
    BY <1>4 DEF ReadConnect
  <2> HIDE DEF v
  <2>5. /\ sent'[o] = Append(sent[o], v) /\ wire'[o] = Tail(wire[o])
        /\ \A p \in Conns : p # o => sent'[p] = sent[p] /\ wire'[p] = wire[p]
        /\ UNCHANGED <<conn, inflight, call>>
    BY <1>0, <1>4, <2>4 DEF ReadConnect, loopVars
  <2>6. Asking(o)' = Asking(o) /\ \A L \in SUBSET Users : Current(o, L) => Current(o, L)'
    BY <1>1, <2>5 DEF Asking, Current
  <2>7. NoStatus(sent[o]) => NoStatus(sent[o])'
    BY <1>0, <2>3, <2>5, NoStatusSeq
  <2>8. NoListing(wire[o]) => NoListing(wire[o])'
    BY <1>0, <2>1, <2>5, NoListingSeq
  <2>9. StatusNowhere(o) => StatusNowhere(o)'
    BY <2>7, <2>8 DEF StatusNowhere
  <2>10. StatusWritten(o) => StatusWritten(o)'
    <3>1. ASSUME \A i, j \in DOMAIN sent[o] : sent[o][i] = Status /\ sent[o][j] = Status => i = j
          PROVE  \A i, j \in DOMAIN sent'[o] : sent'[o][i] = Status /\ sent'[o][j] = Status => i = j
      BY <1>0, <2>3, <2>5, <3>1
    <3> QED
      BY <2>5, <2>8, <3>1 DEF StatusWritten
  <2>11. ASSUME NEW L \in SUBSET Users
         PROVE  /\ ~StatusEnding(o, L)
                /\ StatusComing(o, L) => StatusComing(o, L)'
    <3>1. ~Ending(wire[o])
      BY <1>0, <2>2, ListingRead, ListingLines
    <3>2. Coming(wire[o], L) => Coming(Tail(wire[o]), L)
      BY <1>0, <2>2, ListingRead, ListingLines
    <3> QED
      BY <2>5, <2>6, <2>7, <3>1, <3>2 DEF StatusEnding, StatusComing
  <2>12. StatusOK(o)'
    BY <1>0, <2>1, <2>5, <2>6, <2>9, <2>10, <2>11 DEF StatusOK, Running, Early
  <2> QED
    BY <1>1, <1>2, <2>5, <2>12, StatusOneConn DEF StatusInv, StatusForPolls
<1>5. ASSUME NEW r \in Callers, TakeCommand(o, r)
      PROVE  StatusInv'
  <2> DEFINE c == call[r].cmd
  <2>1. Running(o) /\ ~inflight[o].busy /\ call[r].stage = "offer" /\ c \in Cmd
    BY <1>0, <1>5 DEF TakeCommand, Offered, CallRec
  <2>2. StatusNowhere(o)
    BY <1>0, <2>1 DEF StatusOK, Running, Asking
  <2>3. /\ inflight'[o] = Outstanding(c, r) /\ UNCHANGED <<conn, wire>>
        /\ sent'[o] = sent[o] \/ sent'[o] = Append(sent[o], c)
        /\ \A p \in Conns : p # o => sent'[p] = sent[p] /\ inflight'[p] = inflight[p]
    BY <1>0, <1>5 DEF TakeCommand
  <2>4. /\ inflight'[o].for = {r} /\ inflight'[o].cmd = c /\ inflight'[o].busy
        /\ inflight'[o].buf = <<>>
    BY <2>3 DEF Outstanding
  <2>5. call' = [call EXCEPT ![r].stage = "wait"]
    BY <1>5 DEF TakeCommand
  <2>6. \A q \in Pollers : PollOK(q)'
    <3>1. ASSUME NEW q \in Pollers, q # r
          PROVE  PollOK(q)'
      BY <1>0, <1>1, <2>5, <3>1, PollStays, SeenGrows DEF StatusInv, Callers
    <3>2. ASSUME r \in Pollers
          PROVE  PollOK(r)'
      <4>1. /\ call'[r].resp = call[r].resp /\ call'[r].stage = "wait"
            /\ call'[r].cmd = call[r].cmd
        BY <1>0, <2>5 DEF CallRec
      <4> QED
        BY <1>1, <2>1, <3>2, <4>1 DEF StatusInv, PollOK, Calling
    <3> QED
      BY <3>1, <3>2
  <2>7. StatusOK(o)'
    <3>1. CASE sent'[o] = sent[o]
      BY <2>2, <2>3, <3>1 DEF StatusOK, StatusNowhere
    <3>2. CASE sent'[o] = Append(sent[o], c) /\ c # Status
      <4>1. NoStatus(sent[o])'
        BY <1>0, <2>1, <2>2, <3>2, NoStatusSeq DEF StatusNowhere
      <4> QED
        BY <2>2, <2>3, <4>1 DEF StatusOK, StatusNowhere
    <3>3. CASE sent'[o] = Append(sent[o], c) /\ c = Status
      <4>1. \A i, j \in DOMAIN sent'[o] : sent'[o][i] = Status /\ sent'[o][j] = Status => i = j
        BY <1>0, <2>1, <2>2, <3>3 DEF StatusNowhere, NoStatus
      <4>2. StatusWritten(o)' /\ Asking(o)'
        BY <2>2, <2>3, <2>4, <3>3, <4>1
           DEF StatusWritten, StatusNowhere, NoListing, Asking
      <4> QED
        BY <2>1, <2>3, <4>2 DEF StatusOK, Running, Early
    <3> QED
      BY <2>3, <3>1, <3>2, <3>3
  <2>8. \A q \in Pollers : q \in inflight'[o].for => inflight'[o].cmd = Status
    BY <2>4 DEF StatusInv, PollOK
  <2> QED
    BY <1>1, <2>3, <2>6, <2>7, <2>8, StatusOneConn
<1>6. ASSUME NEW r \in Callers, TakeCommandFails(o, r)
      PROVE  StatusInv'
  <2>1. /\ conn'[o].phase = "leaving" /\ UNCHANGED <<inflight, sent, wire>>
        /\ \A p \in Conns : p # o => conn'[p] = conn[p]
        /\ call[r].stage = "offer"
    BY <1>0, <1>6 DEF TakeCommandFails, Offered, Conn, console
  <2>2. \A q \in Pollers : PollOK(q)'
    <3>1. ASSUME NEW q \in Pollers, q # r
          PROVE  PollOK(q)'
      <4>1. call'[q] = call[q]
        BY <1>0, <1>6, <3>1 DEF TakeCommandFails, Callers
      <4> QED
        BY <1>1, <3>1, <4>1, PollStays, SeenGrows DEF StatusInv
    <3>2. ASSUME r \in Pollers
          PROVE  PollOK(r)'
      <4>1. /\ call'[r].resp = {NoAnswer} /\ call'[r].stage = "wait"
            /\ call'[r].cmd = call[r].cmd
        BY <1>0, <1>6 DEF TakeCommandFails, CallRec
      <4> QED
        BY <1>1, <2>1, <3>2, <4>1 DEF StatusInv, PollOK, Calling, NoAnswer
    <3> QED
      BY <3>1, <3>2
  <2>3. StatusOK(o)'
    BY <2>1 DEF StatusOK, Early
  <2> QED
    BY <1>1, <2>1, <2>2, <2>3, StatusOneConn DEF StatusInv, StatusForPolls
<1> QED
  BY <1>3, <1>4, <1>5, <1>6

\* The steps of OpenVPN and its clients preserve it.
LEMMA ConsoleStepStatus ==
    ASSUME OnceInv, StatusInv,
           \/ \E o \in Conns : ConsoleAnswers(o)
           \/ \E u \in Users : ClientConnects(u) \/ ClientDisconnects(u)
    PROVE  StatusInv'
<1>0. /\ TypeOK /\ inflight \in [Conns -> InflightRec] /\ live \in SUBSET Users
      /\ sent \in [Conns -> Seq(Cmd)] /\ wire \in [Conns -> Seq(Line)]
  BY Unpacked DEF OnceInv
<1>1. UNCHANGED <<conn, inflight, call>>
  BY DEF ConsoleAnswers, ClientConnects, ClientDisconnects, loopVars
<1>2. (\E L : SetLive(L)) \/ UNCHANGED <<live, seen>>
  BY DEF ConsoleAnswers, ClientConnects, ClientDisconnects
<1>3. \A r \in Pollers : /\ seen[r] \subseteq seen'[r]
                         /\ Calling(r) => live' \in seen'[r]
  BY <1>0, <1>2, SeenGrows
<1>4. \A r \in Pollers : PollOK(r)'
  BY <1>1, <1>3, PollStays DEF StatusInv
<1>5. ASSUME NEW o \in Conns, NEW t \in Seq(Line), NoListing(t),
             wire' = [wire EXCEPT ![o] = wire[o] \o t],
             \A p \in Conns : p # o => sent'[p] = sent[p],
             NoStatus(sent[o]) => NoStatus(sent'[o]),
             (\A i, j \in DOMAIN sent[o] : sent[o][i] = Status /\ sent[o][j] = Status => i = j)
               => \A i, j \in DOMAIN sent'[o] :
                     sent'[o][i] = Status /\ sent'[o][j] = Status => i = j
      PROVE  StatusInv'
  <2>1. /\ wire[o] \in Seq(Line) /\ wire'[o] = wire[o] \o t
        /\ \A p \in Conns : p # o => wire'[p] = wire[p]
    BY <1>0, <1>5
  <2>2. NoListing(wire[o]) => NoListing(wire'[o])
    BY <1>5, <2>1, NoListingSeq
  <2>3. \A L \in SUBSET Users : /\ Coming(wire[o], L) => Coming(wire'[o], L)
                                /\ Ending(wire[o]) => Ending(wire'[o])
    BY <1>5, <2>1, ListingFollowed
  <2>4. Asking(o)' = Asking(o) /\ \A L \in SUBSET Users : Current(o, L) => Current(o, L)'
    BY <1>1, <1>3 DEF Asking, Current
  <2>5. StatusNowhere(o) => StatusNowhere(o)'
    BY <1>5, <2>2 DEF StatusNowhere
  <2>6. StatusWritten(o) => StatusWritten(o)'
    BY <1>1, <1>5, <2>2 DEF StatusWritten
  <2>7. \A L \in SUBSET Users : /\ StatusComing(o, L) => StatusComing(o, L)'
                                /\ StatusEnding(o, L) => StatusEnding(o, L)'
    BY <1>1, <1>5, <2>3, <2>4 DEF StatusComing, StatusEnding
  <2>8. StatusOK(o)'
    BY <1>1, <2>4, <2>5, <2>6, <2>7 DEF StatusInv, StatusOK
  <2> QED
    BY <1>0, <1>1, <1>3, <1>4, <1>5, <2>1, <2>8, StatusOneConn DEF StatusInv, StatusForPolls
<1>6. ASSUME NEW o \in Conns, ConsoleAnswers(o)
      PROVE  StatusInv'
  <2> DEFINE c == Head(sent[o])
  <2>1. /\ sent[o] \in Seq(Cmd) /\ sent[o] # <<>> /\ c \in Cmd /\ wire[o] \in Seq(Line)
        /\ Tail(sent[o]) \in Seq(Cmd)
    BY <1>0, <1>6 DEF ConsoleAnswers
  <2>2. /\ sent'[o] = Tail(sent[o]) /\ \A p \in Conns : p # o => sent'[p] = sent[p]
        /\ wire' = [wire EXCEPT ![o] = wire[o] \o Reply(c)]
    BY <1>0, <1>6 DEF ConsoleAnswers
  <2>3. NoStatus(sent[o]) => NoStatus(sent'[o]) /\ c # Status
    BY <2>1, <2>2, NoStatusSeq
  <2>4. /\ \A i \in DOMAIN sent'[o] : i + 1 \in DOMAIN sent[o] /\ sent'[o][i] = sent[o][i + 1]
        /\ \A i \in DOMAIN sent'[o] : i \in Nat /\ i > 0
        /\ 1 \in DOMAIN sent[o] /\ c = sent[o][1]
    BY <2>1, <2>2
  <2> HIDE DEF c
  <2>5. CASE c # Status
    <3>1. Reply(c) \in Seq(Line) /\ NoListing(Reply(c))
      BY <1>0, <2>1, <2>5, ReplyType, ReplyListing
    <3>2. (\A i, j \in DOMAIN sent[o] : sent[o][i] = Status /\ sent[o][j] = Status => i = j)
               => \A i, j \in DOMAIN sent'[o] :
                     sent'[o][i] = Status /\ sent'[o][j] = Status => i = j
      BY <2>4
    <3> QED
      BY <1>5, <2>2, <2>3, <3>1, <3>2
  <2>6. CASE c = Status
    <3>1. Reply(c) = <<Data(live), END>>
      BY <1>0, <2>1, <2>6, ReplyListing
    <3>2. /\ wire'[o] = wire[o] \o <<Data(live), END>>
          /\ \A p \in Conns : p # o => wire'[p] = wire[p]
      BY <1>0, <2>2, <3>1
    <3>3. StatusOK(o)'
      <4>1. ~StatusNowhere(o) /\ \A L \in SUBSET Users : ~StatusComing(o, L) /\ ~StatusEnding(o, L)
        BY <2>3, <2>6 DEF StatusNowhere, StatusComing, StatusEnding
      <4>2. CASE conn[o].phase = "run"
        <5>1. Asking(o) /\ StatusWritten(o)
          BY <4>1, <4>2 DEF StatusInv, StatusOK
        <5>2. Coming(wire'[o], live)
          BY <1>0, <2>1, <3>2, <5>1, ListingAdded DEF StatusWritten
        <5>3. NoStatus(sent'[o])
          <6> SUFFICES ASSUME NEW i \in DOMAIN sent'[o], sent'[o][i] = Status PROVE FALSE
            BY DEF NoStatus
          <6>1. i + 1 \in DOMAIN sent[o] /\ sent[o][i + 1] = Status
            BY <2>4
          <6>2. i + 1 = 1
            BY <2>4, <2>6, <5>1, <6>1 DEF StatusWritten
          <6> QED
            BY <2>4, <6>2
        <5>4. \A r \in inflight[o].for \cap Pollers : live \in seen'[r]
          <6> SUFFICES ASSUME NEW r \in inflight[o].for \cap Pollers PROVE live \in seen'[r]
            OBVIOUS
          <6>1. r \in Callers /\ Calling(r)
            BY DEF OnceInv, AnsweredOnce, Calling, Callers
          <6> QED
            BY <1>3, <6>1 DEF StatusInv, PollOK
        <5>5. /\ NoStatus(sent'[o]) /\ Coming(wire'[o], live)
              /\ NoListing(inflight'[o].buf)
              /\ \A r \in inflight'[o].for \cap Pollers : live \in seen'[r]
              /\ Asking(o)'
          BY <1>1, <5>1, <5>2, <5>3, <5>4 DEF StatusWritten, Asking
        <5>6. PICK L \in SUBSET Users : L = live
          BY <1>0
        <5>7. StatusComing(o, L)'
          BY <5>5, <5>6 DEF StatusComing, Current
        <5> QED
          BY <1>1, <4>2, <5>5, <5>7 DEF StatusOK, Early
      <4>3. CASE conn[o].phase # "run"
        BY <1>1, <4>1, <4>3 DEF StatusInv, StatusOK
      <4> QED
        BY <4>2, <4>3
    <3> QED
      BY <1>0, <1>1, <1>3, <1>4, <2>2, <3>2, <3>3, StatusOneConn DEF StatusInv, StatusForPolls
  <2> QED
    BY <2>5, <2>6
<1>7. ASSUME NEW u \in Users, ClientConnects(u)
      PROVE  StatusInv'
  <2> DEFINE o == serving
             t == <<CONNECT(u)>>
  <2>1. o \in Conns
    BY <1>0, <1>7, BrokerAssumption DEF ClientConnects, TypeOK, Conns, Nobody
  <2>2. CONNECT(u) \in Line /\ wire[o] \in Seq(Line)
    BY <1>0, <2>1, LineTypes
  <2>3. t \in Seq(Line) /\ NoListing(t) /\ Append(wire[o], CONNECT(u)) = wire[o] \o t
    BY <2>2, ListingLines DEF NoListing
  <2>4. wire' = [wire EXCEPT ![o] = wire[o] \o t] /\ UNCHANGED sent
    BY <1>7, <2>3 DEF ClientConnects
  <2> HIDE DEF o, t
  <2> QED
    BY <1>5, <2>1, <2>3, <2>4
<1>8. ASSUME NEW u \in Users, ClientDisconnects(u)
      PROVE  StatusInv'
  <2>1. UNCHANGED <<conn, sent, wire, inflight>>
    BY <1>1, <1>8 DEF ClientDisconnects, console
  <2> QED
    BY <1>0, <1>3, <1>4, <2>1, StatusOneCall
<1> QED
  BY <1>6, <1>7, <1>8

\* The steps of the callers preserve it.
LEMMA CallStepStatus ==
    ASSUME OnceInv, StatusInv, NEW r \in Callers, CallStep(r)
    PROVE  StatusInv'
<1>0. /\ TypeOK /\ inflight \in [Conns -> InflightRec] /\ call \in [Callers -> CallRec]
      /\ call[r] \in CallRec /\ live \in SUBSET Users
      /\ Pollers \subseteq Callers /\ Killers \cap Pollers = {}
  BY Unpacked, BrokerAssumption DEF OnceInv, Callers
<1>1. ASSUME NEW c, call' = [call EXCEPT ![r] = c],
             UNCHANGED <<conn, sent, wire>>,
             UNCHANGED inflight \/ inflight' = [o \in Conns |-> [inflight[o] EXCEPT !.for = @ \ {r}]],
             (\E L : SetLive(L)) \/ UNCHANGED <<live, seen>>,
             r \in Pollers => PollOK(r)'
      PROVE  StatusInv'
  <2>1. \A q \in Pollers : /\ seen[q] \subseteq seen'[q]
                           /\ Calling(q) => live' \in seen'[q]
    BY <1>0, <1>1, SeenGrows
  <2>2. \A q \in Pollers : q # r => call'[q] = call[q]
    BY <1>0, <1>1
  <2>3. \A q \in Pollers : PollOK(q)'
    BY <1>1, <2>1, <2>2, PollStays DEF StatusInv
  <2>4. \A o \in Conns :
             /\ inflight'[o].busy = inflight[o].busy /\ inflight'[o].cmd = inflight[o].cmd
             /\ inflight'[o].buf = inflight[o].buf
             /\ inflight'[o].for \subseteq inflight[o].for
    BY <1>0, <1>1 DEF InflightRec
  <2> QED
    BY <1>0, <1>1, <2>1, <2>3, <2>4, StatusOneCall
\* What a poll reports.
<1>2. ASSUME r \in Pollers, NEW a, call' = [call EXCEPT ![r] = Answered(r, a)],
             a.ok => a.clients \in seen'[r]
      PROVE  PollOK(r)'
  <2>1. call'[r] = Answered(r, a)
    BY <1>0, <1>2
  <2>2. /\ Answered(r, a).cmd = Status /\ Answered(r, a).stage = "answered"
        /\ Answered(r, a).resp = {} /\ Answered(r, a).answer = a
    BY <1>2 DEF Answered, NoCall
  <2> QED
    BY <1>2, <2>1, <2>2 DEF PollOK, Calling
<1>3. CASE BeginPoll(r)
  <2> DEFINE c == [NoCall EXCEPT !.stage = "lookup"]
  <2>1. /\ r \in Pollers /\ call'[r] = c /\ seen'[r] = {live} /\ live' = live
        /\ \A q \in Pollers : q # r => seen'[q] = seen[q] /\ call'[q] = call[q]
        /\ UNCHANGED <<conn, sent, wire, inflight>>
        /\ call[r].stage # "wait"
    BY <1>0, <1>3 DEF BeginPoll, TypeOK, loopVars, console
  <2>2. c.cmd = Status /\ c.stage = "lookup" /\ c.resp = {}
    BY DEF NoCall
  <2> HIDE DEF c
  <2>3. PollOK(r)'
    BY <2>1, <2>2 DEF PollOK
  <2>4. \A q \in Pollers : q # r => PollOK(q)'
    BY <2>1, PollStays DEF StatusInv, PollOK
  <2>5. \A o \in Conns : r \notin inflight[o].for
    BY <2>1, NotWorkedFor
  <2> QED
    BY <1>0, <2>1, <2>3, <2>4, <2>5, StatusOneCall
<1>4. ASSUME NEW u \in Users, BeginKill(r, u)
      PROVE  StatusInv'
  <2>1. /\ r \notin Pollers /\ UNCHANGED <<conn, sent, wire, inflight, live, seen>>
        /\ call' = [call EXCEPT ![r] = [NoCall EXCEPT !.stage = "lookup", !.victim = u]]
    BY <1>0, <1>4 DEF BeginKill, loopVars, console
  <2> QED
    BY <1>1, <2>1
<1>5. CASE lookupBroker(r)
  <2> DEFINE c == [call[r] EXCEPT !.stage = IF registry = Nobody THEN "direct" ELSE "offer",
                                  !.broker = registry]
  <2>1. /\ UNCHANGED <<conn, sent, wire, inflight, live, seen>> /\ call[r].stage = "lookup"
        /\ call' = [call EXCEPT ![r] = c]
    BY <1>0, <1>5 DEF lookupBroker, loopVars, console, clients
  <2>2. /\ call'[r].cmd = call[r].cmd /\ call'[r].resp = call[r].resp
        /\ call'[r].stage \in {"direct", "offer"}
    BY <1>0, <2>1 DEF CallRec
  <2> HIDE DEF c
  <2>3. r \in Pollers => PollOK(r)'
    BY <2>1, <2>2 DEF StatusInv, PollOK, Calling
  <2> QED
    BY <1>1, <2>1, <2>3
<1>6. CASE Receive(r)
  <2>1. PICK a \in call[r].resp : call' = [call EXCEPT ![r] = Answered(r, a)]
    BY <1>6 DEF Receive
  <2>2. UNCHANGED <<conn, sent, wire, inflight, live, seen>>
    BY <1>6 DEF Receive, loopVars, console, clients
  <2>3. r \in Pollers => PollOK(r)'
    BY <1>2, <2>1, <2>2 DEF StatusInv, PollOK
  <2> QED
    BY <1>1, <2>1, <2>2, <2>3
<1>7. CASE GivesUp(r)
  <2>1. /\ call' = [call EXCEPT ![r] = Answered(r, NoAnswer)]
        /\ inflight' = [o \in Conns |-> [inflight[o] EXCEPT !.for = @ \ {r}]]
        /\ UNCHANGED <<conn, sent, wire, live, seen>>
    BY <1>7 DEF GivesUp, console, clients
  <2>2. r \in Pollers => PollOK(r)'
    BY <1>2, <2>1 DEF NoAnswer
  <2> QED
    BY <1>1, <2>1, <2>2
<1>8. CASE DirectExchange(r)
  <2> DEFINE c == call[r].cmd
             a == ParsedReply(c, Reply(c))
  <2>1. /\ call' = [call EXCEPT ![r] = Answered(r, a)] /\ SetLive(Effect(c))
        /\ UNCHANGED <<conn, sent, wire, inflight>> /\ call[r].stage = "direct"
    BY <1>8 DEF DirectExchange, loopVars, console
  <2>2. ASSUME r \in Pollers
        PROVE  a.clients \in seen'[r]
    <3>1. c = Status /\ live \in seen[r]
      BY <2>1, <2>2 DEF StatusInv, PollOK, Calling
    <3>2. Reply(Status) = <<Data(live), END>>
      BY <1>0, CmdTypes, ReplyListing
    <3>3. Data(live) \in Line /\ END \in Line
      BY <1>0, LineTypes
    <3>4. <<Data(live)>> \in Seq(Line) /\ <<Data(live), END>> = Append(<<Data(live)>>, END)
      BY <3>3
    <3>5. Listed(<<Data(live)>>, live)
      BY DEF Listed
    <3>6. a = ParsedReply(Status, Append(<<Data(live)>>, END))
      BY <3>1, <3>2, <3>4
    <3>7. a.clients = live
      BY <1>0, <3>4, <3>5, <3>6, ListingParsed
    <3>8. seen[r] \subseteq seen'[r]
      BY <1>0, <2>1, <2>2, SeenGrows
    <3> QED
      BY <3>1, <3>7, <3>8
  <2> HIDE DEF a, c
  <2>3. r \in Pollers => PollOK(r)'
    BY <1>2, <2>1, <2>2
  <2> QED
    BY <1>1, <2>1, <2>3
<1>9. CASE DirectFails(r)
  <2>1. /\ call' = [call EXCEPT ![r] = Answered(r, NoAnswer)]
        /\ UNCHANGED <<conn, sent, wire, inflight, live, seen>>
    BY <1>9 DEF DirectFails, loopVars, console, clients
  <2>2. r \in Pollers => PollOK(r)'
    BY <1>2, <2>1 DEF NoAnswer
  <2> QED
    BY <1>1, <2>1, <2>2
<1> QED
  BY <1>3, <1>4, <1>5, <1>6, <1>7, <1>8, <1>9 DEF CallStep, BrokerClosed, CallTimesOut

\* Every step preserves it as long as the loop gives up on no command.
LEMMA NextStatusInv ==
    ASSUME NoTimeouts, OnceInv, StatusInv, [Next]_vars
    PROVE  StatusInv'
<1>0. TypeOK
  BY DEF OnceInv
<1>1. CASE startMgmtClientAuth \/ stopMgmtClientAuth \/ UNCHANGED vars
  <2>1. UNCHANGED <<conn, sent, wire, inflight, call, live, seen>>
    BY <1>1 DEF startMgmtClientAuth, stopMgmtClientAuth, vars, loopVars, console, clients
  <2>2. \A r \in Pollers : PollOK(r)'
    BY <1>0, <2>1, PollStays, SeenGrows DEF StatusInv
  <2> QED
    BY <1>0, <2>1, <2>2, StatusOneCall
<1>2. ASSUME NEW o \in Conns, LoopStep(o) \/ WatcherCloses(o)
      PROVE  StatusInv'
  BY <1>0, <1>2, ConnStepStatus, ReadReplyStatus, LoopStepStatus DEF LoopStep
<1>3. ASSUME NEW o \in Conns, CommandTimesOut(o)
      PROVE  FALSE
  BY <1>0, <1>3 DEF CommandTimesOut, NoTimeouts, TypeOK
<1>4. CASE ConsoleStep
  BY <1>0, <1>4, ConnStepStatus, ConsoleStepStatus DEF ConsoleStep
<1>5. ASSUME NEW r \in Callers, CallStep(r)
      PROVE  StatusInv'
  BY <1>5, CallStepStatus
<1> QED
  BY <1>1, <1>2, <1>3, <1>4, <1>5 DEF Next

\* A poll that is reported as known lists the clients of one moment of the call, for
\* any number of callers, connections, loops that overlap and verdicts in between, as
\* long as the loop gives up on no command (mgmtGetActiveClients, exec).
THEOREM StatusIsCurrent ==
    ASSUME NoTimeouts
    PROVE  Spec => []SnapshotCurrent
<1>1. OnceInv /\ StatusInv /\ [Next]_vars => StatusInv'
  BY NextStatusInv
<1>2. StatusInv => SnapshotCurrent
  BY DEF StatusInv, PollOK, SnapshotCurrent
<1> QED
  BY <1>1, <1>2, InitStatusInv, OnceInductive, PTL DEF Spec

-----------------------------------------------------------------------------
(* A termination belongs to its kill *)

\* Nor does a client ask for a verdict: its acknowledgement would be taken for that
\* of a kill (README, "Where the code falls short").
NoStrayReplies == MaxAuths = 0 /\ NoTimeouts

\* What callers send.
Asked == {Status} \cup {Kill(u) : u \in Users}
CommandsOnly == \A o \in Conns : sent[o] = <<>> \/ \E c \in Asked : sent[o] = <<c>>

\* Where the command of a running loop is: nowhere, with OpenVPN, lost with the
\* connection, or on its way back.
Resting(o) == ~inflight[o].busy /\ sent[o] = <<>> /\ wire[o] = <<>>
Written(o) ==
    /\ inflight[o].busy /\ inflight[o].buf = <<>>
    /\ sent[o] = <<inflight[o].cmd>> /\ wire[o] = <<>>
Lost(o) == inflight[o].busy /\ sent[o] = <<>> /\ wire[o] = <<>>
KillReplied(o) ==
    /\ inflight[o].busy /\ inflight[o].buf = <<>> /\ sent[o] = <<>>
    /\ \E u \in Users :
         /\ inflight[o].cmd = Kill(u)
         /\ wire[o] = <<ERROR>> \/ (wire[o] = <<SUCCESS>> /\ u \notin live)
StatusReplied(o) ==
    /\ inflight[o].busy /\ inflight[o].cmd = Status /\ sent[o] = <<>>
    /\ \E L \in SUBSET Users :
         /\ live \subseteq L
         /\ \/ inflight[o].buf = <<>> /\ wire[o] = <<Data(L), END>>
            \/ inflight[o].buf = <<Data(L)>> /\ wire[o] = <<END>>

ExchangeOK(o) ==
    /\ conn[o].phase \in Early => Resting(o)
    /\ conn[o].phase = "run" =>
         Resting(o) \/ Written(o) \/ Lost(o) \/ KillReplied(o) \/ StatusReplied(o)

\* What a good answer tells a killer: nobody is connected beyond the list, or its
\* victim is not.
Told(r, a) ==
    a.ok => IF call[r].cmd = Status THEN live \subseteq a.clients
                                    ELSE call[r].victim \notin live

AskerOK(r) == call[r].cmd = Status \/ (r \in Killers /\ call[r].cmd = Kill(call[r].victim))

KillerOK(r) ==
    /\ \A a \in call[r].resp : Told(r, a)
    /\ call[r].stage = "reported" /\ call[r].answer.ok => call[r].victim \notin live

RightCommand ==
    \A o \in Conns, r \in Callers : r \in inflight[o].for => inflight[o].cmd = call[r].cmd

KillInv ==
    /\ CommandsOnly
    /\ \A o \in Conns : ExchangeOK(o)
    /\ \A r \in Callers : AskerOK(r)
    /\ \A r \in Killers : KillerOK(r)
    /\ RightCommand

\* Init establishes it.
LEMMA InitKillInv == Init => KillInv
<1> SUFFICES ASSUME Init PROVE KillInv
  OBVIOUS
<1>1. CommandsOnly
  BY DEF Init, CommandsOnly
<1>2. \A o \in Conns : ExchangeOK(o)
  BY DEF Init, ExchangeOK, Resting, NoConn, NoInflight, Early
<1>3. \A r \in Callers : AskerOK(r)
  BY DEF Init, AskerOK, NoCall
<1>4. \A r \in Killers : KillerOK(r)
  BY DEF Init, KillerOK, NoCall, Callers
<1>5. RightCommand
  BY DEF Init, RightCommand, NoInflight
<1> QED
  BY <1>1, <1>2, <1>3, <1>4, <1>5 DEF KillInv

\* A connection that is left alone while clients leave.
LEMMA ExchangeStays ==
    ASSUME NEW o \in Conns, ExchangeOK(o), live' \subseteq live,
           conn'[o].phase \in Early => conn[o].phase \in Early,
           conn'[o].phase = "run" => conn[o].phase \in Early \cup {"run"},
           sent'[o] = sent[o], wire'[o] = wire[o],
           inflight'[o].busy = inflight[o].busy, inflight'[o].cmd = inflight[o].cmd,
           inflight'[o].buf = inflight[o].buf
    PROVE  ExchangeOK(o)'
<1>1. /\ Resting(o) => Resting(o)'
      /\ Written(o) => Written(o)'
      /\ Lost(o) => Lost(o)'
  BY DEF Resting, Written, Lost
<1>2. KillReplied(o) => KillReplied(o)'
  BY DEF KillReplied
<1>3. StatusReplied(o) => StatusReplied(o)'
  BY DEF StatusReplied
<1> QED
  BY <1>1, <1>2, <1>3 DEF ExchangeOK, Early

\* A killer that is left alone while clients leave.
LEMMA KillerStays ==
    ASSUME NEW r \in Killers, KillerOK(r), call'[r] = call[r], live' \subseteq live
    PROVE  KillerOK(r)'
BY DEF KillerOK, Told

\* A step on one connection.
LEMMA KillOneConn ==
    ASSUME KillInv, NEW o \in Conns, live' \subseteq live,
           \A p \in Conns : p # o =>
             /\ conn'[p] = conn[p] /\ sent'[p] = sent[p] /\ wire'[p] = wire[p]
             /\ inflight'[p] = inflight[p],
           ExchangeOK(o)',
           sent'[o] = <<>> \/ \E c \in Asked : sent'[o] = <<c>>,
           \A r \in Callers : call'[r].cmd = call[r].cmd /\ call'[r].victim = call[r].victim,
           \A r \in Killers : KillerOK(r)',
           \A r \in Callers : r \in inflight'[o].for => inflight'[o].cmd = call[r].cmd
    PROVE  KillInv'
<1>1. \A p \in Conns : p # o => ExchangeOK(p)'
  BY ExchangeStays DEF KillInv
<1>2. RightCommand' /\ CommandsOnly'
  BY DEF KillInv, RightCommand, CommandsOnly
<1>3. \A r \in Callers : AskerOK(r)'
  BY DEF KillInv, AskerOK
<1> QED
  BY <1>1, <1>2, <1>3 DEF KillInv

\* A step of one caller, for which no loop works (any more).
LEMMA KillOneCall ==
    ASSUME KillInv, NEW r \in Callers, live' \subseteq live, UNCHANGED <<conn, sent, wire>>,
           \A o \in Conns :
             /\ inflight'[o].busy = inflight[o].busy /\ inflight'[o].cmd = inflight[o].cmd
             /\ inflight'[o].buf = inflight[o].buf
             /\ inflight'[o].for \subseteq inflight[o].for
             /\ r \notin inflight'[o].for,
           \A q \in Callers : q # r => call'[q] = call[q],
           AskerOK(r)',
           r \in Killers => KillerOK(r)'
    PROVE  KillInv'
<1>1. \A p \in Conns : ExchangeOK(p)'
  BY ExchangeStays DEF KillInv
<1>2. RightCommand' /\ CommandsOnly'
  BY DEF KillInv, RightCommand, CommandsOnly
<1>3. \A q \in Killers : KillerOK(q)'
  BY KillerStays DEF KillInv, Callers
<1>4. \A q \in Callers : AskerOK(q)'
  BY DEF KillInv, AskerOK
<1> QED
  BY <1>1, <1>2, <1>3, <1>4 DEF KillInv

\* An answer that holds may be handed out.
LEMMA KillerAnswered ==
    ASSUME TypeOK, KillInv, NEW o \in Conns, NEW a \in Answer, Respond(o, a), UNCHANGED live,
           \A r \in inflight[o].for \cap Killers : Told(r, a)
    PROVE  /\ \A r \in Callers : call'[r].cmd = call[r].cmd /\ call'[r].victim = call[r].victim
           /\ \A r \in Killers : KillerOK(r)'
<1>0. call \in [Callers -> CallRec] /\ Killers \subseteq Callers
  BY Unpacked DEF Callers
<1>1. \A r \in Callers :
        /\ call'[r].cmd = call[r].cmd /\ call'[r].victim = call[r].victim
        /\ call'[r].stage = call[r].stage /\ call'[r].answer = call[r].answer
        /\ call'[r].resp = IF r \in inflight[o].for THEN call[r].resp \cup {a} ELSE call[r].resp
  BY <1>0 DEF Respond, CallRec
<1>2. ASSUME NEW r \in Killers
      PROVE  KillerOK(r)'
  <2>1. \A b : Told(r, b)' = Told(r, b)
    BY <1>0, <1>1 DEF Told
  <2>2. KillerOK(r) /\ r \in Callers
    BY <1>0 DEF KillInv
  <2>3. \A b \in call'[r].resp : Told(r, b)
    BY <1>1, <2>2 DEF KillerOK
  <2> QED
    BY <1>1, <2>1, <2>2, <2>3 DEF KillerOK
<1> QED
  BY <1>1, <1>2

\* The lines that can be next are not requests for a verdict.
LEMMA NextLine ==
    ASSUME KillInv, NEW o \in Conns, Running(o), wire[o] # <<>>
    PROVE  /\ KillReplied(o) \/ StatusReplied(o)
           /\ Head(wire[o]).kind # "CONNECT"
<1>1. KillReplied(o) \/ StatusReplied(o)
  BY DEF KillInv, ExchangeOK, Running, Resting, Written, Lost
<1>2. /\ SUCCESS.kind # "CONNECT" /\ ERROR.kind # "CONNECT" /\ END.kind # "CONNECT"
      /\ \A L : Data(L).kind # "CONNECT"
  BY DEF SUCCESS, ERROR, END, Data
<1>3. \/ Head(wire[o]) \in {SUCCESS, ERROR, END}
      \/ \E L \in SUBSET Users : Head(wire[o]) = Data(L)
  BY <1>1 DEF KillReplied, StatusReplied
<1> QED
  BY <1>1, <1>2, <1>3

\* Kill commands differ from a status and from each other.
LEMMA KillsDiffer ==
    /\ \A u : Kill(u) # Status /\ Kill(u).op = "kill" /\ Kill(u).user = u
    /\ \A u, v : Kill(u) = Kill(v) => u = v
    /\ Status.op = "status"
BY DEF Kill, Status

\* The steps of the loop's connection preserve it.
LEMMA ConnStepKill ==
    ASSUME TypeOK, KillInv, NEW o \in Conns,
           \/ Dial(o) \/ Welcome(o) \/ WelcomeFails(o) \/ registerBroker(o)
           \/ WatcherCloses(o) \/ PeerCloses(o)
           \/ CloseDone(o) \/ unregisterBroker(o) \/ CloseConn(o)
    PROVE  KillInv'
<1>0. /\ conn \in [Conns -> Conn] /\ inflight \in [Conns -> InflightRec]
      /\ sent \in [Conns -> Seq(Cmd)] /\ wire \in [Conns -> Seq(Line)]
      /\ ExchangeOK(o) /\ conn[o] \in Conn
  BY Unpacked DEF KillInv
<1>1. UNCHANGED <<call, live>>
  BY DEF Dial, Welcome, WelcomeFails, registerBroker, WatcherCloses, PeerCloses,
         CloseDone, unregisterBroker, CloseConn, Leaves, clients
<1>2. \A r \in Killers : KillerOK(r)'
  BY <1>1, KillerStays DEF KillInv
<1>3. \A p \in Conns : p # o =>
        /\ conn'[p] = conn[p] /\ sent'[p] = sent[p] /\ wire'[p] = wire[p]
        /\ inflight'[p] = inflight[p]
  BY <1>0 DEF Dial, Welcome, WelcomeFails, registerBroker, WatcherCloses, PeerCloses,
              CloseDone, unregisterBroker, CloseConn, Leaves, Hangup, console
<1>4. \A r \in Callers : r \in inflight'[o].for => inflight'[o].cmd = call[r].cmd
  <2>1. inflight'[o] = inflight[o] \/ inflight'[o] = NoInflight
    BY <1>0 DEF Dial, Welcome, WelcomeFails, registerBroker, WatcherCloses, PeerCloses,
                CloseDone, unregisterBroker, CloseConn, Leaves
  <2> QED
    BY <2>1 DEF KillInv, RightCommand, NoInflight
<1>5. sent'[o] = sent[o] \/ sent'[o] = <<>>
  BY <1>0 DEF Dial, Welcome, WelcomeFails, registerBroker, WatcherCloses, PeerCloses,
              CloseDone, unregisterBroker, CloseConn, Leaves, Hangup, console
<1>6. sent'[o] = <<>> \/ \E c \in Asked : sent'[o] = <<c>>
  BY <1>5 DEF KillInv, CommandsOnly
<1>7. ExchangeOK(o)'
  <2>1. CASE Dial(o) \/ Welcome(o) \/ registerBroker(o)
    <3>1. UNCHANGED <<sent, wire, inflight>>
      BY <2>1 DEF Dial, Welcome, registerBroker, console
    <3>2. /\ conn[o].phase \in Early
          /\ conn'[o].phase \in {"dialled", "ready", "run"}
      BY <1>0, <2>1 DEF Dial, Welcome, registerBroker, Conn, Early
    <3> QED
      BY <1>0, <1>1, <3>1, <3>2, ExchangeStays DEF Early
  <2>2. CASE WelcomeFails(o) \/ CloseDone(o) \/ unregisterBroker(o) \/ CloseConn(o)
    <3>1. conn'[o].phase \in {"done", "unregistered", "closed"}
      BY <1>0, <2>2 DEF WelcomeFails, CloseDone, unregisterBroker, CloseConn, Leaves, Conn
    <3> QED
      BY <3>1 DEF ExchangeOK, Early
  <2>3. CASE WatcherCloses(o) \/ PeerCloses(o)
    <3>1. /\ sent'[o] = <<>> /\ wire'[o] \in {<<>>, wire[o]} /\ inflight'[o] = inflight[o]
          /\ conn'[o].phase = conn[o].phase
      BY <1>0, <2>3 DEF WatcherCloses, PeerCloses, Hangup, Conn
    <3>2. Resting(o) => Resting(o)'
      BY <3>1 DEF Resting
    <3>3. Written(o) \/ Lost(o) => Lost(o)'
      BY <3>1 DEF Written, Lost
    <3>4. KillReplied(o) => KillReplied(o)' \/ Lost(o)'
      BY <1>1, <3>1 DEF KillReplied, Lost
    <3>5. StatusReplied(o) => StatusReplied(o)' \/ Lost(o)'
      BY <1>1, <3>1 DEF StatusReplied, Lost
    <3> QED
      BY <1>0, <3>1, <3>2, <3>3, <3>4, <3>5 DEF ExchangeOK
  <2> QED
    BY <2>1, <2>2, <2>3
<1> QED
  BY <1>1, <1>2, <1>3, <1>4, <1>6, <1>7, KillOneConn

\* Reading a line of a reply preserves it.
LEMMA ReadReplyKill ==
    ASSUME TypeOK, KillInv, NEW o \in Conns, ReadReply(o)
    PROVE  KillInv'
<1> DEFINE l == Head(wire[o])
           b == inflight[o].buf
           a == ParsedReply(inflight[o].cmd, Append(b, l))
<1>0. /\ inflight \in [Conns -> InflightRec] /\ inflight[o] \in InflightRec
      /\ wire \in [Conns -> Seq(Line)] /\ wire[o] # <<>> /\ Running(o)
      /\ wire[o] \in Seq(Line) /\ b \in Seq(Line) /\ live \in SUBSET Users
      /\ Killers \subseteq Callers
  BY Unpacked DEF ReadReply, InflightRec, Callers
<1>1. /\ wire'[o] = Tail(wire[o]) /\ \A p \in Conns : p # o => wire'[p] = wire[p]
      /\ UNCHANGED <<conn, sent, live>>
  BY <1>0 DEF ReadReply, clients
<1>2. l \in Line /\ Append(b, l) \in Seq(Line)
  BY <1>0
<1>3. a \in Answer
  BY <1>2, ParsedType
<1>4. KillReplied(o) \/ StatusReplied(o)
  BY <1>0, NextLine
<1>5. \/ /\ isComplete(inflight[o].cmd, l) /\ Respond(o, a)
         /\ inflight' = [inflight EXCEPT ![o] = NoInflight]
      \/ /\ ~isComplete(inflight[o].cmd, l) /\ UNCHANGED call
         /\ inflight' = [inflight EXCEPT ![o].buf = Append(b, l)]
  BY <1>4 DEF ReadReply, KillReplied, StatusReplied
<1>6. sent'[o] = <<>>
  BY <1>1, <1>4 DEF KillReplied, StatusReplied
\* A whole reply: its caller is told, and nothing is left.
<1>7. ASSUME isComplete(inflight[o].cmd, l), Tail(wire[o]) = <<>>,
             \A r \in inflight[o].for \cap Killers : Told(r, a)
      PROVE  KillInv'
  <2>1. Respond(o, a) /\ inflight' = [inflight EXCEPT ![o] = NoInflight]
    BY <1>5, <1>7
  <2>2. /\ inflight'[o].for = {} /\ inflight'[o].busy = FALSE
        /\ \A p \in Conns : p # o => inflight'[p] = inflight[p]
    BY <1>0, <2>1 DEF NoInflight
  <2>3. ExchangeOK(o)'
    BY <1>1, <1>6, <1>7, <2>2 DEF ExchangeOK, Resting
  <2> HIDE DEF a
  <2>4. /\ \A r \in Callers : call'[r].cmd = call[r].cmd /\ call'[r].victim = call[r].victim
        /\ \A r \in Killers : KillerOK(r)'
    BY <1>1, <1>3, <1>7, <2>1, KillerAnswered
  <2> QED
    BY <1>1, <1>6, <2>2, <2>3, <2>4, KillOneConn
<1>8. CASE KillReplied(o)
  <2>1. PICK u \in Users : /\ inflight[o].cmd = Kill(u) /\ b = <<>>
                           /\ wire[o] = <<ERROR>> \/ (wire[o] = <<SUCCESS>> /\ u \notin live)
    BY <1>8 DEF KillReplied
  <2>2. l \in {SUCCESS, ERROR} /\ Tail(wire[o]) = <<>> /\ Append(b, l) = <<l>>
    <3>1. l \in {SUCCESS, ERROR}
      BY <2>1
    <3>2. Tail(wire[o]) = <<>>
      <4>1. Tail(<<ERROR>>) = <<>> /\ Tail(<<SUCCESS>>) = <<>>
        OBVIOUS
      <4> QED
        BY <2>1, <4>1
    <3>3. Append(<<>>, l) = <<l>>
      OBVIOUS
    <3> QED
      BY <2>1, <3>1, <3>2, <3>3
  <2>3. isComplete(inflight[o].cmd, l)
    BY <2>1, <2>2, KillsDiffer DEF isComplete
  <2>4. ASSUME NEW r \in inflight[o].for \cap Killers, a.ok
        PROVE  call[r].cmd # Status /\ call[r].victim \notin live
    <3>1. call[r].cmd = Kill(u)
      BY <1>0, <2>1, <2>4 DEF KillInv, RightCommand
    <3>2. call[r].victim = u /\ call[r].cmd # Status
      BY <1>0, <2>4, <3>1, KillsDiffer DEF KillInv, AskerOK
    <3>3. l = SUCCESS
      <4>1. \E i \in DOMAIN <<l>> : <<l>>[i] = SUCCESS
        BY <2>1, <2>2, <2>4, KillsDiffer DEF ParsedReply
      <4> QED
        BY <4>1
    <3>4. SUCCESS # ERROR
      BY DEF SUCCESS, ERROR
    <3>5. u \notin live
      BY <1>0, <2>1, <3>3, <3>4
    <3> QED
      BY <3>2, <3>5
  <2> HIDE DEF a, l
  <2>5. \A r \in inflight[o].for \cap Killers : Told(r, a)
    BY <2>4 DEF Told
  <2> QED
    BY <1>7, <2>2, <2>3, <2>5
<1>9. CASE StatusReplied(o)
  <2>1. PICK L \in SUBSET Users :
          /\ live \subseteq L
          /\ \/ b = <<>> /\ wire[o] = <<Data(L), END>>
             \/ b = <<Data(L)>> /\ wire[o] = <<END>>
    BY <1>9 DEF StatusReplied
  <2>2. inflight[o].busy /\ inflight[o].cmd = Status
    BY <1>9 DEF StatusReplied
  <2>3. CASE b = <<>> /\ wire[o] = <<Data(L), END>>
    <3>1. l = Data(L) /\ Tail(wire[o]) = <<END>> /\ Append(b, l) = <<Data(L)>>
      BY <2>3
    <3>2. ~isComplete(inflight[o].cmd, l)
      BY <2>2, <3>1, ListingLines DEF isComplete
    <3>3. inflight' = [inflight EXCEPT ![o].buf = <<Data(L)>>] /\ UNCHANGED call
      BY <1>5, <3>1, <3>2
    <3>4. /\ inflight'[o].buf = <<Data(L)>> /\ inflight'[o].busy /\ inflight'[o].cmd = Status
          /\ inflight'[o].for = inflight[o].for
          /\ \A p \in Conns : p # o => inflight'[p] = inflight[p]
      BY <1>0, <2>2, <3>3 DEF InflightRec
    <3>5. StatusReplied(o)'
      BY <1>1, <1>6, <2>1, <3>1, <3>4 DEF StatusReplied
    <3>6. ExchangeOK(o)'
      BY <1>0, <1>1, <3>5 DEF ExchangeOK, Running, Early
    <3>7. \A r \in Killers : KillerOK(r)'
      BY <1>1, <3>3, KillerStays DEF KillInv
    <3>8. \A r \in Callers : r \in inflight'[o].for => inflight'[o].cmd = call[r].cmd
      BY <2>2, <3>4 DEF KillInv, RightCommand
    <3> QED
      BY <1>1, <1>6, <3>3, <3>4, <3>6, <3>7, <3>8, KillOneConn
  <2>4. CASE b = <<Data(L)>> /\ wire[o] = <<END>>
    <3>1. l = END /\ Tail(wire[o]) = <<>> /\ Listed(b, L)
      BY <2>4 DEF Listed
    <3>2. isComplete(inflight[o].cmd, l)
      BY <2>2, <3>1 DEF isComplete
    <3>3. a.clients = L
      BY <1>0, <2>2, <3>1, ListingParsed
    <3>4. \A r \in inflight[o].for \cap Killers : call[r].cmd = Status
      BY <1>0, <2>2 DEF KillInv, RightCommand
    <3> HIDE DEF a, l
    <3>5. \A r \in inflight[o].for \cap Killers : Told(r, a)
      BY <2>1, <3>3, <3>4 DEF Told
    <3> QED
      BY <1>7, <3>1, <3>2, <3>5
  <2> QED
    BY <2>1, <2>3, <2>4
<1> QED
  BY <1>4, <1>8, <1>9

\* The end of the loop and a command that is taken preserve it; no request for a
\* verdict is read.
LEMMA LoopStepKill ==
    ASSUME TypeOK, KillInv, NEW o \in Conns,
           \/ LoopEnds(o) \/ ReadConnect(o) \/ ReadConnectFails(o)
           \/ \E r \in Callers : TakeCommand(o, r) \/ TakeCommandFails(o, r)
    PROVE  KillInv'
<1>0. /\ conn \in [Conns -> Conn] /\ inflight \in [Conns -> InflightRec]
      /\ sent \in [Conns -> Seq(Cmd)] /\ wire \in [Conns -> Seq(Line)]
      /\ call \in [Callers -> CallRec] /\ Killers \subseteq Callers
      /\ ExchangeOK(o) /\ conn[o] \in Conn /\ inflight[o] \in InflightRec
  BY Unpacked DEF KillInv, Callers
<1>1. UNCHANGED live
  BY DEF LoopEnds, ReadConnect, ReadConnectFails, TakeCommand, TakeCommandFails, clients
<1>2. CASE ReadConnect(o) \/ ReadConnectFails(o)
  BY <1>2, NextLine DEF ReadConnect, ReadConnectFails
<1>3. CASE LoopEnds(o)
  <2>1. /\ conn'[o].phase = "leaving" /\ inflight'[o].for = {}
        /\ \A p \in Conns : p # o => conn'[p] = conn[p] /\ inflight'[p] = inflight[p]
        /\ UNCHANGED <<sent, wire>> /\ Respond(o, NoAnswer)
    BY <1>0, <1>3 DEF LoopEnds, NoInflight, Conn, console
  <2>2. \A r \in inflight[o].for \cap Killers : Told(r, NoAnswer)
    BY DEF Told, NoAnswer
  <2>3. /\ \A r \in Callers : call'[r].cmd = call[r].cmd /\ call'[r].victim = call[r].victim
        /\ \A r \in Killers : KillerOK(r)'
    BY <1>1, <2>1, <2>2, RestTypes, KillerAnswered
  <2>4. ExchangeOK(o)'
    BY <2>1 DEF ExchangeOK, Early
  <2>5. sent'[o] = <<>> \/ \E c \in Asked : sent'[o] = <<c>>
    BY <2>1 DEF KillInv, CommandsOnly
  <2> QED
    BY <1>1, <2>1, <2>3, <2>4, <2>5, KillOneConn
<1>4. ASSUME NEW r \in Callers, TakeCommand(o, r)
      PROVE  KillInv'
  <2> DEFINE c == call[r].cmd
  <2>1. Running(o) /\ ~inflight[o].busy /\ call[r].stage = "offer" /\ call[r] \in CallRec
    BY <1>0, <1>4 DEF TakeCommand, Offered
  <2>2. Resting(o)
    BY <1>0, <2>1
       DEF ExchangeOK, Running, Written, Lost, KillReplied, StatusReplied
  <2>3. /\ inflight'[o] = Outstanding(c, r) /\ UNCHANGED <<conn, wire>>
        /\ sent'[o] = sent[o] \/ sent'[o] = Append(sent[o], c)
        /\ \A p \in Conns : p # o => sent'[p] = sent[p] /\ inflight'[p] = inflight[p]
    BY <1>0, <1>4 DEF TakeCommand
  <2>4. /\ inflight'[o].for = {r} /\ inflight'[o].cmd = c /\ inflight'[o].busy
        /\ inflight'[o].buf = <<>>
    BY <2>3 DEF Outstanding
  <2>5. c \in Asked
    BY <2>1 DEF KillInv, AskerOK, Asked, CallRec
  <2> HIDE DEF c
  <2>6. sent'[o] = <<>> \/ sent'[o] = <<c>>
    BY <2>2, <2>3 DEF Resting
  <2>7. Lost(o)' \/ Written(o)'
    BY <2>2, <2>3, <2>4, <2>6 DEF Resting, Lost, Written
  <2>8. ExchangeOK(o)'
    BY <2>1, <2>3, <2>7 DEF ExchangeOK, Running, Early
  <2>9. \A q \in Callers : /\ call'[q].cmd = call[q].cmd /\ call'[q].victim = call[q].victim
                           /\ call'[q].resp = call[q].resp
                           /\ call'[q].stage = "reported" => call[q].stage = "reported"
                           /\ call'[q].answer = call[q].answer
    BY <1>0, <1>4 DEF TakeCommand, CallRec
  <2>10. \A q \in Killers : KillerOK(q)'
    BY <1>0, <1>1, <2>9 DEF KillInv, KillerOK, Told
  <2>11. \A q \in Callers : q \in inflight'[o].for => inflight'[o].cmd = call[q].cmd
    BY <2>4 DEF c
  <2> QED
    BY <1>1, <2>3, <2>5, <2>6, <2>8, <2>9, <2>10, <2>11, KillOneConn
<1>5. ASSUME NEW r \in Callers, TakeCommandFails(o, r)
      PROVE  KillInv'
  <2>1. /\ conn'[o].phase = "leaving" /\ UNCHANGED <<inflight, sent, wire>>
        /\ \A p \in Conns : p # o => conn'[p] = conn[p]
    BY <1>0, <1>5 DEF TakeCommandFails, Conn, console
  <2>2. \A q \in Callers : /\ call'[q].cmd = call[q].cmd /\ call'[q].victim = call[q].victim
                           /\ call'[q].resp \in {call[q].resp, {NoAnswer}}
                           /\ call'[q].stage = "reported" => call[q].stage = "reported"
                           /\ call'[q].answer = call[q].answer
    BY <1>0, <1>5 DEF TakeCommandFails, CallRec
  <2>3. ASSUME NEW q \in Killers
        PROVE  KillerOK(q)'
    <3>1. q \in Callers /\ KillerOK(q) /\ \A b : Told(q, b)' = Told(q, b)
      BY <1>0, <1>1, <2>2 DEF KillInv, Told
    <3>2. Told(q, NoAnswer)
      BY DEF Told, NoAnswer
    <3>3. \A b \in call'[q].resp : Told(q, b)
      BY <2>2, <3>1, <3>2 DEF KillerOK
    <3> QED
      BY <1>1, <2>2, <3>1, <3>3 DEF KillerOK
  <2>4. ExchangeOK(o)'
    BY <2>1 DEF ExchangeOK, Early
  <2>5. sent'[o] = <<>> \/ \E c \in Asked : sent'[o] = <<c>>
    BY <2>1 DEF KillInv, CommandsOnly
  <2>6. \A q \in Callers : q \in inflight'[o].for => inflight'[o].cmd = call[q].cmd
    BY <2>1 DEF KillInv, RightCommand
  <2> QED
    BY <1>1, <2>1, <2>2, <2>3, <2>4, <2>5, <2>6, KillOneConn
<1> QED
  BY <1>2, <1>3, <1>4, <1>5

\* What callers send only ever makes clients leave.
LEMMA AskedShrinks ==
    ASSUME NEW c \in Asked
    PROVE  /\ Effect(c) \subseteq live
           /\ c \in Cmd
           /\ c # Status => \E u \in Users : c = Kill(u) /\ u \notin Effect(c)
           /\ c = Status => Effect(c) = live
BY KillsDiffer, CmdTypes DEF Asked, Effect

\* The steps of OpenVPN and its clients preserve it.
LEMMA ConsoleStepKill ==
    ASSUME NoStrayReplies, TypeOK, KillInv,
           \/ \E o \in Conns : ConsoleAnswers(o)
           \/ \E u \in Users : ClientConnects(u) \/ ClientDisconnects(u)
    PROVE  KillInv'
<1>0. /\ inflight \in [Conns -> InflightRec] /\ live \in SUBSET Users
      /\ sent \in [Conns -> Seq(Cmd)] /\ wire \in [Conns -> Seq(Line)]
  BY Unpacked
<1>1. ASSUME NEW o \in Conns, ConsoleAnswers(o)
      PROVE  KillInv'
  <2>1. PICK c \in Asked : sent[o] = <<c>>
    BY <1>1 DEF ConsoleAnswers, KillInv, CommandsOnly
  <2>2. Head(sent[o]) = c /\ Tail(sent[o]) = <<>>
    <3>1. Head(<<c>>) = c /\ Tail(<<c>>) = <<>>
      OBVIOUS
    <3> QED
      BY <2>1, <3>1
  <2>3. /\ sent'[o] = <<>> /\ wire'[o] = wire[o] \o Reply(c) /\ live' = Effect(c)
        /\ \A p \in Conns : p # o => sent'[p] = sent[p] /\ wire'[p] = wire[p]
        /\ UNCHANGED <<conn, inflight, call>>
    BY <1>0, <1>1, <2>2 DEF ConsoleAnswers, SetLive, loopVars
  <2>4. live' \subseteq live /\ c \in Cmd
    BY <2>3, AskedShrinks
  <2>5. ExchangeOK(o)'
    <3>1. conn[o].phase \notin Early
      BY <2>1 DEF KillInv, ExchangeOK, Resting
    <3>2. CASE conn[o].phase = "run"
      <4>1. Written(o)
        BY <2>1, <3>2
           DEF KillInv, ExchangeOK, Resting, Lost, KillReplied, StatusReplied
      <4>2. /\ inflight[o].cmd = c /\ inflight[o].busy /\ inflight[o].buf = <<>>
            /\ wire'[o] = <<>> \o Reply(c)
        BY <2>1, <2>3, <4>1 DEF Written
      <4>3. CASE c = Status
        <5>1. Reply(c) = <<Data(live), END>> /\ live' = live
          BY <1>0, <2>3, <2>4, <4>3, ReplyListing, AskedShrinks
        <5>2. Data(live) \in Line /\ END \in Line
          BY <1>0, LineTypes
        <5>3. <<>> \o <<Data(live), END>> = <<Data(live), END>>
          BY <5>2
        <5>4. wire'[o] = <<Data(live), END>>
          BY <4>2, <5>1, <5>3
        <5>5. PICK L \in SUBSET Users : L = live
          BY <1>0
        <5>6. StatusReplied(o)'
          BY <2>3, <4>2, <4>3, <5>1, <5>4, <5>5 DEF StatusReplied
        <5> QED
          BY <2>3, <3>2, <5>6 DEF ExchangeOK, Early
      <4>4. CASE c # Status
        <5>1. PICK u \in Users : c = Kill(u) /\ u \notin live'
          BY <2>3, <4>4, AskedShrinks
        <5>2. Reply(c) \in {<<ERROR>>, <<SUCCESS>>}
          BY <5>1, KillsDiffer DEF Reply
        <5>3. <<>> \o <<ERROR>> = <<ERROR>> /\ <<>> \o <<SUCCESS>> = <<SUCCESS>>
          OBVIOUS
        <5>4. wire'[o] \in {<<ERROR>>, <<SUCCESS>>}
          BY <4>2, <5>2, <5>3
        <5>5. KillReplied(o)'
          BY <2>3, <4>2, <5>1, <5>4 DEF KillReplied
        <5> QED
          BY <2>3, <3>2, <5>5 DEF ExchangeOK, Early
      <4> QED
        BY <4>3, <4>4
    <3>3. CASE conn[o].phase # "run"
      BY <2>3, <3>1, <3>3 DEF ExchangeOK
    <3> QED
      BY <3>2, <3>3
  <2>6. \A r \in Killers : KillerOK(r)'
    BY <2>3, <2>4, KillerStays DEF KillInv
  <2> QED
    BY <2>3, <2>4, <2>5, <2>6, KillOneConn DEF KillInv, RightCommand
<1>2. ASSUME NEW u \in Users, ClientConnects(u)
      PROVE  FALSE
  BY <1>2 DEF ClientConnects, NoStrayReplies, TypeOK
<1>3. ASSUME NEW u \in Users, ClientDisconnects(u)
      PROVE  KillInv'
  <2>1. live' \subseteq live /\ UNCHANGED <<conn, sent, wire, inflight, call>>
    BY <1>3 DEF ClientDisconnects, SetLive, loopVars, console
  <2>2. \A o \in Conns : ExchangeOK(o)'
    BY <2>1, ExchangeStays DEF KillInv
  <2>3. \A r \in Killers : KillerOK(r)'
    BY <2>1, KillerStays DEF KillInv
  <2> QED
    BY <2>1, <2>2, <2>3 DEF KillInv, CommandsOnly, AskerOK, RightCommand
<1> QED
  BY <1>1, <1>2, <1>3

\* What a killer makes of an answer that holds.
LEMMA KillerReports ==
    ASSUME TypeOK, KillInv, NEW r \in Callers, NEW a,
           call' = [call EXCEPT ![r] = Answered(r, a)],
           a.ok => IF call[r].cmd = Status THEN live' \subseteq a.clients
                                           ELSE call[r].victim \notin live'
    PROVE  AskerOK(r)' /\ (r \in Killers => KillerOK(r)')
<1>0. call \in [Callers -> CallRec] /\ Killers \cap Pollers = {} /\ r \in Killers \cup Pollers
  BY Unpacked, BrokerAssumption DEF Callers
<1>1. call'[r] = Answered(r, a) /\ Answered(r, a).resp = {}
  BY <1>0, AnsweredFresh
<1>2. CASE r \in Pollers
  <2>1. Answered(r, a).cmd = Status
    BY <1>2 DEF Answered, NoCall
  <2> QED
    BY <1>0, <1>1, <1>2, <2>1 DEF AskerOK
<1>3. CASE r \in Killers /\ call[r].cmd = Status /\ a.ok /\ call[r].victim \in a.clients
  <2>1. /\ Answered(r, a).cmd = Kill(call[r].victim) /\ Answered(r, a).victim = call[r].victim
        /\ Answered(r, a).stage = "lookup"
    BY <1>0, <1>3 DEF Answered, NoCall
  <2> QED
    BY <1>1, <1>3, <2>1 DEF AskerOK, KillerOK
<1>4. CASE r \in Killers /\ ~(call[r].cmd = Status /\ a.ok /\ call[r].victim \in a.clients)
  <2>1. /\ Answered(r, a).cmd = Status /\ Answered(r, a).victim = call[r].victim
        /\ Answered(r, a).stage = "reported" /\ Answered(r, a).answer.ok = a.ok
    BY <1>0, <1>4 DEF Answered, NoCall, NoAnswer
  <2>2. a.ok => call[r].victim \notin live'
    BY <1>4
  <2> QED
    BY <1>1, <1>4, <2>1, <2>2 DEF AskerOK, KillerOK
<1> QED
  BY <1>0, <1>2, <1>3, <1>4

\* The steps of the callers preserve it.
LEMMA CallStepKill ==
    ASSUME OnceInv, KillInv, NEW r \in Callers, CallStep(r)
    PROVE  KillInv'
<1>0. /\ TypeOK /\ inflight \in [Conns -> InflightRec] /\ call \in [Callers -> CallRec]
      /\ call[r] \in CallRec /\ live \in SUBSET Users /\ AskerOK(r)
      /\ r \in Killers => KillerOK(r)
  BY Unpacked DEF OnceInv, KillInv
<1>1. ASSUME call[r].stage # "wait" \/ call[r].resp # {}, UNCHANGED <<conn, sent, wire, inflight>>,
             NEW c, call' = [call EXCEPT ![r] = c], live' \subseteq live,
             AskerOK(r)', r \in Killers => KillerOK(r)'
      PROVE  KillInv'
  <2>1. \A o \in Conns : r \notin inflight[o].for
    BY <1>1, NotWorkedFor
  <2>2. \A q \in Callers : q # r => call'[q] = call[q]
    BY <1>0, <1>1
  <2> QED
    BY <1>1, <2>1, <2>2, KillOneCall
<1>2. CASE BeginPoll(r) \/ \E u \in Users : BeginKill(r, u)
  <2>1. PICK c : /\ call' = [call EXCEPT ![r] = c]
                 /\ c.cmd = Status /\ c.resp = {} /\ c.stage = "lookup"
    <3>1. CASE BeginPoll(r)
      <4> DEFINE d == [NoCall EXCEPT !.stage = "lookup"]
      <4>1. call' = [call EXCEPT ![r] = d]
        BY <3>1 DEF BeginPoll
      <4>2. d.cmd = Status /\ d.resp = {} /\ d.stage = "lookup"
        BY DEF NoCall
      <4> HIDE DEF d
      <4> QED
        BY <4>1, <4>2
    <3>2. ASSUME NEW u \in Users, BeginKill(r, u)
          PROVE  \E c : /\ call' = [call EXCEPT ![r] = c]
                        /\ c.cmd = Status /\ c.resp = {} /\ c.stage = "lookup"
      <4> DEFINE d == [NoCall EXCEPT !.stage = "lookup", !.victim = u]
      <4>1. call' = [call EXCEPT ![r] = d]
        BY <3>2 DEF BeginKill
      <4>2. d.cmd = Status /\ d.resp = {} /\ d.stage = "lookup"
        BY DEF NoCall
      <4> HIDE DEF d
      <4> QED
        BY <4>1, <4>2
    <3> QED
      BY <1>2, <3>1, <3>2
  <2>2. /\ call[r].stage # "wait" /\ call'[r] = c
        /\ UNCHANGED <<conn, sent, wire, inflight, live>>
    BY <1>0, <1>2, <2>1 DEF BeginPoll, BeginKill, loopVars, console
  <2>3. AskerOK(r)' /\ KillerOK(r)'
    BY <2>1, <2>2 DEF AskerOK, KillerOK
  <2> QED
    BY <1>1, <2>1, <2>2, <2>3
<1>3. CASE lookupBroker(r)
  <2> DEFINE c == [call[r] EXCEPT !.stage = IF registry = Nobody THEN "direct" ELSE "offer",
                                  !.broker = registry]
  <2>1. /\ UNCHANGED <<conn, sent, wire, inflight, live>> /\ call[r].stage = "lookup"
        /\ call' = [call EXCEPT ![r] = c]
    BY <1>0, <1>3 DEF lookupBroker, loopVars, console, clients
  <2>2. /\ call'[r].cmd = call[r].cmd /\ call'[r].resp = call[r].resp
        /\ call'[r].victim = call[r].victim /\ call'[r].stage \in {"direct", "offer"}
    BY <1>0, <2>1 DEF CallRec
  <2> HIDE DEF c
  <2>3. AskerOK(r)' /\ (r \in Killers => KillerOK(r)')
    BY <1>0, <2>1, <2>2 DEF AskerOK, KillerOK, Told
  <2> QED
    BY <1>1, <2>1, <2>3
<1>4. CASE Receive(r)
  <2>1. PICK a \in call[r].resp : call' = [call EXCEPT ![r] = Answered(r, a)]
    BY <1>4 DEF Receive
  <2>2. UNCHANGED <<conn, sent, wire, inflight, live>>
    BY <1>4 DEF Receive, loopVars, console, clients
  <2>3. CASE r \in Killers
    <3>1. AskerOK(r)' /\ (r \in Killers => KillerOK(r)')
      BY <1>0, <2>1, <2>2, <2>3, KillerReports DEF KillerOK, Told
    <3> QED
      BY <1>1, <2>1, <2>2, <3>1
  <2>4. CASE r \notin Killers
    <3>1. r \in Pollers /\ call'[r] = Answered(r, a)
      BY <1>0, <2>1, <2>4 DEF Callers
    <3>2. Answered(r, a).cmd = Status
      BY <3>1 DEF Answered, NoCall
    <3>3. AskerOK(r)' /\ (r \in Killers => KillerOK(r)')
      BY <2>4, <3>1, <3>2 DEF AskerOK
    <3> QED
      BY <1>1, <2>1, <2>2, <3>3
  <2> QED
    BY <2>3, <2>4
<1>5. CASE GivesUp(r)
  <2>1. /\ call' = [call EXCEPT ![r] = Answered(r, NoAnswer)]
        /\ inflight' = [o \in Conns |-> [inflight[o] EXCEPT !.for = @ \ {r}]]
        /\ UNCHANGED <<conn, sent, wire, live>>
    BY <1>5 DEF GivesUp, console, clients
  <2>2. AskerOK(r)' /\ (r \in Killers => KillerOK(r)')
    BY <1>0, <2>1, KillerReports DEF NoAnswer
  <2>3. \A o \in Conns :
             /\ inflight'[o].busy = inflight[o].busy /\ inflight'[o].cmd = inflight[o].cmd
             /\ inflight'[o].buf = inflight[o].buf
             /\ inflight'[o].for \subseteq inflight[o].for
             /\ r \notin inflight'[o].for
    BY <1>0, <2>1 DEF InflightRec
  <2>4. \A q \in Callers : q # r => call'[q] = call[q]
    BY <1>0, <2>1
  <2> QED
    BY <2>1, <2>2, <2>3, <2>4, KillOneCall
<1>6. CASE DirectExchange(r)
  <2> DEFINE c == call[r].cmd
             a == ParsedReply(c, Reply(c))
  <2>1. /\ call' = [call EXCEPT ![r] = Answered(r, a)] /\ live' = Effect(c)
        /\ UNCHANGED <<conn, sent, wire, inflight>> /\ call[r].stage = "direct"
    BY <1>6 DEF DirectExchange, SetLive, loopVars, console
  <2>2. c \in Asked
    BY <1>0 DEF AskerOK, Asked, CallRec
  <2>3. live' \subseteq live
    BY <2>1, <2>2, AskedShrinks
  <2>4. ASSUME c = Status
        PROVE  live' \subseteq a.clients
    <3>1. Reply(Status) = <<Data(live), END>> /\ live' = live
      BY <1>0, <2>1, <2>2, <2>4, CmdTypes, ReplyListing, AskedShrinks
    <3>2. Data(live) \in Line /\ END \in Line
      BY <1>0, LineTypes
    <3>3. <<Data(live)>> \in Seq(Line) /\ <<Data(live), END>> = Append(<<Data(live)>>, END)
      BY <3>2
    <3>4. Listed(<<Data(live)>>, live)
      BY DEF Listed
    <3>5. a = ParsedReply(Status, Append(<<Data(live)>>, END))
      BY <2>4, <3>1, <3>3
    <3>6. a.clients = live
      BY <1>0, <3>3, <3>4, <3>5, ListingParsed
    <3> QED
      BY <3>1, <3>6
  <2>5. ASSUME c # Status
        PROVE  call[r].victim \notin live'
    BY <1>0, <2>1, <2>2, <2>5, AskedShrinks, KillsDiffer DEF AskerOK
  <2> HIDE DEF a
  <2>6. AskerOK(r)' /\ (r \in Killers => KillerOK(r)')
    BY <1>0, <2>1, <2>4, <2>5, KillerReports
  <2> QED
    BY <1>1, <2>1, <2>3, <2>6
<1>7. CASE DirectFails(r)
  <2>1. /\ call' = [call EXCEPT ![r] = Answered(r, NoAnswer)] /\ call[r].stage = "direct"
        /\ UNCHANGED <<conn, sent, wire, inflight, live>>
    BY <1>7 DEF DirectFails, loopVars, console, clients
  <2>2. AskerOK(r)' /\ (r \in Killers => KillerOK(r)')
    BY <1>0, <2>1, KillerReports DEF NoAnswer
  <2> QED
    BY <1>1, <2>1, <2>2
<1> QED
  BY <1>2, <1>3, <1>4, <1>5, <1>6, <1>7 DEF CallStep, BrokerClosed, CallTimesOut

\* Every step preserves it as long as every reply on the console is to a command of
\* a caller that the loop has not given up on.
LEMMA NextKillInv ==
    ASSUME NoStrayReplies, OnceInv, KillInv, [Next]_vars
    PROVE  KillInv'
<1>0. TypeOK
  BY DEF OnceInv
<1>1. CASE startMgmtClientAuth \/ stopMgmtClientAuth \/ UNCHANGED vars
  <2>1. UNCHANGED <<conn, sent, wire, inflight, call, live>>
    BY <1>1 DEF startMgmtClientAuth, stopMgmtClientAuth, vars, loopVars, console, clients
  <2>2. \A o \in Conns : ExchangeOK(o)'
    BY <2>1, ExchangeStays DEF KillInv
  <2>3. \A r \in Killers : KillerOK(r)'
    BY <2>1, KillerStays DEF KillInv
  <2> QED
    BY <2>1, <2>2, <2>3 DEF KillInv, CommandsOnly, AskerOK, RightCommand
<1>2. ASSUME NEW o \in Conns, LoopStep(o) \/ WatcherCloses(o)
      PROVE  KillInv'
  BY <1>0, <1>2, ConnStepKill, ReadReplyKill, LoopStepKill DEF LoopStep
<1>3. ASSUME NEW o \in Conns, CommandTimesOut(o)
      PROVE  FALSE
  BY <1>0, <1>3 DEF CommandTimesOut, NoStrayReplies, NoTimeouts, TypeOK
<1>4. CASE ConsoleStep
  BY <1>0, <1>4, ConnStepKill, ConsoleStepKill DEF ConsoleStep
<1>5. ASSUME NEW r \in Callers, CallStep(r)
      PROVE  KillInv'
  BY <1>5, CallStepKill
<1> QED
  BY <1>1, <1>2, <1>3, <1>4, <1>5 DEF Next

\* A kill that is reported as done is done, for any number of callers that share the
\* console, give up or are answered late, and connections that break, are switched off
\* or change hands, as long as no client asks for a verdict and the loop gives up on no
\* command (killUserSessions, exec, mgmtClientAuthLoop).
THEOREM TerminationIsConfirmed ==
    ASSUME NoStrayReplies
    PROVE  Spec => []TerminationConfirmed
<1>1. OnceInv /\ KillInv /\ [Next]_vars => KillInv'
  BY NextKillInv
<1>2. KillInv => TerminationConfirmed
  BY DEF KillInv, KillerOK, TerminationConfirmed
<1> QED
  BY <1>1, <1>2, InitKillInv, OnceInductive, PTL DEF Spec

=============================================================================
