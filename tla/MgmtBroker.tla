------------------------------ MODULE MgmtBroker ------------------------------
(***************************************************************************)
(* The OpenVPN management console and its sharing (mgmt.go,                *)
(* mgmt_broker.go, the broker registry of app.go), for one server.         *)
(*                                                                         *)
(* The console serves one TCP client at a time.  While management client   *)
(* authentication is on, the loop mgmtClientAuthLoop holds the console, to *)
(* answer clients that connect, and lends it to the others: a caller hands *)
(* its command to the loop (exec), which writes it, collects the lines of  *)
(* the reply, and hands them back.  Replies carry no tag.                  *)
(*                                                                         *)
(* Callers are the status poll (mgmtGetActiveClients, for the firewall and *)
(* the user list) and killUserSessions, which polls and then kills.  A     *)
(* caller gives up after its own timeout at any moment; the loop gives up  *)
(* on a command after perCmdTimeout.                                       *)
(*                                                                         *)
(* A CONNECT or REAUTH block (header, environment, end) is one line here:  *)
(* OpenVPN sends it without a gap and the loop acts at its end.            *)
(***************************************************************************)
EXTENDS Naturals, Sequences

CONSTANTS
    Users,      \* common names of VPN clients
    Killers,    \* callers of killUserSessions
    Pollers,    \* callers of mgmtGetActiveClients
    MaxConns,   \* bound on the connections the loop makes
    MaxGens,    \* bound on the times the supervisor is started
    MaxAuths,   \* bound on the clients that ask to be let in
    MaxStalls   \* bound on the commands the loop gives up on

ASSUME BrokerAssumption ==
    /\ MaxConns \in Nat /\ MaxGens \in Nat /\ MaxAuths \in Nat /\ MaxStalls \in Nat
    /\ Killers \cap Pollers = {}
    /\ Users # {}

VARIABLES
    enabled,    \* mgmtAuthCancel # nil: the supervisor is meant to run
    gen,        \* how often it was started
    conn,       \* the connections of the auth loop
    sent,       \* commands written to each and not yet read by OpenVPN
    wire,       \* lines written by OpenVPN and not yet read by the loop
    inflight,   \* inflightCmd and buf of each loop
    serving,    \* the connection the console serves, or Nobody
    registry,   \* mgmtBrokers[server], or Nobody
    call,       \* the callers
    live,       \* the clients that are connected
    revoked,    \* users whose certificate is revoked
    auths, stalls,
    seen        \* history: the values of live since a poll began

loopVars == <<enabled, gen, conn, inflight, registry>>
console == <<sent, wire, serving>>
clients == <<live, revoked, auths, seen>>
vars == <<loopVars, console, call, clients, stalls>>

Conns == 1 .. MaxConns
Nobody == 0
Callers == Killers \cup Pollers

Status == [op |-> "status"]
Kill(u) == [op |-> "kill", user |-> u]
ClientAuth(u) == [op |-> "client-auth-nt", user |-> u]
ClientDeny(u) == [op |-> "client-deny", user |-> u]
Cmd == {Status} \cup {Kill(u) : u \in Users} \cup {ClientAuth(u) : u \in Users}
       \cup {ClientDeny(u) : u \in Users}

SUCCESS == [kind |-> "SUCCESS"]
ERROR == [kind |-> "ERROR"]
END == [kind |-> "END"]
Data(L) == [kind |-> "DATA", clients |-> L]
CONNECT(u) == [kind |-> "CONNECT", user |-> u]
Line == {SUCCESS, ERROR, END} \cup {Data(L) : L \in SUBSET Users}
        \cup {CONNECT(u) : u \in Users}

\* The loop of a connection dials, waits for the banner, registers its broker,
\* runs, and on its way out closes done, unregisters and closes the connection.
Phase == {"unused", "dialled", "ready", "run", "leaving", "done", "unregistered",
          "closed"}
Conn == [phase : Phase, gen : 0 .. MaxGens, up : BOOLEAN]
NoConn == [phase |-> "unused", gen |-> 0, up |-> FALSE]

\* for holds the caller, as long as it waits for the answer.
NoInflight == [busy |-> FALSE, cmd |-> Status, for |-> {}, buf |-> <<>>]
Outstanding(c, r) == [busy |-> TRUE, cmd |-> c, for |-> {r}, buf |-> <<>>]

Stage == {"idle", "lookup", "offer", "wait", "direct", "answered", "reported"}
NoAnswer == [ok |-> FALSE, clients |-> {}]
Answer == [ok : BOOLEAN, clients : SUBSET Users]

AnyUser == CHOOSE u \in Users : TRUE

\* resp holds what is in the channel of the command.
NoCall == [stage |-> "idle", cmd |-> Status, broker |-> Nobody, resp |-> {},
           answer |-> NoAnswer, victim |-> AnyUser]

Init ==
    /\ enabled = FALSE
    /\ gen = 0
    /\ conn = [o \in Conns |-> NoConn]
    /\ sent = [o \in Conns |-> <<>>]
    /\ wire = [o \in Conns |-> <<>>]
    /\ inflight = [o \in Conns |-> NoInflight]
    /\ serving = Nobody
    /\ registry = Nobody
    /\ call = [r \in Callers |-> NoCall]
    /\ live \in SUBSET Users
    /\ revoked = {}
    /\ auths = 0
    /\ stalls = 0
    /\ seen = [r \in Pollers |-> {}]

Calling(r) == call[r].stage \in {"lookup", "offer", "wait", "direct"}

SetLive(L) ==
    /\ live' = L
    /\ seen' = [r \in Pollers |-> IF Calling(r) THEN seen[r] \cup {L} ELSE seen[r]]

Cancelled(o) == ~enabled \/ conn[o].gen # gen

-----------------------------------------------------------------------------
(* startMgmtClientAuth, stopMgmtClientAuth, mgmtClientAuthSupervisor *)

startMgmtClientAuth ==
    /\ ~enabled
    /\ gen < MaxGens
    /\ enabled' = TRUE
    /\ gen' = gen + 1
    /\ UNCHANGED <<conn, inflight, registry, console, call, clients, stalls>>

stopMgmtClientAuth ==
    /\ enabled
    /\ enabled' = FALSE
    /\ UNCHANGED <<gen, conn, inflight, registry, console, call, clients, stalls>>

\* A supervisor runs one loop at a time; that of an earlier start may still be
\* on its way out.
Dial(o) ==
    /\ enabled
    /\ conn[o].phase = "unused"
    /\ \A p \in Conns : p < o => conn[p].phase # "unused"
    /\ \A p \in Conns : conn[p].gen = gen => conn[p].phase = "closed"
    /\ conn' = [conn EXCEPT ![o] = [phase |-> "dialled", gen |-> gen, up |-> TRUE]]
    /\ UNCHANGED <<enabled, gen, inflight, registry, console, call, clients, stalls>>

\* drainWelcome: the banner comes when the console turns to this connection ...
Welcome(o) ==
    /\ conn[o].phase = "dialled"
    /\ conn[o].up
    /\ serving = Nobody
    /\ serving' = o
    /\ conn' = [conn EXCEPT ![o].phase = "ready"]
    /\ UNCHANGED <<enabled, gen, inflight, registry, sent, wire, call, clients, stalls>>

\* ... or not in time.
WelcomeFails(o) ==
    /\ conn[o].phase = "dialled"
    /\ conn' = [conn EXCEPT ![o].phase = "closed", ![o].up = FALSE]
    /\ UNCHANGED <<enabled, gen, inflight, registry, console, call, clients, stalls>>

registerBroker(o) ==
    /\ conn[o].phase = "ready"
    /\ conn' = [conn EXCEPT ![o].phase = "run"]
    /\ registry' = o
    /\ UNCHANGED <<enabled, gen, inflight, console, call, clients, stalls>>

\* The console is free again; commands that it has not read are lost.
Hangup(o) ==
    /\ sent' = [sent EXCEPT ![o] = <<>>]
    /\ serving' = IF serving = o THEN Nobody ELSE serving

\* The watcher closes the connection when the supervisor is cancelled.
WatcherCloses(o) ==
    /\ conn[o].up
    /\ Cancelled(o)
    /\ conn' = [conn EXCEPT ![o].up = FALSE]
    /\ Hangup(o)
    /\ wire' = [wire EXCEPT ![o] = <<>>]
    /\ UNCHANGED <<enabled, gen, inflight, registry, call, clients, stalls>>

\* OpenVPN goes away or drops the client; what it wrote can still be read.
PeerCloses(o) ==
    /\ serving = o
    /\ conn' = [conn EXCEPT ![o].up = FALSE]
    /\ Hangup(o)
    /\ UNCHANGED <<enabled, gen, inflight, registry, wire, call, clients, stalls>>

-----------------------------------------------------------------------------
(* mgmtClientAuthLoop: the owner's select *)

\* What callers make of the lines of a reply.
isComplete(cmd, line) ==
    IF cmd = Status THEN line = END ELSE line \in {SUCCESS, ERROR}

ParsedClients(buf) == UNION {buf[i].clients : i \in {j \in DOMAIN buf : buf[j].kind = "DATA"}}

ParsedReply(cmd, buf) ==
    [ok |-> \E i \in DOMAIN buf : buf[i] = IF cmd = Status THEN END ELSE SUCCESS,
     clients |-> IF cmd = Status THEN ParsedClients(buf) ELSE {}]

\* resp <- answer; a caller that has left does not read it.
Respond(o, answer) ==
    call' = [r \in Callers |-> IF r \in inflight[o].for
                                 THEN [call[r] EXCEPT !.resp = @ \cup {answer}]
                                 ELSE call[r]]

Running(o) == conn[o].phase = "run"

\* ctx.Done, or a read error: an outstanding command is failed and the loop ends.
LoopEnds(o) ==
    /\ Running(o)
    /\ Cancelled(o) \/ (~conn[o].up /\ wire[o] = <<>>)
    /\ Respond(o, NoAnswer)
    /\ inflight' = [inflight EXCEPT ![o] = NoInflight]
    /\ conn' = [conn EXCEPT ![o].phase = "leaving"]
    /\ UNCHANGED <<enabled, gen, registry, console, clients, stalls>>

\* A line of a reply: collected for the command that is outstanding, or ignored.
ReadReply(o) ==
    LET line == Head(wire[o])
        buf == Append(inflight[o].buf, line) IN
    /\ Running(o)
    /\ wire[o] # <<>>
    /\ line.kind # "CONNECT"
    /\ wire' = [wire EXCEPT ![o] = Tail(@)]
    /\ \/ /\ ~inflight[o].busy
          /\ UNCHANGED <<inflight, call>>
       \/ /\ inflight[o].busy
          /\ isComplete(inflight[o].cmd, line)
          /\ Respond(o, ParsedReply(inflight[o].cmd, buf))
          /\ inflight' = [inflight EXCEPT ![o] = NoInflight]
       \/ /\ inflight[o].busy
          /\ ~isComplete(inflight[o].cmd, line)
          /\ inflight' = [inflight EXCEPT ![o].buf = buf]
          /\ UNCHANGED call
    /\ UNCHANGED <<enabled, gen, conn, registry, sent, serving, clients, stalls>>

\* onAsync, with isUserAuthorized: the verdict is written at once ...
ReadConnect(o) ==
    LET u == Head(wire[o]).user IN
    /\ Running(o)
    /\ conn[o].up
    /\ wire[o] # <<>>
    /\ Head(wire[o]).kind = "CONNECT"
    /\ wire' = [wire EXCEPT ![o] = Tail(@)]
    /\ sent' = [sent EXCEPT ![o] =
                  Append(@, IF u \in revoked THEN ClientDeny(u) ELSE ClientAuth(u))]
    /\ UNCHANGED <<loopVars, serving, call, clients, stalls>>

\* ... or cannot be, and the loop ends without a word to the caller it serves.
ReadConnectFails(o) ==
    /\ Running(o)
    /\ ~conn[o].up
    /\ wire[o] # <<>>
    /\ Head(wire[o]).kind = "CONNECT"
    /\ wire' = [wire EXCEPT ![o] = Tail(@)]
    /\ conn' = [conn EXCEPT ![o].phase = "leaving"]
    /\ UNCHANGED <<enabled, gen, inflight, registry, sent, serving, call, clients, stalls>>

\* Mutant: a command is taken while another one is outstanding.
OfferedBusy(o, r) ==
    /\ Running(o)
    /\ call[r].stage = "offer"
    /\ call[r].broker = o

Offered(o, r) ==
    /\ Running(o)
    /\ ~inflight[o].busy
    /\ call[r].stage = "offer"
    /\ call[r].broker = o

\* b.cmds: an idle loop takes a command from a caller and writes it (to a peer
\* that may be gone) ...
TakeCommand(o, r) ==
    /\ Offered(o, r)
    /\ sent' = IF conn[o].up THEN [sent EXCEPT ![o] = Append(@, call[r].cmd)] ELSE sent
    /\ inflight' = [inflight EXCEPT ![o] = Outstanding(call[r].cmd, r)]
    /\ call' = [call EXCEPT ![r].stage = "wait"]
    /\ UNCHANGED <<enabled, gen, conn, registry, wire, serving, clients, stalls>>

\* ... or fails to, and ends.
TakeCommandFails(o, r) ==
    /\ Offered(o, r)
    /\ ~conn[o].up
    /\ call' = [call EXCEPT ![r].stage = "wait", ![r].resp = {NoAnswer}]
    /\ conn' = [conn EXCEPT ![o].phase = "leaving"]
    /\ UNCHANGED <<enabled, gen, inflight, registry, console, clients, stalls>>

\* Mutant: the command stays outstanding after its caller was told of the timeout.
CommandTimesOutUncleared(o) ==
    /\ Running(o)
    /\ inflight[o].busy
    /\ stalls < MaxStalls
    /\ stalls' = stalls + 1
    /\ Respond(o, NoAnswer)
    /\ UNCHANGED <<loopVars, console, clients>>

\* perCmdTimeout
CommandTimesOut(o) ==
    /\ Running(o)
    /\ inflight[o].busy
    /\ stalls < MaxStalls
    /\ stalls' = stalls + 1
    /\ Respond(o, NoAnswer)
    /\ inflight' = [inflight EXCEPT ![o] = NoInflight]
    /\ UNCHANGED <<enabled, gen, conn, registry, console, clients>>

Leaves(o, from, to) ==
    /\ conn[o].phase = from
    /\ conn' = [conn EXCEPT ![o].phase = to]
    /\ UNCHANGED <<enabled, gen, inflight, call, clients, stalls>>

\* The deferred calls, last one first: close(b.done), ...
CloseDone(o) ==
    /\ Leaves(o, "leaving", "done")
    /\ UNCHANGED <<registry, console>>

unregisterBroker(o) ==
    /\ Leaves(o, "done", "unregistered")
    /\ registry' = IF registry = o THEN Nobody ELSE registry
    /\ UNCHANGED console

\* ... and conn.Close().
CloseConn(o) ==
    /\ conn[o].phase = "unregistered"
    /\ conn' = [conn EXCEPT ![o].phase = "closed", ![o].up = FALSE]
    /\ Hangup(o)
    /\ wire' = [wire EXCEPT ![o] = <<>>]
    /\ inflight' = [inflight EXCEPT ![o] = NoInflight]
    /\ UNCHANGED <<enabled, gen, registry, call, clients, stalls>>

-----------------------------------------------------------------------------
(* OpenVPN *)

Effect(c) ==
    IF c.op = "kill" THEN live \ {c.user}
    ELSE IF c.op = "client-auth-nt" THEN live \cup {c.user}
    ELSE live

Reply(c) ==
    IF c.op = "status" THEN <<Data(live), END>>
    ELSE IF c.op = "kill" /\ c.user \notin live THEN <<ERROR>>
    ELSE <<SUCCESS>>

ConsoleAnswers(o) ==
    LET c == Head(sent[o]) IN
    /\ serving = o
    /\ sent[o] # <<>>
    /\ sent' = [sent EXCEPT ![o] = Tail(@)]
    /\ wire' = [wire EXCEPT ![o] = @ \o Reply(c)]
    /\ SetLive(Effect(c))
    /\ UNCHANGED <<loopVars, serving, call, revoked, auths, stalls>>

\* A client asks to be let in, and the console asks its own client.
ClientConnects(u) ==
    /\ serving # Nobody
    /\ u \notin live
    /\ auths < MaxAuths
    /\ auths' = auths + 1
    /\ wire' = [wire EXCEPT ![serving] = Append(@, CONNECT(u))]
    /\ UNCHANGED <<loopVars, sent, serving, call, live, revoked, seen, stalls>>

ClientDisconnects(u) ==
    /\ u \in live
    /\ SetLive(live \ {u})
    /\ UNCHANGED <<loopVars, console, call, revoked, auths, stalls>>

-----------------------------------------------------------------------------
(* exec and its callers *)

\* A status poll; killUserSessions is called for a user already revoked (by
\* userRevoke or userRotate).
BeginPoll(r) ==
    /\ r \in Pollers
    /\ call[r].stage \in {"idle", "answered"}
    /\ call' = [call EXCEPT ![r] = [NoCall EXCEPT !.stage = "lookup"]]
    /\ seen' = [seen EXCEPT ![r] = {live}]
    /\ UNCHANGED <<loopVars, console, live, revoked, auths, stalls>>

BeginKill(r, u) ==
    /\ r \in Killers
    /\ call[r].stage = "idle"
    /\ revoked' = revoked \cup {u}
    /\ call' = [call EXCEPT ![r] = [NoCall EXCEPT !.stage = "lookup", !.victim = u]]
    /\ UNCHANGED <<loopVars, console, live, auths, seen, stalls>>

lookupBroker(r) ==
    /\ call[r].stage = "lookup"
    /\ call' = [call EXCEPT ![r].stage = IF registry = Nobody THEN "direct" ELSE "offer",
                            ![r].broker = registry]
    /\ UNCHANGED <<loopVars, console, clients, stalls>>

\* Mutant: a poll that failed counts as one that lists nobody.
AnsweredUnknownIsEmpty(r, a) ==
    LET c == [NoCall EXCEPT !.victim = call[r].victim] IN
    IF r \in Pollers THEN [c EXCEPT !.stage = "answered", !.answer = a]
    ELSE IF call[r].cmd = Status /\ c.victim \in a.clients
      THEN [c EXCEPT !.stage = "lookup", !.cmd = Kill(c.victim)]
    ELSE [c EXCEPT !.stage = "reported", !.answer.ok = a.ok \/ call[r].cmd = Status]

\* What a caller does with the answer to its command: a poll is over, and so is
\* a kill; a killer that sees its victim in a status goes on to kill it.
Answered(r, a) ==
    LET c == [NoCall EXCEPT !.victim = call[r].victim] IN
    IF r \in Pollers THEN [c EXCEPT !.stage = "answered", !.answer = a]
    ELSE IF call[r].cmd = Status /\ a.ok /\ c.victim \in a.clients
      THEN [c EXCEPT !.stage = "lookup", !.cmd = Kill(c.victim)]
    ELSE [c EXCEPT !.stage = "reported", !.answer.ok = a.ok]

Receive(r) ==
    /\ call[r].stage = "wait"
    /\ \E a \in call[r].resp : call' = [call EXCEPT ![r] = Answered(r, a)]
    /\ UNCHANGED <<loopVars, console, clients, stalls>>

\* The caller leaves; the loop may still be working for it.
GivesUp(r) ==
    /\ call[r].stage \in {"offer", "wait"}
    /\ call' = [call EXCEPT ![r] = Answered(r, NoAnswer)]
    /\ inflight' = [o \in Conns |-> [inflight[o] EXCEPT !.for = @ \ {r}]]
    /\ UNCHANGED <<enabled, gen, conn, registry, console, clients, stalls>>

\* Mutant: done is watched only until the command is handed over.
BrokerClosedWhileOffered(r) ==
    /\ call[r].stage = "offer"
    /\ conn[call[r].broker].phase \in {"done", "unregistered", "closed"}
    /\ GivesUp(r)

BrokerClosed(r) ==
    /\ call[r].broker # Nobody
    /\ conn[call[r].broker].phase \in {"done", "unregistered", "closed"}
    /\ GivesUp(r)

CallTimesOut(r) == GivesUp(r)

\* The direct exchange on a connection of its own: nobody else is served while
\* it lasts.  When the console is taken, or the exchange is torn, it fails.
DirectExchange(r) ==
    LET c == call[r].cmd IN
    /\ call[r].stage = "direct"
    /\ serving = Nobody
    /\ SetLive(Effect(c))
    /\ call' = [call EXCEPT ![r] = Answered(r, ParsedReply(c, Reply(c)))]
    /\ UNCHANGED <<loopVars, console, revoked, auths, stalls>>

DirectFails(r) ==
    /\ call[r].stage = "direct"
    /\ call' = [call EXCEPT ![r] = Answered(r, NoAnswer)]
    /\ UNCHANGED <<loopVars, console, clients, stalls>>

-----------------------------------------------------------------------------
LoopStep(o) ==
    \/ Dial(o)
    \/ Welcome(o)
    \/ WelcomeFails(o)
    \/ registerBroker(o)
    \/ LoopEnds(o)
    \/ ReadReply(o)
    \/ ReadConnect(o)
    \/ ReadConnectFails(o)
    \/ \E r \in Callers : TakeCommand(o, r) \/ TakeCommandFails(o, r)
    \/ CloseDone(o)
    \/ unregisterBroker(o)
    \/ CloseConn(o)

ConsoleStep ==
    \/ \E o \in Conns : PeerCloses(o) \/ ConsoleAnswers(o)
    \/ \E u \in Users : ClientConnects(u) \/ ClientDisconnects(u)

CallStep(r) ==
    \/ BeginPoll(r)
    \/ \E u \in Users : BeginKill(r, u)
    \/ lookupBroker(r)
    \/ Receive(r)
    \/ BrokerClosed(r)
    \/ CallTimesOut(r)
    \/ DirectExchange(r)
    \/ DirectFails(r)

Next ==
    \/ startMgmtClientAuth
    \/ stopMgmtClientAuth
    \/ \E o \in Conns : LoopStep(o) \/ WatcherCloses(o) \/ CommandTimesOut(o)
    \/ ConsoleStep
    \/ \E r \in Callers : CallStep(r)

Spec == Init /\ [][Next]_vars

\* The goroutines of the loop, its watcher and a caller whose select is ready are
\* scheduled.  No timeout and nothing of OpenVPN is assumed to happen.
Fairness ==
    /\ \A o \in Conns :
         /\ WF_vars(LoopStep(o))
         /\ WF_vars(WatcherCloses(o))
    /\ \A r \in Callers : WF_vars(Receive(r)) /\ WF_vars(BrokerClosed(r))

FairSpec == Spec /\ Fairness

-----------------------------------------------------------------------------
(* Properties *)

\* Every variable has its type.
TypeOK ==
    /\ enabled \in BOOLEAN
    /\ gen \in 0 .. MaxGens
    /\ conn \in [Conns -> Conn]
    /\ sent \in [Conns -> Seq(Cmd)]
    /\ wire \in [Conns -> Seq(Line)]
    /\ inflight \in [Conns -> [busy : BOOLEAN, cmd : Cmd, for : SUBSET Callers,
                               buf : Seq(Line)]]
    /\ serving \in 0 .. MaxConns
    /\ registry \in 0 .. MaxConns
    /\ call \in [Callers -> [stage : Stage, cmd : Cmd, broker : 0 .. MaxConns,
                             resp : SUBSET Answer, answer : Answer, victim : Users]]
    /\ live \in SUBSET Users
    /\ revoked \in SUBSET Users
    /\ auths \in 0 .. MaxAuths
    /\ stalls \in 0 .. MaxStalls
    /\ seen \in [Pollers -> SUBSET SUBSET Users]

\* A kill that killUserSessions reports as done is done: the user is not connected
\* ("instead of assuming it"), whatever connections break, change hands or are
\* given up on, and whoever else uses the console.
TerminationConfirmed ==
    \A r \in Killers :
        call[r].stage = "reported" /\ call[r].answer.ok => call[r].victim \notin live

\* A status that mgmtGetActiveClients reports as known lists the clients that were
\* connected at one moment of the call: it is neither an older one, nor a torn one
\* taken for an empty list.
SnapshotCurrent ==
    \A r \in Pollers :
        call[r].stage = "answered" /\ call[r].answer.ok =>
            call[r].answer.clients \in seen[r]

\* A command is answered once: the loop never blocks on a resp channel that is
\* full.
AnsweredOnce ==
    \A o \in Conns, r \in Callers :
        r \in inflight[o].for => call[r].resp = {} /\ call[r].stage = "wait"

\* The loop that holds the console is the one that the callers find, so nobody is
\* sent to dial a console that is taken.  Switching the loop off and on breaks it
\* (README, "Where the code falls short").
OwnerIsFound == \A o \in Conns : Running(o) /\ conn[o].up => registry = o

\* A caller does not wait for its timeout on a connection that is gone.
WaitsOn(r, o) == call[r].stage \in {"offer", "wait"} /\ call[r].broker = o
NobodyWaitsOnTheDead ==
    \A r \in Callers, o \in Conns :
        WaitsOn(r, o) /\ ~conn[o].up ~> ~WaitsOn(r, o)

=============================================================================
