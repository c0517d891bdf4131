---------------------------- MODULE CertStoreProofs ---------------------------
(***************************************************************************)
(* Proofs about the two certificate stores, VpnUsers and, from its         *)
(* instance K on, KubernetesStore: for any users, certificates, requests,  *)
(* failing calls and crashes.                                              *)
(*                                                                         *)
(* A handler keeps no state between its calls except what it noted in its  *)
(* request: the argument is what each operation may count on before each   *)
(* of its calls.  For VpnUsers the clauses of StoreInv for create, revoke  *)
(* and so on say this, for KubernetesStore the clauses of KubeCall; the    *)
(* others hold whoever is at work, and so also after a failure or a crash  *)
(* half way.                                                               *)
(***************************************************************************)
EXTENDS VpnUsers, TLAPS

\* Requests are handled one at a time, and index.txt can be read and written
\* whole.  The code guarantees neither: two requests that overlap, or one read
\* that fails, undo what was reported (README, "Where the code falls short").
OneRequest == \A r, o \in Reqs : r = o
NoLosses == MaxLosses = 0

\* A request is at one of the calls of its handler.
InPath == \A r \in Reqs : req[r].pc \in 0 .. Len(Path[req[r].op])

Typed == TypeOK /\ InPath

-----------------------------------------------------------------------------
(* Whoever is at work *)

\* Every certificate that was signed has its line, under its name or archived.
OwnersListed ==
    \A s \in Serials :
        /\ index[s].cn \in {owner[s], Archived}
        /\ owner[s] = Nobody => index[s].cn = Nobody

\* No two lines carry the name of one user.
OneLine == \A u \in Users : \A s, t \in LinesOf(index, u) : s = t

\* The certificate of a valid line is in place, with its key.
ValidHasFiles ==
    \A u \in Users : \A s \in LinesOf(index, u) :
        index[s].flag = "V" => issued[u] = s /\ private[u] = s

\* The CRL lists certificates that were signed.
CrlSigned == \A s \in crl : owner[s] # Nobody

\* What was reported as withdrawn is marked, so that every later CRL lists it,
\* and is in the CRL.
OutMarked == out \subseteq Marked(index)
OutListed == out \subseteq crl

CutOut == cut \subseteq out

Connectable(u) ==
    \E s \in Usable :
        /\ LinesOf(index, u) = {s}
        /\ index[s].flag = "V"
        /\ issued[u] = s
        /\ private[u] = s

BaseInv ==
    /\ OwnersListed
    /\ OneLine
    /\ ValidHasFiles
    /\ CrlSigned
    /\ OutMarked
    /\ OutListed
    /\ CutOut
    /\ CutOffStaysOff
    /\ \A u \in good : Connectable(u)

-----------------------------------------------------------------------------
(* What the request q counts on *)

\* The line it noted is the user's.
Held(q) == q.serial \in Serials /\ index[q.serial].cn = q.user

\* No line of the user is valid.
NoValid(u) == \A s \in LinesOf(index, u) : index[s].flag = "R"

\* The certificate it noted was the user's, and is marked.
Gone(q) == q.serial \in Serials /\ owner[q.serial] = q.user /\ index[q.serial].flag = "R"

CreateOK(q) ==
    q.op = "create" =>
        /\ q.pc > 1 => q.user \notin good
        /\ q.pc = 2 => LinesOf(index, q.user) = {}
        /\ q.pc = 3 => Connectable(q.user)

RollbackOK(q) ==
    q.op = "rollback" =>
        /\ q.pc > 0 => q.user \notin good
        /\ q.pc = 1 => LinesOf(index, q.user) # {}
        /\ q.pc = 2 => Held(q) /\ index[q.serial].flag = q.flag
        /\ q.pc = 3 => Held(q)
        /\ q.pc = 4 => Held(q) /\ q.copy = Edited(q.op, index, q.serial)
        /\ q.pc > 2 => Gone(q) /\ NoValid(q.user)

RevokeOK(q) ==
    q.op = "revoke" =>
        /\ q.pc > 0 => q.user \notin good
        /\ q.pc = 2 => LinesOf(index, q.user) # {}
        /\ q.pc > 2 => Held(q)
        /\ q.pc > 3 => Gone(q)
        /\ q.pc > 4 => q.serial \in crl

UnrevokeOK(q) ==
    q.op = "unrevoke" =>
        /\ q.pc > 0 => q.user \notin good /\ out \cap LinesOf(index, q.user) = {}
        /\ q.pc = 2 => LinesOf(index, q.user) # {}
        /\ q.pc > 2 => Held(q)
        /\ q.pc \in {3, 4} => q.copy = Edited(q.op, index, q.serial)
        /\ q.pc = 4 => issued[q.user] = q.serial /\ private[q.user] = q.serial
        /\ q.pc > 4 => index[q.serial].flag = "V"
        /\ q.pc = 6 => q.serial \notin crl

RotateOK(q) ==
    q.op = "rotate" =>
        /\ q.pc > 0 => q.user \notin good
        /\ q.pc = 2 => LinesOf(index, q.user) # {}
        /\ q.pc = 3 => Held(q) /\ q.copy = Edited(q.op, index, q.serial)
        /\ q.pc \in {4, 5} => LinesOf(index, q.user) = {}
        /\ q.pc > 3 => Gone(q) /\ index[q.serial].cn = Archived
        /\ q.pc > 5 => Connectable(q.user)
        /\ q.pc = 7 => q.copy = index
        /\ q.pc > 8 => q.serial \in crl

DeleteOK(q) ==
    q.op = "delete" =>
        /\ q.pc > 0 => q.user \notin good
        /\ q.pc \in {2, 3} => LinesOf(index, q.user) # {}
        /\ q.pc = 4 => Held(q) /\ index[q.serial].flag = q.flag
        /\ q.pc = 5 => Held(q)
        /\ q.pc = 6 => Held(q) /\ q.copy = Edited(q.op, index, q.serial)
        /\ q.pc > 4 => Gone(q) /\ NoValid(q.user)
        /\ q.pc > 8 => q.serial \in crl

RequestOK(q) ==
    /\ CreateOK(q) /\ RollbackOK(q) /\ RevokeOK(q)
    /\ UnrevokeOK(q) /\ RotateOK(q) /\ DeleteOK(q)

StoreInv ==
    /\ BaseInv
    /\ \A r \in Reqs : RequestOK(req[r])

-----------------------------------------------------------------------------
(* Passwords *)

\* The row of a user with a password goes only when a request was told to drop
\* it, or has put the certificate out of use before.
GuardOK(q) ==
    /\ q.op = "removePassword" /\ q.pc > 0 => q.user \notin guarded
    /\ q.op \in {"rotate", "delete"} /\ q.pc > 8 => q.user \notin guarded
    /\ q.op = "rotate" /\ q.pc = 11 /\ q.pw => rows[q.user] # "none"

GuardInv ==
    /\ \A u \in guarded : rows[u] # "none"
    /\ \A r \in Reqs : GuardOK(req[r])

-----------------------------------------------------------------------------
(* Handlers and their calls *)

\* The handlers, their calls, and how many there are.
LEMMA Paths ==
    /\ Op = {"create", "rollback", "revoke", "unrevoke", "rotate", "delete",
             "changePassword", "removePassword", "disconnect"}
    /\ Len(Path["create"]) = 3 /\ Len(Path["rollback"]) = 6 /\ Len(Path["revoke"]) = 6
    /\ Len(Path["unrevoke"]) = 6 /\ Len(Path["rotate"]) = 11 /\ Len(Path["delete"]) = 9
    /\ Len(Path["changePassword"]) = 2 /\ Len(Path["removePassword"]) = 1
    /\ Len(Path["disconnect"]) = 2
BY DEF Op, Path

LEMMA PathLength == \A op \in Op : Len(Path[op]) \in 1 .. 11
<1> SUFFICES ASSUME NEW op \in Op PROVE Len(Path[op]) \in 1 .. 11
  OBVIOUS
<1> QED
  BY Paths

\* Where each call is made.
LEMMA CallAt ==
    ASSUME NEW op \in Op, NEW pc \in 1 .. Len(Path[op])
    PROVE  /\ Path[op][pc] = "check" => pc = 1 /\ op \notin {"rollback", "removePassword"}
           /\ Path[op][pc] = "build" => <<op, pc>> \in {<<"create", 2>>, <<"rotate", 5>>}
           /\ Path[op][pc] = "lookup" =>
                <<op, pc>> \in {<<"rollback", 1>>, <<"revoke", 2>>, <<"delete", 3>>}
           /\ Path[op][pc] = "easyrsaRevoke" =>
                <<op, pc>> \in {<<"rollback", 2>>, <<"revoke", 3>>, <<"delete", 4>>}
           /\ Path[op][pc] = "readIndex" =>
                <<op, pc>> \in {<<"rollback", 3>>, <<"unrevoke", 2>>, <<"rotate", 2>>,
                                <<"delete", 5>>}
           /\ Path[op][pc] = "readSwap" => <<op, pc>> = <<"rotate", 6>>
           /\ Path[op][pc] = "writeIndex" =>
                <<op, pc>> \in {<<"rollback", 4>>, <<"unrevoke", 4>>, <<"rotate", 3>>,
                                <<"rotate", 7>>, <<"delete", 6>>}
           /\ Path[op][pc] = "restore" => <<op, pc>> = <<"unrevoke", 3>>
           /\ Path[op][pc] = "removeFiles" =>
                <<op, pc>> \in {<<"rollback", 5>>, <<"rotate", 4>>, <<"delete", 7>>}
           /\ Path[op][pc] = "genCrl" =>
                <<op, pc>> \in {<<"rollback", 6>>, <<"revoke", 4>>, <<"unrevoke", 5>>,
                                <<"rotate", 8>>, <<"delete", 8>>}
           /\ Path[op][pc] = "pwCreate" => <<op, pc>> \in {<<"create", 3>>, <<"rotate", 10>>}
           /\ Path[op][pc] = "pwDelete" =>
                <<op, pc>> \in {<<"rotate", 9>>, <<"delete", 9>>, <<"removePassword", 1>>}
           /\ Path[op][pc] = "pwRevoke" => <<op, pc>> = <<"revoke", 5>>
           /\ Path[op][pc] = "pwRestore" => <<op, pc>> = <<"unrevoke", 6>>
           /\ Path[op][pc] = "pwChange" => <<op, pc>> = <<"changePassword", 2>>
           /\ Path[op][pc] = "kill" =>
                <<op, pc>> \in {<<"revoke", 6>>, <<"rotate", 11>>, <<"delete", 2>>,
                                <<"disconnect", 2>>}
<1>1. CASE op = "create"
  BY <1>1, Paths DEF Path
<1>2. CASE op = "rollback"
  BY <1>2, Paths DEF Path
<1>3. CASE op = "revoke"
  BY <1>3, Paths DEF Path
<1>4. CASE op = "unrevoke"
  BY <1>4, Paths DEF Path
<1>5. CASE op = "rotate"
  BY <1>5, Paths DEF Path
<1>6. CASE op = "delete"
  BY <1>6, Paths DEF Path
<1>7. CASE op = "changePassword"
  BY <1>7, Paths DEF Path
<1>8. CASE op = "removePassword"
  BY <1>8, Paths DEF Path
<1>9. CASE op = "disconnect"
  BY <1>9, Paths DEF Path
<1> QED
  BY <1>1, <1>2, <1>3, <1>4, <1>5, <1>6, <1>7, <1>8, <1>9, Paths

\* The calls that end a handler.
LEMMA LastCalls ==
    \A op \in Op : Path[op][Len(Path[op])] \in
        {"pwCreate", "genCrl", "kill", "pwRestore", "pwDelete", "pwChange"}
<1> SUFFICES ASSUME NEW op \in Op
             PROVE  Path[op][Len(Path[op])] \in
                      {"pwCreate", "genCrl", "kill", "pwRestore", "pwDelete", "pwChange"}
  OBVIOUS
<1>1. CASE op = "create"
  BY <1>1, Paths DEF Path
<1>2. CASE op = "rollback"
  BY <1>2, Paths DEF Path
<1>3. CASE op = "revoke"
  BY <1>3, Paths DEF Path
<1>4. CASE op = "unrevoke"
  BY <1>4, Paths DEF Path
<1>5. CASE op = "rotate"
  BY <1>5, Paths DEF Path
<1>6. CASE op = "delete"
  BY <1>6, Paths DEF Path
<1>7. CASE op = "changePassword"
  BY <1>7, Paths DEF Path
<1>8. CASE op = "removePassword"
  BY <1>8, Paths DEF Path
<1>9. CASE op = "disconnect"
  BY <1>9, Paths DEF Path
<1> QED
  BY <1>1, <1>2, <1>3, <1>4, <1>5, <1>6, <1>7, <1>8, <1>9, Paths

\* When a handler is at its last call.
LEMMA LastAt ==
    ASSUME NEW op \in Op, NEW pc \in 1 .. Len(Path[op])
    PROVE  pc = Len(Path[op]) <=>
             <<op, pc>> \in {<<"create", 3>>, <<"rollback", 6>>, <<"revoke", 6>>, <<"unrevoke", 6>>,
                            <<"rotate", 11>>, <<"delete", 9>>, <<"changePassword", 2>>,
                            <<"removePassword", 1>>, <<"disconnect", 2>>}
<1>1. CASE op = "create"
  BY <1>1, Paths
<1>2. CASE op = "rollback"
  BY <1>2, Paths
<1>3. CASE op = "revoke"
  BY <1>3, Paths
<1>4. CASE op = "unrevoke"
  BY <1>4, Paths
<1>5. CASE op = "rotate"
  BY <1>5, Paths
<1>6. CASE op = "delete"
  BY <1>6, Paths
<1>7. CASE op = "changePassword"
  BY <1>7, Paths
<1>8. CASE op = "removePassword"
  BY <1>8, Paths
<1>9. CASE op = "disconnect"
  BY <1>9, Paths
<1> QED
  BY <1>1, <1>2, <1>3, <1>4, <1>5, <1>6, <1>7, <1>8, <1>9, Paths

-----------------------------------------------------------------------------
(* Typing *)

ReqTyped == req \in [Reqs -> Request] /\ InPath

HistoryTyped == out \subseteq Serials /\ cut \subseteq Serials /\ good \subseteq Users /\ guarded \subseteq Users

\* A request at rest, and the placeholders.
LEMMA RestTypes ==
    /\ AnyUser \in Users
    /\ NoLine \in Line
    /\ EmptyIndex \in [Serials -> Line]
    /\ Idle \in Request /\ Idle.pc = 0 /\ Idle.op = "create"
<1>1. AnyUser \in Users
  BY VpnUsersAssumption DEF AnyUser
<1>2. NoLine \in Line
  BY DEF NoLine, Line
<1>3. EmptyIndex \in [Serials -> Line]
  BY <1>2 DEF EmptyIndex
<1>4. "create" \in Op /\ 0 \in 0 .. MaxSerials
  BY Paths, VpnUsersAssumption
<1> QED
  BY <1>1, <1>2, <1>3, <1>4 DEF Idle, Request

\* A request that is at a call.
LEMMA Going ==
    ASSUME ReqTyped, NEW r \in Reqs, NEW step, At(r, step)
    PROVE  /\ req[r] \in Request /\ req[r].op \in Op /\ req[r].user \in Users
           /\ req[r].pc \in 1 .. Len(Path[req[r].op])
           /\ Path[req[r].op][req[r].pc] = step
<1>1. req[r] \in Request /\ req[r].pc \in 0 .. Len(Path[req[r].op]) /\ req[r].pc \in Nat
  BY DEF ReqTyped, InPath, Request
<1>2. req[r].pc > 0 /\ Path[req[r].op][req[r].pc] = step
  BY DEF At
<1>3. req[r].op \in Op
  BY <1>1 DEF Request
<1>4. Len(Path[req[r].op]) \in Nat
  BY <1>3, Paths
<1> QED
  BY <1>1, <1>2, <1>3, <1>4 DEF Request

\* A request goes on with a call of its handler.
LEMMA GotoTyped ==
    ASSUME ReqTyped, NEW r \in Reqs, NEW e \in Request, NEW n \in 0 .. Len(Path[e.op]),
           Goto(r, n, e)
    PROVE  ReqTyped'
<1> DEFINE d == [e EXCEPT !.pc = n]
<1>1. e.op \in Op
  BY DEF Request
<1>2. n \in 0 .. 12
  <2> DEFINE L == Len(Path[e.op])
  <2>1. L \in 1 .. 11 /\ n \in 0 .. L
    BY <1>1, PathLength
  <2> HIDE DEF L
  <2> QED
    BY <2>1
<1>3. d \in Request /\ d.pc = n /\ d.op = e.op
  BY <1>2 DEF Request
<1>4. req' = [req EXCEPT ![r] = d]
  BY DEF Goto
<1> HIDE DEF d
<1> QED
  BY <1>3, <1>4 DEF ReqTyped, InPath

\* A request ends.
LEMMA EndTyped ==
    ASSUME ReqTyped, NEW r \in Reqs, req' = [req EXCEPT ![r] = Idle]
    PROVE  ReqTyped'
<1>1. Idle \in Request /\ Idle.pc \in 0 .. Len(Path[Idle.op])
  BY RestTypes, Paths
<1> QED
  BY <1>1 DEF ReqTyped, InPath

LEMMA AbortTyped ==
    ASSUME ReqTyped, HistoryTyped, NEW r \in Reqs, Abort(r)
    PROVE  ReqTyped' /\ HistoryTyped'
BY EndTyped DEF Abort, HistoryTyped, history

LEMMA ContinueTyped ==
    ASSUME ReqTyped, HistoryTyped, NEW r \in Reqs, NEW step, At(r, step),
           NEW e \in Request, e.op = req[r].op, Continue(r, e)
    PROVE  ReqTyped' /\ HistoryTyped'
<1>1. CASE ~Last(r)
  <2>1. Goto(r, req[r].pc + 1, e) /\ UNCHANGED history
    BY <1>1 DEF Continue
  <2>2. req[r].pc + 1 \in 0 .. Len(Path[e.op])
    <3>1. req[r].pc \in 1 .. Len(Path[e.op]) /\ req[r].pc # Len(Path[e.op]) /\ e.op \in Op
      BY <1>1, Going DEF Last
    <3>2. Len(Path[e.op]) \in Nat
      BY <3>1, Paths
    <3> QED
      BY <3>1, <3>2
  <2> QED
    BY <2>1, <2>2, GotoTyped DEF HistoryTyped, history
<1>2. CASE Last(r) /\ e.op = "rollback"
  BY <1>2, AbortTyped DEF Continue
<1>3. CASE Last(r) /\ e.op # "rollback"
  <2>1. Report(r, e)
    BY <1>3 DEF Continue
  <2>2. e.user \in Users /\ e.serial \in Serials \cup {0}
    BY VpnUsersAssumption DEF Request, Serials
  <2> QED
    BY <2>1, <2>2, EndTyped DEF Report, HistoryTyped
<1> QED
  BY <1>1, <1>2, <1>3

PkiTyped ==
    /\ index \in [Serials -> Line]
    /\ crl \subseteq Serials
    /\ owner \in [Serials -> Users \cup {Nobody}]
    /\ issued \in [Users -> 0 .. MaxSerials]
    /\ private \in [Users -> 0 .. MaxSerials]
    /\ shelved \subseteq Serials
    /\ shelvedKey \subseteq Serials

RestTyped ==
    /\ rows \in [Users -> {"none", "active", "revoked"}]
    /\ live \subseteq Serials
    /\ started \in 0 .. MaxRequests
    /\ failures \in 0 .. MaxFailures
    /\ losses \in 0 .. MaxLosses
    /\ crashes \in 0 .. MaxCrashes

LEMMA TypedParts == Typed <=> PkiTyped /\ RestTyped /\ ReqTyped /\ HistoryTyped
BY DEF Typed, TypeOK, PkiTyped, RestTyped, ReqTyped, HistoryTyped

LEMMA TypedParts2 == Typed' <=> PkiTyped' /\ RestTyped' /\ ReqTyped' /\ HistoryTyped'
BY DEF Typed, TypeOK, PkiTyped, RestTyped, ReqTyped, HistoryTyped

\* A read of index.txt returns lines.
LEMMA ReadTyped ==
    ASSUME Typed, NEW c \in {index, EmptyIndex}, fRead(c)
    PROVE  c \in [Serials -> Line] /\ losses' \in 0 .. MaxLosses
<1>1. index \in [Serials -> Line] /\ losses \in 0 .. MaxLosses /\ MaxLosses \in Nat
  BY VpnUsersAssumption DEF Typed, TypeOK
<1>2. EmptyIndex \in [Serials -> Line]
  BY RestTypes
<1> QED
  BY <1>1, <1>2 DEF fRead

\* A call fails or works.
LEMMA CountTyped ==
    ASSUME Typed, Fails \/ Works
    PROVE  failures' \in 0 .. MaxFailures
<1>1. failures \in 0 .. MaxFailures /\ MaxFailures \in Nat
  BY VpnUsersAssumption DEF Typed, TypeOK
<1> QED
  BY <1>1 DEF Fails, Works

\* A handler starts.
LEMMA StartTyped ==
    ASSUME Typed, NEW r \in Reqs, NEW op \in Op, NEW u \in Users, NEW pw \in BOOLEAN,
           Start(r, op, u, pw)
    PROVE  Typed'
<1> DEFINE b == pw \/ op = "changePassword"
           d == [Idle EXCEPT !.op = op, !.user = u, !.pc = 1, !.pw = b]
<1>1. req' = [req EXCEPT ![r] = d]
  BY DEF Start
<1>2. b \in BOOLEAN
  OBVIOUS
<1> HIDE DEF b
<1>3. d \in Request /\ d.pc = 1 /\ d.op = op
  <2> DEFINE e == [Idle EXCEPT !.op = op, !.user = u]
  <2>1. e \in Request /\ e.op = op
    BY RestTypes DEF Request
  <2>2. d = [e EXCEPT !.pc = 1, !.pw = b]
    BY DEF Idle
  <2> HIDE DEF e, d
  <2>3. 1 \in 0 .. 12
    OBVIOUS
  <2> QED
    BY <1>2, <2>1, <2>2, <2>3 DEF Request
<1>4. 1 \in 0 .. Len(Path[op])
  <2> DEFINE L == Len(Path[op])
  <2>1. L \in 1 .. 11
    BY PathLength
  <2> HIDE DEF L
  <2>2. 1 \in 0 .. L
    BY <2>1
  <2> QED
    BY <2>2 DEF L
<1> HIDE DEF d
<1>5. ReqTyped'
  BY <1>1, <1>3, <1>4, TypedParts DEF ReqTyped, InPath
<1>6. HistoryTyped'
  BY TypedParts DEF Start, HistoryTyped
<1>7. RestTyped'
  BY TypedParts, VpnUsersAssumption DEF Start, RestTyped, faults
<1>8. PkiTyped'
  BY TypedParts DEF Start, PkiTyped, pki
<1> QED
  BY <1>5, <1>6, <1>7, <1>8, TypedParts2

LEMMA CheckTyped ==
    ASSUME Typed, NEW r \in Reqs, Check(r)
    PROVE  Typed'
<1>1. At(r, "check") /\ ReqTyped /\ HistoryTyped
  BY TypedParts DEF Check
<1>2. req[r] \in Request
  BY <1>1, Going
<1>3. PICK c \in {index, EmptyIndex} : fRead(c) /\ (Continue(r, req[r]) \/ Abort(r))
  BY DEF Check
<1>4. ReqTyped' /\ HistoryTyped'
  BY <1>1, <1>2, <1>3, ContinueTyped, AbortTyped
<1>5. losses' \in 0 .. MaxLosses
  BY <1>3, ReadTyped
<1> QED
  BY <1>4, <1>5, TypedParts, TypedParts2 DEF Check, PkiTyped, RestTyped, pki

LEMMA BuildTyped ==
    ASSUME Typed, NEW r \in Reqs, BuildClient(r)
    PROVE  Typed'
<1>1. At(r, "build") /\ ReqTyped /\ HistoryTyped /\ PkiTyped /\ RestTyped
  BY TypedParts DEF BuildClient
<1>2. req[r] \in Request /\ req[r].user \in Users
  BY <1>1, Going
<1>3. ReqTyped' /\ HistoryTyped'
  BY <1>1, <1>2, ContinueTyped, AbortTyped DEF BuildClient
<1>4. failures' \in 0 .. MaxFailures
  BY CountTyped DEF BuildClient
<1>5. PkiTyped'
  <2>1. CASE UNCHANGED <<owner, index, issued, private>>
    BY <1>1, <2>1 DEF BuildClient, PkiTyped
  <2>2. CASE ~UNCHANGED <<owner, index, issued, private>>
    <3>1. PICK s \in Serials :
            /\ owner' = [owner EXCEPT ![s] = req[r].user]
            /\ index' = [index EXCEPT ![s] = [cn |-> req[r].user, flag |-> "V"]]
            /\ issued' = [issued EXCEPT ![req[r].user] = s]
            /\ private' = [private EXCEPT ![req[r].user] = s]
      BY <2>2 DEF BuildClient
    <3>2. [cn |-> req[r].user, flag |-> "V"] \in Line /\ s \in 0 .. MaxSerials
      BY <1>2, VpnUsersAssumption DEF Line, Serials
    <3> QED
      BY <1>1, <1>2, <3>1, <3>2 DEF BuildClient, PkiTyped
  <2> QED
    BY <2>1, <2>2
<1> QED
  BY <1>1, <1>3, <1>4, <1>5, TypedParts2 DEF BuildClient, RestTyped

LEMMA LineOfTyped ==
    ASSUME NEW c \in [Serials -> Line], NEW u, NEW s \in LinesOf(c, u)
    PROVE  s \in Serials /\ s \in 0 .. MaxSerials /\ c[s] \in Line /\ c[s].flag \in {"V", "R"}
BY VpnUsersAssumption DEF LinesOf, Serials, Line

LEMMA LookUpTyped ==
    ASSUME Typed, NEW r \in Reqs, LookUp(r)
    PROVE  Typed'
<1>1. At(r, "lookup") /\ ReqTyped /\ HistoryTyped /\ PkiTyped /\ RestTyped
  BY TypedParts DEF LookUp
<1>2. req[r] \in Request /\ 0 \in 0 .. MaxSerials
  BY <1>1, Going, VpnUsersAssumption
<1>3. PICK c \in {index, EmptyIndex} :
        /\ fRead(c)
        /\ \/ Continue(r, [req[r] EXCEPT !.serial = 0, !.flag = "V"])
           \/ \E s \in LinesOf(c, req[r].user) :
                 Continue(r, [req[r] EXCEPT !.serial = s, !.flag = c[s].flag])
  BY DEF LookUp
<1>4. c \in [Serials -> Line] /\ losses' \in 0 .. MaxLosses
  BY <1>3, ReadTyped
<1>5. PICK s \in 0 .. MaxSerials, f \in {"V", "R"} :
        Continue(r, [req[r] EXCEPT !.serial = s, !.flag = f])
  BY <1>2, <1>3, <1>4, LineOfTyped
<1>6. [req[r] EXCEPT !.serial = s, !.flag = f] \in Request
  BY <1>2 DEF Request
<1>7. [req[r] EXCEPT !.serial = s, !.flag = f].op = req[r].op
  BY <1>2 DEF Request
<1>8. ReqTyped' /\ HistoryTyped'
  BY <1>1, <1>5, <1>6, <1>7, ContinueTyped
<1> QED
  BY <1>1, <1>4, <1>8, TypedParts2 DEF LookUp, PkiTyped, RestTyped, pki

LEMMA EasyrsaRevokeTyped ==
    ASSUME Typed, NEW r \in Reqs, EasyrsaRevoke(r)
    PROVE  Typed'
<1>1. At(r, "easyrsaRevoke") /\ ReqTyped /\ HistoryTyped /\ PkiTyped /\ RestTyped
  BY TypedParts DEF EasyrsaRevoke
<1>2. req[r] \in Request /\ req[r].user \in Users /\ 0 \in 0 .. MaxSerials
  BY <1>1, Going, VpnUsersAssumption
<1>3. ReqTyped' /\ HistoryTyped'
  BY <1>1, <1>2, ContinueTyped, AbortTyped DEF EasyrsaRevoke
<1>4. failures' \in 0 .. MaxFailures
  BY CountTyped DEF EasyrsaRevoke
<1>5. losses' \in 0 .. MaxLosses
  <2>1. UNCHANGED losses \/ \E c \in {index, EmptyIndex} : fRead(c)
    BY DEF EasyrsaRevoke
  <2> QED
    BY <1>1, <2>1, ReadTyped DEF RestTyped
<1>6. PkiTyped'
  <2>1. CASE UNCHANGED <<index, issued, private, shelved, shelvedKey>>
    BY <1>1, <2>1 DEF EasyrsaRevoke, PkiTyped
  <2>2. CASE ~UNCHANGED <<index, issued, private, shelved, shelvedKey>>
    <3> DEFINE s == issued[req[r].user]
    <3>1. /\ CanRevoke(req[r].user)
          /\ index' = [index EXCEPT ![s].flag = "R"]
          /\ issued' = [issued EXCEPT ![req[r].user] = 0]
          /\ shelved' = shelved \cup {s}
          /\ private' = [private EXCEPT ![req[r].user] = 0]
          /\ shelvedKey' \in {shelvedKey \cup {s}, shelvedKey}
          /\ UNCHANGED <<crl, owner>>
      BY <2>2 DEF EasyrsaRevoke
    <3>2. s \in Serials
      BY <1>1, <1>2, <3>1, VpnUsersAssumption DEF PkiTyped, CanRevoke, Serials
    <3>3. [index[s] EXCEPT !.flag = "R"] \in Line
      BY <1>1, <3>2 DEF PkiTyped, Line
    <3> QED
      BY <1>1, <1>2, <3>1, <3>2, <3>3 DEF PkiTyped
  <2> QED
    BY <2>1, <2>2
<1> QED
  BY <1>1, <1>3, <1>4, <1>5, <1>6, TypedParts2 DEF EasyrsaRevoke, RestTyped

LEMMA EditedTyped ==
    ASSUME NEW op, NEW c \in [Serials -> Line], NEW s \in Serials
    PROVE  Edited(op, c, s) \in [Serials -> Line]
<1>1. [c[s] EXCEPT !.flag = "V"] \in Line /\ [c[s] EXCEPT !.cn = Archived] \in Line
  BY DEF Line
<1>2. [cn |-> Archived, flag |-> "R"] \in Line
  BY DEF Line
<1>3. CASE op = "unrevoke"
  BY <1>1, <1>3 DEF Edited
<1>4. CASE op = "rotate"
  BY <1>2, <1>4 DEF Edited
<1>5. CASE op \notin {"unrevoke", "rotate"}
  BY <1>1, <1>5 DEF Edited
<1> QED
  BY <1>3, <1>4, <1>5

\* The calls that an unrevoke may skip to.
LEMMA SkipTo ==
    StepNumber("unrevoke", "pwRestore") = 6 /\ StepNumber("unrevoke", "genCrl") = 5
<1>1. /\ \A i \in 1 .. 6 : Path["unrevoke"][i] = "pwRestore" <=> i = 6
      /\ \A i \in 1 .. 6 : Path["unrevoke"][i] = "genCrl" <=> i = 5
  BY DEF Path
<1>2. Len(Path["unrevoke"]) = 6
  BY Paths
<1> QED
  BY <1>1, <1>2 DEF StepNumber

\* What ReadIndex notes of the line s in what it read.
ReadNote(q, c, s) ==
    [q EXCEPT !.serial = IF q.op \in {"rotate", "unrevoke"} THEN s ELSE @,
              !.flag = IF q.op = "unrevoke" THEN c[s].flag ELSE @,
              !.copy = Edited(q.op, c, s)]

LEMMA ReadNoteTyped ==
    ASSUME NEW q \in Request, NEW c \in [Serials -> Line], NEW s \in LinesOf(c, q.user)
    PROVE  /\ ReadNote(q, c, s) \in Request
           /\ ReadNote(q, c, s).op = q.op /\ ReadNote(q, c, s).user = q.user
           /\ ReadNote(q, c, s).copy = Edited(q.op, c, s)
           /\ q.op \in {"rotate", "unrevoke"} => ReadNote(q, c, s).serial = s
           /\ q.op \notin {"rotate", "unrevoke"} => ReadNote(q, c, s).serial = q.serial
<1> DEFINE n == IF q.op \in {"rotate", "unrevoke"} THEN s ELSE q.serial
           f == IF q.op = "unrevoke" THEN c[s].flag ELSE q.flag
           d == Edited(q.op, c, s)
<1>1. s \in Serials /\ s \in 0 .. MaxSerials /\ c[s].flag \in {"V", "R"}
  BY LineOfTyped
<1>2. n \in 0 .. MaxSerials /\ f \in {"V", "R"}
  BY <1>1 DEF Request
<1>3. d \in [Serials -> Line]
  BY <1>1, EditedTyped
<1>4. ReadNote(q, c, s) = [q EXCEPT !.serial = n, !.flag = f, !.copy = d]
  BY DEF ReadNote, Request
<1>5. /\ q.op \in {"rotate", "unrevoke"} => n = s
      /\ q.op \notin {"rotate", "unrevoke"} => n = q.serial
  OBVIOUS
<1> HIDE DEF n, f, d
<1> QED
  BY <1>2, <1>3, <1>4, <1>5 DEF Request, d

\* The ways on from ReadIndex.
LEMMA ReadIndexCases ==
    ASSUME NEW r \in Reqs, ReadIndex(r)
    PROVE  /\ At(r, "readIndex")
           /\ UNCHANGED <<pki, rows, live, started, failures, crashes>>
           /\ \E c \in {index, EmptyIndex} :
                /\ fRead(c)
                /\ \/ /\ LinesOf(c, req[r].user) = {} /\ req[r].op = "rotate" /\ Abort(r)
                   \/ /\ LinesOf(c, req[r].user) = {} /\ req[r].op = "unrevoke"
                      /\ Goto(r, 6, req[r]) /\ UNCHANGED history
                   \/ /\ LinesOf(c, req[r].user) = {} /\ req[r].op \notin {"rotate", "unrevoke"}
                      /\ Continue(r, [req[r] EXCEPT !.copy = c])
                   \/ \E s \in LinesOf(c, req[r].user) :
                        \/ /\ req[r].op = "unrevoke" /\ c[s].flag # "R"
                           /\ Goto(r, IF s \in crl THEN 5 ELSE 6, ReadNote(req[r], c, s))
                           /\ UNCHANGED history
                        \/ /\ ~(req[r].op = "unrevoke" /\ c[s].flag # "R")
                           /\ Continue(r, ReadNote(req[r], c, s))
<1>1. PICK c \in {index, EmptyIndex} :
        /\ fRead(c)
        /\ \/ /\ LinesOf(c, req[r].user) = {}
              /\ CASE req[r].op = "rotate"   -> Abort(r)
                   [] req[r].op = "unrevoke" -> /\ Goto(r, StepNumber("unrevoke", "pwRestore"), req[r])
                                                /\ UNCHANGED history
                   [] OTHER -> Continue(r, [req[r] EXCEPT !.copy = c])
           \/ \E s \in LinesOf(c, req[r].user) :
                IF req[r].op = "unrevoke" /\ c[s].flag # "R"
                THEN /\ Goto(r, StepNumber("unrevoke", IF s \in crl THEN "genCrl" ELSE "pwRestore"),
                             ReadNote(req[r], c, s))
                     /\ UNCHANGED history
                ELSE Continue(r, ReadNote(req[r], c, s))
  BY DEF ReadIndex, ReadNote
<1>2. /\ At(r, "readIndex")
      /\ UNCHANGED <<pki, rows, live, started, failures, crashes>>
  BY DEF ReadIndex
<1>3. CASE LinesOf(c, req[r].user) = {}
  <2>1. \/ req[r].op = "rotate" /\ Abort(r)
        \/ req[r].op = "unrevoke" /\ Goto(r, 6, req[r]) /\ UNCHANGED history
        \/ req[r].op \notin {"rotate", "unrevoke"} /\ Continue(r, [req[r] EXCEPT !.copy = c])
    BY <1>1, <1>3, SkipTo
  <2> QED
    BY <1>1, <1>2, <1>3, <2>1
<1>4. ASSUME NEW s \in LinesOf(c, req[r].user),
             IF req[r].op = "unrevoke" /\ c[s].flag # "R"
             THEN /\ Goto(r, StepNumber("unrevoke", IF s \in crl THEN "genCrl" ELSE "pwRestore"),
                          ReadNote(req[r], c, s))
                  /\ UNCHANGED history
             ELSE Continue(r, ReadNote(req[r], c, s))
      PROVE  \/ /\ req[r].op = "unrevoke" /\ c[s].flag # "R"
                /\ Goto(r, IF s \in crl THEN 5 ELSE 6, ReadNote(req[r], c, s))
                /\ UNCHANGED history
             \/ /\ ~(req[r].op = "unrevoke" /\ c[s].flag # "R")
                /\ Continue(r, ReadNote(req[r], c, s))
  <2>1. CASE s \in crl
    BY <1>4, <2>1, SkipTo
  <2>2. CASE s \notin crl
    BY <1>4, <2>2, SkipTo
  <2> QED
    BY <2>1, <2>2
<1> QED
  BY <1>1, <1>2, <1>3, <1>4

LEMMA ReadIndexTyped ==
    ASSUME Typed, NEW r \in Reqs, ReadIndex(r)
    PROVE  Typed'
<1>1. At(r, "readIndex") /\ ReqTyped /\ HistoryTyped /\ PkiTyped /\ RestTyped
  BY TypedParts, ReadIndexCases
<1>2. req[r] \in Request /\ UNCHANGED <<pki, rows, live, started, failures, crashes>>
  BY <1>1, Going, ReadIndexCases
<1>3. PICK c \in {index, EmptyIndex} :
        /\ fRead(c)
        /\ \/ Abort(r)
           \/ req[r].op = "unrevoke" /\ Goto(r, 6, req[r]) /\ UNCHANGED history
           \/ Continue(r, [req[r] EXCEPT !.copy = c])
           \/ \E s \in LinesOf(c, req[r].user) :
                \/ /\ req[r].op = "unrevoke"
                   /\ Goto(r, IF s \in crl THEN 5 ELSE 6, ReadNote(req[r], c, s))
                   /\ UNCHANGED history
                \/ Continue(r, ReadNote(req[r], c, s))
  BY ReadIndexCases
<1>4. c \in [Serials -> Line] /\ losses' \in 0 .. MaxLosses
  BY <1>3, ReadTyped
<1>5. 5 \in 0 .. Len(Path["unrevoke"]) /\ 6 \in 0 .. Len(Path["unrevoke"])
  BY Paths
<1>6. ASSUME UNCHANGED history PROVE HistoryTyped'
  BY <1>1, <1>6 DEF HistoryTyped, history
<1>7. [req[r] EXCEPT !.copy = c] \in Request /\ [req[r] EXCEPT !.copy = c].op = req[r].op
  BY <1>2, <1>4 DEF Request
<1>8. ReqTyped' /\ HistoryTyped'
  <2>1. CASE Abort(r)
    BY <1>1, <2>1, AbortTyped
  <2>2. CASE req[r].op = "unrevoke" /\ Goto(r, 6, req[r]) /\ UNCHANGED history
    BY <1>1, <1>2, <1>5, <1>6, <2>2, GotoTyped
  <2>3. CASE Continue(r, [req[r] EXCEPT !.copy = c])
    BY <1>1, <1>7, <2>3, ContinueTyped
  <2>4. ASSUME NEW s \in LinesOf(c, req[r].user),
               \/ /\ req[r].op = "unrevoke"
                  /\ Goto(r, IF s \in crl THEN 5 ELSE 6, ReadNote(req[r], c, s))
                  /\ UNCHANGED history
               \/ Continue(r, ReadNote(req[r], c, s))
        PROVE  ReqTyped' /\ HistoryTyped'
    <3> DEFINE e == ReadNote(req[r], c, s)
    <3>1. e \in Request /\ e.op = req[r].op
      BY <1>2, <1>4, ReadNoteTyped
    <3>2. CASE Continue(r, e)
      BY <1>1, <3>1, <3>2, ContinueTyped
    <3>3. CASE req[r].op = "unrevoke" /\ UNCHANGED history /\ (Goto(r, 5, e) \/ Goto(r, 6, e))
      <4> HIDE DEF e
      <4> QED
        BY <1>1, <1>5, <1>6, <3>1, <3>3, GotoTyped
    <3> QED
      BY <2>4, <3>2, <3>3
  <2> QED
    BY <1>3, <2>1, <2>2, <2>3, <2>4
<1> QED
  BY <1>1, <1>2, <1>4, <1>8, TypedParts2 DEF PkiTyped, RestTyped, pki

LEMMA ReadSwapTyped ==
    ASSUME Typed, NEW r \in Reqs, ReadSwap(r)
    PROVE  Typed'
<1>1. At(r, "readSwap") /\ ReqTyped /\ HistoryTyped /\ PkiTyped /\ RestTyped
  BY TypedParts DEF ReadSwap
<1>2. req[r] \in Request
  BY <1>1, Going
<1>3. PICK c \in {index, EmptyIndex} :
        fRead(c) /\ (Continue(r, [req[r] EXCEPT !.copy = c]) \/ Abort(r))
  BY DEF ReadSwap
<1>4. c \in [Serials -> Line] /\ losses' \in 0 .. MaxLosses
  BY <1>3, ReadTyped
<1>5. [req[r] EXCEPT !.copy = c] \in Request /\ [req[r] EXCEPT !.copy = c].op = req[r].op
  BY <1>2, <1>4 DEF Request
<1>6. ReqTyped' /\ HistoryTyped'
  BY <1>1, <1>3, <1>5, ContinueTyped, AbortTyped
<1> QED
  BY <1>1, <1>4, <1>6, TypedParts2 DEF ReadSwap, PkiTyped, RestTyped, pki

LEMMA WriteIndexTyped ==
    ASSUME Typed, NEW r \in Reqs, WriteIndex(r)
    PROVE  Typed'
<1>1. At(r, "writeIndex") /\ ReqTyped /\ HistoryTyped /\ PkiTyped /\ RestTyped
  BY TypedParts DEF WriteIndex
<1>2. req[r] \in Request /\ req[r].copy \in [Serials -> Line]
  BY <1>1, Going DEF Request
<1>3. ReqTyped' /\ HistoryTyped'
  BY <1>1, <1>2, ContinueTyped, AbortTyped DEF WriteIndex
<1>4. failures' \in 0 .. MaxFailures
  BY CountTyped DEF WriteIndex, Works
<1>5. losses' \in 0 .. MaxLosses
  BY <1>1, VpnUsersAssumption DEF WriteIndex, RestTyped
<1>6. index' \in [Serials -> Line]
  BY <1>1, <1>2, RestTypes DEF WriteIndex, PkiTyped
<1> QED
  BY <1>1, <1>3, <1>4, <1>5, <1>6, TypedParts2 DEF WriteIndex, PkiTyped, RestTyped

LEMMA RestoreFilesTyped ==
    ASSUME Typed, NEW r \in Reqs, RestoreFiles(r)
    PROVE  Typed'
<1>1. At(r, "restore") /\ ReqTyped /\ HistoryTyped /\ PkiTyped /\ RestTyped
  BY TypedParts DEF RestoreFiles
<1>2. req[r] \in Request /\ req[r].user \in Users /\ req[r].serial \in 0 .. MaxSerials
  BY <1>1, Going DEF Request
<1>3. ReqTyped' /\ HistoryTyped'
  BY <1>1, <1>2, ContinueTyped, AbortTyped DEF RestoreFiles
<1>4. failures' \in 0 .. MaxFailures
  BY CountTyped DEF RestoreFiles
<1>5. PkiTyped'
  BY <1>1, <1>2 DEF RestoreFiles, PkiTyped
<1> QED
  BY <1>1, <1>3, <1>4, <1>5, TypedParts2 DEF RestoreFiles, RestTyped

LEMMA RemoveFilesTyped ==
    ASSUME Typed, NEW r \in Reqs, RemoveFiles(r)
    PROVE  Typed'
<1>1. At(r, "removeFiles") /\ ReqTyped /\ HistoryTyped /\ PkiTyped /\ RestTyped
  BY TypedParts DEF RemoveFiles
<1>2. req[r] \in Request /\ req[r].user \in Users /\ 0 \in 0 .. MaxSerials
  BY <1>1, Going, VpnUsersAssumption
<1>3. ReqTyped' /\ HistoryTyped'
  BY <1>1, <1>2, ContinueTyped DEF RemoveFiles
<1>4. failures' \in 0 .. MaxFailures
  BY CountTyped DEF RemoveFiles
<1>5. PkiTyped'
  BY <1>1, <1>2 DEF RemoveFiles, PkiTyped
<1> QED
  BY <1>1, <1>3, <1>4, <1>5, TypedParts2 DEF RemoveFiles, RestTyped

LEMMA GenCrlTyped ==
    ASSUME Typed, NEW r \in Reqs, GenCrl(r)
    PROVE  Typed'
<1>1. At(r, "genCrl") /\ ReqTyped /\ HistoryTyped /\ PkiTyped /\ RestTyped
  BY TypedParts DEF GenCrl
<1>2. req[r] \in Request /\ req[r].op \in Op /\ req[r].pc \in 1 .. Len(Path[req[r].op])
      /\ Path[req[r].op][req[r].pc] = "genCrl"
  BY <1>1, Going
<1>3. req[r].op \in {"rotate", "delete"} => req[r].pc + 1 \in 0 .. Len(Path[req[r].op])
  <2>1. req[r].op \in {"rotate", "delete"} => req[r].pc = 8
    BY <1>2, CallAt
  <2>2. CASE req[r].op = "rotate"
    BY <2>1, <2>2, Paths
  <2>3. CASE req[r].op = "delete"
    BY <2>1, <2>3, Paths
  <2> QED
    BY <2>2, <2>3
<1>4. \/ Continue(r, req[r])
      \/ Abort(r)
      \/ /\ req[r].op \in {"rotate", "delete"}
         /\ Goto(r, req[r].pc + 1, req[r])
         /\ guarded' = guarded \ {req[r].user} /\ UNCHANGED <<out, cut, good>>
  BY DEF GenCrl
<1>5. ReqTyped' /\ HistoryTyped'
  <2>1. CASE Continue(r, req[r]) \/ Abort(r)
    BY <1>1, <1>2, <2>1, ContinueTyped, AbortTyped
  <2>2. CASE /\ req[r].op \in {"rotate", "delete"}
             /\ Goto(r, req[r].pc + 1, req[r])
             /\ guarded' = guarded \ {req[r].user} /\ UNCHANGED <<out, cut, good>>
    BY <1>1, <1>2, <1>3, <2>2, GotoTyped DEF HistoryTyped
  <2> QED
    BY <1>4, <2>1, <2>2
<1>6. failures' \in 0 .. MaxFailures
  BY CountTyped DEF GenCrl
<1>7. PkiTyped'
  BY <1>1 DEF GenCrl, PkiTyped, Marked
<1> QED
  BY <1>1, <1>5, <1>6, <1>7, TypedParts2 DEF GenCrl, RestTyped

\* An openvpn-user command.
LEMMA RowTyped ==
    ASSUME Typed, NEW command, NEW u \in Users, NEW ok, runOpenvpnUser(command, u, ok)
    PROVE  rows' \in [Users -> {"none", "active", "revoked"}] /\ failures' \in 0 .. MaxFailures
<1>1. rows \in [Users -> {"none", "active", "revoked"}]
  BY DEF Typed, TypeOK
<1>2. RowAfter(command) \in {"none", "active", "revoked"}
  BY DEF RowAfter
<1>3. failures' \in 0 .. MaxFailures
  BY CountTyped DEF runOpenvpnUser
<1> QED
  BY <1>1, <1>2, <1>3 DEF runOpenvpnUser

\* A step that changes rows and the request.
LEMMA PasswordTyped ==
    ASSUME Typed, NEW r \in Reqs, PasswordStep(r)
    PROVE  Typed'
<1>1. ReqTyped /\ HistoryTyped /\ PkiTyped /\ RestTyped
  BY TypedParts
<1>2. PICK step \in {"pwCreate", "pwDelete", "pwRevoke", "pwRestore", "pwChange"} : At(r, step)
  BY DEF PasswordStep, PwCreate, PwDelete, PwRevoke, PwRestore, PwChange
<1>3. req[r] \in Request /\ req[r].user \in Users
  BY <1>1, <1>2, Going
<1>4. UNCHANGED <<pki, live, started, losses, crashes>>
  BY DEF PasswordStep, PwCreate, PwDelete, PwRevoke, PwRestore, PwChange
<1>5. \/ UNCHANGED <<rows, failures>>
      \/ \E command \in {"create", "delete", "revoke", "restore", "change-password"},
            ok \in BOOLEAN : runOpenvpnUser(command, req[r].user, ok)
  BY DEF PasswordStep, PwCreate, PwDelete, PwRevoke, PwRestore, PwChange
<1>6. RestTyped'
  BY <1>1, <1>3, <1>4, <1>5, RowTyped DEF RestTyped
<1>7. \/ Continue(r, req[r])
      \/ Abort(r)
      \/ Goto(r, 1, [req[r] EXCEPT !.op = "rollback"]) /\ UNCHANGED history
  BY DEF PasswordStep, PwCreate, PwDelete, PwRevoke, PwRestore, PwChange
<1>8. ReqTyped' /\ HistoryTyped'
  <2>1. CASE Continue(r, req[r]) \/ Abort(r)
    BY <1>1, <1>2, <1>3, <2>1, ContinueTyped, AbortTyped
  <2>2. CASE Goto(r, 1, [req[r] EXCEPT !.op = "rollback"]) /\ UNCHANGED history
    <3> DEFINE e == [req[r] EXCEPT !.op = "rollback"]
    <3>1. e \in Request /\ e.op = "rollback"
      BY <1>3, Paths DEF Request
    <3> HIDE DEF e
    <3>2. 1 \in 0 .. Len(Path[e.op])
      BY <3>1, Paths
    <3>3. Goto(r, 1, e)
      BY <2>2 DEF e
    <3> QED
      BY <1>1, <2>2, <3>1, <3>2, <3>3, GotoTyped DEF HistoryTyped, history
  <2> QED
    BY <1>7, <2>1, <2>2
<1> QED
  BY <1>1, <1>4, <1>6, <1>8, TypedParts2 DEF PkiTyped, pki

LEMMA KillTyped ==
    ASSUME Typed, NEW r \in Reqs, Kill(r)
    PROVE  Typed'
<1>1. At(r, "kill") /\ ReqTyped /\ HistoryTyped /\ PkiTyped /\ RestTyped
  BY TypedParts DEF Kill
<1>2. req[r] \in Request
  BY <1>1, Going
<1>3. \A k \in BOOLEAN : /\ [req[r] EXCEPT !.killed = k] \in Request
                         /\ [req[r] EXCEPT !.killed = k].op = req[r].op
  BY <1>2 DEF Request
<1>4. ReqTyped' /\ HistoryTyped'
  <2>1. PICK k \in BOOLEAN : Continue(r, [req[r] EXCEPT !.killed = k])
    BY DEF Kill
  <2> QED
    BY <1>1, <1>3, <2>1, ContinueTyped
<1>5. failures' \in 0 .. MaxFailures
  BY CountTyped DEF Kill
<1>6. live' \subseteq Serials
  BY <1>1 DEF Kill, RestTyped
<1> QED
  BY <1>1, <1>4, <1>5, <1>6, TypedParts2 DEF Kill, RestTyped, PkiTyped, pki

LEMMA OthersTyped ==
    ASSUME Typed,
           \/ \E s \in Serials : ClientConnects(s) \/ ClientDisconnects(s)
           \/ RegenerateCRL \/ Crash \/ UNCHANGED vars
    PROVE  Typed'
<1>1. ReqTyped /\ HistoryTyped /\ PkiTyped /\ RestTyped
  BY TypedParts
<1>2. CASE \E s \in Serials : ClientConnects(s) \/ ClientDisconnects(s)
  BY <1>1, <1>2, TypedParts2
     DEF ClientConnects, ClientDisconnects, PkiTyped, RestTyped, ReqTyped, InPath, HistoryTyped,
         pki, faults, history
<1>3. CASE RegenerateCRL
  BY <1>1, <1>3, TypedParts2
     DEF RegenerateCRL, Marked, PkiTyped, RestTyped, ReqTyped, InPath, HistoryTyped, faults, history
<1>4. CASE Crash
  <2>1. ReqTyped'
    <3>1. Idle \in Request /\ Idle.pc \in 0 .. Len(Path[Idle.op])
      BY RestTypes, Paths
    <3> QED
      BY <1>4, <3>1 DEF Crash, ReqTyped, InPath
  <2>2. crashes' \in 0 .. MaxCrashes
    BY <1>1, <1>4, VpnUsersAssumption DEF Crash, RestTyped
  <2> QED
    BY <1>1, <1>4, <2>1, <2>2, TypedParts2 DEF Crash, PkiTyped, RestTyped, HistoryTyped, pki, history
<1>5. CASE UNCHANGED vars
  BY <1>1, <1>5, TypedParts2
     DEF vars, PkiTyped, RestTyped, ReqTyped, InPath, HistoryTyped, pki, faults, history
<1> QED
  BY <1>2, <1>3, <1>4, <1>5

LEMMA InitTyped == Init => Typed
<1> SUFFICES ASSUME Init PROVE Typed
  OBVIOUS
<1>1. PkiTyped
  BY RestTypes, VpnUsersAssumption DEF Init, PkiTyped
<1>2. RestTyped
  BY VpnUsersAssumption DEF Init, RestTyped
<1>3. ReqTyped
  <2>1. Idle \in Request /\ Idle.pc \in 0 .. Len(Path[Idle.op])
    BY RestTypes, Paths
  <2> QED
    BY <2>1 DEF Init, ReqTyped, InPath
<1>4. HistoryTyped
  BY DEF Init, HistoryTyped
<1> QED
  BY <1>1, <1>2, <1>3, <1>4, TypedParts

LEMMA NextTyped == Typed /\ [Next]_vars => Typed'
<1> SUFFICES ASSUME Typed, [Next]_vars PROVE Typed'
  OBVIOUS
<1>1. ASSUME NEW r \in Reqs, NEW op \in Op, NEW u \in Users, NEW pw \in BOOLEAN, Start(r, op, u, pw)
      PROVE  Typed'
  BY <1>1, StartTyped
<1>2. ASSUME NEW r \in Reqs, Check(r) PROVE Typed'
  BY <1>2, CheckTyped
<1>3. ASSUME NEW r \in Reqs, StoreStep(r) PROVE Typed'
  BY <1>3, BuildTyped, LookUpTyped, EasyrsaRevokeTyped, ReadIndexTyped, ReadSwapTyped,
     WriteIndexTyped, RestoreFilesTyped, RemoveFilesTyped, GenCrlTyped DEF StoreStep
<1>4. ASSUME NEW r \in Reqs, PasswordStep(r) PROVE Typed'
  BY <1>4, PasswordTyped
<1>5. ASSUME NEW r \in Reqs, Kill(r) PROVE Typed'
  BY <1>5, KillTyped
<1> QED
  BY <1>1, <1>2, <1>3, <1>4, <1>5, OthersTyped DEF Next

LEMMA TypedInductive == Spec => []Typed
BY InitTyped, NextTyped, PTL DEF Spec

\* TypeOK holds in every reachable state of the handlers of users.go and of the
\* filesystem store, for any number of requests in flight, failing calls, torn files
\* and crashes.
THEOREM TypeCorrect == Spec => []TypeOK
<1>1. Typed => TypeOK
  BY DEF Typed
<1> QED
  BY <1>1, TypedInductive, PTL

-----------------------------------------------------------------------------
(* Where a request goes *)

\* After a call, a request goes on with what it noted, or it was the last one.
LEMMA Continued ==
    ASSUME ReqTyped, NEW r \in Reqs, NEW step, At(r, step),
           NEW e \in Request, e.op = req[r].op, Continue(r, e)
    PROVE  \/ /\ req[r].pc # Len(Path[e.op])
              /\ req'[r] = [e EXCEPT !.pc = req[r].pc + 1]
              /\ UNCHANGED history
           \/ /\ req[r].pc = Len(Path[e.op]) /\ e.op = "rollback"
              /\ Abort(r) /\ req'[r] = Idle
           \/ /\ req[r].pc = Len(Path[e.op]) /\ e.op # "rollback"
              /\ Report(r, e) /\ req'[r] = Idle
<1>1. req \in [Reqs -> Request]
  BY DEF ReqTyped
<1>2. CASE ~Last(r)
  BY <1>1, <1>2 DEF Continue, Goto, Last
<1>3. CASE Last(r) /\ e.op = "rollback"
  BY <1>1, <1>3 DEF Continue, Last, Abort
<1>4. CASE Last(r) /\ e.op # "rollback"
  BY <1>1, <1>4 DEF Continue, Last, Report
<1> QED
  BY <1>2, <1>3, <1>4

\* What a request notes besides does not touch who asked for what.
LEMMA Moved ==
    ASSUME NEW e \in Request, NEW n
    PROVE  LET d == [e EXCEPT !.pc = n] IN
           /\ d.pc = n /\ d.op = e.op /\ d.user = e.user /\ d.pw = e.pw /\ d.serial = e.serial
           /\ d.flag = e.flag /\ d.copy = e.copy /\ d.killed = e.killed
BY DEF Request

LEMMA GoesOn ==
    ASSUME ReqTyped, NEW r \in Reqs, NEW step, At(r, step),
           NEW e \in Request, e.op = req[r].op, Continue(r, e), req[r].pc # Len(Path[e.op])
    PROVE  /\ UNCHANGED history
           /\ req'[r].pc = req[r].pc + 1
           /\ req'[r].op = e.op /\ req'[r].user = e.user /\ req'[r].pw = e.pw
           /\ req'[r].serial = e.serial /\ req'[r].flag = e.flag /\ req'[r].copy = e.copy
           /\ req'[r].killed = e.killed
<1>1. req'[r] = [e EXCEPT !.pc = req[r].pc + 1] /\ UNCHANGED history
  BY Continued
<1> QED
  BY <1>1, Moved

LEMMA Aborted ==
    ASSUME ReqTyped, NEW r \in Reqs, Abort(r)
    PROVE  req'[r] = Idle /\ UNCHANGED history
BY DEF ReqTyped, Abort

-----------------------------------------------------------------------------
(* A password is never dropped behind the administrator's back *)

LEMMA IdleGuard ==
    ASSUME NEW r \in Reqs, req'[r] = Idle
    PROVE  GuardOK(req[r])'
BY RestTypes DEF GuardOK

\* Calls before the CRL is rebuilt: the rows stay, and nobody is told anything.
LEMMA EarlyGuard ==
    ASSUME Typed, OneRequest, GuardInv, NEW r \in Reqs, UNCHANGED <<rows, history>>,
           req[r].op # "removePassword",
           \/ req'[r] = Idle
           \/ req'[r].op = req[r].op /\ (req[r].op \in {"rotate", "delete"} => req'[r].pc \in 0 .. 8)
    PROVE  GuardInv'
<1>2. GuardOK(req[r])'
  <2>1. CASE req'[r] = Idle
    BY <2>1, IdleGuard
  <2>2. CASE req'[r] # Idle /\ req'[r].op \notin {"rotate", "delete"}
    BY <2>2 DEF GuardOK
  <2>3. CASE req'[r] # Idle /\ req'[r].op \in {"rotate", "delete"}
    <3>1. req'[r].pc \in 0 .. 8
      BY <2>3
    <3>2. ~(req'[r].pc > 8) /\ req'[r].pc # 11
      BY <3>1
    <3> QED
      BY <2>3, <3>2 DEF GuardOK
  <2> QED
    BY <2>1, <2>2, <2>3
<1> QED
  BY <1>2 DEF OneRequest, GuardInv, history

\* The calls that come before the CRL is rebuilt.
EarlyStep(r) ==
    \/ Check(r) \/ BuildClient(r) \/ LookUp(r) \/ EasyrsaRevoke(r) \/ ReadIndex(r) \/ ReadSwap(r)
    \/ WriteIndex(r) \/ RestoreFiles(r) \/ RemoveFiles(r)

\* The request that makes one of them, and how it goes on.
LEMMA EarlyMoves ==
    ASSUME Typed, NEW r \in Reqs, EarlyStep(r)
    PROVE  /\ UNCHANGED <<rows, history>>
           /\ req[r].op # "removePassword"
           /\ \/ req'[r] = Idle
              \/ req'[r].op = req[r].op /\ (req[r].op \in {"rotate", "delete"} => req'[r].pc \in 0 .. 8)
<1>0. ReqTyped /\ PkiTyped
  BY TypedParts
<1>1. ASSUME NEW step \in {"check", "build", "lookup", "easyrsaRevoke", "readIndex", "readSwap",
                           "writeIndex", "restore", "removeFiles"}, At(r, step)
      PROVE  /\ req[r] \in Request /\ req[r].op # "removePassword"
             /\ req[r].pc # Len(Path[req[r].op])
             /\ req[r].op \in {"rotate", "delete"} => req[r].pc \in 1 .. 7
             /\ Abort(r) => UNCHANGED history /\ req'[r] = Idle
             /\ \A e \in Request : e.op = req[r].op /\ Continue(r, e) =>
                  UNCHANGED history /\ req'[r].op = req[r].op /\ req'[r].pc = req[r].pc + 1
  <2>1. /\ req[r] \in Request /\ req[r].op \in Op /\ req[r].pc \in 1 .. Len(Path[req[r].op])
        /\ Path[req[r].op][req[r].pc] = step
    BY <1>0, <1>1, Going
  <2>2. req[r].op # "removePassword"
    BY <2>1, CallAt
  <2>3. req[r].op \in {"rotate", "delete"} => req[r].pc \in 1 .. 7
    BY <2>1, CallAt
  <2>4. req[r].pc # Len(Path[req[r].op])
    BY <2>1, LastCalls
  <2>5. Abort(r) => UNCHANGED history /\ req'[r] = Idle
    BY <1>0, Aborted
  <2>6. ASSUME NEW e \in Request, e.op = req[r].op, Continue(r, e)
        PROVE  UNCHANGED history /\ req'[r].op = req[r].op /\ req'[r].pc = req[r].pc + 1
    <3>1. req'[r] = [e EXCEPT !.pc = req[r].pc + 1] /\ UNCHANGED history
      BY <1>0, <1>1, <2>4, <2>6, Continued
    <3> QED
      BY <2>6, <3>1, Moved
  <2> QED
    BY <2>1, <2>2, <2>3, <2>4, <2>5, <2>6
<1>2. ASSUME NEW step \in {"check", "build", "lookup", "easyrsaRevoke", "readIndex", "readSwap",
                           "writeIndex", "restore", "removeFiles"}, At(r, step),
             \/ Abort(r)
             \/ \E e \in Request : e.op = req[r].op /\ Continue(r, e)
             \/ \E e \in Request, n \in {5, 6} :
                  e.op = req[r].op /\ e.op = "unrevoke" /\ Goto(r, n, e) /\ UNCHANGED history
      PROVE  /\ UNCHANGED history /\ req[r].op # "removePassword"
             /\ \/ req'[r] = Idle
                \/ req'[r].op = req[r].op /\ (req[r].op \in {"rotate", "delete"} => req'[r].pc \in 0 .. 8)
  <2>1. CASE Abort(r)
    BY <1>1, <1>2, <2>1
  <2>2. CASE \E e \in Request : e.op = req[r].op /\ Continue(r, e)
    <3>1. UNCHANGED history /\ req'[r].op = req[r].op /\ req'[r].pc = req[r].pc + 1
      BY <1>1, <1>2, <2>2
    <3>2. req[r].op \in {"rotate", "delete"} => req'[r].pc \in 0 .. 8
      BY <1>1, <1>2, <3>1
    <3> QED
      BY <1>1, <1>2, <3>1, <3>2
  <2>3. ASSUME NEW e \in Request, NEW n \in {5, 6},
               e.op = req[r].op, e.op = "unrevoke", Goto(r, n, e), UNCHANGED history
        PROVE  UNCHANGED history /\ req'[r].op = req[r].op /\ req[r].op = "unrevoke"
    <3>1. req'[r] = [e EXCEPT !.pc = n]
      BY <1>0, <2>3 DEF Goto, ReqTyped
    <3> QED
      BY <2>3, <3>1, Moved
  <2> QED
    BY <1>1, <1>2, <2>1, <2>2, <2>3
<1>3. CASE Check(r) \/ BuildClient(r) \/ EasyrsaRevoke(r) \/ WriteIndex(r) \/ RestoreFiles(r)
           \/ RemoveFiles(r)
  <2>1. PICK step \in {"check", "build", "easyrsaRevoke", "writeIndex", "restore", "removeFiles"} :
          At(r, step) /\ (Abort(r) \/ Continue(r, req[r]))
    BY <1>3 DEF Check, BuildClient, EasyrsaRevoke, WriteIndex, RestoreFiles, RemoveFiles
  <2>2. UNCHANGED rows
    BY <1>3 DEF Check, BuildClient, EasyrsaRevoke, WriteIndex, RestoreFiles, RemoveFiles
  <2>3. req[r] \in Request
    BY <1>0, <2>1, Going
  <2> QED
    BY <1>2, <2>1, <2>2, <2>3
<1>4. CASE LookUp(r)
  <2>1. req[r] \in Request /\ At(r, "lookup") /\ UNCHANGED rows
    BY <1>0, <1>4, Going DEF LookUp
  <2>2. PICK c \in {index, EmptyIndex} :
          /\ fRead(c)
          /\ \/ Continue(r, [req[r] EXCEPT !.serial = 0, !.flag = "V"])
             \/ \E s \in LinesOf(c, req[r].user) :
                   Continue(r, [req[r] EXCEPT !.serial = s, !.flag = c[s].flag])
    BY <1>4 DEF LookUp
  <2>3. c \in [Serials -> Line] /\ 0 \in 0 .. MaxSerials
    <3>1. c \in [Serials -> Line]
      BY <2>2, ReadTyped
    <3> QED
      BY <3>1, VpnUsersAssumption
  <2>4. PICK s \in 0 .. MaxSerials, f \in {"V", "R"} :
          Continue(r, [req[r] EXCEPT !.serial = s, !.flag = f])
    BY <2>2, <2>3, LineOfTyped
  <2>5. /\ [req[r] EXCEPT !.serial = s, !.flag = f] \in Request
        /\ [req[r] EXCEPT !.serial = s, !.flag = f].op = req[r].op
    BY <2>1 DEF Request
  <2> QED
    BY <1>2, <2>1, <2>4, <2>5
<1>5. CASE ReadSwap(r)
  <2>1. req[r] \in Request /\ At(r, "readSwap") /\ UNCHANGED rows
    BY <1>0, <1>5, Going DEF ReadSwap
  <2>2. PICK c \in {index, EmptyIndex} :
          fRead(c) /\ (Continue(r, [req[r] EXCEPT !.copy = c]) \/ Abort(r))
    BY <1>5 DEF ReadSwap
  <2>3. /\ [req[r] EXCEPT !.copy = c] \in Request
        /\ [req[r] EXCEPT !.copy = c].op = req[r].op
    BY <2>1, <2>2, ReadTyped DEF Request
  <2> QED
    BY <1>2, <2>1, <2>2, <2>3
<1>6. CASE ReadIndex(r)
  <2>1. req[r] \in Request /\ At(r, "readIndex") /\ UNCHANGED rows
    BY <1>0, <1>6, Going, ReadIndexCases
  <2>2. PICK c \in {index, EmptyIndex} :
          /\ fRead(c)
          /\ \/ Abort(r)
             \/ req[r].op = "unrevoke" /\ Goto(r, 6, req[r]) /\ UNCHANGED history
             \/ Continue(r, [req[r] EXCEPT !.copy = c])
             \/ \E s \in LinesOf(c, req[r].user) :
                  \/ /\ req[r].op = "unrevoke"
                     /\ Goto(r, IF s \in crl THEN 5 ELSE 6, ReadNote(req[r], c, s))
                     /\ UNCHANGED history
                  \/ Continue(r, ReadNote(req[r], c, s))
    BY <1>6, ReadIndexCases
  <2>3. c \in [Serials -> Line]
    BY <2>2, ReadTyped
  <2>4. /\ [req[r] EXCEPT !.copy = c] \in Request
        /\ [req[r] EXCEPT !.copy = c].op = req[r].op
    BY <2>1, <2>3 DEF Request
  <2>5. \A s \in LinesOf(c, req[r].user) :
          ReadNote(req[r], c, s) \in Request /\ ReadNote(req[r], c, s).op = req[r].op
    BY <2>1, <2>3, ReadNoteTyped
  <2>6. \/ Abort(r)
        \/ \E e \in Request : e.op = req[r].op /\ Continue(r, e)
        \/ \E e \in Request, n \in {5, 6} :
              e.op = req[r].op /\ e.op = "unrevoke" /\ Goto(r, n, e) /\ UNCHANGED history
    BY <2>1, <2>2, <2>4, <2>5
  <2> QED
    BY <1>2, <2>1, <2>6
<1> QED
  BY <1>3, <1>4, <1>5, <1>6 DEF EarlyStep

LEMMA StartGuard ==
    ASSUME Typed, OneRequest, GuardInv, NEW r \in Reqs, NEW op \in Op, NEW u \in Users,
           NEW pw \in BOOLEAN, Start(r, op, u, pw)
    PROVE  GuardInv'
<1>1. UNCHANGED rows /\ guarded' \subseteq guarded /\ (op = "removePassword" => u \notin guarded')
  BY DEF Start
<1>2. req'[r].op = op /\ req'[r].user = u /\ req'[r].pc = 1
  <2>1. req \in [Reqs -> Request]
    BY DEF Typed, TypeOK
  <2> QED
    BY <2>1, RestTypes DEF Start, Request
<1>3. GuardOK(req[r])'
  BY <1>1, <1>2 DEF GuardOK
<1> QED
  BY <1>1, <1>3 DEF GuardInv, OneRequest

LEMMA GenCrlGuard ==
    ASSUME Typed, OneRequest, GuardInv, NEW r \in Reqs, GenCrl(r)
    PROVE  GuardInv'
<1>0. ReqTyped /\ At(r, "genCrl") /\ UNCHANGED rows
  BY TypedParts DEF GenCrl
<1>1. /\ req[r] \in Request
      /\ <<req[r].op, req[r].pc>> \in {<<"rollback", 6>>, <<"revoke", 4>>, <<"unrevoke", 5>>,
                                       <<"rotate", 8>>, <<"delete", 8>>}
  BY <1>0, Going, CallAt
<1>2. CASE Abort(r)
  BY <1>0, <1>1, <1>2, Aborted, EarlyGuard
<1>3. CASE /\ req[r].op \in {"rotate", "delete"}
           /\ Goto(r, req[r].pc + 1, req[r])
           /\ guarded' = guarded \ {req[r].user}
  <2>1. req'[r].op = req[r].op /\ req'[r].user = req[r].user /\ req'[r].pc = 9
    <3>1. req'[r] = [req[r] EXCEPT !.pc = req[r].pc + 1]
      BY <1>0, <1>3 DEF Goto, ReqTyped
    <3> QED
      BY <1>1, <1>3, <3>1, Moved
  <2>2. GuardOK(req[r])'
    BY <1>3, <2>1 DEF GuardOK
  <2> QED
    BY <1>0, <1>3, <2>2 DEF GuardInv, OneRequest
<1>4. CASE req[r].op \notin {"rotate", "delete"} /\ Continue(r, req[r])
  <2>1. \/ req'[r] = [req[r] EXCEPT !.pc = req[r].pc + 1] /\ UNCHANGED history
        \/ req'[r] = Idle /\ UNCHANGED history
        \/ req[r].op \in {"revoke", "unrevoke"} /\ req[r].pc = Len(Path[req[r].op])
    BY <1>0, <1>1, <1>4, Continued DEF Abort
  <2>2. ~(req[r].op \in {"revoke", "unrevoke"} /\ req[r].pc = Len(Path[req[r].op]))
    BY <1>0, <1>1, Going, LastAt
  <2>3. [req[r] EXCEPT !.pc = req[r].pc + 1].op = req[r].op
    BY <1>1, Moved
  <2> QED
    BY <1>0, <1>1, <1>4, <2>1, <2>2, <2>3, EarlyGuard
<1> QED
  BY <1>2, <1>3, <1>4 DEF GenCrl

\* Openvpn-user only takes a row away to delete it.
LEMMA RowKept ==
    ASSUME Typed, NEW command, NEW u \in Users, NEW ok \in BOOLEAN, runOpenvpnUser(command, u, ok)
    PROVE  /\ \A v \in Users \ {u} : rows'[v] = rows[v]
           /\ command # "delete" => rows'[u] \in {rows[u], "active", "revoked"}
           /\ command # "delete" /\ ok => rows'[u] # "none"
<1>1. rows \in [Users -> {"none", "active", "revoked"}]
  BY DEF Typed, TypeOK
<1>2. command # "delete" => RowAfter(command) \in {"active", "revoked"}
  BY DEF RowAfter
<1> QED
  BY <1>1, <1>2 DEF runOpenvpnUser

LEMMA PwCreateGuard ==
    ASSUME Typed, OneRequest, GuardInv, NEW r \in Reqs, PwCreate(r)
    PROVE  GuardInv'
<1>0. ReqTyped /\ At(r, "pwCreate") /\ guarded \subseteq Users
  BY TypedParts DEF PwCreate, HistoryTyped
<1>1. /\ req[r] \in Request /\ req[r].user \in Users
      /\ <<req[r].op, req[r].pc>> \in {<<"create", 3>>, <<"rotate", 10>>}
  BY <1>0, Going, CallAt
<1>2. \A v \in Users : rows[v] # "none" => rows'[v] # "none"
  <2>1. CASE UNCHANGED rows
    BY <1>1, <2>1 DEF PwCreate
  <2>2. ASSUME NEW ok \in BOOLEAN, runOpenvpnUser("create", req[r].user, ok)
        PROVE  \A v \in Users : rows[v] # "none" => rows'[v] # "none"
    BY <1>1, <2>2, RowKept
  <2> QED
    BY <2>1, <2>2 DEF PwCreate
<1>4. CASE Abort(r)
  <2>1. req'[r] = Idle /\ guarded' = guarded
    BY <1>0, <1>4, Aborted DEF history
  <2> QED
    BY <1>0, <1>2, <2>1, IdleGuard DEF GuardInv, OneRequest
<1>5. CASE req[r].op = "create" /\ Goto(r, 1, [req[r] EXCEPT !.op = "rollback"]) /\ UNCHANGED history
  <2> DEFINE e == [req[r] EXCEPT !.op = "rollback"]
  <2>1. e \in Request /\ e.op = "rollback"
    BY <1>1, Paths DEF Request
  <2>2. req'[r] = [e EXCEPT !.pc = 1]
    BY <1>0, <1>5 DEF Goto, ReqTyped
  <2>3. req'[r].op = "rollback"
    BY <2>1, <2>2, Moved
  <2>4. GuardOK(req[r])'
    BY <2>3 DEF GuardOK
  <2> QED
    BY <1>0, <1>2, <1>5, <2>4 DEF GuardInv, OneRequest, history
<1>6. CASE Continue(r, req[r]) /\ (req[r].pw => rows'[req[r].user] # "none")
  <2>1. CASE req[r].op = "create"
    <3>1. Report(r, req[r]) /\ req'[r] = Idle
      BY <1>0, <1>1, <1>6, <2>1, Continued, Paths
    <3>2. guarded' = guarded \/ (req[r].pw /\ guarded' = guarded \cup {req[r].user})
      BY <3>1 DEF Report
    <3> QED
      BY <1>0, <1>1, <1>2, <1>6, <3>1, <3>2, IdleGuard DEF GuardInv, OneRequest
  <2>2. CASE req[r].op = "rotate"
    <3>0. req[r].pc # Len(Path[req[r].op])
      BY <1>0, <1>1, <2>2, Going, LastAt
    <3>1. req'[r] = [req[r] EXCEPT !.pc = req[r].pc + 1] /\ UNCHANGED history
      BY <1>0, <1>1, <1>6, <3>0, Continued
    <3>2. /\ req'[r].op = "rotate" /\ req'[r].user = req[r].user /\ req'[r].pw = req[r].pw
          /\ req[r].pc = 10
      BY <1>1, <2>2, <3>1, Moved
    <3>3. req[r].user \notin guarded
      BY <2>2, <3>2 DEF GuardInv, GuardOK
    <3>4. GuardOK(req[r])'
      BY <1>6, <3>1, <3>2, <3>3 DEF GuardOK, history
    <3> QED
      BY <1>0, <1>2, <3>1, <3>4 DEF GuardInv, OneRequest, history
  <2> QED
    BY <1>1, <2>1, <2>2
<1>7. \/ Abort(r)
      \/ req[r].op = "create" /\ Goto(r, 1, [req[r] EXCEPT !.op = "rollback"]) /\ UNCHANGED history
      \/ Continue(r, req[r]) /\ (req[r].pw => rows'[req[r].user] # "none")
  <2>1. runOpenvpnUser("create", req[r].user, TRUE) => rows'[req[r].user] # "none"
    BY <1>1 DEF Typed, TypeOK, runOpenvpnUser, RowAfter
  <2> QED
    BY <2>1 DEF PwCreate
<1> QED
  BY <1>4, <1>5, <1>6, <1>7

LEMMA PwDeleteGuard ==
    ASSUME Typed, OneRequest, GuardInv, NEW r \in Reqs, PwDelete(r)
    PROVE  GuardInv'
<1>0. ReqTyped /\ At(r, "pwDelete") /\ guarded \subseteq Users
  BY TypedParts DEF PwDelete, HistoryTyped
<1>1. /\ req[r] \in Request /\ req[r].user \in Users
      /\ <<req[r].op, req[r].pc>> \in {<<"rotate", 9>>, <<"delete", 9>>, <<"removePassword", 1>>}
  BY <1>0, Going, CallAt
<1>2. \A v \in Users \ {req[r].user} : rows'[v] = rows[v]
  <2>1. PICK ok \in BOOLEAN : runOpenvpnUser("delete", req[r].user, ok)
    BY DEF PwDelete
  <2> QED
    BY <1>1, <2>1, RowKept
<1>3. req[r].user \notin guarded
  BY <1>1 DEF GuardInv, GuardOK
<1>4. Continue(r, req[r]) \/ Abort(r)
  BY DEF PwDelete
<1>5. guarded' = guarded
  <2>1. CASE Abort(r)
    BY <1>0, <2>1, Aborted DEF history
  <2>2. CASE Continue(r, req[r])
    <3>1. UNCHANGED history \/ (req[r].pc = Len(Path[req[r].op]) /\ Report(r, req[r]))
      BY <1>0, <1>1, <2>2, Continued DEF Abort
    <3>2. req[r].pc = Len(Path[req[r].op]) => req[r].op \in {"delete", "removePassword"}
      BY <1>0, <1>1, Going, LastAt
    <3> QED
      BY <3>1, <3>2 DEF Report, history
  <2> QED
    BY <1>4, <2>1, <2>2
<1>6. GuardOK(req[r])'
  <2>1. CASE req'[r] = Idle
    BY <2>1, IdleGuard
  <2>2. CASE req'[r] = [req[r] EXCEPT !.pc = req[r].pc + 1]
             /\ req[r].pc # Len(Path[req[r].op])
    <3>1. req[r].op = "rotate" /\ req[r].pc = 9
      BY <1>0, <1>1, <2>2, Going, LastAt
    <3>2. req'[r].op = "rotate" /\ req'[r].user = req[r].user /\ req'[r].pc = 10
      BY <1>1, <2>2, <3>1, Moved
    <3> QED
      BY <1>3, <1>5, <3>2 DEF GuardOK
  <2>3. \/ req'[r] = Idle
        \/ req'[r] = [req[r] EXCEPT !.pc = req[r].pc + 1] /\ req[r].pc # Len(Path[req[r].op])
    <3>1. CASE Abort(r)
      BY <1>0, <3>1, Aborted
    <3>2. CASE Continue(r, req[r])
      BY <1>0, <1>1, <3>2, Continued
    <3> QED
      BY <1>4, <3>1, <3>2
  <2> QED
    BY <2>1, <2>2, <2>3
<1> QED
  BY <1>0, <1>2, <1>3, <1>5, <1>6 DEF GuardInv, OneRequest

LEMMA PwOtherGuard ==
    ASSUME Typed, OneRequest, GuardInv, NEW r \in Reqs, PwRevoke(r) \/ PwRestore(r) \/ PwChange(r)
    PROVE  GuardInv'
<1>0. ReqTyped /\ guarded \subseteq Users
  BY TypedParts DEF HistoryTyped
<1>1. PICK step \in {"pwRevoke", "pwRestore", "pwChange"} : At(r, step)
  BY DEF PwRevoke, PwRestore, PwChange
<1>2. /\ req[r] \in Request /\ req[r].user \in Users
      /\ <<req[r].op, req[r].pc>> \in {<<"revoke", 5>>, <<"unrevoke", 6>>, <<"changePassword", 2>>}
  BY <1>0, <1>1, Going, CallAt
<1>3. PICK command \in {"revoke", "restore", "change-password"}, ok \in BOOLEAN :
        /\ runOpenvpnUser(command, req[r].user, ok)
        /\ Continue(r, req[r]) \/ Abort(r)
        /\ ~ok => Abort(r) \/ req[r].op # "changePassword"
  <2>1. CASE PwRevoke(r) \/ PwRestore(r)
    <3>1. req[r].op # "changePassword"
      <4>1. At(r, "pwRevoke") \/ At(r, "pwRestore")
        BY <2>1 DEF PwRevoke, PwRestore
      <4> QED
        BY <1>0, <4>1, Going, CallAt
    <3> QED
      BY <2>1, <3>1 DEF PwRevoke, PwRestore
  <2>2. CASE PwChange(r)
    BY <2>2 DEF PwChange
  <2> QED
    BY <2>1, <2>2
<1>4. /\ \A v \in Users : rows[v] # "none" => rows'[v] # "none"
      /\ ok => rows'[req[r].user] # "none"
  BY <1>2, <1>3, RowKept
<1>5. CASE Abort(r)
  <2>1. req'[r] = Idle /\ guarded' = guarded
    BY <1>0, <1>5, Aborted DEF history
  <2> QED
    BY <1>0, <1>4, <2>1, IdleGuard DEF GuardInv, OneRequest
<1>6. CASE ~Abort(r) /\ Continue(r, req[r])
  <2>1. \/ req'[r] = [req[r] EXCEPT !.pc = req[r].pc + 1] /\ UNCHANGED history
        \/ req'[r] = Idle /\ Report(r, req[r])
    BY <1>0, <1>1, <1>2, <1>6, Continued
  <2>2. GuardOK(req[r])'
    <3>1. CASE req'[r] = Idle
      BY <3>1, IdleGuard
    <3>2. CASE req'[r] = [req[r] EXCEPT !.pc = req[r].pc + 1]
      <4>1. req'[r].op \in {"revoke", "unrevoke", "changePassword"}
        BY <1>2, <3>2, Moved
      <4> QED
        BY <4>1 DEF GuardOK
    <3> QED
      BY <2>1, <3>1, <3>2
  <2>3. guarded' = guarded \/ (ok /\ guarded' = guarded \cup {req[r].user})
    BY <1>2, <1>3, <1>6, <2>1 DEF Report, history
  <2> QED
    BY <1>0, <1>2, <1>4, <2>2, <2>3 DEF GuardInv, OneRequest
<1> QED
  BY <1>3, <1>5, <1>6

LEMMA KillGuard ==
    ASSUME Typed, OneRequest, GuardInv, NEW r \in Reqs, Kill(r)
    PROVE  GuardInv'
<1>0. ReqTyped /\ At(r, "kill") /\ guarded \subseteq Users /\ UNCHANGED rows
  BY TypedParts DEF Kill, HistoryTyped
<1>1. /\ req[r] \in Request /\ req[r].user \in Users
      /\ <<req[r].op, req[r].pc>> \in {<<"revoke", 6>>, <<"rotate", 11>>, <<"delete", 2>>,
                                       <<"disconnect", 2>>}
  BY <1>0, Going, CallAt
<1>2. PICK k \in BOOLEAN : Continue(r, [req[r] EXCEPT !.killed = k])
  BY DEF Kill
<1> DEFINE e == [req[r] EXCEPT !.killed = k]
<1>3. e \in Request /\ e.op = req[r].op /\ e.user = req[r].user /\ e.pw = req[r].pw
  BY <1>1 DEF Request
<1> HIDE DEF e
<1>4. \/ req'[r] = [e EXCEPT !.pc = req[r].pc + 1] /\ UNCHANGED history
         /\ req[r].pc # Len(Path[req[r].op])
      \/ req'[r] = Idle /\ Report(r, e)
  <2>1. Continue(r, e)
    BY <1>2 DEF e
  <2> QED
    BY <1>0, <1>1, <1>3, <2>1, Continued
<1>5. GuardOK(req[r])'
  <2>1. CASE req'[r] = Idle
    BY <2>1, IdleGuard
  <2>2. CASE /\ req'[r] = [e EXCEPT !.pc = req[r].pc + 1]
             /\ req[r].pc # Len(Path[req[r].op])
    <3>1. req[r].op = "delete" /\ req[r].pc = 2
      BY <1>0, <1>1, <2>2, Going, LastAt
    <3>2. req'[r].op = "delete" /\ req'[r].pc = 3
      BY <1>3, <2>2, <3>1, Moved
    <3> QED
      BY <3>2 DEF GuardOK
  <2> QED
    BY <1>4, <2>1, <2>2
<1>6. \/ guarded' = guarded
      \/ req[r].op = "rotate" /\ req[r].pc = 11 /\ req[r].pw /\ guarded' = guarded \cup {req[r].user}
  BY <1>1, <1>3, <1>4 DEF Report, history
<1>7. req[r].op = "rotate" /\ req[r].pc = 11 /\ req[r].pw => rows[req[r].user] # "none"
  BY DEF GuardInv, GuardOK
<1> QED
  BY <1>0, <1>5, <1>6, <1>7 DEF GuardInv, OneRequest

LEMMA OthersGuard ==
    ASSUME Typed, OneRequest, GuardInv,
           \/ \E s \in Serials : ClientConnects(s) \/ ClientDisconnects(s)
           \/ RegenerateCRL \/ Crash \/ UNCHANGED vars
    PROVE  GuardInv'
<1>1. UNCHANGED <<rows, guarded>>
  BY DEF ClientConnects, ClientDisconnects, RegenerateCRL, Crash, vars, history
<1>2. CASE UNCHANGED req
  BY <1>1, <1>2 DEF GuardInv, GuardOK
<1>3. CASE Crash
  <2>1. \A r \in Reqs : req'[r] = Idle
    BY <1>3 DEF Crash
  <2> QED
    BY <1>1, <2>1, IdleGuard DEF GuardInv
<1> QED
  BY <1>2, <1>3 DEF ClientConnects, ClientDisconnects, RegenerateCRL, vars

LEMMA NextGuard == OneRequest /\ Typed /\ GuardInv /\ [Next]_vars => GuardInv'
<1> SUFFICES ASSUME OneRequest, Typed, GuardInv, [Next]_vars PROVE GuardInv'
  OBVIOUS
<1>1. ASSUME NEW r \in Reqs, NEW op \in Op, NEW u \in Users, NEW pw \in BOOLEAN, Start(r, op, u, pw)
      PROVE  GuardInv'
  BY <1>1, StartGuard
<1>2. ASSUME NEW r \in Reqs, EarlyStep(r) PROVE GuardInv'
  BY <1>2, EarlyMoves, EarlyGuard
<1>3. ASSUME NEW r \in Reqs, Check(r) \/ StoreStep(r) PROVE GuardInv'
  BY <1>2, <1>3, GenCrlGuard DEF StoreStep, EarlyStep
<1>4. ASSUME NEW r \in Reqs, PasswordStep(r) PROVE GuardInv'
  BY <1>4, PwCreateGuard, PwDeleteGuard, PwOtherGuard DEF PasswordStep
<1>5. ASSUME NEW r \in Reqs, Kill(r) PROVE GuardInv'
  BY <1>5, KillGuard
<1> QED
  BY <1>1, <1>3, <1>4, <1>5, OthersGuard DEF Next

LEMMA InitGuard == Init => GuardInv
BY RestTypes DEF Init, GuardInv, GuardOK

\* A user who was given a password is never left with the certificate alone while it
\* lets them in, unless somebody asked for that; for any users, failing calls, crashes
\* and unreadable files, with requests one at a time (userRotate, userDelete).
THEOREM PasswordKept ==
    ASSUME OneRequest
    PROVE  Spec => []NeverDowngraded
<1>1. Typed /\ GuardInv /\ [Next]_vars => GuardInv'
  BY NextGuard
<1>2. Typed /\ GuardInv => NeverDowngraded
  <2> SUFFICES ASSUME Typed, GuardInv, NEW u \in guarded
               PROVE  passwordStatus(u) # "certificate only"
    BY DEF NeverDowngraded
  <2>1. rows[u] \in {"active", "revoked"}
    BY DEF GuardInv, Typed, TypeOK
  <2> QED
    BY <2>1 DEF passwordStatus
<1> QED
  BY <1>1, <1>2, InitGuard, TypedInductive, PTL DEF Spec

-----------------------------------------------------------------------------
(* What was reported about a certificate stays true *)

LEMMA Placeholders == Archived # Nobody /\ \A u \in Users : u # Archived /\ u # Nobody
BY VpnUsersAssumption DEF Archived, Nobody

\* The requests are the one that takes a step.
LEMMA OnlyOne ==
    ASSUME OneRequest, NEW r \in Reqs, BaseInv', RequestOK(req[r])'
    PROVE  StoreInv'
BY DEF OneRequest, StoreInv

LEMMA IdleOK ==
    ASSUME NEW r \in Reqs, req'[r] = Idle
    PROVE  RequestOK(req[r])'
BY RestTypes DEF RequestOK, CreateOK, RollbackOK, RevokeOK, UnrevokeOK, RotateOK, DeleteOK

baseVars == <<index, crl, owner, issued, private, live, out, cut, good>>

LEMMA QuietBase ==
    ASSUME BaseInv, UNCHANGED baseVars
    PROVE  BaseInv'
BY DEF baseVars, BaseInv, OwnersListed, OneLine, ValidHasFiles, CrlSigned, OutMarked, OutListed,
       CutOut, CutOffStaysOff, Connectable, LinesOf, Marked, Usable

\* A read of index.txt returns it.
LEMMA ReadExact ==
    ASSUME NoLosses, Typed, NEW c, fRead(c)
    PROVE  c = index /\ UNCHANGED losses
<1>1. losses \in 0 .. 0
  BY DEF Typed, TypeOK, NoLosses
<1> QED
  BY <1>1 DEF fRead, NoLosses

\* The line that a request noted is the only one of its user, and its certificate
\* the user's.
LEMMA HeldFacts ==
    ASSUME BaseInv, NEW q, q.user \in Users, Held(q)
    PROVE  /\ q.serial \in Serials /\ index[q.serial].cn = q.user
           /\ owner[q.serial] = q.user
           /\ LinesOf(index, q.user) = {q.serial}
<1>1. q.serial \in LinesOf(index, q.user)
  BY DEF Held, LinesOf
<1>2. \A s \in LinesOf(index, q.user) : s = q.serial
  BY <1>1 DEF BaseInv, OneLine
<1>3. index[q.serial].cn \in {owner[q.serial], Archived}
  BY DEF Held, BaseInv, OwnersListed
<1> QED
  BY <1>1, <1>2, <1>3, Placeholders DEF Held

\* What the CRL that is built next will list.
LEMMA GoneMarked ==
    ASSUME Typed, BaseInv, NEW q, q.user \in Users, Gone(q)
    PROVE  q.serial \in Marked(index) /\ owner[q.serial] = q.user
<1>1. q.serial \in Serials /\ index[q.serial].cn \in {owner[q.serial], Archived}
  BY DEF Gone, BaseInv, OwnersListed
<1> QED
  BY <1>1, Placeholders DEF Gone, Marked

\* A user who is reported as active has a line.
LEMMA GoodListed ==
    ASSUME BaseInv, NEW u, LinesOf(index, u) = {}
    PROVE  u \notin good
BY DEF BaseInv, Connectable

\* A request ends without a report.
LEMMA AbortStore ==
    ASSUME OneRequest, Typed, NEW r \in Reqs, Abort(r), BaseInv'
    PROVE  StoreInv'
<1>1. req'[r] = Idle
  BY Aborted, TypedParts
<1> QED
  BY <1>1, OnlyOne, IdleOK

LEMMA CheckStore ==
    ASSUME OneRequest, NoLosses, Typed, StoreInv, NEW r \in Reqs, Check(r)
    PROVE  StoreInv'
<1>0. ReqTyped /\ At(r, "check") /\ BaseInv /\ RequestOK(req[r])
  BY TypedParts DEF Check, StoreInv
<1>1. /\ req[r] \in Request /\ req[r].user \in Users /\ req[r].op \in Op
      /\ req[r].pc = 1 /\ req[r].op \notin {"rollback", "removePassword"}
      /\ req[r].pc # Len(Path[req[r].op])
  BY <1>0, Going, CallAt, LastCalls
<1>2. PICK c \in {index, EmptyIndex} :
        /\ fRead(c)
        /\ IF (LinesOf(c, req[r].user) = {}) = (req[r].op = "create")
           THEN Continue(r, req[r])
           ELSE Abort(r)
  BY DEF Check
<1>3. c = index
  BY <1>2, ReadExact
<1>4. UNCHANGED history
  <2>1. CASE Abort(r)
    BY <1>0, <2>1, Aborted
  <2>2. CASE Continue(r, req[r])
    BY <1>0, <1>1, <2>2, Continued
  <2> QED
    BY <1>2, <2>1, <2>2
<1>5. UNCHANGED baseVars /\ BaseInv'
  <2>1. UNCHANGED baseVars
    BY <1>4 DEF Check, baseVars, pki, history
  <2> QED
    BY <1>0, <2>1, QuietBase
<1>6. CASE Abort(r)
  BY <1>5, <1>6, AbortStore
<1>7. CASE (LinesOf(index, req[r].user) = {}) = (req[r].op = "create") /\ Continue(r, req[r])
  <2>1. req'[r].pc = req[r].pc + 1 /\ req'[r].op = req[r].op /\ req'[r].user = req[r].user
    BY <1>0, <1>1, <1>7, GoesOn
  <2>2. req'[r].pc = 2 /\ req'[r].op = req[r].op /\ req'[r].user = req[r].user
    BY <1>1, <2>1
  <2>3. /\ req[r].op = "create" => LinesOf(index, req[r].user) = {}
        /\ req[r].op # "create" => LinesOf(index, req[r].user) # {}
    BY <1>7
  <2>4. req[r].op = "create" => req[r].user \notin good
    BY <1>0, <2>3, GoodListed
  <2>5. RequestOK(req[r])'
    BY <1>0, <1>1, <1>5, <2>2, <2>3, <2>4
       DEF RequestOK, CreateOK, RollbackOK, RevokeOK, UnrevokeOK, RotateOK, DeleteOK, baseVars, LinesOf
  <2> QED
    BY <1>5, <2>5, OnlyOne
<1> QED
  BY <1>2, <1>3, <1>6, <1>7

\* A step of a request that changes the line s of its user u, and u's files.
LEMMA OneLineChanged ==
    ASSUME Typed, BaseInv, NEW u \in Users, u \notin good, NEW s \in Serials, owner[s] = u,
           UNCHANGED <<crl, owner, live, history>>,
           index[s].cn \in {u, Archived}, index'[s].cn \in {index[s].cn, Archived},
           \A t \in Serials : t # s => index'[t] = index[t],
           \A v \in Users : v # u => issued'[v] = issued[v] /\ private'[v] = private[v],
           index'[s].flag = "R" \/ s \notin out,
           \A t \in LinesOf(index', u) : index'[t].flag = "V" => issued'[u] = t /\ private'[u] = t
    PROVE  BaseInv'
<1>1. \A v \in Users : v # u => LinesOf(index', v) = LinesOf(index, v) /\ s \notin LinesOf(index, v)
  BY Placeholders DEF LinesOf
<1>2. LinesOf(index', u) \subseteq LinesOf(index, u)
  BY Placeholders DEF LinesOf
<1>3. OwnersListed'
  BY Placeholders DEF BaseInv, OwnersListed
<1>4. OneLine'
  BY <1>1, <1>2 DEF BaseInv, OneLine, LinesOf
<1>5. ValidHasFiles'
  <2> SUFFICES ASSUME NEW v \in Users, NEW t \in LinesOf(index', v), index'[t].flag = "V"
               PROVE  issued'[v] = t /\ private'[v] = t
    BY DEF ValidHasFiles, LinesOf
  <2>1. CASE v = u
    BY <2>1
  <2>2. CASE v # u
    <3>1. t \in LinesOf(index, v) /\ t # s /\ t \in Serials
      BY <1>1, <2>2 DEF LinesOf
    <3> QED
      BY <2>2, <3>1 DEF BaseInv, ValidHasFiles
  <2> QED
    BY <2>1, <2>2
<1>6. CrlSigned' /\ OutListed' /\ CutOut' /\ CutOffStaysOff'
  BY DEF BaseInv, CrlSigned, OutListed, CutOut, CutOffStaysOff, history
<1>7. OutMarked'
  <2> SUFFICES ASSUME NEW t \in out PROVE t \in Marked(index')
    BY DEF OutMarked, history, Marked
  <2>1. t \in Serials /\ index[t].cn # Nobody /\ index[t].flag = "R"
    BY DEF BaseInv, OutMarked, Marked
  <2>2. CASE t = s
    BY <2>1, <2>2, Placeholders DEF Marked
  <2>3. CASE t # s
    BY <2>1, <2>3 DEF Marked
  <2> QED
    BY <2>2, <2>3
<1>8. ASSUME NEW v \in good PROVE Connectable(v)'
  <2>1. v \in Users /\ v # u
    BY <1>8 DEF Typed, TypeOK
  <2>2. PICK t \in Usable : /\ LinesOf(index, v) = {t} /\ index[t].flag = "V"
                            /\ issued[v] = t /\ private[v] = t
    BY <1>8 DEF BaseInv, Connectable
  <2>3. t # s /\ t \in Serials
    BY <1>1, <2>1, <2>2 DEF Usable
  <2>4. t \in Usable'
    BY <2>2 DEF Usable
  <2> QED
    BY <1>1, <2>1, <2>2, <2>3, <2>4 DEF Connectable, LinesOf
<1> QED
  BY <1>3, <1>4, <1>5, <1>6, <1>7, <1>8 DEF BaseInv, history

LEMMA LookUpStore ==
    ASSUME OneRequest, NoLosses, Typed, StoreInv, NEW r \in Reqs, LookUp(r)
    PROVE  StoreInv'
<1>0. ReqTyped /\ At(r, "lookup") /\ BaseInv /\ RequestOK(req[r]) /\ PkiTyped
  BY TypedParts DEF LookUp, StoreInv
<1>1. /\ req[r] \in Request /\ req[r].user \in Users /\ req[r].op \in Op
      /\ <<req[r].op, req[r].pc>> \in {<<"rollback", 1>>, <<"revoke", 2>>, <<"delete", 3>>}
      /\ req[r].pc # Len(Path[req[r].op])
  BY <1>0, Going, CallAt, LastCalls
<1>2. LinesOf(index, req[r].user) # {}
  BY <1>0, <1>1 DEF RequestOK, RollbackOK, RevokeOK, DeleteOK
<1>3. PICK s \in LinesOf(index, req[r].user) :
        Continue(r, [req[r] EXCEPT !.serial = s, !.flag = index[s].flag])
  <2>1. PICK c \in {index, EmptyIndex} :
          /\ fRead(c)
          /\ \/ LinesOf(c, req[r].user) = {}
             \/ \E s \in LinesOf(c, req[r].user) :
                   Continue(r, [req[r] EXCEPT !.serial = s, !.flag = c[s].flag])
    BY DEF LookUp
  <2>2. c = index
    BY <2>1, ReadExact
  <2> QED
    BY <1>2, <2>1, <2>2
<1> DEFINE e == [req[r] EXCEPT !.serial = s, !.flag = index[s].flag]
<1>4. s \in Serials /\ s \in 0 .. MaxSerials /\ index[s].flag \in {"V", "R"} /\ index[s].cn = req[r].user
  <2>1. index \in [Serials -> Line]
    BY <1>0 DEF PkiTyped
  <2> QED
    BY <2>1, LineOfTyped DEF LinesOf
<1>5. /\ e \in Request /\ e.op = req[r].op /\ e.user = req[r].user
      /\ e.serial = s /\ e.flag = index[s].flag
  BY <1>1, <1>4 DEF Request
<1>6. Continue(r, e)
  BY <1>3
<1> HIDE DEF e
<1>7. /\ UNCHANGED history /\ req'[r].pc = req[r].pc + 1
      /\ req'[r].op = req[r].op /\ req'[r].user = req[r].user
      /\ req'[r].serial = s /\ req'[r].flag = index[s].flag
  BY <1>0, <1>1, <1>5, <1>6, GoesOn
<1>8. UNCHANGED baseVars /\ BaseInv'
  <2>1. UNCHANGED baseVars
    BY <1>7 DEF LookUp, baseVars, pki, history
  <2> QED
    BY <1>0, <2>1, QuietBase
<1>9. RequestOK(req[r])'
  <2>1. /\ Held(req[r])' /\ index'[req'[r].serial].flag = req'[r].flag
        /\ req'[r].user \notin good'
    BY <1>0, <1>1, <1>4, <1>7, <1>8 DEF Held, baseVars, RequestOK, RollbackOK, RevokeOK, DeleteOK
  <2>2. <<req'[r].op, req'[r].pc>> \in {<<"rollback", 2>>, <<"revoke", 3>>, <<"delete", 4>>}
    BY <1>1, <1>7
  <2> QED
    BY <2>1, <2>2 DEF RequestOK, CreateOK, RollbackOK, RevokeOK, UnrevokeOK, RotateOK, DeleteOK
<1> QED
  BY <1>8, <1>9, OnlyOne

\* Before easyrsa revoke, the request has noted the user's line.
LEMMA EasyrsaRevokeStore ==
    ASSUME OneRequest, NoLosses, Typed, StoreInv, NEW r \in Reqs, EasyrsaRevoke(r)
    PROVE  StoreInv'
<1> DEFINE q == req[r]
<1>0. ReqTyped /\ At(r, "easyrsaRevoke") /\ BaseInv /\ RequestOK(q) /\ PkiTyped
  BY TypedParts DEF EasyrsaRevoke, StoreInv
<1>1. /\ q \in Request /\ q.user \in Users /\ q.op \in Op
      /\ <<q.op, q.pc>> \in {<<"rollback", 2>>, <<"revoke", 3>>, <<"delete", 4>>}
      /\ q.pc # Len(Path[q.op])
  BY <1>0, Going, CallAt, LastCalls
<1>2. Held(q) /\ q.user \notin good /\ (q.op # "revoke" => index[q.serial].flag = q.flag)
  BY <1>0, <1>1 DEF RequestOK, RollbackOK, RevokeOK, DeleteOK
<1>3. /\ q.serial \in Serials /\ index[q.serial].cn = q.user /\ owner[q.serial] = q.user
      /\ LinesOf(index, q.user) = {q.serial}
  BY <1>0, <1>1, <1>2, HeldFacts
<1>4. Continue(r, q) =>
        /\ UNCHANGED history /\ req'[r].op = q.op /\ req'[r].user = q.user /\ req'[r].serial = q.serial
        /\ <<req'[r].op, req'[r].pc>> \in {<<"rollback", 3>>, <<"revoke", 4>>, <<"delete", 5>>}
  <2>1. ASSUME Continue(r, q)
        PROVE  /\ UNCHANGED history /\ req'[r].op = q.op /\ req'[r].user = q.user
               /\ req'[r].serial = q.serial /\ req'[r].pc = q.pc + 1
    BY <1>0, <1>1, <2>1, GoesOn
  <2> QED
    BY <1>1, <2>1
<1>5. Abort(r) => UNCHANGED history
  BY <1>0, Aborted
<1>6. UNCHANGED <<crl, owner, live>>
  BY DEF EasyrsaRevoke
<1>7. ASSUME Continue(r, q), BaseInv', UNCHANGED history,
             index'[q.serial] = [cn |-> q.user, flag |-> "R"],
             LinesOf(index', q.user) = {q.serial}
      PROVE  StoreInv'
  <2>1. /\ Held(req[r])' /\ Gone(req[r])' /\ NoValid(req[r].user)' /\ req'[r].user \notin good'
    BY <1>2, <1>3, <1>4, <1>6, <1>7 DEF Held, Gone, NoValid, LinesOf, history
  <2>2. RequestOK(req[r])'
    BY <1>4, <1>7, <2>1 DEF RequestOK, CreateOK, RollbackOK, RevokeOK, UnrevokeOK, RotateOK, DeleteOK
  <2> QED
    BY <1>7, <2>2, OnlyOne
<1>8. CASE UNCHANGED <<index, issued, private, shelved, shelvedKey>>
  <2>1. /\ Continue(r, q) \/ Abort(r)
        /\ UNCHANGED history
    BY <1>4, <1>5 DEF EasyrsaRevoke
  <2>2. BaseInv'
    BY <1>0, <1>6, <1>8, <2>1, QuietBase DEF baseVars, history
  <2>3. ASSUME ~Abort(r) PROVE index[q.serial].flag = "R"
    <3>1. CASE CanRevoke(q.user) /\ index' = [index EXCEPT ![issued[q.user]].flag = "R"]
      <4>1. issued[q.user] \in Serials
        BY <1>0, <1>1, <3>1, VpnUsersAssumption DEF CanRevoke, PkiTyped, Serials
      <4>2. issued[q.user] = q.serial
        BY <1>3, <3>1, <4>1 DEF CanRevoke, LinesOf
      <4> QED
        BY <1>0, <1>8, <3>1, <4>1, <4>2 DEF PkiTyped, Line
    <3>2. CASE /\ \E c \in {index, EmptyIndex} :
                     /\ IF q.op = "revoke" THEN fRead(c) ELSE c = index /\ UNCHANGED losses
                     /\ \/ q.op = "revoke" /\ \E t \in LinesOf(c, q.user) : c[t].flag = "R"
                        \/ q.op # "revoke" /\ q.flag = "R"
      <4>1. PICK c \in {index, EmptyIndex} :
                     /\ IF q.op = "revoke" THEN fRead(c) ELSE c = index /\ UNCHANGED losses
                     /\ \/ q.op = "revoke" /\ \E t \in LinesOf(c, q.user) : c[t].flag = "R"
                        \/ q.op # "revoke" /\ q.flag = "R"
        BY <3>2
      <4>2. q.op = "revoke" => c = index
        BY <4>1, ReadExact
      <4> QED
        BY <1>2, <1>3, <4>1, <4>2
    <3> QED
      BY <2>3, <3>1, <3>2 DEF EasyrsaRevoke
  <2>4. CASE Abort(r)
    BY <2>2, <2>4, AbortStore
  <2>5. CASE ~Abort(r)
    <3>1. index[q.serial] = [cn |-> q.user, flag |-> "R"]
      BY <1>0, <1>3, <2>3, <2>5 DEF PkiTyped, Line
    <3> QED
      BY <1>3, <1>7, <1>8, <2>1, <2>2, <2>5, <3>1
  <2> QED
    BY <2>4, <2>5
<1>9. CASE ~UNCHANGED <<index, issued, private, shelved, shelvedKey>>
  <2>1. /\ CanRevoke(q.user) /\ Continue(r, q)
        /\ index' = [index EXCEPT ![issued[q.user]].flag = "R"]
        /\ issued' = [issued EXCEPT ![q.user] = 0]
        /\ private' = [private EXCEPT ![q.user] = 0]
    BY <1>9 DEF EasyrsaRevoke
  <2>2. issued[q.user] = q.serial
    <3>1. issued[q.user] \in Serials
      BY <1>0, <1>1, <2>1, VpnUsersAssumption DEF CanRevoke, PkiTyped, Serials
    <3> QED
      BY <1>3, <2>1, <3>1 DEF CanRevoke, LinesOf
  <2>3. /\ index'[q.serial] = [cn |-> q.user, flag |-> "R"]
        /\ \A s \in Serials : s # q.serial => index'[s] = index[s]
        /\ \A v \in Users : v # q.user => issued'[v] = issued[v] /\ private'[v] = private[v]
    BY <1>0, <1>3, <2>1, <2>2 DEF PkiTyped, Line
  <2>4. \A v \in Users : LinesOf(index', v) = LinesOf(index, v)
    BY <1>3, <2>3 DEF LinesOf
  <2>5. UNCHANGED history
    BY <1>4, <2>1
  <2>6. BaseInv'
    BY <1>0, <1>1, <1>2, <1>3, <1>6, <2>3, <2>4, <2>5, OneLineChanged
  <2> QED
    BY <1>1, <1>3, <1>7, <2>1, <2>3, <2>4, <2>5, <2>6
<1> QED
  BY <1>8, <1>9

LEMMA ReadIndexStore ==
    ASSUME OneRequest, NoLosses, Typed, StoreInv, NEW r \in Reqs, ReadIndex(r)
    PROVE  StoreInv'
<1> DEFINE q == req[r]
<1>0. ReqTyped /\ At(r, "readIndex") /\ BaseInv /\ RequestOK(q) /\ PkiTyped
  BY TypedParts, ReadIndexCases DEF StoreInv
<1>1. /\ q \in Request /\ q.user \in Users /\ q.op \in Op
      /\ <<q.op, q.pc>> \in {<<"rollback", 3>>, <<"unrevoke", 2>>, <<"rotate", 2>>, <<"delete", 5>>}
      /\ q.pc # Len(Path[q.op])
  BY <1>0, Going, CallAt, LastCalls
<1>2. /\ q.user \notin good
      /\ q.op \in {"unrevoke", "rotate"} => LinesOf(index, q.user) # {}
      /\ q.op \in {"rollback", "delete"} => Held(q) /\ Gone(q) /\ NoValid(q.user)
      /\ q.op = "unrevoke" => out \cap LinesOf(index, q.user) = {}
  BY <1>0, <1>1 DEF RequestOK, RollbackOK, UnrevokeOK, RotateOK, DeleteOK
<1>3. LinesOf(index, q.user) # {}
  BY <1>1, <1>2 DEF Held, LinesOf
<1>4. PICK s \in LinesOf(index, q.user) :
        \/ /\ q.op = "unrevoke" /\ index[s].flag # "R"
           /\ Goto(r, IF s \in crl THEN 5 ELSE 6, ReadNote(q, index, s))
           /\ UNCHANGED history
        \/ /\ ~(q.op = "unrevoke" /\ index[s].flag # "R")
           /\ Continue(r, ReadNote(q, index, s))
  <2>1. PICK c \in {index, EmptyIndex} :
          /\ fRead(c)
          /\ \/ LinesOf(c, q.user) = {}
             \/ \E s \in LinesOf(c, q.user) :
                  \/ /\ q.op = "unrevoke" /\ c[s].flag # "R"
                     /\ Goto(r, IF s \in crl THEN 5 ELSE 6, ReadNote(q, c, s))
                     /\ UNCHANGED history
                  \/ /\ ~(q.op = "unrevoke" /\ c[s].flag # "R")
                     /\ Continue(r, ReadNote(q, c, s))
    BY ReadIndexCases
  <2>2. c = index
    BY <2>1, ReadExact
  <2> QED
    BY <1>3, <2>1, <2>2
<1>5. index \in [Serials -> Line] /\ s \in Serials /\ index[s].cn = q.user
      /\ index[s].flag \in {"V", "R"}
  BY <1>0, LineOfTyped DEF PkiTyped, LinesOf
<1> DEFINE e == ReadNote(q, index, s)
<1>6. /\ e \in Request /\ e.op = q.op /\ e.user = q.user /\ e.copy = Edited(q.op, index, s)
      /\ e.serial = s
  <2>1. /\ e \in Request /\ e.op = q.op /\ e.user = q.user /\ e.copy = Edited(q.op, index, s)
        /\ q.op \in {"rotate", "unrevoke"} => e.serial = s
        /\ q.op \notin {"rotate", "unrevoke"} => e.serial = q.serial
    BY <1>1, <1>5, ReadNoteTyped
  <2>2. q.op \notin {"rotate", "unrevoke"} => q.serial = s
    BY <1>0, <1>1, <1>2, HeldFacts
  <2> QED
    BY <2>1, <2>2
<1>7. UNCHANGED <<pki, live>>
  BY ReadIndexCases
<1>8. CASE q.op = "unrevoke" /\ index[s].flag # "R" /\ Goto(r, IF s \in crl THEN 5 ELSE 6, e)
           /\ UNCHANGED history
  <2> HIDE DEF e
  <2>1. req'[r] = [e EXCEPT !.pc = IF s \in crl THEN 5 ELSE 6]
    BY <1>0, <1>8 DEF Goto, ReqTyped
  <2>2. /\ req'[r].op = "unrevoke" /\ req'[r].user = q.user /\ req'[r].serial = s
        /\ req'[r].pc = IF s \in crl THEN 5 ELSE 6
    BY <1>6, <1>8, <2>1, Moved
  <2>3. UNCHANGED baseVars /\ BaseInv'
    <3>1. UNCHANGED baseVars
      BY <1>7, <1>8 DEF baseVars, pki, history
    <3> QED
      BY <1>0, <3>1, QuietBase
  <2>4. /\ Held(req[r])' /\ index'[s].flag = "V" /\ req'[r].user \notin good'
        /\ out' \cap LinesOf(index', req'[r].user) = {}
        /\ req'[r].pc = 6 => s \notin crl'
        /\ req'[r].pc \in {5, 6}
    BY <1>2, <1>5, <1>8, <2>2, <2>3 DEF Held, LinesOf, baseVars
  <2>5. UnrevokeOK(req[r])'
    BY <2>2, <2>4 DEF UnrevokeOK, LinesOf
  <2>6. RequestOK(req[r])'
    BY <2>2, <2>5 DEF RequestOK, CreateOK, RollbackOK, RevokeOK, RotateOK, DeleteOK
  <2> QED
    BY <2>3, <2>6, OnlyOne
<1>9. CASE Continue(r, e)
  <2> HIDE DEF e
  <2>1. /\ UNCHANGED history /\ req'[r].pc = q.pc + 1
        /\ req'[r].op = q.op /\ req'[r].user = q.user
        /\ req'[r].serial = s /\ req'[r].copy = Edited(q.op, index, s)
    BY <1>0, <1>1, <1>6, <1>9, GoesOn
  <2>2. UNCHANGED baseVars /\ BaseInv'
    <3>1. UNCHANGED baseVars
      BY <1>7, <2>1 DEF baseVars, pki, history
    <3> QED
      BY <1>0, <3>1, QuietBase
  <2>3. <<req'[r].op, req'[r].pc>> \in {<<"rollback", 4>>, <<"unrevoke", 3>>, <<"rotate", 3>>,
                                        <<"delete", 6>>}
    BY <1>1, <2>1
  <2>4. /\ Held(req[r])' /\ req'[r].user \notin good'
        /\ req'[r].copy = Edited(req'[r].op, index', req'[r].serial)
        /\ q.op \in {"rollback", "delete"} => Gone(req[r])' /\ NoValid(req[r].user)'
        /\ q.op = "unrevoke" => out' \cap LinesOf(index', req'[r].user) = {}
    <3>1. q.op \in {"rollback", "delete"} => q.serial = s
      BY <1>0, <1>1, <1>2, HeldFacts
    <3> QED
      BY <1>2, <1>5, <2>1, <2>2, <3>1 DEF Held, Gone, NoValid, LinesOf, baseVars
  <2>5. RequestOK(req[r])'
    <3>1. (req[r].copy = Edited(req[r].op, index, req[r].serial))'
      BY <2>4
    <3>2. CASE req'[r].op = "rollback"
      BY <2>1, <2>3, <2>4, <3>1, <3>2
         DEF RequestOK, CreateOK, RollbackOK, RevokeOK, UnrevokeOK, RotateOK, DeleteOK
    <3>3. CASE req'[r].op = "unrevoke"
      BY <2>1, <2>3, <2>4, <3>1, <3>3
         DEF RequestOK, CreateOK, RollbackOK, RevokeOK, UnrevokeOK, RotateOK, DeleteOK, LinesOf
    <3>4. CASE req'[r].op = "rotate"
      BY <2>1, <2>3, <2>4, <3>1, <3>4
         DEF RequestOK, CreateOK, RollbackOK, RevokeOK, UnrevokeOK, RotateOK, DeleteOK
    <3>5. CASE req'[r].op = "delete"
      BY <2>1, <2>3, <2>4, <3>1, <3>5
         DEF RequestOK, CreateOK, RollbackOK, RevokeOK, UnrevokeOK, RotateOK, DeleteOK
    <3> QED
      BY <2>3, <3>2, <3>3, <3>4, <3>5
  <2> QED
    BY <2>2, <2>5, OnlyOne
<1> QED
  BY <1>4, <1>8, <1>9

LEMMA ReadSwapStore ==
    ASSUME OneRequest, NoLosses, Typed, StoreInv, NEW r \in Reqs, ReadSwap(r)
    PROVE  StoreInv'
<1> DEFINE q == req[r]
<1>0. ReqTyped /\ At(r, "readSwap") /\ BaseInv /\ RequestOK(q) /\ PkiTyped
  BY TypedParts DEF ReadSwap, StoreInv
<1>1. /\ q \in Request /\ q.user \in Users /\ q.op = "rotate" /\ q.pc = 6
      /\ q.pc # Len(Path[q.op])
  BY <1>0, Going, CallAt, LastCalls
<1>2. PICK c \in {index, EmptyIndex} :
        fRead(c) /\ (Continue(r, [q EXCEPT !.copy = c]) \/ Abort(r))
  BY DEF ReadSwap
<1>3. c = index /\ c \in [Serials -> Line]
  BY <1>0, <1>2, ReadExact DEF PkiTyped
<1> DEFINE e == [q EXCEPT !.copy = c]
<1>4. e \in Request /\ e.op = q.op /\ e.user = q.user /\ e.serial = q.serial /\ e.copy = c
  BY <1>1, <1>3 DEF Request
<1> HIDE DEF e
<1>5. Continue(r, e) => /\ UNCHANGED history /\ req'[r].pc = q.pc + 1 /\ req'[r].op = q.op
                        /\ req'[r].user = q.user /\ req'[r].serial = q.serial /\ req'[r].copy = c
  BY <1>0, <1>1, <1>4, GoesOn
<1>6. UNCHANGED baseVars /\ BaseInv'
  <2>1. UNCHANGED history
    BY <1>0, <1>2, <1>5, Aborted DEF e
  <2>2. UNCHANGED baseVars
    BY <2>1 DEF ReadSwap, baseVars, pki, history
  <2> QED
    BY <1>0, <2>2, QuietBase
<1>7. CASE Abort(r)
  BY <1>6, <1>7, AbortStore
<1>8. CASE Continue(r, e)
  <2>1. RotateOK(req[r])'
    BY <1>0, <1>1, <1>3, <1>5, <1>6, <1>8
       DEF RequestOK, RotateOK, Gone, Connectable, LinesOf, Usable, baseVars
  <2>2. RequestOK(req[r])'
    BY <1>1, <1>5, <1>8, <2>1 DEF RequestOK, CreateOK, RollbackOK, RevokeOK, UnrevokeOK, DeleteOK
  <2> QED
    BY <1>6, <2>2, OnlyOne
<1> QED
  BY <1>2, <1>7, <1>8 DEF e

\* What the handlers write back to index.txt.
LEMMA EditedLine ==
    ASSUME NEW op, NEW c \in [Serials -> Line], NEW s \in Serials
    PROVE  /\ \A t \in Serials : t # s => Edited(op, c, s)[t] = c[t]
           /\ op = "unrevoke" => Edited(op, c, s)[s] = [cn |-> c[s].cn, flag |-> "V"]
           /\ op = "rotate" => Edited(op, c, s)[s] = [cn |-> Archived, flag |-> "R"]
           /\ op \notin {"unrevoke", "rotate"} =>
                Edited(op, c, s)[s] = [cn |-> Archived, flag |-> c[s].flag]
<1>1. c[s] \in Line
  OBVIOUS
<1>2. CASE op = "unrevoke"
  BY <1>1, <1>2 DEF Edited, Line
<1>3. CASE op = "rotate"
  BY <1>1, <1>3 DEF Edited, Line
<1>4. CASE op \notin {"unrevoke", "rotate"}
  BY <1>1, <1>4 DEF Edited, Line
<1> QED
  BY <1>2, <1>3, <1>4

\* The calls that change the line or the files of the user, and tell nobody.
LEMMA WriteIndexStore ==
    ASSUME OneRequest, NoLosses, Typed, StoreInv, NEW r \in Reqs, WriteIndex(r)
    PROVE  StoreInv'
<1> DEFINE q == req[r]
<1>0. ReqTyped /\ At(r, "writeIndex") /\ BaseInv /\ RequestOK(q) /\ PkiTyped
  BY TypedParts DEF WriteIndex, StoreInv
<1>1. /\ q \in Request /\ q.user \in Users /\ q.op \in Op
      /\ <<q.op, q.pc>> \in {<<"rollback", 4>>, <<"unrevoke", 4>>, <<"rotate", 3>>, <<"rotate", 7>>,
                             <<"delete", 6>>}
      /\ q.pc # Len(Path[q.op])
  BY <1>0, Going, CallAt, LastCalls
<1>2. /\ UNCHANGED <<crl, owner, issued, private, live>>
      /\ \/ index' = q.copy /\ Continue(r, q)
         \/ UNCHANGED index /\ q.op \in {"delete", "rollback"} /\ Continue(r, q)
         \/ UNCHANGED index /\ q.op \notin {"delete", "rollback"} /\ Abort(r)
  <2>1. ~(losses < MaxLosses)
    BY DEF NoLosses, Typed, TypeOK
  <2> QED
    BY <2>1 DEF WriteIndex
<1>3. UNCHANGED history
  <2>1. CASE Continue(r, q)
    BY <1>0, <1>1, <2>1, GoesOn
  <2>2. CASE Abort(r)
    BY <1>0, <2>2, Aborted
  <2> QED
    BY <1>2, <2>1, <2>2
<1>4. Continue(r, q) =>
        /\ req'[r].op = q.op /\ req'[r].user = q.user /\ req'[r].serial = q.serial
        /\ <<req'[r].op, req'[r].pc>> \in {<<"rollback", 5>>, <<"unrevoke", 5>>, <<"rotate", 4>>,
                                           <<"rotate", 8>>, <<"delete", 7>>}
        /\ req'[r].pc = q.pc + 1
  <2>1. ASSUME Continue(r, q)
        PROVE  /\ req'[r].op = q.op /\ req'[r].user = q.user /\ req'[r].serial = q.serial
               /\ req'[r].pc = q.pc + 1
    BY <1>0, <1>1, <2>1, GoesOn
  <2> QED
    BY <1>1, <2>1
<1>5. ASSUME UNCHANGED index PROVE UNCHANGED baseVars /\ BaseInv'
  <2>1. UNCHANGED baseVars
    BY <1>2, <1>3, <1>5 DEF baseVars, history
  <2> QED
    BY <1>0, <2>1, QuietBase
<1>6. CASE UNCHANGED index /\ Abort(r)
  BY <1>5, <1>6, AbortStore
<1>7. CASE UNCHANGED index /\ q.op \in {"delete", "rollback"} /\ Continue(r, q)
  <2>1. Gone(q) /\ NoValid(q.user) /\ q.user \notin good
    BY <1>0, <1>1, <1>7 DEF RequestOK, RollbackOK, DeleteOK
  <2>2. Gone(req[r])' /\ NoValid(req[r].user)' /\ req'[r].user \notin good'
    BY <1>4, <1>5, <1>7, <2>1 DEF Gone, NoValid, LinesOf, baseVars
  <2>3. <<req'[r].op, req'[r].pc>> \in {<<"rollback", 5>>, <<"delete", 7>>}
    BY <1>4, <1>7
  <2>4. RequestOK(req[r])'
    BY <2>2, <2>3 DEF RequestOK, CreateOK, RollbackOK, RevokeOK, UnrevokeOK, RotateOK, DeleteOK
  <2> QED
    BY <1>5, <1>7, <2>4, OnlyOne
<1>8. CASE index' = q.copy /\ Continue(r, q) /\ <<q.op, q.pc>> = <<"rotate", 7>>
  <2>1. /\ q.user \notin good /\ Gone(q) /\ index[q.serial].cn = Archived /\ Connectable(q.user)
        /\ q.copy = index
    BY <1>0, <1>1, <1>8 DEF RequestOK, RotateOK
  <2>2. UNCHANGED baseVars /\ BaseInv'
    BY <1>5, <1>8, <2>1
  <2>3. <<req'[r].op, req'[r].pc>> = <<"rotate", 8>>
    BY <1>4, <1>8
  <2>4. /\ req'[r].user \notin good' /\ Gone(req[r])' /\ index'[req'[r].serial].cn = Archived
        /\ Connectable(req[r].user)'
    BY <1>4, <1>8, <2>1, <2>2 DEF Gone, Connectable, LinesOf, Usable, baseVars
  <2>5. RequestOK(req[r])'
    BY <2>3, <2>4 DEF RequestOK, CreateOK, RollbackOK, RevokeOK, UnrevokeOK, RotateOK, DeleteOK
  <2> QED
    BY <2>2, <2>5, OnlyOne
<1>9. CASE index' = q.copy /\ Continue(r, q) /\ <<q.op, q.pc>> # <<"rotate", 7>>
  <2>1. /\ q.user \notin good /\ Held(q) /\ index' = Edited(q.op, index, q.serial)
        /\ q.op \in {"rollback", "unrevoke", "rotate", "delete"}
        /\ q.op \in {"rollback", "delete"} => Gone(q)
        /\ q.op = "unrevoke" => /\ out \cap LinesOf(index, q.user) = {}
                                /\ issued[q.user] = q.serial /\ private[q.user] = q.serial
    <3>1. CASE q.op = "rollback"
      BY <1>0, <1>1, <1>9, <3>1 DEF RequestOK, RollbackOK
    <3>2. CASE q.op = "unrevoke"
      BY <1>0, <1>1, <1>9, <3>2 DEF RequestOK, UnrevokeOK
    <3>3. CASE q.op = "rotate"
      BY <1>0, <1>1, <1>9, <3>3 DEF RequestOK, RotateOK
    <3>4. CASE q.op = "delete"
      BY <1>0, <1>1, <1>9, <3>4 DEF RequestOK, DeleteOK
    <3> QED
      BY <1>1, <3>1, <3>2, <3>3, <3>4
  <2>2. /\ q.serial \in Serials /\ index[q.serial].cn = q.user /\ owner[q.serial] = q.user
        /\ LinesOf(index, q.user) = {q.serial}
    BY <1>0, <1>1, <2>1, HeldFacts
  <2>3. index \in [Serials -> Line]
    BY <1>0 DEF PkiTyped
  <2>4. /\ \A t \in Serials : t # q.serial => index'[t] = index[t]
        /\ q.op = "unrevoke" => index'[q.serial] = [cn |-> q.user, flag |-> "V"]
        /\ q.op # "unrevoke" => index'[q.serial] = [cn |-> Archived, flag |-> "R"]
    <3>1. /\ \A t \in Serials : t # q.serial => Edited(q.op, index, q.serial)[t] = index[t]
          /\ q.op = "unrevoke" =>
               Edited(q.op, index, q.serial)[q.serial] = [cn |-> index[q.serial].cn, flag |-> "V"]
          /\ q.op = "rotate" =>
               Edited(q.op, index, q.serial)[q.serial] = [cn |-> Archived, flag |-> "R"]
          /\ q.op \notin {"unrevoke", "rotate"} =>
               Edited(q.op, index, q.serial)[q.serial] = [cn |-> Archived, flag |-> index[q.serial].flag]
      <4> HIDE DEF q
      <4>1. q.serial \in Serials
        BY <2>2
      <4> QED
        BY <4>1, <2>3, EditedLine
    <3>2. q.op \in {"rollback", "delete"} => index[q.serial].flag = "R"
      BY <2>1 DEF Gone
    <3> QED
      BY <2>1, <2>2, <3>1, <3>2
  <2>5. /\ q.op = "unrevoke" => LinesOf(index', q.user) = {q.serial}
        /\ q.op # "unrevoke" => LinesOf(index', q.user) = {}
    BY <1>1, <2>2, <2>4, Placeholders DEF LinesOf
  <2>6. index'[q.serial].flag = "R" \/ q.serial \notin out
    BY <2>1, <2>2, <2>4
  <2>7. BaseInv'
    <3>1. \A t \in LinesOf(index', q.user) :
            index'[t].flag = "V" => issued'[q.user] = t /\ private'[q.user] = t
      BY <1>2, <2>1, <2>5
    <3>2. index'[q.serial].cn \in {index[q.serial].cn, Archived}
      BY <2>2, <2>4
    <3> QED
      BY <1>0, <1>1, <1>2, <1>3, <2>1, <2>2, <2>4, <2>6, <3>1, <3>2, OneLineChanged
  <2>8. /\ req'[r].op = q.op /\ req'[r].user = q.user /\ req'[r].serial = q.serial
        /\ <<req'[r].op, req'[r].pc>> \in {<<"rollback", 5>>, <<"unrevoke", 5>>, <<"rotate", 4>>,
                                           <<"delete", 7>>}
    <3>1. req'[r].pc = q.pc + 1
      BY <1>4, <1>9
    <3> QED
      BY <1>1, <1>4, <1>9, <3>1
  <2>9. CASE q.op = "unrevoke"
    <3>1. /\ Held(req[r])' /\ index'[req'[r].serial].flag = "V" /\ req'[r].user \notin good'
          /\ out' \cap LinesOf(index', req'[r].user) = {}
      BY <1>3, <2>1, <2>2, <2>4, <2>5, <2>8, <2>9 DEF Held, history
    <3>2. UnrevokeOK(req[r])'
      BY <2>8, <2>9, <3>1 DEF UnrevokeOK, LinesOf
    <3>3. RequestOK(req[r])'
      BY <2>8, <2>9, <3>2 DEF RequestOK, CreateOK, RollbackOK, RevokeOK, RotateOK, DeleteOK
    <3> QED
      BY <2>7, <3>3, OnlyOne
  <2>10. CASE q.op # "unrevoke"
    <3>1. /\ Gone(req[r])' /\ index'[req'[r].serial].cn = Archived /\ req'[r].user \notin good'
          /\ LinesOf(index', req'[r].user) = {} /\ NoValid(req[r].user)'
      BY <1>2, <1>3, <2>1, <2>2, <2>4, <2>5, <2>8, <2>10 DEF Gone, NoValid, LinesOf, history
    <3>2. RequestOK(req[r])'
      BY <2>8, <2>10, <3>1
         DEF RequestOK, CreateOK, RollbackOK, RevokeOK, UnrevokeOK, RotateOK, DeleteOK, LinesOf
    <3> QED
      BY <2>7, <3>2, OnlyOne
  <2> QED
    BY <2>9, <2>10
<1> QED
  BY <1>2, <1>6, <1>7, <1>8, <1>9

LEMMA RestoreFilesStore ==
    ASSUME OneRequest, NoLosses, Typed, StoreInv, NEW r \in Reqs, RestoreFiles(r)
    PROVE  StoreInv'
<1> DEFINE q == req[r]
<1>0. ReqTyped /\ At(r, "restore") /\ BaseInv /\ RequestOK(q) /\ PkiTyped
  BY TypedParts DEF RestoreFiles, StoreInv
<1>1. /\ q \in Request /\ q.user \in Users /\ q.op \in Op /\ q.op = "unrevoke" /\ q.pc = 3
      /\ q.pc # Len(Path[q.op])
  BY <1>0, Going, CallAt, LastCalls
<1>2. /\ q.user \notin good /\ Held(q) /\ out \cap LinesOf(index, q.user) = {}
      /\ q.copy = Edited(q.op, index, q.serial)
  BY <1>0, <1>1 DEF RequestOK, UnrevokeOK
<1>3. /\ q.serial \in Serials /\ index[q.serial].cn = q.user /\ owner[q.serial] = q.user
      /\ LinesOf(index, q.user) = {q.serial}
  BY <1>0, <1>1, <1>2, HeldFacts
<1>4. issued \in [Users -> 0 .. MaxSerials] /\ private \in [Users -> 0 .. MaxSerials]
  BY <1>0 DEF PkiTyped
<1>5. /\ UNCHANGED <<index, crl, owner, live>>
      /\ \A v \in Users : v # q.user => issued'[v] = issued[v] /\ private'[v] = private[v]
      /\ issued'[q.user] \in {issued[q.user], q.serial}
      /\ private'[q.user] \in {private[q.user], q.serial}
      /\ \/ Abort(r)
         \/ Continue(r, q) /\ issued'[q.user] = q.serial /\ private'[q.user] = q.serial
  BY <1>1, <1>4 DEF RestoreFiles
<1>6. Continue(r, q) => /\ UNCHANGED history /\ req'[r].pc = q.pc + 1 /\ req'[r].op = q.op
                        /\ req'[r].user = q.user /\ req'[r].serial = q.serial
                        /\ req'[r].copy = q.copy
  BY <1>0, <1>1, GoesOn
<1>7. UNCHANGED history
  BY <1>0, <1>5, <1>6, Aborted
<1>8. BaseInv'
  <2>1. \A t \in LinesOf(index', q.user) :
          index'[t].flag = "V" => issued'[q.user] = t /\ private'[q.user] = t
    <3>1. index[q.serial].flag = "V" => issued[q.user] = q.serial /\ private[q.user] = q.serial
      BY <1>0, <1>1, <1>3 DEF BaseInv, ValidHasFiles
    <3> QED
      BY <1>3, <1>5, <3>1
  <2>2. q.serial \notin out
    BY <1>2, <1>3
  <2> QED
    BY <1>0, <1>1, <1>2, <1>3, <1>5, <1>7, <2>1, <2>2, OneLineChanged
<1>9. CASE Abort(r)
  BY <1>8, <1>9, AbortStore
<1>10. CASE Continue(r, q) /\ issued'[q.user] = q.serial /\ private'[q.user] = q.serial
  <2>1. /\ req'[r].pc = 4 /\ req'[r].op = "unrevoke" /\ req'[r].user = q.user
        /\ req'[r].serial = q.serial /\ req'[r].copy = q.copy
    BY <1>1, <1>6, <1>10
  <2>2. /\ Held(req[r])' /\ req'[r].user \notin good'
        /\ out' \cap LinesOf(index', req'[r].user) = {}
        /\ issued'[req'[r].user] = req'[r].serial /\ private'[req'[r].user] = req'[r].serial
    BY <1>2, <1>3, <1>5, <1>7, <1>10, <2>1 DEF Held, history, LinesOf
  <2>3. (req[r].copy = Edited(req[r].op, index, req[r].serial))'
    BY <1>1, <1>2, <1>5, <2>1
  <2>4. UnrevokeOK(req[r])'
    BY <2>1, <2>2, <2>3 DEF UnrevokeOK, LinesOf
  <2>5. RequestOK(req[r])'
    BY <2>1, <2>4 DEF RequestOK, CreateOK, RollbackOK, RevokeOK, RotateOK, DeleteOK
  <2> QED
    BY <1>8, <2>5, OnlyOne
<1> QED
  BY <1>5, <1>9, <1>10

LEMMA RemoveFilesStore ==
    ASSUME OneRequest, NoLosses, Typed, StoreInv, NEW r \in Reqs, RemoveFiles(r)
    PROVE  StoreInv'
<1> DEFINE q == req[r]
<1>0. ReqTyped /\ At(r, "removeFiles") /\ BaseInv /\ RequestOK(q) /\ PkiTyped
  BY TypedParts DEF RemoveFiles, StoreInv
<1>1. /\ q \in Request /\ q.user \in Users /\ q.op \in Op
      /\ <<q.op, q.pc>> \in {<<"rollback", 5>>, <<"rotate", 4>>, <<"delete", 7>>}
      /\ q.pc # Len(Path[q.op])
  BY <1>0, Going, CallAt, LastCalls
<1>2. /\ q.user \notin good /\ Gone(q)
      /\ q.op = "rotate" => LinesOf(index, q.user) = {} /\ index[q.serial].cn = Archived
      /\ q.op # "rotate" => NoValid(q.user)
  BY <1>0, <1>1 DEF RequestOK, RollbackOK, RotateOK, DeleteOK
<1>3. issued \in [Users -> 0 .. MaxSerials] /\ private \in [Users -> 0 .. MaxSerials]
  BY <1>0 DEF PkiTyped
<1>4. /\ UNCHANGED <<index, crl, owner, live>> /\ Continue(r, q)
      /\ \A v \in Users : v # q.user => issued'[v] = issued[v] /\ private'[v] = private[v]
  BY <1>1, <1>3 DEF RemoveFiles
<1>5. /\ UNCHANGED history /\ req'[r].pc = q.pc + 1 /\ req'[r].op = q.op
      /\ req'[r].user = q.user /\ req'[r].serial = q.serial
  BY <1>0, <1>1, <1>4, GoesOn
<1>6. BaseInv'
  <2>1. \A t \in LinesOf(index', q.user) :
          index'[t].flag = "V" => issued'[q.user] = t /\ private'[q.user] = t
    BY <1>2, <1>4 DEF NoValid
  <2>2. /\ q.serial \in Serials /\ owner[q.serial] = q.user /\ index'[q.serial].flag = "R"
        /\ index[q.serial].cn \in {q.user, Archived}
    BY <1>0, <1>2, <1>4 DEF Gone, BaseInv, OwnersListed
  <2> QED
    BY <1>0, <1>1, <1>2, <1>4, <1>5, <2>1, <2>2, OneLineChanged
<1>7. <<req'[r].op, req'[r].pc>> \in {<<"rollback", 6>>, <<"rotate", 5>>, <<"delete", 8>>}
  BY <1>1, <1>5
<1>8. /\ req'[r].user \notin good' /\ Gone(req[r])'
      /\ q.op = "rotate" => LinesOf(index', req'[r].user) = {} /\ index'[req'[r].serial].cn = Archived
      /\ q.op # "rotate" => NoValid(req[r].user)'
  BY <1>2, <1>4, <1>5 DEF Gone, NoValid, LinesOf, history
<1>9. RequestOK(req[r])'
  BY <1>5, <1>7, <1>8
     DEF RequestOK, CreateOK, RollbackOK, RevokeOK, UnrevokeOK, RotateOK, DeleteOK, LinesOf
<1> QED
  BY <1>6, <1>9, OnlyOne

\* A new certificate: its line is the user's only one, and no CRL lists it.
LEMMA BuildStore ==
    ASSUME OneRequest, NoLosses, Typed, StoreInv, NEW r \in Reqs, BuildClient(r)
    PROVE  StoreInv'
<1> DEFINE q == req[r]
<1>0. ReqTyped /\ At(r, "build") /\ BaseInv /\ RequestOK(q) /\ PkiTyped
  BY TypedParts DEF BuildClient, StoreInv
<1>1. /\ q \in Request /\ q.user \in Users /\ q.op \in Op
      /\ <<q.op, q.pc>> \in {<<"create", 2>>, <<"rotate", 5>>}
      /\ q.pc # Len(Path[q.op])
  BY <1>0, Going, CallAt, LastCalls
<1>2. /\ q.user \notin good /\ LinesOf(index, q.user) = {}
      /\ q.op = "rotate" => Gone(q) /\ index[q.serial].cn = Archived
  BY <1>0, <1>1 DEF RequestOK, CreateOK, RotateOK
<1>3. UNCHANGED <<crl, live>>
  BY DEF BuildClient
<1>4. CASE Abort(r) /\ UNCHANGED <<owner, index, issued, private>>
  <2>1. UNCHANGED baseVars
    BY <1>0, <1>3, <1>4, Aborted DEF baseVars, history
  <2> QED
    BY <1>0, <1>4, <2>1, QuietBase, AbortStore
<1>5. CASE ~(Abort(r) /\ UNCHANGED <<owner, index, issued, private>>)
  <2>1. PICK s \in Serials :
          /\ owner[s] = Nobody /\ Continue(r, q)
          /\ owner' = [owner EXCEPT ![s] = q.user]
          /\ index' = [index EXCEPT ![s] = [cn |-> q.user, flag |-> "V"]]
          /\ issued' = [issued EXCEPT ![q.user] = s]
          /\ private' = [private EXCEPT ![q.user] = s]
    BY <1>5 DEF BuildClient
  <2>2. /\ UNCHANGED history /\ req'[r].pc = q.pc + 1 /\ req'[r].op = q.op
        /\ req'[r].user = q.user /\ req'[r].serial = q.serial
    BY <1>0, <1>1, <2>1, GoesOn
  <2>3. /\ index'[s] = [cn |-> q.user, flag |-> "V"] /\ owner'[s] = q.user
        /\ issued'[q.user] = s /\ private'[q.user] = s
        /\ \A t \in Serials : t # s => index'[t] = index[t] /\ owner'[t] = owner[t]
        /\ \A v \in Users : v # q.user => issued'[v] = issued[v] /\ private'[v] = private[v]
    <3>1. /\ index \in [Serials -> Line] /\ owner \in [Serials -> Users \cup {Nobody}]
          /\ issued \in [Users -> 0 .. MaxSerials] /\ private \in [Users -> 0 .. MaxSerials]
      BY <1>0 DEF PkiTyped
    <3> QED
      BY <1>1, <2>1, <3>1
  <2>4. index[s].cn = Nobody /\ s \notin crl /\ s \notin out
    BY <1>0, <2>1 DEF BaseInv, OwnersListed, CrlSigned, OutListed
  <2>5. /\ LinesOf(index', q.user) = {s}
        /\ \A v \in Users : v # q.user => LinesOf(index', v) = LinesOf(index, v)
                                          /\ s \notin LinesOf(index, v)
    BY <1>1, <1>2, <2>3, <2>4, Placeholders DEF LinesOf
  <2>6. \A t \in Usable : t \in Usable' /\ t # s
    BY <1>3, <2>1, <2>3 DEF Usable
  <2>7. Connectable(q.user)'
    <3>1. s \in Usable'
      BY <1>1, <1>3, <2>3, <2>4, Placeholders DEF Usable
    <3>2. /\ LinesOf(index', req[r].user) = {s} /\ index'[s].flag = "V"
          /\ issued'[req[r].user] = s /\ private'[req[r].user] = s
      BY <2>3, <2>5
    <3>3. req'[r].user = req[r].user
      BY <2>2
    <3> QED
      BY <3>1, <3>2, <3>3 DEF Connectable, LinesOf
  <2>8. BaseInv'
    <3>1. OwnersListed'
      BY <1>0, <1>1, <2>3, Placeholders DEF BaseInv, OwnersListed
    <3>2. OneLine'
      <4> SUFFICES ASSUME NEW v \in Users, NEW t \in LinesOf(index', v), NEW w \in LinesOf(index', v)
                   PROVE  t = w
        BY DEF OneLine, LinesOf
      <4>1. CASE v = q.user
        BY <2>5, <4>1
      <4>2. CASE v # q.user
        BY <1>0, <2>5, <4>2 DEF BaseInv, OneLine
      <4> QED
        BY <4>1, <4>2
    <3>3. ValidHasFiles'
      <4> SUFFICES ASSUME NEW v \in Users, NEW t \in LinesOf(index', v), index'[t].flag = "V"
                   PROVE  issued'[v] = t /\ private'[v] = t
        BY DEF ValidHasFiles, LinesOf
      <4>1. CASE v = q.user
        BY <2>3, <2>5, <4>1
      <4>2. CASE v # q.user
        <5>1. t \in LinesOf(index, v) /\ t # s /\ t \in Serials
          BY <2>5, <4>2 DEF LinesOf
        <5> QED
          BY <1>0, <2>3, <4>2, <5>1 DEF BaseInv, ValidHasFiles
      <4> QED
        BY <4>1, <4>2
    <3>4. CrlSigned' /\ OutListed' /\ CutOut' /\ CutOffStaysOff'
      <4>1. crl \subseteq Serials
        BY <1>0 DEF PkiTyped
      <4> QED
        BY <1>0, <1>3, <2>2, <2>3, <2>4, <4>1
           DEF BaseInv, CrlSigned, OutListed, CutOut, CutOffStaysOff, history
    <3>5. OutMarked'
      BY <1>0, <2>2, <2>3, <2>4 DEF BaseInv, OutMarked, Marked, history
    <3>6. ASSUME NEW v \in good PROVE Connectable(v)'
      <4>1. v \in Users /\ v # q.user
        BY <1>2 DEF Typed, TypeOK
      <4>2. PICK t \in Usable : /\ LinesOf(index, v) = {t} /\ index[t].flag = "V"
                                /\ issued[v] = t /\ private[v] = t
        BY <1>0, <3>6 DEF BaseInv, Connectable
      <4>3. t # s /\ t \in Serials /\ t \in Usable'
        BY <2>6, <4>2 DEF Usable
      <4> QED
        BY <2>3, <2>5, <4>1, <4>2, <4>3 DEF Connectable, LinesOf
    <3> QED
      BY <2>2, <3>1, <3>2, <3>3, <3>4, <3>5, <3>6 DEF BaseInv, history
  <2>9. <<req'[r].op, req'[r].pc>> \in {<<"create", 3>>, <<"rotate", 6>>}
    BY <1>1, <2>2
  <2>10. /\ req'[r].user \notin good' /\ Connectable(req[r].user)'
         /\ q.op = "rotate" => Gone(req[r])' /\ index'[req'[r].serial].cn = Archived
    <3>1. q.op = "rotate" => q.serial # s /\ q.serial \in Serials
      BY <1>1, <1>2, <2>1, Placeholders DEF Gone
    <3>2. q.op = "rotate" => Gone(req[r])' /\ index'[req'[r].serial].cn = Archived
      BY <1>2, <2>2, <2>3, <3>1 DEF Gone
    <3> QED
      BY <1>2, <2>2, <2>7, <3>2 DEF history
  <2>11. RequestOK(req[r])'
    BY <2>2, <2>9, <2>10 DEF RequestOK, CreateOK, RollbackOK, RevokeOK, UnrevokeOK, RotateOK, DeleteOK
  <2> QED
    BY <2>8, <2>11, OnlyOne
<1> QED
  BY <1>4, <1>5

\* A CRL that lists the marked lines, whoever builds it: what was withdrawn is in it,
\* and the certificate of a valid line is not.
LEMMA NewCrl ==
    ASSUME Typed, BaseInv, crl' = Marked(index),
           UNCHANGED <<index, owner, issued, private, live, out, cut, good>>
    PROVE  /\ BaseInv'
           /\ \A u \in Users : Connectable(u) => Connectable(u)'
<1>1. \A s \in Marked(index) : s \in Serials /\ index[s].flag = "R" /\ owner[s] # Nobody
  BY DEF BaseInv, OwnersListed, Marked
<1>2. \A s \in Serials : index[s].flag = "V" => s \notin Marked(index)
  BY DEF Marked
<1>3. ASSUME NEW u, Connectable(u) PROVE Connectable(u)'
  <2>1. PICK s \in Usable : /\ LinesOf(index, u) = {s} /\ index[s].flag = "V"
                            /\ issued[u] = s /\ private[u] = s
    BY <1>3 DEF Connectable
  <2>2. s \in Usable'
    BY <1>2, <2>1 DEF Usable
  <2> QED
    BY <2>1, <2>2 DEF Connectable, LinesOf
<1>4. OwnersListed' /\ OneLine' /\ ValidHasFiles'
  BY DEF BaseInv, OwnersListed, OneLine, ValidHasFiles, LinesOf
<1>5. CrlSigned' /\ OutMarked' /\ OutListed' /\ CutOut' /\ CutOffStaysOff'
  BY <1>1 DEF BaseInv, CrlSigned, OutMarked, OutListed, CutOut, CutOffStaysOff, Marked
<1>6. \A u \in good' : Connectable(u)'
  BY <1>3 DEF BaseInv
<1> QED
  BY <1>3, <1>4, <1>5, <1>6 DEF BaseInv

LEMMA GenCrlStore ==
    ASSUME OneRequest, NoLosses, Typed, StoreInv, NEW r \in Reqs, GenCrl(r)
    PROVE  StoreInv'
<1> DEFINE q == req[r]
<1>0. ReqTyped /\ At(r, "genCrl") /\ BaseInv /\ RequestOK(q) /\ PkiTyped
  BY TypedParts DEF GenCrl, StoreInv
<1>1. /\ q \in Request /\ q.user \in Users /\ q.op \in Op
      /\ <<q.op, q.pc>> \in {<<"rollback", 6>>, <<"revoke", 4>>, <<"unrevoke", 5>>, <<"rotate", 8>>,
                             <<"delete", 8>>}
      /\ q.pc = Len(Path[q.op]) <=> q.op = "rollback"
  <2>1. /\ q \in Request /\ q.user \in Users /\ q.op \in Op
        /\ <<q.op, q.pc>> \in {<<"rollback", 6>>, <<"revoke", 4>>, <<"unrevoke", 5>>, <<"rotate", 8>>,
                               <<"delete", 8>>}
    BY <1>0, Going, CallAt
  <2>2. q.pc \in 1 .. Len(Path[q.op])
    BY <1>0, Going
  <2> QED
    BY <2>1, <2>2, LastAt
<1>2. UNCHANGED <<index, owner, issued, private, live>>
  BY DEF GenCrl
<1>3. \/ Abort(r) /\ crl' \in {crl, Marked(index)}
      \/ /\ q.op \notin {"rotate", "delete"} /\ Continue(r, q) /\ crl' = Marked(index)
      \/ /\ q.op \in {"rotate", "delete"} /\ Goto(r, q.pc + 1, q) /\ crl' = Marked(index)
         /\ UNCHANGED <<out, cut, good>>
  BY DEF GenCrl
<1>4. ASSUME UNCHANGED <<out, cut, good>>, crl' \in {crl, Marked(index)}
      PROVE  BaseInv' /\ (crl' = Marked(index) => \A u \in Users : Connectable(u) => Connectable(u)')
  <2>1. CASE UNCHANGED crl
    <3>1. UNCHANGED baseVars
      BY <1>2, <1>4, <2>1 DEF baseVars
    <3>2. \A u \in Users : Connectable(u) => Connectable(u)'
      BY <3>1 DEF Connectable, baseVars, LinesOf, Usable
    <3> QED
      BY <1>0, <3>1, <3>2, QuietBase
  <2>2. CASE crl' = Marked(index)
    BY <1>0, <1>2, <1>4, <2>2, NewCrl
  <2> QED
    BY <1>4, <2>1, <2>2
<1>5. ASSUME Abort(r), crl' \in {crl, Marked(index)} PROVE StoreInv'
  <2>1. UNCHANGED <<out, cut, good>>
    BY <1>0, <1>5, Aborted DEF history
  <2> QED
    BY <1>4, <1>5, <2>1, AbortStore
<1>6. CASE q.op = "rollback" /\ Continue(r, q) /\ crl' = Marked(index)
  <2>1. Abort(r)
    BY <1>0, <1>1, <1>6, Continued
  <2> QED
    BY <1>5, <1>6, <2>1
<1>7. CASE q.op \in {"revoke", "unrevoke"} /\ Continue(r, q) /\ crl' = Marked(index)
  <2>1. /\ UNCHANGED history /\ req'[r].pc = q.pc + 1 /\ req'[r].op = q.op
        /\ req'[r].user = q.user /\ req'[r].serial = q.serial
    BY <1>0, <1>1, <1>7, GoesOn
  <2>2. BaseInv'
    BY <1>4, <1>7, <2>1 DEF history
  <2>3. CASE q.op = "revoke"
    <3>1. q.user \notin good /\ Held(q) /\ Gone(q) /\ q.pc = 4
      BY <1>0, <1>1, <2>3 DEF RequestOK, RevokeOK
    <3>2. q.serial \in Marked(index)
      BY <1>0, <1>1, <3>1, GoneMarked
    <3>3. /\ req'[r].user \notin good' /\ Held(req[r])' /\ Gone(req[r])' /\ req'[r].serial \in crl'
          /\ req'[r].op = "revoke" /\ req'[r].pc = 5
      BY <1>2, <1>7, <2>1, <2>3, <3>1, <3>2 DEF Held, Gone, history
    <3>4. RequestOK(req[r])'
      BY <3>3 DEF RequestOK, CreateOK, RollbackOK, RevokeOK, UnrevokeOK, RotateOK, DeleteOK
    <3> QED
      BY <2>2, <3>4, OnlyOne
  <2>4. CASE q.op = "unrevoke"
    <3>1. /\ q.user \notin good /\ Held(q) /\ index[q.serial].flag = "V" /\ q.pc = 5
          /\ out \cap LinesOf(index, q.user) = {}
      BY <1>0, <1>1, <2>4 DEF RequestOK, UnrevokeOK
    <3>2. q.serial \notin Marked(index)
      BY <3>1 DEF Marked
    <3>3. /\ req'[r].user \notin good' /\ Held(req[r])' /\ index'[req'[r].serial].flag = "V"
          /\ req'[r].serial \notin crl' /\ out' \cap LinesOf(index', req'[r].user) = {}
          /\ req'[r].op = "unrevoke" /\ req'[r].pc = 6
      BY <1>2, <1>7, <2>1, <2>4, <3>1, <3>2 DEF Held, LinesOf, history
    <3>4. RequestOK(req[r])'
      BY <3>3 DEF RequestOK, CreateOK, RollbackOK, RevokeOK, UnrevokeOK, RotateOK, DeleteOK, LinesOf
    <3> QED
      BY <2>2, <3>4, OnlyOne
  <2> QED
    BY <1>7, <2>3, <2>4
<1>8. CASE q.op \in {"rotate", "delete"} /\ Goto(r, q.pc + 1, q) /\ crl' = Marked(index)
           /\ UNCHANGED <<out, cut, good>>
  <2>1. /\ req'[r].pc = 9 /\ req'[r].op = q.op /\ req'[r].user = q.user /\ req'[r].serial = q.serial
    <3>1. req'[r] = [q EXCEPT !.pc = q.pc + 1] /\ q.pc = 8
      BY <1>0, <1>1, <1>8 DEF Goto, ReqTyped
    <3> QED
      BY <1>1, <3>1, Moved
  <2>2. /\ BaseInv' /\ \A u \in Users : Connectable(u) => Connectable(u)'
    BY <1>4, <1>8
  <2>3. /\ q.user \notin good /\ Gone(q)
        /\ q.op = "rotate" => index[q.serial].cn = Archived /\ Connectable(q.user)
        /\ q.op = "delete" => NoValid(q.user)
    BY <1>0, <1>1, <1>8 DEF RequestOK, RotateOK, DeleteOK
  <2>4. q.serial \in Marked(index)
    BY <1>0, <1>1, <2>3, GoneMarked
  <2>5. /\ req'[r].user \notin good' /\ Gone(req[r])' /\ req'[r].serial \in crl'
        /\ q.op = "rotate" => index'[req'[r].serial].cn = Archived
        /\ q.op = "delete" => NoValid(req[r].user)'
    BY <1>2, <1>8, <2>1, <2>3, <2>4 DEF Gone, NoValid, LinesOf
  <2>6. q.op = "rotate" => Connectable(req[r].user)'
    <3>1. ASSUME NEW u \in Users, u = q.user, u = req'[r].user, q.op = "rotate"
          PROVE  Connectable(req[r].user)'
      BY <2>2, <2>3, <3>1 DEF Connectable, LinesOf, Usable
    <3> QED
      BY <1>1, <2>1, <3>1
  <2>7. RequestOK(req[r])'
    BY <1>8, <2>1, <2>5, <2>6
       DEF RequestOK, CreateOK, RollbackOK, RevokeOK, UnrevokeOK, RotateOK, DeleteOK
  <2> QED
    BY <2>2, <2>7, OnlyOne
<1> QED
  BY <1>1, <1>3, <1>5, <1>6, <1>7, <1>8

\* The renewal loop rebuilds the CRL in the middle of any operation.
LEMMA RegenerateStore ==
    ASSUME OneRequest, NoLosses, Typed, StoreInv, RegenerateCRL
    PROVE  StoreInv'
<1>1. BaseInv /\ ReqTyped
  BY TypedParts DEF StoreInv
<1>2. /\ crl' = Marked(index)
      /\ UNCHANGED <<index, owner, issued, private, live, out, cut, good, req>>
  BY DEF RegenerateCRL, history
<1>3. BaseInv' /\ \A u \in Users : Connectable(u) => Connectable(u)'
  BY <1>1, <1>2, NewCrl
<1>4. ASSUME NEW r \in Reqs PROVE RequestOK(req[r])'
  <2> DEFINE q == req[r]
  <2>1. RequestOK(q) /\ q.user \in Users /\ q.pc \in 0 .. 12 /\ q' = q
    BY <1>1, <1>2 DEF StoreInv, ReqTyped, Request
  <2>2. Gone(q) => q.serial \in crl'
    BY <1>1, <1>2, <2>1, GoneMarked
  <2>3. index[q.serial].flag = "V" => q.serial \notin crl'
    BY <1>2 DEF Marked
  <2>4. /\ (Held(q) <=> Held(q)') /\ (Gone(q) <=> Gone(q)') /\ (NoValid(q.user) <=> NoValid(q.user)')
        /\ Connectable(q.user) => Connectable(q.user)'
        /\ LinesOf(index, q.user) = LinesOf(index, q.user)'
        /\ Edited(q.op, index, q.serial) = Edited(q.op, index, q.serial)'
    <3>1. (Held(q) <=> Held(q)') /\ (Gone(q) <=> Gone(q)') /\ (NoValid(q.user) <=> NoValid(q.user)')
      BY <1>2 DEF Held, Gone, NoValid, LinesOf
    <3>2. ASSUME NEW u \in Users, u = q.user, Connectable(q.user) PROVE Connectable(q.user)'
      BY <1>2, <1>3, <3>2 DEF Connectable, LinesOf, Usable
    <3>3. LinesOf(index, q.user) = LinesOf(index, q.user)'
      BY <1>2 DEF LinesOf
    <3>4. Edited(q.op, index, q.serial) = Edited(q.op, index, q.serial)'
      BY <1>2
    <3> QED
      BY <2>1, <3>1, <3>2, <3>3, <3>4
  <2>5. CreateOK(q)'
    BY <1>2, <2>1, <2>4 DEF RequestOK, CreateOK
  <2>6. RollbackOK(q)'
    BY <1>2, <2>1, <2>4 DEF RequestOK, RollbackOK
  <2>7. RevokeOK(q)'
    BY <1>2, <2>1, <2>2, <2>4 DEF RequestOK, RevokeOK
  <2>8. UnrevokeOK(q)'
    BY <1>2, <2>1, <2>3, <2>4 DEF RequestOK, UnrevokeOK
  <2>9. RotateOK(q)'
    BY <1>2, <2>1, <2>2, <2>4 DEF RequestOK, RotateOK
  <2>10. DeleteOK(q)'
    BY <1>2, <2>1, <2>2, <2>4 DEF RequestOK, DeleteOK
  <2> QED
    BY <2>5, <2>6, <2>7, <2>8, <2>9, <2>10 DEF RequestOK
<1> QED
  BY <1>3, <1>4 DEF StoreInv

\* A request ends with a report: what it says is so.
LEMMA ReportStore ==
    ASSUME OneRequest, Typed, BaseInv, NEW r \in Reqs, NEW e, Report(r, e),
           UNCHANGED pki, live' \subseteq live,
           e.op \in {"revoke", "rotate", "delete"} => e.serial \in crl \cap Marked(index),
           e.op \in {"revoke", "rotate"} /\ e.killed => e.serial \notin live',
           e.op \in {"create", "unrevoke", "rotate"} => Connectable(e.user)
    PROVE  StoreInv'
<1>1. ReqTyped /\ req'[r] = Idle
  BY TypedParts DEF Report, ReqTyped
<1>2. UNCHANGED <<index, crl, owner, issued, private>>
  BY DEF pki
<1>3. OwnersListed' /\ OneLine' /\ ValidHasFiles' /\ CrlSigned'
  BY <1>2 DEF BaseInv, OwnersListed, OneLine, ValidHasFiles, CrlSigned, LinesOf
<1>4. OutMarked' /\ OutListed'
  BY <1>2 DEF Report, BaseInv, OutMarked, OutListed, Marked
<1>5. CutOut'
  BY DEF Report, BaseInv, CutOut
<1>6. CutOffStaysOff'
  BY DEF Report, BaseInv, CutOffStaysOff
<1>7. ASSUME NEW u \in good' PROVE Connectable(u)'
  <2>1. Connectable(u)
    BY <1>7 DEF Report, BaseInv
  <2> QED
    BY <1>2, <2>1 DEF Connectable, LinesOf, Usable
<1>8. BaseInv'
  BY <1>3, <1>4, <1>5, <1>6, <1>7 DEF BaseInv
<1> QED
  BY <1>1, <1>8, IdleOK, OnlyOne

\* Calls in the middle of a handler that leave the certificates alone.
LEMMA OnwardStore ==
    ASSUME OneRequest, Typed, StoreInv, NEW r \in Reqs, NEW step, At(r, step),
           NEW e \in Request, e.op = req[r].op, e.user = req[r].user, e.serial = req[r].serial,
           <<e.op, req[r].pc>> \in {<<"revoke", 5>>, <<"rotate", 9>>, <<"rotate", 10>>,
                                    <<"delete", 2>>},
           Continue(r, e), UNCHANGED pki, live' \subseteq live
    PROVE  StoreInv'
<1> DEFINE q == req[r]
<1>0. ReqTyped /\ BaseInv /\ RequestOK(q) /\ q.user \in Users /\ q.op \in Op
      /\ q.pc \in 1 .. Len(Path[q.op])
  BY TypedParts, Going DEF StoreInv
<1>1. q.pc # Len(Path[e.op])
  BY <1>0, LastAt
<1>2. /\ UNCHANGED history /\ req'[r].pc = q.pc + 1 /\ req'[r].op = q.op
      /\ req'[r].user = q.user /\ req'[r].serial = q.serial
  BY <1>0, <1>1, GoesOn
<1>3. UNCHANGED <<index, crl, owner, issued, private>> /\ UNCHANGED <<out, cut, good>>
  BY <1>2 DEF pki, history
<1>4. BaseInv'
  BY <1>0, <1>3
     DEF BaseInv, OwnersListed, OneLine, ValidHasFiles, CrlSigned, OutMarked, OutListed,
         CutOut, CutOffStaysOff, Connectable, LinesOf, Marked, Usable
<1>5. CASE q.op = "revoke"
  <2>1. req'[r].op = "revoke" /\ req'[r].pc = 6
    BY <1>2, <1>5
  <2>2. q.user \notin good /\ Held(q) /\ Gone(q) /\ q.serial \in crl
    BY <1>0, <1>5 DEF RequestOK, RevokeOK
  <2>3. req'[r].user \notin good' /\ Held(req[r])' /\ Gone(req[r])' /\ req'[r].serial \in crl'
    BY <1>2, <1>3, <2>2 DEF Held, Gone
  <2>4. RequestOK(req[r])'
    BY <2>1, <2>3 DEF RequestOK, CreateOK, RollbackOK, RevokeOK, UnrevokeOK, RotateOK, DeleteOK
  <2> QED
    BY <1>4, <2>4, OnlyOne
<1>6. CASE q.op = "rotate"
  <2>1. req'[r].op = "rotate" /\ req'[r].pc \in {10, 11}
    BY <1>2, <1>6
  <2>2. /\ q.user \notin good /\ Gone(q) /\ index[q.serial].cn = Archived /\ Connectable(q.user)
        /\ q.serial \in crl
    BY <1>0, <1>6 DEF RequestOK, RotateOK
  <2>3. /\ req'[r].user \notin good' /\ Gone(req[r])' /\ index'[req'[r].serial].cn = Archived
        /\ Connectable(req[r].user)' /\ req'[r].serial \in crl'
    BY <1>2, <1>3, <2>2 DEF Gone, Connectable, LinesOf, Usable
  <2>4. RequestOK(req[r])'
    BY <2>1, <2>3 DEF RequestOK, CreateOK, RollbackOK, RevokeOK, UnrevokeOK, RotateOK, DeleteOK
  <2> QED
    BY <1>4, <2>4, OnlyOne
<1>7. CASE q.op = "delete"
  <2>1. req'[r].op = "delete" /\ req'[r].pc = 3
    BY <1>2, <1>7
  <2>2. q.user \notin good /\ LinesOf(index, q.user) # {}
    BY <1>0, <1>7 DEF RequestOK, DeleteOK
  <2>3. req'[r].user \notin good' /\ LinesOf(index', req'[r].user) # {}
    BY <1>2, <1>3, <2>2
  <2>4. RequestOK(req[r])'
    BY <2>1, <2>3
       DEF RequestOK, CreateOK, RollbackOK, RevokeOK, UnrevokeOK, RotateOK, DeleteOK, LinesOf
  <2> QED
    BY <1>4, <2>4, OnlyOne
<1> QED
  BY <1>5, <1>6, <1>7

\* An operation that is reported has what the report says.
LEMMA Reportable ==
    ASSUME Typed, StoreInv, NEW r \in Reqs, NEW step, At(r, step), Last(r)
    PROVE  LET q == req[r] IN
           /\ q.op \in {"revoke", "rotate", "delete"} =>
                q.serial \in crl \cap Marked(index) /\ owner[q.serial] = q.user
           /\ q.op \in {"create", "unrevoke", "rotate"} => Connectable(q.user)
<1> DEFINE q == req[r]
<1>0. ReqTyped /\ BaseInv /\ RequestOK(q) /\ q.user \in Users
  BY TypedParts, Going DEF StoreInv
<1>1. <<q.op, q.pc>> \in {<<"create", 3>>, <<"rollback", 6>>, <<"revoke", 6>>, <<"unrevoke", 6>>,
                          <<"rotate", 11>>, <<"delete", 9>>, <<"changePassword", 2>>,
                          <<"removePassword", 1>>, <<"disconnect", 2>>}
  <2>1. q.op \in Op /\ q.pc \in 1 .. Len(Path[q.op]) /\ q.pc = Len(Path[q.op])
    BY <1>0, Going DEF Last
  <2> QED
    BY <2>1, LastAt
<1>2. ASSUME q.op \in {"revoke", "rotate", "delete"}
      PROVE  q.serial \in crl \cap Marked(index) /\ owner[q.serial] = q.user
  <2>1. CASE q.op = "revoke"
    <3>1. Gone(q) /\ q.serial \in crl
      BY <1>0, <1>1, <2>1 DEF RequestOK, RevokeOK
    <3> QED
      BY <1>0, <3>1, GoneMarked
  <2>2. CASE q.op = "rotate"
    <3>1. Gone(q) /\ q.serial \in crl
      BY <1>0, <1>1, <2>2 DEF RequestOK, RotateOK
    <3> QED
      BY <1>0, <3>1, GoneMarked
  <2>3. CASE q.op = "delete"
    <3>1. Gone(q) /\ q.serial \in crl
      BY <1>0, <1>1, <2>3 DEF RequestOK, DeleteOK
    <3> QED
      BY <1>0, <3>1, GoneMarked
  <2> QED
    BY <1>2, <2>1, <2>2, <2>3
<1>3. CASE q.op = "create"
  BY <1>0, <1>1, <1>3 DEF RequestOK, CreateOK
<1>4. CASE q.op = "unrevoke"
  <2>1. Held(q) /\ index[q.serial].flag = "V" /\ q.serial \notin crl
    BY <1>0, <1>1, <1>4 DEF RequestOK, UnrevokeOK
  <2>2. /\ q.serial \in Serials /\ owner[q.serial] = q.user /\ LinesOf(index, q.user) = {q.serial}
    BY <1>0, <2>1, HeldFacts
  <2>3. issued[q.user] = q.serial /\ private[q.user] = q.serial
    BY <1>0, <2>1, <2>2 DEF BaseInv, ValidHasFiles
  <2>4. q.serial \in Usable
    BY <1>0, <2>1, <2>2, Placeholders DEF Usable
  <2> QED
    BY <1>4, <2>1, <2>2, <2>3, <2>4 DEF Connectable
<1>5. CASE q.op = "rotate"
  <2>1. Connectable(q.user)
    BY <1>0, <1>1, <1>5 DEF RequestOK, RotateOK
  <2> QED
    BY <1>2, <1>5, <2>1
<1> QED
  BY <1>2, <1>3, <1>4, <1>5

LEMMA EndStore ==
    ASSUME OneRequest, Typed, StoreInv, NEW r \in Reqs, NEW step, At(r, step), Last(r),
           NEW e \in Request, e.op = req[r].op, e.user = req[r].user, e.serial = req[r].serial,
           e.op # "rollback", Continue(r, e), UNCHANGED pki, live' \subseteq live,
           e.op \in {"revoke", "rotate"} /\ e.killed => \A s \in live' : owner[s] # e.user
    PROVE  StoreInv'
<1>1. BaseInv /\ Report(r, e)
  BY DEF StoreInv, Continue
<1>2. /\ e.op \in {"revoke", "rotate", "delete"} =>
           e.serial \in crl \cap Marked(index) /\ owner[e.serial] = e.user
      /\ e.op \in {"create", "unrevoke", "rotate"} => Connectable(e.user)
  BY Reportable
<1>3. e.op \in {"revoke", "rotate"} /\ e.killed => e.serial \notin live'
  BY <1>2
<1> QED
  BY <1>1, <1>2, <1>3, ReportStore

\* A request ends without a report, or the next call comes, and the certificates stay.
LEMMA QuietAbort ==
    ASSUME OneRequest, Typed, StoreInv, NEW r \in Reqs, Abort(r), UNCHANGED <<pki, live>>
    PROVE  StoreInv'
<1>1. UNCHANGED baseVars /\ BaseInv
  BY Aborted, TypedParts DEF StoreInv, baseVars, pki, history
<1> QED
  BY <1>1, QuietBase, AbortStore

LEMMA PwCreateStore ==
    ASSUME OneRequest, NoLosses, Typed, StoreInv, NEW r \in Reqs, PwCreate(r)
    PROVE  StoreInv'
<1> DEFINE q == req[r]
<1>0. ReqTyped /\ At(r, "pwCreate") /\ BaseInv /\ RequestOK(q) /\ UNCHANGED <<pki, live>>
  BY TypedParts DEF PwCreate, StoreInv
<1>1. /\ q \in Request /\ q.user \in Users
      /\ <<q.op, q.pc>> \in {<<"create", 3>>, <<"rotate", 10>>}
      /\ q.op = "create" => Last(r)
  <2>1. /\ q \in Request /\ q.user \in Users /\ q.op \in Op /\ q.pc \in 1 .. Len(Path[q.op])
        /\ <<q.op, q.pc>> \in {<<"create", 3>>, <<"rotate", 10>>}
    BY <1>0, Going, CallAt
  <2> QED
    BY <2>1, LastAt DEF Last
<1>2. \/ Abort(r) \/ Continue(r, q)
      \/ /\ q.op = "create" /\ Goto(r, 1, [q EXCEPT !.op = "rollback"]) /\ UNCHANGED history
  BY DEF PwCreate
<1>3. CASE Abort(r)
  BY <1>0, <1>3, QuietAbort
<1>4. CASE Continue(r, q) /\ q.op = "create"
  BY <1>0, <1>1, <1>4, EndStore
<1>5. CASE Continue(r, q) /\ q.op = "rotate"
  BY <1>0, <1>1, <1>5, OnwardStore
<1>6. CASE q.op = "create" /\ Goto(r, 1, [q EXCEPT !.op = "rollback"]) /\ UNCHANGED history
  <2>1. req'[r].op = "rollback" /\ req'[r].pc = 1 /\ req'[r].user = q.user
    <3> DEFINE e == [q EXCEPT !.op = "rollback"]
    <3>1. e \in Request /\ e.op = "rollback" /\ e.user = q.user
      BY <1>1, Paths DEF Request
    <3>2. req'[r] = [e EXCEPT !.pc = 1]
      BY <1>0, <1>6 DEF Goto, ReqTyped
    <3> HIDE DEF e
    <3> QED
      BY <3>1, <3>2, Moved
  <2>2. UNCHANGED baseVars
    BY <1>0, <1>6 DEF baseVars, pki, history
  <2>3. q.user \notin good /\ Connectable(q.user)
    BY <1>0, <1>1, <1>6 DEF RequestOK, CreateOK
  <2>4. LinesOf(index, q.user) # {}
    BY <2>3 DEF Connectable
  <2>5. req'[r].user \notin good' /\ LinesOf(index', req'[r].user) # {}
    BY <2>1, <2>2, <2>3, <2>4 DEF baseVars
  <2>6. RequestOK(req[r])'
    BY <2>1, <2>5
       DEF RequestOK, CreateOK, RollbackOK, RevokeOK, UnrevokeOK, RotateOK, DeleteOK, LinesOf
  <2> QED
    BY <1>0, <2>2, <2>6, QuietBase, OnlyOne
<1> QED
  BY <1>1, <1>2, <1>3, <1>4, <1>5, <1>6

LEMMA PwDeleteStore ==
    ASSUME OneRequest, NoLosses, Typed, StoreInv, NEW r \in Reqs, PwDelete(r)
    PROVE  StoreInv'
<1> DEFINE q == req[r]
<1>0. ReqTyped /\ At(r, "pwDelete") /\ UNCHANGED <<pki, live>>
  BY TypedParts DEF PwDelete
<1>1. /\ q \in Request /\ q.user \in Users
      /\ <<q.op, q.pc>> \in {<<"rotate", 9>>, <<"delete", 9>>, <<"removePassword", 1>>}
      /\ q.op # "rotate" => Last(r)
  <2>1. /\ q \in Request /\ q.user \in Users /\ q.op \in Op /\ q.pc \in 1 .. Len(Path[q.op])
        /\ <<q.op, q.pc>> \in {<<"rotate", 9>>, <<"delete", 9>>, <<"removePassword", 1>>}
    BY <1>0, Going, CallAt
  <2> QED
    BY <2>1, LastAt DEF Last
<1>2. Abort(r) \/ Continue(r, q)
  BY DEF PwDelete
<1>3. CASE Abort(r)
  BY <1>0, <1>3, QuietAbort
<1>4. CASE Continue(r, q) /\ q.op # "rotate"
  <2>1. q.op \notin {"revoke", "rotate", "rollback"}
    BY <1>1, <1>4
  <2> QED
    BY <1>0, <1>1, <1>4, <2>1, EndStore
<1>5. CASE Continue(r, q) /\ q.op = "rotate"
  BY <1>0, <1>1, <1>5, OnwardStore
<1> QED
  BY <1>2, <1>3, <1>4, <1>5

LEMMA PwOtherStore ==
    ASSUME OneRequest, NoLosses, Typed, StoreInv, NEW r \in Reqs,
           PwRevoke(r) \/ PwRestore(r) \/ PwChange(r)
    PROVE  StoreInv'
<1> DEFINE q == req[r]
<1>0. ReqTyped /\ UNCHANGED <<pki, live>>
  BY TypedParts DEF PwRevoke, PwRestore, PwChange
<1>1. CASE PwRevoke(r)
  <2>1. At(r, "pwRevoke") /\ Continue(r, q)
    BY <1>1 DEF PwRevoke
  <2>2. q \in Request /\ <<q.op, q.pc>> = <<"revoke", 5>>
    BY <1>0, <2>1, Going, CallAt
  <2> QED
    BY <1>0, <2>1, <2>2, OnwardStore
<1>2. CASE PwRestore(r)
  <2>1. At(r, "pwRestore") /\ Continue(r, q)
    BY <1>2 DEF PwRestore
  <2>2. q \in Request /\ q.op \in Op /\ q.pc \in 1 .. Len(Path[q.op]) /\ <<q.op, q.pc>> = <<"unrevoke", 6>>
    BY <1>0, <2>1, Going, CallAt
  <2>3. q.pc = Len(Path[q.op])
    <3>1. q.op = "unrevoke" /\ q.pc = 6
      BY <2>2
    <3> QED
      BY <3>1, Paths
  <2>4. Last(r) /\ q.op \notin {"revoke", "rotate", "rollback"}
    BY <2>2, <2>3 DEF Last
  <2> QED
    BY <1>0, <2>1, <2>2, <2>4, EndStore
<1>3. CASE PwChange(r)
  <2>1. At(r, "pwChange") /\ (Continue(r, q) \/ Abort(r))
    BY <1>3 DEF PwChange
  <2>2. q \in Request /\ q.op \in Op /\ q.pc \in 1 .. Len(Path[q.op])
        /\ <<q.op, q.pc>> = <<"changePassword", 2>>
    BY <1>0, <2>1, Going, CallAt
  <2>3. q.pc = Len(Path[q.op])
    <3>1. q.op = "changePassword" /\ q.pc = 2
      BY <2>2
    <3> QED
      BY <3>1, Paths
  <2>4. Last(r) /\ q.op \notin {"revoke", "rotate", "rollback"}
    BY <2>2, <2>3 DEF Last
  <2>5. CASE Continue(r, q)
    BY <1>0, <2>1, <2>2, <2>4, <2>5, EndStore
  <2>6. CASE Abort(r)
    BY <1>0, <2>6, QuietAbort
  <2> QED
    BY <2>1, <2>5, <2>6
<1> QED
  BY <1>1, <1>2, <1>3

\* A kill that was confirmed has ended the tunnels of the user's certificates.
LEMMA KillStore ==
    ASSUME OneRequest, NoLosses, Typed, StoreInv, NEW r \in Reqs, Kill(r)
    PROVE  StoreInv'
<1> DEFINE q == req[r]
<1>0. ReqTyped /\ At(r, "kill") /\ UNCHANGED pki
  BY TypedParts DEF Kill
<1>1. /\ q \in Request /\ q.user \in Users
      /\ <<q.op, q.pc>> \in {<<"revoke", 6>>, <<"rotate", 11>>, <<"delete", 2>>, <<"disconnect", 2>>}
      /\ q.op # "delete" => Last(r)
  <2>1. /\ q \in Request /\ q.user \in Users /\ q.op \in Op /\ q.pc \in 1 .. Len(Path[q.op])
        /\ <<q.op, q.pc>> \in {<<"revoke", 6>>, <<"rotate", 11>>, <<"delete", 2>>, <<"disconnect", 2>>}
    BY <1>0, Going, CallAt
  <2> QED
    BY <2>1, LastAt DEF Last
<1>2. PICK e \in Request :
        /\ e.op = q.op /\ e.user = q.user /\ e.serial = q.serial /\ Continue(r, e)
        /\ live' \subseteq live
        /\ e.killed => \A s \in live' : owner[s] # q.user
  <2>1. CASE live' = {s \in live : owner[s] # q.user} /\ Continue(r, [q EXCEPT !.killed = TRUE])
    <3> DEFINE e == [q EXCEPT !.killed = TRUE]
    <3>1. e \in Request /\ e.op = q.op /\ e.user = q.user /\ e.serial = q.serial
      BY <1>1 DEF Request
    <3>2. live' \subseteq live /\ \A s \in live' : owner[s] # q.user
      BY <2>1
    <3> QED
      BY <2>1, <3>1, <3>2
  <2>2. CASE UNCHANGED live /\ Continue(r, [q EXCEPT !.killed = FALSE])
    <3> DEFINE e == [q EXCEPT !.killed = FALSE]
    <3>1. e \in Request /\ e.op = q.op /\ e.user = q.user /\ e.serial = q.serial /\ ~e.killed
      BY <1>1 DEF Request
    <3>2. live' \subseteq live
      BY <2>2
    <3> QED
      BY <2>2, <3>1, <3>2
  <2> QED
    BY <2>1, <2>2 DEF Kill
<1>3. CASE q.op = "delete"
  <2>1. <<e.op, q.pc>> = <<"delete", 2>>
    BY <1>1, <1>2, <1>3
  <2> QED
    BY <1>0, <1>1, <1>2, <2>1, OnwardStore
<1>4. CASE q.op # "delete"
  <2>1. e.op # "rollback" /\ Last(r)
    BY <1>1, <1>2, <1>4
  <2> QED
    BY <1>0, <1>1, <1>2, <2>1, EndStore
<1> QED
  BY <1>3, <1>4

LEMMA StartStore ==
    ASSUME OneRequest, Typed, StoreInv, NEW r \in Reqs, NEW op \in Op, NEW u \in Users,
           NEW pw \in BOOLEAN, Start(r, op, u, pw)
    PROVE  StoreInv'
<1>0. ReqTyped /\ BaseInv
  BY TypedParts DEF StoreInv
<1>1. /\ UNCHANGED <<index, crl, owner, issued, private, live>>
      /\ op # "rollback"
      /\ req'[r] = [Idle EXCEPT !.op = op, !.user = u, !.pc = 1, !.pw = pw \/ op = "changePassword"]
  BY <1>0 DEF Start, pki, ReqTyped
<1>2. req'[r].op = op /\ req'[r].user = u /\ req'[r].pc = 1
  BY <1>1 DEF Idle
<1>3. /\ out' \subseteq out /\ cut' \subseteq cut /\ cut' \subseteq out' /\ good' \subseteq good
      /\ op \in {"revoke", "unrevoke", "rotate", "delete"} => u \notin good'
      /\ op = "unrevoke" => out' \cap LinesOf(index, u) = {}
  BY <1>0 DEF Start, BaseInv, CutOut
<1>4. BaseInv'
  <2>1. OwnersListed' /\ OneLine' /\ ValidHasFiles' /\ CrlSigned'
    BY <1>0, <1>1 DEF BaseInv, OwnersListed, OneLine, ValidHasFiles, CrlSigned, LinesOf
  <2>2. OutMarked' /\ OutListed' /\ CutOut' /\ CutOffStaysOff'
    BY <1>0, <1>1, <1>3 DEF BaseInv, OutMarked, OutListed, CutOut, CutOffStaysOff, Marked
  <2>3. \A v \in good' : Connectable(v)'
    BY <1>0, <1>1, <1>3 DEF BaseInv, Connectable, LinesOf, Usable
  <2> QED
    BY <2>1, <2>2, <2>3 DEF BaseInv
<1>5. RequestOK(req[r])'
  BY <1>1, <1>2, <1>3
     DEF RequestOK, CreateOK, RollbackOK, RevokeOK, UnrevokeOK, RotateOK, DeleteOK, LinesOf
<1> QED
  BY <1>4, <1>5, OnlyOne

\* What requests count on does not depend on who is connected.
LEMMA RequestKept ==
    ASSUME Typed, StoreInv, UNCHANGED <<index, crl, owner, issued, private, out, good, req>>
    PROVE  \A r \in Reqs : RequestOK(req[r])'
BY DEF StoreInv, RequestOK, CreateOK, RollbackOK, RevokeOK, UnrevokeOK, RotateOK, DeleteOK,
       Held, Gone, NoValid, Connectable, LinesOf, Usable

\* A client whose certificate was withdrawn does not get in; clients leave; the process
\* dies and forgets the requests.
LEMMA OthersStore ==
    ASSUME Typed, StoreInv,
           \/ \E s \in Serials : ClientConnects(s) \/ ClientDisconnects(s)
           \/ Crash
           \/ UNCHANGED vars
    PROVE  StoreInv'
<1>0. BaseInv
  BY DEF StoreInv
<1>1. ASSUME NEW s \in Serials, ClientConnects(s) \/ ClientDisconnects(s) PROVE StoreInv'
  <2>1. /\ UNCHANGED <<index, crl, owner, issued, private, out, cut, good, req>>
        /\ live' \subseteq live \cup Usable
    BY <1>1 DEF ClientConnects, ClientDisconnects, pki, history
  <2>2. cut \cap Usable = {}
    BY <1>0 DEF BaseInv, CutOut, OutListed, Usable
  <2>3. CutOffStaysOff'
    BY <1>0, <2>1, <2>2 DEF BaseInv, CutOffStaysOff
  <2>4. BaseInv'
    BY <1>0, <2>1, <2>3
       DEF BaseInv, OwnersListed, OneLine, ValidHasFiles, CrlSigned, OutMarked, OutListed,
           CutOut, Connectable, LinesOf, Marked, Usable
  <2> QED
    BY <2>1, <2>4, RequestKept DEF StoreInv
<1>2. CASE Crash
  <2>1. UNCHANGED baseVars /\ \A r \in Reqs : req'[r] = Idle
    BY <1>2 DEF Crash, baseVars, pki, history
  <2> QED
    BY <1>0, <2>1, QuietBase, IdleOK DEF StoreInv
<1>3. CASE UNCHANGED vars
  <2>1. UNCHANGED baseVars /\ UNCHANGED <<index, crl, owner, issued, private, out, good, req>>
    BY <1>3 DEF vars, baseVars, pki, history
  <2> QED
    BY <1>0, <2>1, QuietBase, RequestKept DEF StoreInv
<1> QED
  BY <1>1, <1>2, <1>3

LEMMA InitStore == Init => StoreInv
<1> SUFFICES ASSUME Init PROVE StoreInv
  OBVIOUS
<1>1. \A s \in Serials : index[s].cn = Nobody /\ owner[s] = Nobody
  BY DEF Init, EmptyIndex, NoLine
<1>2. \A u \in Users : LinesOf(index, u) = {}
  BY <1>1, Placeholders DEF LinesOf
<1>3. BaseInv
  BY <1>1, <1>2
     DEF Init, BaseInv, OwnersListed, OneLine, ValidHasFiles, CrlSigned, OutMarked, OutListed,
         CutOut, CutOffStaysOff
<1>4. \A r \in Reqs : req[r].op = "create" /\ req[r].pc = 0
  BY DEF Init, Idle
<1>5. \A r \in Reqs : RequestOK(req[r])
  BY <1>4 DEF RequestOK, CreateOK, RollbackOK, RevokeOK, UnrevokeOK, RotateOK, DeleteOK
<1> QED
  BY <1>3, <1>5 DEF StoreInv

LEMMA NextStore == OneRequest /\ NoLosses /\ Typed /\ StoreInv /\ [Next]_vars => StoreInv'
<1> SUFFICES ASSUME OneRequest, NoLosses, Typed, StoreInv, [Next]_vars PROVE StoreInv'
  OBVIOUS
<1>1. ASSUME NEW r \in Reqs, NEW op \in Op, NEW u \in Users, NEW pw \in BOOLEAN,
             Start(r, op, u, pw)
      PROVE  StoreInv'
  BY <1>1, StartStore
<1>2. ASSUME NEW r \in Reqs, Check(r) \/ StoreStep(r) \/ PasswordStep(r) \/ Kill(r)
      PROVE  StoreInv'
  BY <1>2, CheckStore, BuildStore, LookUpStore, EasyrsaRevokeStore, ReadIndexStore, ReadSwapStore,
     WriteIndexStore, RestoreFilesStore, RemoveFilesStore, GenCrlStore, PwCreateStore,
     PwDeleteStore, PwOtherStore, KillStore
     DEF StoreStep, PasswordStep
<1>3. CASE RegenerateCRL
  BY <1>3, RegenerateStore
<1> QED
  BY <1>1, <1>2, <1>3, OthersStore DEF Next

LEMMA StoreInductive ==
    ASSUME OneRequest, NoLosses
    PROVE  Spec => [](Typed /\ StoreInv)
<1>1. Init => Typed /\ StoreInv
  BY InitTyped, InitStore
<1>2. Typed /\ StoreInv /\ [Next]_vars => Typed' /\ StoreInv'
  BY NextTyped, NextStore
<1> QED
  BY <1>1, <1>2, PTL DEF Spec

\* A revoke or rotate that was reported with its kill confirmed has ended the tunnels
\* of the old certificate for good (userRevoke, userRotate, killUserSessions): OpenVPN
\* does not let them back, whatever the renewal loop, failing calls, crashes and later
\* requests do, until an unrevoke of the user is asked for.
THEOREM CutOffIsFinal ==
    ASSUME OneRequest, NoLosses
    PROVE  Spec => []CutOffStaysOff
<1>1. StoreInv => CutOffStaysOff
  BY DEF StoreInv, BaseInv
<1> QED
  BY <1>1, StoreInductive, PTL

\* After a create, unrevoke or rotate that was reported as done the user can connect,
\* however many earlier attempts failed or were cut short by a crash: UnrevokeClient,
\* RotateClient and the rollback of userCreate leave nothing behind that a later one
\* trips over.
THEOREM ReportedCanConnect ==
    ASSUME OneRequest, NoLosses
    PROVE  Spec => []ActiveIsConnectable
<1>1. StoreInv => ActiveIsConnectable
  BY DEF StoreInv, BaseInv, ActiveIsConnectable, Connectable
<1> QED
  BY <1>1, StoreInductive, PTL

-----------------------------------------------------------------------------
(* The store keeps the promise of CertLifecycle, step by step *)

Signed == {s \in Serials : owner[s] # Nobody}

\* What a step must be to pass for one of CertLifecycle.
LEMMA QuietStep ==
    ASSUME UNCHANGED <<owner, crl, out>>
    PROVE  [Lifecycle!Next]_(Lifecycle!vars)
BY DEF Lifecycle!vars, Usable

LEMMA WithdrawStep ==
    ASSUME NEW s \in Serials, s \in crl, owner[s] # Nobody, out' = out \cup {s},
           UNCHANGED <<owner, crl>>
    PROVE  [Lifecycle!Next]_(Lifecycle!vars)
<1>1. Lifecycle!Withdraw(s)
  BY DEF Lifecycle!Withdraw, Usable
<1> QED
  BY <1>1 DEF Lifecycle!Next

LEMMA PublishStep ==
    ASSUME Typed, BaseInv, crl' = Marked(index), UNCHANGED <<owner, out>>
    PROVE  [Lifecycle!Next]_(Lifecycle!vars)
<1>1. Usable' \subseteq Signed \ out
  BY DEF BaseInv, OutMarked, Usable, Signed
<1>2. Lifecycle!Publish(Usable')
  BY <1>1 DEF Lifecycle!Publish, Signed
<1>3. Usable' \in SUBSET Serials
  BY DEF Usable
<1> QED
  BY <1>2, <1>3 DEF Lifecycle!Next

\* The call that ends a revoke, rotate or delete reports a certificate that is in the
\* CRL; no other call reports one.
LEMMA ContinueStep ==
    ASSUME Typed, StoreInv, NEW r \in Reqs, NEW step, At(r, step),
           NEW e \in Request, e.op = req[r].op, e.serial = req[r].serial, Continue(r, e),
           UNCHANGED <<owner, crl>>
    PROVE  [Lifecycle!Next]_(Lifecycle!vars)
<1>1. ReqTyped /\ req[r].user \in Users /\ crl \subseteq Serials
  BY TypedParts, Going DEF PkiTyped
<1>2. CASE UNCHANGED history
  BY <1>2, QuietStep DEF history
<1>3. CASE Last(r) /\ Report(r, e) /\ e.op \notin {"revoke", "rotate", "delete"}
  BY <1>3, QuietStep DEF Report
<1>4. CASE Last(r) /\ Report(r, e) /\ e.op \in {"revoke", "rotate", "delete"}
  <2>1. e.serial \in crl /\ owner[e.serial] = req[r].user
    BY <1>4, Reportable
  <2>2. e.serial \in Serials /\ e.serial # 0 /\ owner[e.serial] # Nobody
    <3>1. e.serial \in Serials
      BY <1>1, <2>1
    <3>2. e.serial # 0
      BY <3>1, VpnUsersAssumption DEF Serials
    <3> QED
      BY <1>1, <2>1, <3>1, <3>2, Placeholders
  <2>3. out' = out \cup {e.serial}
    BY <1>4, <2>2 DEF Report
  <2> QED
    BY <2>1, <2>2, <2>3, WithdrawStep
<1> QED
  BY <1>1, <1>2, <1>3, <1>4, Continued DEF Last, Abort

LEMMA AbortStep ==
    ASSUME NEW r \in Reqs, Abort(r), UNCHANGED <<owner, crl>>
    PROVE  [Lifecycle!Next]_(Lifecycle!vars)
BY QuietStep DEF Abort, history

\* A new certificate passes OpenVPN's check at once.
LEMMA BuildStep ==
    ASSUME Typed, StoreInv, NEW r \in Reqs, BuildClient(r)
    PROVE  [Lifecycle!Next]_(Lifecycle!vars)
<1>0. UNCHANGED <<crl, out>> /\ BaseInv /\ PkiTyped /\ req[r].user \in Users
  BY EarlyMoves, TypedParts, Going DEF EarlyStep, history, BuildClient, StoreInv
<1>1. CASE UNCHANGED owner
  BY <1>0, <1>1, QuietStep
<1>2. CASE ~UNCHANGED owner
  <2>1. PICK s \in Serials : owner[s] = Nobody /\ owner' = [owner EXCEPT ![s] = req[r].user]
    BY <1>2 DEF BuildClient
  <2>2. s \notin crl
    BY <1>0, <2>1 DEF BaseInv, CrlSigned
  <2>3. owner'[s] # Nobody /\ \A t \in Serials : t # s => owner'[t] = owner[t]
    BY <1>0, <2>1, Placeholders DEF PkiTyped
  <2>4. Signed' = Signed \cup {s} /\ Usable' = Usable \cup {s} /\ s \in Serials \ Signed
    BY <1>0, <2>1, <2>2, <2>3 DEF Signed, Usable
  <2>5. Lifecycle!Issue(s)
    BY <1>0, <2>4 DEF Lifecycle!Issue, Signed
  <2> QED
    BY <2>5 DEF Lifecycle!Next
<1> QED
  BY <1>1, <1>2

LEMMA GenCrlStep ==
    ASSUME Typed, StoreInv, NEW r \in Reqs, GenCrl(r)
    PROVE  [Lifecycle!Next]_(Lifecycle!vars)
<1>0. ReqTyped /\ At(r, "genCrl") /\ BaseInv /\ UNCHANGED owner
  BY TypedParts DEF GenCrl, StoreInv
<1>1. req[r] \in Request /\ (Last(r) => req[r].op = "rollback")
  <2>1. /\ req[r] \in Request /\ req[r].op \in Op /\ req[r].pc \in 1 .. Len(Path[req[r].op])
        /\ <<req[r].op, req[r].pc>> \in {<<"rollback", 6>>, <<"revoke", 4>>, <<"unrevoke", 5>>,
                                         <<"rotate", 8>>, <<"delete", 8>>}
    BY <1>0, Going, CallAt
  <2> QED
    BY <2>1, LastAt DEF Last
<1>2. UNCHANGED out
  <2>1. CASE Abort(r)
    BY <2>1 DEF Abort, history
  <2>2. CASE Continue(r, req[r])
    BY <1>1, <2>2 DEF Continue, Abort, history
  <2> QED
    BY <2>1, <2>2 DEF GenCrl
<1>3. crl' = Marked(index) \/ UNCHANGED crl
  BY DEF GenCrl
<1> QED
  BY <1>0, <1>2, <1>3, PublishStep, QuietStep

LEMMA PasswordStepQuiet ==
    ASSUME Typed, StoreInv, NEW r \in Reqs, PasswordStep(r)
    PROVE  [Lifecycle!Next]_(Lifecycle!vars)
<1>0. ReqTyped /\ UNCHANGED <<owner, crl>>
  BY TypedParts DEF PasswordStep, PwCreate, PwDelete, PwRevoke, PwRestore, PwChange, pki
<1>1. PICK step : /\ At(r, step)
                  /\ Continue(r, req[r]) \/ Abort(r) \/ UNCHANGED history
  BY DEF PasswordStep, PwCreate, PwDelete, PwRevoke, PwRestore, PwChange
<1>2. req[r] \in Request
  BY <1>0, <1>1, Going
<1>3. CASE Continue(r, req[r])
  BY <1>0, <1>1, <1>2, <1>3, ContinueStep
<1>4. CASE Abort(r)
  BY <1>0, <1>4, AbortStep
<1>5. CASE UNCHANGED history
  BY <1>0, <1>5, QuietStep DEF history
<1> QED
  BY <1>1, <1>3, <1>4, <1>5

LEMMA KillStep ==
    ASSUME Typed, StoreInv, NEW r \in Reqs, Kill(r)
    PROVE  [Lifecycle!Next]_(Lifecycle!vars)
<1>0. ReqTyped /\ At(r, "kill") /\ UNCHANGED <<owner, crl>>
  BY TypedParts DEF Kill, pki
<1>1. req[r] \in Request
  BY <1>0, Going
<1>2. ASSUME NEW b \in BOOLEAN
      PROVE  LET e == [req[r] EXCEPT !.killed = b] IN
             e \in Request /\ e.op = req[r].op /\ e.serial = req[r].serial
  BY <1>1 DEF Request
<1>3. PICK b \in BOOLEAN : Continue(r, [req[r] EXCEPT !.killed = b])
  BY DEF Kill
<1> DEFINE e == [req[r] EXCEPT !.killed = b]
<1>4. e \in Request /\ e.op = req[r].op /\ e.serial = req[r].serial /\ Continue(r, e)
  BY <1>2, <1>3
<1> HIDE DEF e
<1> QED
  BY <1>0, <1>4, ContinueStep

\* An unrevoke readmits the certificates of the user from the moment it is asked for.
LEMMA StartStep ==
    ASSUME NEW r \in Reqs, NEW op \in Op, NEW u \in Users, NEW pw \in BOOLEAN, Start(r, op, u, pw)
    PROVE  [Lifecycle!Next]_(Lifecycle!vars)
<1> DEFINE C == IF op = "unrevoke" THEN LinesOf(index, u) ELSE {}
<1>1. C \in SUBSET Serials
  BY DEF LinesOf
<1>2. out' = out \ C /\ UNCHANGED <<owner, crl>>
  BY DEF Start, pki
<1> HIDE DEF C
<1>3. Lifecycle!Readmit(C)
  BY <1>2 DEF Lifecycle!Readmit, Usable
<1> QED
  BY <1>1, <1>3 DEF Lifecycle!Next

LEMMA NextStep == Typed /\ StoreInv /\ [Next]_vars => [Lifecycle!Next]_(Lifecycle!vars)
<1> SUFFICES ASSUME Typed, StoreInv, [Next]_vars PROVE [Lifecycle!Next]_(Lifecycle!vars)
  OBVIOUS
<1>1. ASSUME NEW r \in Reqs, NEW op \in Op, NEW u \in Users, NEW pw \in BOOLEAN,
             Start(r, op, u, pw)
      PROVE  [Lifecycle!Next]_(Lifecycle!vars)
  BY <1>1, StartStep
<1>2. ASSUME NEW r \in Reqs, EarlyStep(r), ~BuildClient(r)
      PROVE  [Lifecycle!Next]_(Lifecycle!vars)
  <2>1. UNCHANGED history
    BY <1>2, EarlyMoves
  <2>2. UNCHANGED <<owner, crl>>
    BY <1>2 DEF EarlyStep, Check, LookUp, EasyrsaRevoke, ReadIndex, ReadSwap, WriteIndex,
                RestoreFiles, RemoveFiles, pki
  <2> QED
    BY <2>1, <2>2, QuietStep DEF history
<1>3. ASSUME NEW r \in Reqs, Check(r) \/ StoreStep(r) \/ PasswordStep(r) \/ Kill(r)
      PROVE  [Lifecycle!Next]_(Lifecycle!vars)
  BY <1>2, <1>3, BuildStep, GenCrlStep, PasswordStepQuiet, KillStep DEF StoreStep, EarlyStep
<1>4. CASE RegenerateCRL
  BY <1>4, PublishStep DEF RegenerateCRL, StoreInv, history
<1>5. CASE \/ \E s \in Serials : ClientConnects(s) \/ ClientDisconnects(s)
           \/ Crash
           \/ UNCHANGED vars
  BY <1>5, QuietStep DEF ClientConnects, ClientDisconnects, Crash, vars, pki, history
<1> QED
  BY <1>1, <1>3, <1>4, <1>5 DEF Next

\* The filesystem store implements CertLifecycle: a certificate that was reported as
\* revoked, rotated out or deleted (RevokeClient, RotateClient, DeleteClient) does not
\* pass OpenVPN's check again, whoever rebuilds the CRL and whatever fails or crashes,
\* until an unrevoke of its user is asked for.
THEOREM StoreKeepsPromise ==
    ASSUME OneRequest, NoLosses
    PROVE  Spec => ImplementsLifecycle
<1>1. Init => Lifecycle!Init
  BY DEF Init, Lifecycle!Init, Usable
<1> QED
  BY <1>1, NextStep, StoreInductive, PTL DEF Spec, ImplementsLifecycle, Lifecycle!Spec

-----------------------------------------------------------------------------
(* The Kubernetes backend.  The theorems below are about K!Spec; requests,   *)
(* counters and history go by the same names there.                          *)

CONSTANTS Ccds, CertReqs, CcdReqs

VARIABLES secrets, idxSecret, idxDisk, crlSecret, crlDisk, RevokedCerts, up, saved

K == INSTANCE KubernetesStore

\* Operations on certificates, the renewal of the CRL and the start among them, are
\* handled one at a time; saves of CCDs are not limited.  The code does not
\* guarantee it (README, "Runs": the finding).
OneCertRequest == \A r, o \in CertReqs : r = o

\* What KubernetesStoreAssumption says of the constants that are not numbers.
KubeNames == "none" \notin Ccds /\ CertReqs \cap CcdReqs = {}

-----------------------------------------------------------------------------
(* Types *)

KubeOps == {"create", "revoke", "unrevoke", "rotate", "delete", "renew", "saveCcd", "run"}
KubeRow == [name : Users \cup {K!Archived, "none"}, revokedAt : BOOLEAN]
KubeRequest == [
    op : KubeOps, user : Users \cup {"none"}, pc : Nat, serial : 0 .. MaxSerials,
    copy : K!Secret, old : 0 .. MaxSerials, ccd : Ccds \cup {"clean", "none"}, alone : BOOLEAN,
    keep : Ccds \cup {"none"}, index : [K!Serials -> KubeRow], crl : SUBSET K!Serials]

\* What an operation was called with.
CalledWith(q) ==
    /\ q.op \notin {"renew", "run"} => q.user \in Users
    /\ q.op = "create" => q.ccd = "clean"
    /\ q.op = "saveCcd" => q.ccd \in Ccds

KubeReqTyped ==
    /\ req \in [K!Reqs -> KubeRequest]
    /\ \A r \in K!Reqs : /\ req[r].pc \in 0 .. Len(K!Path[req[r].op])
                         /\ CalledWith(req[r])

KubeStoreTyped ==
    /\ secrets \in [K!Serials -> K!Secret]
    /\ idxSecret \in [K!Serials -> KubeRow] /\ idxDisk \in [K!Serials -> KubeRow]
    /\ crlSecret \subseteq K!Serials /\ crlDisk \subseteq K!Serials
    /\ RevokedCerts \subseteq K!Serials

KubeRestTyped ==
    /\ up \in BOOLEAN
    /\ good \subseteq Users
    /\ saved \in [Users -> Ccds \cup {"none"}]

KubeCounted ==
    /\ started \in 0 .. MaxRequests
    /\ failures \in 0 .. MaxFailures
    /\ crashes \in 0 .. MaxCrashes

KubeTyped == KubeReqTyped /\ KubeStoreTyped /\ KubeRestTyped /\ KubeCounted

-----------------------------------------------------------------------------
(* Where a request is *)

\* The calls of each operation, position by position.
LEMMA PathCreate ==
    /\ Len(K!Path["create"]) = 9
    /\ K!Path["create"][1] = "check" /\ K!Path["create"][2] = "absent"
    /\ K!Path["create"][3] = "create" /\ K!Path["create"][4] = "listIndex"
    /\ K!Path["create"][5] = "putIndex" /\ K!Path["create"][6] = "indexDisk"
    /\ K!Path["create"][7] = "getCcd" /\ K!Path["create"][8] = "putCcd"
    /\ K!Path["create"][9] = "ccdDisk"
  BY DEF K!Path, K!Withdrawal, K!indexTxtUpdate, K!easyrsaGenCRL, K!RegenerateCRL,
         K!easyrsaBuildClient, K!SaveCcd

LEMMA PathRevoke ==
    /\ Len(K!Path["revoke"]) = 13
    /\ K!Path["revoke"][1] = "check" /\ K!Path["revoke"][2] = "get"
    /\ K!Path["revoke"][3] = "stamp" /\ K!Path["revoke"][4] = "listIndex"
    /\ K!Path["revoke"][5] = "putIndex" /\ K!Path["revoke"][6] = "indexDisk"
    /\ K!Path["revoke"][7] = "listIndex" /\ K!Path["revoke"][8] = "putIndex"
    /\ K!Path["revoke"][9] = "listRevoked" /\ K!Path["revoke"][10] = "putCrl"
    /\ K!Path["revoke"][11] = "verify" /\ K!Path["revoke"][12] = "crlDisk"
    /\ K!Path["revoke"][13] = "answer"
  BY DEF K!Path, K!Withdrawal, K!indexTxtUpdate, K!easyrsaGenCRL, K!RegenerateCRL,
         K!easyrsaBuildClient, K!SaveCcd

LEMMA PathUnrevoke ==
    /\ Len(K!Path["unrevoke"]) = 11
    /\ K!Path["unrevoke"][1] = "check" /\ K!Path["unrevoke"][2] = "get"
    /\ K!Path["unrevoke"][3] = "clear" /\ K!Path["unrevoke"][4] = "listIndex"
    /\ K!Path["unrevoke"][5] = "putIndex" /\ K!Path["unrevoke"][6] = "indexDisk"
    /\ K!Path["unrevoke"][7] = "listIndex" /\ K!Path["unrevoke"][8] = "putIndex"
    /\ K!Path["unrevoke"][9] = "listRevoked" /\ K!Path["unrevoke"][10] = "putCrl"
    /\ K!Path["unrevoke"][11] = "crlDisk"
  BY DEF K!Path, K!Withdrawal, K!indexTxtUpdate, K!easyrsaGenCRL, K!RegenerateCRL,
         K!easyrsaBuildClient, K!SaveCcd

LEMMA PathRotate ==
    /\ Len(K!Path["rotate"]) = 21
    /\ K!Path["rotate"][1] = "check" /\ K!Path["rotate"][2] = "get"
    /\ K!Path["rotate"][3] = "archive" /\ K!Path["rotate"][4] = "absent"
    /\ K!Path["rotate"][5] = "create" /\ K!Path["rotate"][6] = "listIndex"
    /\ K!Path["rotate"][7] = "putIndex" /\ K!Path["rotate"][8] = "indexDisk"
    /\ K!Path["rotate"][9] = "getCcd" /\ K!Path["rotate"][10] = "putCcd"
    /\ K!Path["rotate"][11] = "ccdDisk" /\ K!Path["rotate"][12] = "listIndex"
    /\ K!Path["rotate"][13] = "putIndex" /\ K!Path["rotate"][14] = "indexDisk"
    /\ K!Path["rotate"][15] = "listIndex" /\ K!Path["rotate"][16] = "putIndex"
    /\ K!Path["rotate"][17] = "listRevoked" /\ K!Path["rotate"][18] = "putCrl"
    /\ K!Path["rotate"][19] = "verify" /\ K!Path["rotate"][20] = "crlDisk"
    /\ K!Path["rotate"][21] = "answer"
  BY DEF K!Path, K!Withdrawal, K!indexTxtUpdate, K!easyrsaGenCRL, K!RegenerateCRL,
         K!easyrsaBuildClient, K!SaveCcd

LEMMA PathDelete ==
    /\ Len(K!Path["delete"]) = 13
    /\ K!Path["delete"][1] = "check" /\ K!Path["delete"][2] = "get"
    /\ K!Path["delete"][3] = "archive" /\ K!Path["delete"][4] = "listIndex"
    /\ K!Path["delete"][5] = "putIndex" /\ K!Path["delete"][6] = "indexDisk"
    /\ K!Path["delete"][7] = "listIndex" /\ K!Path["delete"][8] = "putIndex"
    /\ K!Path["delete"][9] = "listRevoked" /\ K!Path["delete"][10] = "putCrl"
    /\ K!Path["delete"][11] = "verify" /\ K!Path["delete"][12] = "crlDisk"
    /\ K!Path["delete"][13] = "answer"
  BY DEF K!Path, K!Withdrawal, K!indexTxtUpdate, K!easyrsaGenCRL, K!RegenerateCRL,
         K!easyrsaBuildClient, K!SaveCcd

LEMMA PathRenew ==
    /\ Len(K!Path["renew"]) = 5
    /\ K!Path["renew"][1] = "listIndex" /\ K!Path["renew"][2] = "putIndex"
    /\ K!Path["renew"][3] = "listRevoked" /\ K!Path["renew"][4] = "putCrl"
    /\ K!Path["renew"][5] = "crlDisk"
  BY DEF K!Path, K!Withdrawal, K!indexTxtUpdate, K!easyrsaGenCRL, K!RegenerateCRL,
         K!easyrsaBuildClient, K!SaveCcd

LEMMA PathSaveCcd ==
    /\ Len(K!Path["saveCcd"]) = 3
    /\ K!Path["saveCcd"][1] = "getCcd" /\ K!Path["saveCcd"][2] = "putCcd"
    /\ K!Path["saveCcd"][3] = "ccdDisk"
  BY DEF K!Path, K!Withdrawal, K!indexTxtUpdate, K!easyrsaGenCRL, K!RegenerateCRL,
         K!easyrsaBuildClient, K!SaveCcd

LEMMA PathRun ==
    /\ Len(K!Path["run"]) = 10
    /\ K!Path["run"][1] = "listIndex" /\ K!Path["run"][2] = "putIndex"
    /\ K!Path["run"][3] = "listIndex" /\ K!Path["run"][4] = "putIndex"
    /\ K!Path["run"][5] = "listRevoked" /\ K!Path["run"][6] = "putCrl"
    /\ K!Path["run"][7] = "crlDisk" /\ K!Path["run"][8] = "crlDisk"
    /\ K!Path["run"][9] = "indexDisk" /\ K!Path["run"][10] = "ccdDisk"
  BY DEF K!Path, K!Withdrawal, K!indexTxtUpdate, K!easyrsaGenCRL, K!RegenerateCRL,
         K!easyrsaBuildClient, K!SaveCcd

\* A request that is at a call is at one of its places.
LEMMA Places ==
    ASSUME KubeReqTyped, NEW r \in K!Reqs
    PROVE
      /\ K!At(r, "check") =>
             req[r].op \in {"create", "revoke", "unrevoke", "rotate", "delete"} /\ req[r].pc = 1
      /\ K!At(r, "absent") =>
             \/ req[r].op = "create" /\ req[r].pc = 2
             \/ req[r].op = "rotate" /\ req[r].pc = 4
      /\ K!At(r, "create") =>
             \/ req[r].op = "create" /\ req[r].pc = 3
             \/ req[r].op = "rotate" /\ req[r].pc = 5
      /\ K!At(r, "listIndex") =>
             \/ req[r].op = "create" /\ req[r].pc = 4
             \/ req[r].op \in {"revoke", "unrevoke", "delete"} /\ req[r].pc \in {4, 7}
             \/ req[r].op = "rotate" /\ req[r].pc \in {6, 12, 15}
             \/ req[r].op = "renew" /\ req[r].pc = 1
             \/ req[r].op = "run" /\ req[r].pc \in {1, 3}
      /\ K!At(r, "putIndex") =>
             \/ req[r].op = "create" /\ req[r].pc = 5
             \/ req[r].op \in {"revoke", "unrevoke", "delete"} /\ req[r].pc \in {5, 8}
             \/ req[r].op = "rotate" /\ req[r].pc \in {7, 13, 16}
             \/ req[r].op = "renew" /\ req[r].pc = 2
             \/ req[r].op = "run" /\ req[r].pc \in {2, 4}
      /\ K!At(r, "indexDisk") =>
             \/ req[r].op \in {"create", "revoke", "unrevoke", "delete"} /\ req[r].pc = 6
             \/ req[r].op = "rotate" /\ req[r].pc \in {8, 14}
             \/ req[r].op = "run" /\ req[r].pc = 9
      /\ K!At(r, "getCcd") =>
             \/ req[r].op = "create" /\ req[r].pc = 7
             \/ req[r].op = "rotate" /\ req[r].pc = 9
             \/ req[r].op = "saveCcd" /\ req[r].pc = 1
      /\ K!At(r, "putCcd") =>
             \/ req[r].op = "create" /\ req[r].pc = 8
             \/ req[r].op = "rotate" /\ req[r].pc = 10
             \/ req[r].op = "saveCcd" /\ req[r].pc = 2
      /\ K!At(r, "ccdDisk") =>
             \/ req[r].op = "create" /\ req[r].pc = 9
             \/ req[r].op = "rotate" /\ req[r].pc = 11
             \/ req[r].op = "saveCcd" /\ req[r].pc = 3
             \/ req[r].op = "run" /\ req[r].pc = 10
      /\ K!At(r, "get") =>
             req[r].op \in {"revoke", "unrevoke", "rotate", "delete"} /\ req[r].pc = 2
      /\ K!At(r, "stamp") =>
             req[r].op = "revoke" /\ req[r].pc = 3
      /\ K!At(r, "listRevoked") =>
             \/ req[r].op \in {"revoke", "unrevoke", "delete"} /\ req[r].pc = 9
             \/ req[r].op = "rotate" /\ req[r].pc = 17
             \/ req[r].op = "renew" /\ req[r].pc = 3
             \/ req[r].op = "run" /\ req[r].pc = 5
      /\ K!At(r, "putCrl") =>
             \/ req[r].op \in {"revoke", "unrevoke", "delete"} /\ req[r].pc = 10
             \/ req[r].op = "rotate" /\ req[r].pc = 18
             \/ req[r].op = "renew" /\ req[r].pc = 4
             \/ req[r].op = "run" /\ req[r].pc = 6
      /\ K!At(r, "verify") =>
             \/ req[r].op \in {"revoke", "delete"} /\ req[r].pc = 11
             \/ req[r].op = "rotate" /\ req[r].pc = 19
      /\ K!At(r, "crlDisk") =>
             \/ req[r].op \in {"revoke", "delete"} /\ req[r].pc = 12
             \/ req[r].op = "unrevoke" /\ req[r].pc = 11
             \/ req[r].op = "rotate" /\ req[r].pc = 20
             \/ req[r].op = "renew" /\ req[r].pc = 5
             \/ req[r].op = "run" /\ req[r].pc \in {7, 8}
      /\ K!At(r, "answer") =>
             \/ req[r].op \in {"revoke", "delete"} /\ req[r].pc = 13
             \/ req[r].op = "rotate" /\ req[r].pc = 21
      /\ K!At(r, "clear") =>
             req[r].op = "unrevoke" /\ req[r].pc = 3
      /\ K!At(r, "archive") =>
             req[r].op \in {"rotate", "delete"} /\ req[r].pc = 3
<1>1. /\ req[r].op \in KubeOps
      /\ req[r].pc \in 0 .. Len(K!Path[req[r].op])
  BY DEF KubeReqTyped, KubeRequest
<1>2. CASE req[r].op = "create"
  BY <1>1, <1>2, PathCreate DEF K!At
<1>3. CASE req[r].op = "revoke"
  BY <1>1, <1>3, PathRevoke DEF K!At
<1>4. CASE req[r].op = "unrevoke"
  BY <1>1, <1>4, PathUnrevoke DEF K!At
<1>5. CASE req[r].op = "rotate"
  BY <1>1, <1>5, PathRotate DEF K!At
<1>6. CASE req[r].op = "delete"
  BY <1>1, <1>6, PathDelete DEF K!At
<1>7. CASE req[r].op = "renew"
  BY <1>1, <1>7, PathRenew DEF K!At
<1>8. CASE req[r].op = "saveCcd"
  BY <1>1, <1>8, PathSaveCcd DEF K!At
<1>9. CASE req[r].op = "run"
  BY <1>1, <1>9, PathRun DEF K!At
<1> QED
  BY <1>1, <1>2, <1>3, <1>4, <1>5, <1>6, <1>7, <1>8, <1>9 DEF KubeOps

\* No path is empty.
LEMMA Lengths ==
    \A op \in KubeOps : Len(K!Path[op]) \in Nat /\ Len(K!Path[op]) > 0
<1>1. \A op \in KubeOps : Len(K!Path[op]) \in {3, 5, 9, 10, 11, 13, 21}
  BY PathCreate, PathRevoke, PathUnrevoke, PathRotate, PathDelete, PathRenew, PathSaveCcd,
     PathRun DEF KubeOps
<1>2. \A n \in {3, 5, 9, 10, 11, 13, 21} : n \in Nat /\ n > 0
  OBVIOUS
<1> QED
  BY <1>1, <1>2

-----------------------------------------------------------------------------
(* Types are kept *)

LEMMA KubeIdle ==
    /\ K!Idle \in KubeRequest
    /\ CalledWith(K!Idle)
    /\ K!Idle.pc = 0 /\ K!Idle.op = "renew" /\ K!Idle.crl = {}
    /\ K!NoSecret \in K!Secret
    /\ K!NoIndex \in [K!Serials -> KubeRow]
<1>1. K!NoSecret \in K!Secret
  BY DEF K!NoSecret, K!Secret
<1>2. K!NoIndex \in [K!Serials -> KubeRow]
  BY DEF K!NoIndex, KubeRow
<1>3. 0 \in 0 .. MaxSerials
  BY VpnUsersAssumption
<1> QED
  BY <1>1, <1>2, <1>3 DEF K!Idle, KubeRequest, KubeOps, CalledWith

LEMMA KubeIdled ==
    ASSUME KubeReqTyped, NEW r \in K!Reqs, req' = [req EXCEPT ![r] = K!Idle]
    PROVE  KubeReqTyped'
<1>1. req' \in [K!Reqs -> KubeRequest]
  BY KubeIdle DEF KubeReqTyped
<1>2. 0 \in 0 .. Len(K!Path["renew"])
  BY PathRenew
<1>3. \A o \in K!Reqs : req'[o] = (IF o = r THEN K!Idle ELSE req[o])
  BY DEF KubeReqTyped
<1> QED
  BY <1>1, <1>2, <1>3, KubeIdle DEF KubeReqTyped, CalledWith

LEMMA KubeReport ==
    ASSUME KubeReqTyped, KubeRestTyped, NEW r \in K!Reqs, NEW e \in KubeRequest,
           CalledWith(e), K!Report(r, e)
    PROVE  KubeReqTyped' /\ KubeRestTyped'
<1>1. KubeReqTyped'
  BY KubeIdled DEF K!Report
<1>2. good' \subseteq Users /\ up' \in BOOLEAN
  BY DEF K!Report, KubeRestTyped, CalledWith
<1>3. saved' \in [Users -> Ccds \cup {"none"}]
  <2>1. e.keep \in Ccds \cup {"none"}
    BY DEF KubeRequest
  <2>2. CASE e.op = "saveCcd"
    BY <2>2 DEF K!Report, KubeRestTyped, CalledWith
  <2>3. CASE e.op = "rotate"
    BY <2>1, <2>3 DEF K!Report, KubeRestTyped, CalledWith
  <2> QED
    BY <2>2, <2>3 DEF K!Report, KubeRestTyped
<1> QED
  BY <1>1, <1>2, <1>3 DEF KubeRestTyped

LEMMA KubeMoved ==
    ASSUME NEW e \in KubeRequest
    PROVE  LET f == [e EXCEPT !.pc = @ + 1] IN
           /\ f \in KubeRequest
           /\ f.pc = e.pc + 1
           /\ f.op = e.op /\ f.user = e.user /\ f.ccd = e.ccd
           /\ f.serial = e.serial /\ f.old = e.old /\ f.copy = e.copy /\ f.crl = e.crl
           /\ f.alone = e.alone /\ f.keep = e.keep /\ f.index = e.index
<1> DEFINE f == [e EXCEPT !.pc = @ + 1]
<1>0. e.pc \in Nat
  BY DEF KubeRequest
<1>1. e.pc + 1 \in Nat
  BY <1>0
<1>2. f.pc = e.pc + 1
  BY DEF KubeRequest
<1>3. f \in KubeRequest
  BY <1>1 DEF KubeRequest
<1>4. /\ f.op = e.op /\ f.user = e.user /\ f.ccd = e.ccd
      /\ f.serial = e.serial /\ f.old = e.old /\ f.copy = e.copy /\ f.crl = e.crl
  BY DEF KubeRequest
<1> QED
  BY <1>2, <1>3, <1>4

LEMMA KubeContinue ==
    ASSUME KubeReqTyped, KubeRestTyped, NEW r \in K!Reqs, NEW e \in KubeRequest,
           CalledWith(e), e.pc \in 0 .. Len(K!Path[e.op]), K!Continue(r, e)
    PROVE  KubeReqTyped' /\ KubeRestTyped'
<1>1. CASE e.pc = Len(K!Path[e.op])
  BY <1>1, KubeReport DEF K!Continue
<1>2. CASE e.pc # Len(K!Path[e.op])
  <2> DEFINE f == [e EXCEPT !.pc = @ + 1]
  <2>1. req' = [req EXCEPT ![r] = f] /\ UNCHANGED <<up, out, good, saved>>
    BY <1>2 DEF K!Continue, K!history
  <2>2. f \in KubeRequest /\ f.op = e.op /\ f.user = e.user /\ f.ccd = e.ccd /\ f.pc = e.pc + 1
    BY KubeMoved
  <2>3. Len(K!Path[e.op]) \in Nat
    BY Lengths DEF KubeRequest
  <2>4. f.pc \in 0 .. Len(K!Path[f.op]) /\ CalledWith(f)
    BY <1>2, <2>2, <2>3 DEF CalledWith
  <2> HIDE DEF f
  <2>5. \A o \in K!Reqs : req'[o] = (IF o = r THEN f ELSE req[o])
    BY <2>1 DEF KubeReqTyped
  <2>6. req' \in [K!Reqs -> KubeRequest]
    BY <2>1, <2>2 DEF KubeReqTyped
  <2>7. KubeReqTyped'
    BY <2>4, <2>5, <2>6 DEF KubeReqTyped, CalledWith
  <2> QED
    BY <2>1, <2>7 DEF KubeRestTyped
<1> QED
  BY <1>1, <1>2

LEMMA KubeOwn ==
    ASSUME KubeReqTyped, NEW r \in K!Reqs
    PROVE  /\ req[r] \in KubeRequest
           /\ CalledWith(req[r])
           /\ req[r].pc \in 0 .. Len(K!Path[req[r].op])
  BY DEF KubeReqTyped

LEMMA AllIdle ==
    ASSUME req' = [o \in K!Reqs |-> K!Idle]
    PROVE  KubeReqTyped'
<1>1. 0 \in 0 .. Len(K!Path["renew"])
  BY PathRenew
<1>2. \A o \in K!Reqs : req'[o] = K!Idle
  OBVIOUS
<1> QED
  BY <1>1, <1>2, KubeIdle DEF KubeReqTyped, CalledWith

LEMMA KubeFailed ==
    ASSUME KubeReqTyped, KubeRestTyped, NEW r \in K!Reqs, K!Failed(r)
    PROVE  KubeReqTyped' /\ KubeRestTyped'
<1>1. CASE K!Report(r, req[r])
  BY <1>1, KubeOwn, KubeReport
<1>2. CASE K!Abort(r)
  BY <1>2, KubeIdled DEF K!Abort, KubeRestTyped, K!history
<1>3. CASE up' = FALSE /\ req' = [o \in K!Reqs |-> K!Idle] /\ UNCHANGED K!history
  BY <1>3, AllIdle DEF KubeRestTyped, K!history
<1> QED
  BY <1>1, <1>2, <1>3 DEF K!Failed

LEMMA KubeCounts ==
    ASSUME KubeCounted, K!Fault \/ UNCHANGED K!counters
    PROVE  KubeCounted'
  BY VpnUsersAssumption DEF KubeCounted, K!Fault, K!counters

\* A call ends: the request goes on with what it learned, or fails.
LEMMA KubeEnds ==
    ASSUME KubeTyped, NEW r \in K!Reqs, NEW e \in KubeRequest, CalledWith(e),
           e.pc \in 0 .. Len(K!Path[e.op]),
           K!Continue(r, e) \/ K!Failed(r),
           K!Fault \/ UNCHANGED K!counters
    PROVE  KubeReqTyped' /\ KubeRestTyped' /\ KubeCounted'
  BY KubeContinue, KubeFailed, KubeCounts DEF KubeTyped

LEMMA KubeEndsOwn ==
    ASSUME KubeTyped, NEW r \in K!Reqs, K!Continue(r, req[r]) \/ K!Failed(r),
           K!Fault \/ UNCHANGED K!counters
    PROVE  KubeReqTyped' /\ KubeRestTyped' /\ KubeCounted'
<1>1. /\ req[r] \in KubeRequest /\ CalledWith(req[r])
      /\ req[r].pc \in 0 .. Len(K!Path[req[r].op])
  BY KubeOwn DEF KubeTyped
<1> QED
  BY <1>1, KubeEnds

LEMMA KubeSame ==
    ASSUME KubeStoreTyped, UNCHANGED K!store, RevokedCerts' \subseteq K!Serials
    PROVE  KubeStoreTyped'
  BY DEF KubeStoreTyped, K!store

LEMMA KubeSerials == \A s \in K!Serials : s \in Nat /\ s > 0 /\ s \in 0 .. MaxSerials
  BY VpnUsersAssumption DEF K!Serials

\* The secret that an update makes.
LEMMA KubeNewSecret ==
    ASSUME NEW c \in K!Secret
    PROVE  /\ [c EXCEPT !.version = @ + 1] \in K!Secret
           /\ [c EXCEPT !.version = @ + 1].version = c.version + 1
           /\ [c EXCEPT !.version = @ + 1].name = c.name
           /\ [c EXCEPT !.version = @ + 1].revokedAt = c.revokedAt
           /\ c.version \in Nat
<1>1. c.version \in Nat
  BY DEF K!Secret
<1>2. c.version + 1 \in Nat
  BY <1>1
<1> QED
  BY <1>1, <1>2 DEF K!Secret

LEMMA KubeUpdate ==
    ASSUME KubeTyped, NEW r \in K!Reqs, NEW new \in K!Secret, K!Update(r, new)
    PROVE  KubeTyped'
<1> DEFINE put == [new EXCEPT !.version = @ + 1]
<1>1. put \in K!Secret
  BY KubeNewSecret
<1> HIDE DEF put
<1>2. /\ K!Continue(r, req[r]) \/ K!Failed(r)
      /\ K!Fault \/ UNCHANGED K!counters
      /\ secrets' \in {secrets, [secrets EXCEPT ![req[r].serial] = put]}
      /\ UNCHANGED <<idxSecret, idxDisk, crlSecret, crlDisk, RevokedCerts>>
  BY DEF K!Update, K!Writes, K!Refused, K!store, put
<1>3. KubeStoreTyped'
  BY <1>1, <1>2 DEF KubeTyped, KubeStoreTyped
<1> QED
  BY <1>2, <1>3, KubeEndsOwn DEF KubeTyped

LEMMA KubeSecretStep ==
    ASSUME KubeTyped, NEW r \in K!Reqs,
           K!Stamp(r) \/ K!Clear(r) \/ K!Archive(r) \/ K!PutCcd(r)
    PROVE  KubeTyped'
<1> DEFINE c == req[r].copy
<1>1. c \in K!Secret /\ req[r].ccd \in Ccds \cup {"clean", "none"}
  BY KubeOwn DEF KubeTyped, KubeRequest
<1>2. /\ [c EXCEPT !.revokedAt = TRUE] \in K!Secret
      /\ [c EXCEPT !.revokedAt = FALSE] \in K!Secret
      /\ [c EXCEPT !.name = K!Archived, !.revokedAt = TRUE] \in K!Secret
      /\ [c EXCEPT !.ccd = req[r].ccd] \in K!Secret
  BY <1>1 DEF K!Secret
<1>3. CASE K!Continue(r, req[r]) /\ UNCHANGED <<K!store, RevokedCerts, K!counters>>
  BY <1>3, KubeEndsOwn, KubeSame DEF KubeTyped, KubeStoreTyped
<1> QED
  BY <1>2, <1>3, KubeUpdate DEF K!Stamp, K!Clear, K!Archive, K!PutCcd

LEMMA KubeReadStep ==
    ASSUME KubeTyped, NEW r \in K!Reqs,
           \/ K!Check(r) \/ K!Get(r) \/ K!Absent(r) \/ K!CcdDisk(r) \/ K!ListIndex(r)
           \/ K!ListRevoked(r) \/ K!Verify(r) \/ K!AnswerDone(r)
    PROVE  KubeTyped'
<1>0. /\ req[r] \in KubeRequest /\ CalledWith(req[r])
      /\ req[r].pc \in 0 .. Len(K!Path[req[r].op])
  BY KubeOwn DEF KubeTyped
<1>1. CASE K!Check(r) \/ K!Absent(r) \/ K!CcdDisk(r) \/ K!Verify(r) \/ K!AnswerDone(r)
  <2>1. /\ K!Continue(r, req[r]) \/ K!Failed(r)
        /\ K!Fault \/ UNCHANGED K!counters
        /\ UNCHANGED K!store /\ UNCHANGED RevokedCerts
    BY <1>1 DEF K!Check, K!Absent, K!CcdDisk, K!Verify, K!AnswerDone, K!Reads, K!Refused
  <2> QED
    BY <2>1, KubeEndsOwn, KubeSame DEF KubeTyped, KubeStoreTyped
<1>2. CASE K!Get(r)
  <2>1. CASE K!Refused(r) /\ UNCHANGED RevokedCerts
    BY <2>1, KubeEndsOwn, KubeSame DEF KubeTyped, KubeStoreTyped, K!Refused
  <2>2. ASSUME NEW s \in K!Serials, K!Reads(r, [req[r] EXCEPT !.serial = s, !.copy = secrets[s]]),
               UNCHANGED RevokedCerts
        PROVE  KubeTyped'
    <3> DEFINE e == [req[r] EXCEPT !.serial = s, !.copy = secrets[s]]
    <3>1. secrets[s] \in K!Secret
      BY DEF KubeTyped, KubeStoreTyped
    <3>2. e \in KubeRequest
      BY <1>0, <3>1, KubeSerials DEF KubeRequest
    <3>3. e.op = req[r].op /\ e.pc = req[r].pc /\ e.user = req[r].user /\ e.ccd = req[r].ccd
      BY <1>0 DEF KubeRequest
    <3>4. CalledWith(e) /\ e.pc \in 0 .. Len(K!Path[e.op])
      BY <1>0, <3>3 DEF CalledWith
    <3>5. /\ K!Continue(r, e) \/ K!Failed(r)
          /\ K!Fault \/ UNCHANGED K!counters
          /\ UNCHANGED K!store
      BY <2>2 DEF K!Reads
    <3> HIDE DEF e
    <3> QED
      BY <2>2, <3>2, <3>4, <3>5, KubeEnds, KubeSame DEF KubeTyped, KubeStoreTyped
  <2> QED
    BY <1>2, <2>1, <2>2 DEF K!Get, K!Named
<1>3. CASE K!ListIndex(r)
  <2> DEFINE e == [req[r] EXCEPT !.index = K!IndexTxt]
  <2>1. K!IndexTxt \in [K!Serials -> KubeRow]
    BY DEF K!IndexTxt, KubeRow, KubeTyped, KubeStoreTyped, K!Secret
  <2>2. e \in KubeRequest
    BY <1>0, <2>1 DEF KubeRequest
  <2>3. e.op = req[r].op /\ e.pc = req[r].pc /\ e.user = req[r].user /\ e.ccd = req[r].ccd
    BY <1>0 DEF KubeRequest
  <2>4. CalledWith(e) /\ e.pc \in 0 .. Len(K!Path[e.op])
    BY <1>0, <2>3 DEF CalledWith
  <2>5. /\ K!Continue(r, e) \/ K!Failed(r)
        /\ K!Fault \/ UNCHANGED K!counters
        /\ UNCHANGED K!store /\ UNCHANGED RevokedCerts
    BY <1>3 DEF K!ListIndex, K!Reads
  <2> HIDE DEF e
  <2> QED
    BY <2>2, <2>4, <2>5, KubeEnds, KubeSame DEF KubeTyped, KubeStoreTyped
<1>4. CASE K!ListRevoked(r)
  <2> DEFINE e == [req[r] EXCEPT !.crl = K!Revoked]
  <2>1. K!Revoked \subseteq K!Serials
    BY DEF K!Revoked
  <2>2. e \in KubeRequest
    BY <1>0, <2>1 DEF KubeRequest
  <2>3. e.op = req[r].op /\ e.pc = req[r].pc /\ e.user = req[r].user /\ e.ccd = req[r].ccd
    BY <1>0 DEF KubeRequest
  <2>4. CalledWith(e) /\ e.pc \in 0 .. Len(K!Path[e.op])
    BY <1>0, <2>3 DEF CalledWith
  <2>5. /\ K!Continue(r, e) \/ K!Failed(r)
        /\ K!Fault \/ UNCHANGED K!counters
        /\ UNCHANGED K!store /\ RevokedCerts' \in {RevokedCerts, K!Revoked}
    BY <1>4 DEF K!ListRevoked
  <2> HIDE DEF e
  <2> QED
    BY <2>1, <2>2, <2>4, <2>5, KubeEnds, KubeSame DEF KubeTyped, KubeStoreTyped
<1> QED
  BY <1>1, <1>2, <1>3, <1>4

LEMMA KubePutStep ==
    ASSUME KubeTyped, NEW r \in K!Reqs,
           K!PutIndex(r) \/ K!IndexDisk(r) \/ K!PutCrl(r) \/ K!CrlDisk(r) \/ K!Create(r)
    PROVE  KubeTyped'
<1>0. /\ req[r].index \in [K!Serials -> KubeRow] /\ req[r].crl \subseteq K!Serials
      /\ K!At(r, "create") => req[r].user \in Users
  BY KubeOwn, Places DEF KubeTyped, KubeRequest, CalledWith
<1>1. /\ K!Continue(r, req[r]) \/ K!Failed(r)
      /\ K!Fault \/ UNCHANGED K!counters
  BY DEF K!PutIndex, K!IndexDisk, K!PutCrl, K!CrlDisk, K!Create, K!Writes
<1>2. ASSUME K!PutIndex(r) \/ K!IndexDisk(r) \/ K!PutCrl(r) \/ K!CrlDisk(r)
      PROVE  KubeStoreTyped'
  BY <1>0, <1>2 DEF KubeTyped, KubeStoreTyped, K!PutIndex, K!IndexDisk, K!PutCrl, K!CrlDisk, K!Writes
<1>3. ASSUME K!Create(r)
      PROVE  KubeStoreTyped'
  <2> DEFINE made == [K!NoSecret EXCEPT !.name = req[r].user, !.version = 1]
  <2>1. made \in K!Secret
    BY <1>0, <1>3 DEF K!Create, K!NoSecret, K!Secret
  <2>2. PICK s \in K!Serials : K!Writes(r, secrets, [secrets EXCEPT ![s] = made])
    BY <1>3 DEF K!Create
  <2>3. secrets' \in {secrets, [secrets EXCEPT ![s] = made]}
    BY <2>2 DEF K!Writes
  <2> HIDE DEF made
  <2>4. secrets' \in [K!Serials -> K!Secret]
    BY <2>1, <2>3 DEF KubeTyped, KubeStoreTyped
  <2> QED
    BY <1>3, <2>4 DEF K!Create, KubeTyped, KubeStoreTyped
<1> QED
  BY <1>1, <1>2, <1>3, KubeEndsOwn DEF KubeTyped

\* Only a rotation finds nothing to transfer.
LEMMA SkipsInRotation ==
    ASSUME KubeNames, KubeReqTyped, NEW r \in K!Reqs, K!At(r, "getCcd"),
           K!Transferred(req[r], req[r].copy) = "none"
    PROVE  req[r].op = "rotate" /\ req[r].pc = 9
<1>1. req[r].op \in {"create", "saveCcd"} => req[r].ccd # "none"
  BY KubeOwn DEF CalledWith, KubeNames
<1> QED
  BY <1>1, Places DEF K!Transferred

\* What the request is when nothing is transferred.
Skipped(q) == [q EXCEPT !.pc = 12, !.old = q.serial]

LEMMA SkippedFields ==
    ASSUME NEW q \in KubeRequest
    PROVE  /\ Skipped(q) \in KubeRequest
           /\ Skipped(q).pc = 12 /\ Skipped(q).old = q.serial /\ Skipped(q).op = q.op
           /\ Skipped(q).user = q.user /\ Skipped(q).ccd = q.ccd /\ Skipped(q).crl = q.crl
           /\ Skipped(q).serial = q.serial /\ Skipped(q).alone = q.alone
           /\ Skipped(q).keep = q.keep
<1>1. 12 \in Nat
  OBVIOUS
<1> QED
  BY <1>1 DEF KubeRequest, Skipped

LEMMA KubeSkips ==
    ASSUME KubeNames, KubeReqTyped, NEW r \in K!Reqs, K!GetCcd(r),
           K!Transferred(req[r], req[r].copy) = "none"
    PROVE  /\ req' = [req EXCEPT ![r] = Skipped(req[r])]
           /\ UNCHANGED <<K!store, RevokedCerts, up, K!counters, K!history>>
           /\ req[r].op = "rotate" /\ req[r].pc = 9
<1>1. K!At(r, "getCcd")
  BY DEF K!GetCcd
<1>2. req[r].op = "rotate" /\ req[r].pc = 9
  BY <1>1, SkipsInRotation
<1>3. Len(K!SaveCcd) = 3
  BY DEF K!SaveCcd
<1>4. req[r].pc + Len(K!SaveCcd) = 12
  BY <1>2, <1>3
<1>5. /\ req' = [req EXCEPT ![r].pc = @ + Len(K!SaveCcd), ![r].old = req[r].serial]
      /\ UNCHANGED <<K!store, RevokedCerts, up, K!counters, K!history>>
  BY DEF K!GetCcd
<1>6. req' = [req EXCEPT ![r] = Skipped(req[r])]
  BY <1>4, <1>5 DEF KubeReqTyped, KubeRequest, Skipped
<1> QED
  BY <1>2, <1>5, <1>6

\* What SaveCcd knows after it has read the secret s of the user.
Fetched(q, s) ==
    [q EXCEPT !.old = q.serial, !.serial = s, !.copy = secrets[s],
              !.ccd = K!Transferred(q, q.copy)]

LEMMA FetchedFields ==
    ASSUME KubeStoreTyped, NEW q \in KubeRequest, CalledWith(q), NEW s \in K!Serials,
           q.op \in {"create", "rotate", "saveCcd"}
    PROVE  /\ Fetched(q, s) \in KubeRequest
           /\ CalledWith(Fetched(q, s))
           /\ Fetched(q, s).op = q.op /\ Fetched(q, s).pc = q.pc
           /\ Fetched(q, s).user = q.user /\ Fetched(q, s).crl = q.crl
           /\ Fetched(q, s).old = q.serial /\ Fetched(q, s).serial = s
           /\ Fetched(q, s).copy = secrets[s] /\ Fetched(q, s).alone = q.alone
           /\ Fetched(q, s).keep = q.keep /\ Fetched(q, s).ccd = K!Transferred(q, q.copy)
<1>1. secrets[s] \in K!Secret /\ s \in 0 .. MaxSerials
  BY KubeSerials DEF KubeStoreTyped
<1>2. K!Transferred(q, q.copy) \in Ccds \cup {"clean", "none"}
  BY DEF K!Transferred, KubeRequest, K!Secret
<1>3. q.op # "rotate" => K!Transferred(q, q.copy) = q.ccd
  BY DEF K!Transferred
<1>4. Fetched(q, s) \in KubeRequest
  BY <1>1, <1>2 DEF KubeRequest, Fetched
<1>5. /\ Fetched(q, s).op = q.op /\ Fetched(q, s).pc = q.pc
      /\ Fetched(q, s).user = q.user /\ Fetched(q, s).crl = q.crl
      /\ Fetched(q, s).old = q.serial /\ Fetched(q, s).serial = s
      /\ Fetched(q, s).copy = secrets[s] /\ Fetched(q, s).ccd = K!Transferred(q, q.copy)
      /\ Fetched(q, s).alone = q.alone /\ Fetched(q, s).keep = q.keep
  BY DEF KubeRequest, Fetched
<1> QED
  BY <1>3, <1>4, <1>5 DEF CalledWith

\* The other ways of GetCcd.
LEMMA KubeFetches ==
    ASSUME NEW r \in K!Reqs, K!GetCcd(r), K!Transferred(req[r], req[r].copy) # "none"
    PROVE  \/ K!Refused(r) /\ UNCHANGED RevokedCerts
           \/ \E s \in K!Named(req[r].user) :
                  K!Reads(r, Fetched(req[r], s)) /\ UNCHANGED RevokedCerts
  BY DEF K!GetCcd, Fetched

LEMMA KubeGetCcd ==
    ASSUME KubeNames, KubeTyped, NEW r \in K!Reqs, K!GetCcd(r)
    PROVE  KubeTyped'
<1> DEFINE q == req[r]
<1>0. /\ q \in KubeRequest /\ CalledWith(q)
      /\ q.pc \in 0 .. Len(K!Path[q.op])
  BY KubeOwn DEF KubeTyped
<1>1. q.op \in {"create", "rotate", "saveCcd"}
  BY Places DEF K!GetCcd, KubeTyped
<1>2. CASE K!Transferred(q, q.copy) = "none"
  <2>1. /\ req' = [req EXCEPT ![r] = Skipped(q)]
        /\ UNCHANGED <<K!store, RevokedCerts, up, K!counters, K!history>>
        /\ q.op = "rotate" /\ q.pc = 9
    BY <1>2, KubeSkips DEF KubeTyped
  <2>2. \A o \in K!Reqs : req'[o] = (IF o = r THEN Skipped(q) ELSE req[o])
    BY <2>1 DEF KubeTyped, KubeReqTyped
  <2>3. Skipped(q) \in KubeRequest /\ CalledWith(Skipped(q)) /\ Skipped(q).pc = 12 /\ Skipped(q).op = "rotate"
    BY <1>0, <2>1, SkippedFields DEF CalledWith
  <2>4. 12 \in 0 .. Len(K!Path["rotate"])
    BY PathRotate
  <2>5. req' \in [K!Reqs -> KubeRequest]
    BY <2>1, <2>3 DEF KubeTyped, KubeReqTyped
  <2>6. KubeReqTyped'
    BY <2>2, <2>3, <2>4, <2>5 DEF KubeTyped, KubeReqTyped, CalledWith
  <2> QED
    BY <2>1, <2>6, KubeSame, KubeCounts
       DEF KubeTyped, KubeRestTyped, KubeStoreTyped, K!history
<1>3. CASE K!Transferred(q, q.copy) # "none"
  <2>1. CASE K!Refused(r) /\ UNCHANGED RevokedCerts
    BY <2>1, KubeEndsOwn, KubeSame DEF KubeTyped, KubeStoreTyped, K!Refused
  <2>2. ASSUME NEW s \in K!Named(q.user), K!Reads(r, Fetched(q, s)), UNCHANGED RevokedCerts
        PROVE  KubeTyped'
    <3>1. /\ Fetched(q, s) \in KubeRequest /\ CalledWith(Fetched(q, s))
          /\ Fetched(q, s).pc \in 0 .. Len(K!Path[Fetched(q, s).op])
      BY <1>0, <1>1, FetchedFields DEF K!Named, KubeTyped
    <3>2. /\ K!Continue(r, Fetched(q, s)) \/ K!Failed(r)
          /\ K!Fault \/ UNCHANGED K!counters
          /\ UNCHANGED K!store
      BY <2>2 DEF K!Reads
    <3> QED
      BY <2>2, <3>1, <3>2, KubeEnds, KubeSame DEF KubeTyped, KubeStoreTyped
  <2> QED
    BY <1>3, <2>1, <2>2, KubeFetches
<1> QED
  BY <1>2, <1>3

\* A new request, and what it does to the others.
Begun(op, u, c, a, k) ==
    [K!Idle EXCEPT !.op = op, !.user = u, !.pc = 1, !.ccd = c, !.alone = a, !.keep = k]

LEMMA BegunFields ==
    ASSUME NEW op \in KubeOps, NEW u \in Users \cup {"none"}, NEW c \in Ccds \cup {"clean", "none"},
           NEW a \in BOOLEAN, NEW k \in Ccds \cup {"none"}
    PROVE  /\ Begun(op, u, c, a, k) \in KubeRequest
           /\ Begun(op, u, c, a, k).op = op /\ Begun(op, u, c, a, k).user = u
           /\ Begun(op, u, c, a, k).pc = 1 /\ Begun(op, u, c, a, k).ccd = c
           /\ Begun(op, u, c, a, k).crl = {}
           /\ Begun(op, u, c, a, k).alone = a /\ Begun(op, u, c, a, k).keep = k
<1>1. Begun(op, u, c, a, k) \in KubeRequest
  <2>1. 1 \in Nat
    OBVIOUS
  <2> QED
    BY <2>1, KubeIdle DEF KubeRequest, Begun
<1> QED
  BY <1>1, KubeIdle DEF KubeRequest, Begun, K!Idle

LEMMA NotEmpty ==
    \A op \in KubeOps : 1 \in 0 .. Len(K!Path[op])
  BY Lengths

LEMMA Interrupted ==
    ASSUME NEW q \in KubeRequest
    PROVE  LET f == [q EXCEPT !.alone = FALSE] IN
           /\ f \in KubeRequest
           /\ f.op = q.op /\ f.user = q.user /\ f.pc = q.pc /\ f.ccd = q.ccd
           /\ f.serial = q.serial /\ f.old = q.old /\ f.copy = q.copy /\ f.crl = q.crl
           /\ ~f.alone /\ f.keep = q.keep /\ f.index = q.index
  BY DEF KubeRequest

\* The request r of op, and the others as they were except for their mark.
LEMMA KubeStarts ==
    ASSUME KubeTyped, NEW r \in K!Reqs,
           NEW op \in {"create", "revoke", "unrevoke", "rotate", "delete", "saveCcd"},
           NEW u \in Users, NEW c \in Ccds \cup {"clean"}, K!Start(r, op, u, c)
    PROVE  \E a \in BOOLEAN, k \in Ccds \cup {"none"} :
             /\ req' \in [K!Reqs -> KubeRequest]
             /\ req'[r] = Begun(op, u, c, a, k)
             /\ \A o \in K!Reqs \ {r} : req'[o] \in {req[o], [req[o] EXCEPT !.alone = FALSE]}
<1> DEFINE a == ~K!Replacing(u)
           k == IF op = "rotate" THEN saved[u] ELSE "none"
<1>1. a \in BOOLEAN
  BY DEF K!Replacing
<1>2. k \in Ccds \cup {"none"}
  BY DEF KubeTyped, KubeRestTyped
<1>3. req' = [o \in K!Reqs |->
                 IF o = r THEN Begun(op, u, c, a, k)
                 ELSE IF op \in K!WritesCcd /\ req[o].user = u
                 THEN [req[o] EXCEPT !.alone = FALSE]
                 ELSE req[o]]
  BY DEF K!Start, Begun
<1>4. Begun(op, u, c, a, k) \in KubeRequest
  <2>1. op \in KubeOps
    BY DEF KubeOps
  <2> HIDE DEF a, k
  <2> QED
    BY <1>1, <1>2, <2>1, BegunFields
<1> HIDE DEF a, k
<1>5. \A o \in K!Reqs : req[o] \in KubeRequest /\ [req[o] EXCEPT !.alone = FALSE] \in KubeRequest
  BY Interrupted DEF KubeTyped, KubeReqTyped
<1>6. req' \in [K!Reqs -> KubeRequest]
  BY <1>3, <1>4, <1>5
<1>7. /\ req'[r] = Begun(op, u, c, a, k)
      /\ \A o \in K!Reqs \ {r} : req'[o] \in {req[o], [req[o] EXCEPT !.alone = FALSE]}
  BY <1>3
<1> QED
  BY <1>1, <1>2, <1>6, <1>7

LEMMA KubeStart ==
    ASSUME KubeTyped, NEW r \in K!Reqs,
           NEW op \in {"create", "revoke", "unrevoke", "rotate", "delete", "saveCcd"},
           NEW u \in Users, NEW c \in Ccds \cup {"clean"}, K!Start(r, op, u, c)
    PROVE  KubeTyped'
<1>1. PICK a \in BOOLEAN, k \in Ccds \cup {"none"} :
         /\ req' \in [K!Reqs -> KubeRequest]
         /\ req'[r] = Begun(op, u, c, a, k)
         /\ \A o \in K!Reqs \ {r} : req'[o] \in {req[o], [req[o] EXCEPT !.alone = FALSE]}
  BY KubeStarts
<1>2. op \in KubeOps
  BY DEF KubeOps
<1>3. (op = "saveCcd") <=> (c # "clean")
  BY DEF K!Start
<1>4. /\ CalledWith(req'[r])
      /\ req'[r].pc \in 0 .. Len(K!Path[req'[r].op])
  <2>1. req'[r].op = op /\ req'[r].user = u /\ req'[r].pc = 1 /\ req'[r].ccd = c
    <3>1. u \in Users \cup {"none"} /\ c \in Ccds \cup {"clean", "none"}
      OBVIOUS
    <3> QED
      BY <1>1, <1>2, <3>1, BegunFields
  <2>2. CalledWith(req'[r])
    BY <1>3, <2>1 DEF CalledWith
  <2> QED
    BY <1>2, <2>1, <2>2, NotEmpty
<1>5. ASSUME NEW o \in K!Reqs \ {r}
      PROVE  /\ CalledWith(req'[o])
             /\ req'[o].pc \in 0 .. Len(K!Path[req'[o].op])
  <2>1. /\ req[o] \in KubeRequest /\ CalledWith(req[o])
        /\ req[o].pc \in 0 .. Len(K!Path[req[o].op])
    BY KubeOwn DEF KubeTyped
  <2>2. /\ req'[o].op = req[o].op /\ req'[o].user = req[o].user
        /\ req'[o].pc = req[o].pc /\ req'[o].ccd = req[o].ccd
    BY <1>1, <2>1, Interrupted
  <2> QED
    BY <2>1, <2>2 DEF CalledWith
<1>6. KubeReqTyped'
  BY <1>1, <1>4, <1>5 DEF KubeReqTyped, CalledWith
<1>7. KubeRestTyped'
  BY DEF K!Start, KubeTyped, KubeRestTyped
<1>8. KubeCounted'
  <2>1. /\ started < MaxRequests /\ started' = started + 1
        /\ UNCHANGED <<failures, crashes>>
    BY DEF K!Start
  <2>2. started \in 0 .. MaxRequests
    BY DEF KubeTyped, KubeCounted
  <2>3. started' \in 0 .. MaxRequests
    BY <2>1, <2>2, VpnUsersAssumption
  <2> QED
    BY <2>1, <2>3 DEF KubeTyped, KubeCounted
<1>9. KubeStoreTyped'
  BY KubeSame DEF K!Start, KubeTyped, KubeStoreTyped
<1> QED
  BY <1>6, <1>7, <1>8, <1>9 DEF KubeTyped

\* The renewal and the start of the process.
LEMMA KubeBegins ==
    ASSUME KubeTyped, NEW r \in K!Reqs, NEW op \in {"renew", "run"},
           req' = [req EXCEPT ![r] = [K!Idle EXCEPT !.op = op, !.pc = 1]]
    PROVE  /\ KubeReqTyped'
           /\ req'[r].op = op /\ req'[r].pc = 1 /\ req'[r].crl = {}
           /\ \A o \in K!Reqs \ {r} : req'[o] = req[o]
<1> DEFINE f == [K!Idle EXCEPT !.op = op, !.pc = 1]
<1>1. 1 \in Nat /\ op \in KubeOps
  BY DEF KubeOps
<1>2. f \in KubeRequest
  BY <1>1, KubeIdle DEF KubeRequest
<1>3. f.op = op /\ f.pc = 1 /\ f.crl = {}
  BY KubeIdle DEF KubeRequest
<1>4. CalledWith(f) /\ f.pc \in 0 .. Len(K!Path[f.op])
  BY <1>1, <1>3, NotEmpty DEF CalledWith
<1> HIDE DEF f
<1>5. req' \in [K!Reqs -> KubeRequest]
  BY <1>2 DEF KubeTyped, KubeReqTyped, f
<1>6. req'[r] = f /\ \A o \in K!Reqs \ {r} : req'[o] = req[o]
  BY DEF KubeTyped, KubeReqTyped, f
<1>7. KubeReqTyped'
  <2>1. \A o \in K!Reqs : CalledWith(req'[o]) /\ req'[o].pc \in 0 .. Len(K!Path[req'[o].op])
    BY <1>4, <1>6 DEF KubeTyped, KubeReqTyped
  <2> QED
    BY <1>5, <2>1 DEF KubeReqTyped, CalledWith
<1> QED
  BY <1>3, <1>6, <1>7

LEMMA RenewalIsRenew == \A r : K!RenewalTick(r) => req' = [req EXCEPT ![r] = [K!Idle EXCEPT !.op = "renew", !.pc = 1]]
<1>1. [K!Idle EXCEPT !.pc = 1] = [K!Idle EXCEPT !.op = "renew", !.pc = 1]
  BY KubeIdle DEF KubeRequest
<1> QED
  BY <1>1 DEF K!RenewalTick

LEMMA KubeNextTyped ==
    ASSUME KubeNames, KubeTyped, [K!Next]_K!vars
    PROVE  KubeTyped'
<1>1. ASSUME NEW r \in K!Reqs, K!Step(r)
      PROVE  KubeTyped'
  BY <1>1, KubeReadStep, KubeSecretStep, KubePutStep, KubeGetCcd DEF K!Step
<1>2. ASSUME NEW r \in K!Reqs, K!RenewalTick(r)
      PROVE  KubeTyped'
  BY <1>2, RenewalIsRenew, KubeBegins, KubeSame, KubeCounts
     DEF K!RenewalTick, KubeTyped, KubeRestTyped, KubeStoreTyped, K!history
<1>3. ASSUME NEW r \in K!Reqs, K!Boot(r)
      PROVE  KubeTyped'
  BY <1>3, KubeBegins, KubeSame, KubeCounts
     DEF K!Boot, KubeTyped, KubeRestTyped, KubeStoreTyped, K!history
<1>4. CASE K!Crash
  <2>1. KubeReqTyped' /\ KubeRestTyped' /\ KubeStoreTyped'
    BY <1>4, AllIdle, KubeSame DEF K!Crash, KubeTyped, KubeRestTyped, K!history
  <2>2. /\ crashes < MaxCrashes /\ crashes' = crashes + 1
        /\ UNCHANGED <<started, failures>>
    BY <1>4 DEF K!Crash
  <2>3. KubeCounted'
    BY <2>2, VpnUsersAssumption DEF KubeTyped, KubeCounted
  <2> QED
    BY <2>1, <2>3 DEF KubeTyped
<1>5. CASE K!ListUsers
  BY <1>5, KubeCounts
     DEF K!ListUsers, KubeTyped, KubeReqTyped, KubeRestTyped, KubeStoreTyped, K!history, CalledWith
<1>6. CASE UNCHANGED K!vars
  BY <1>6, KubeCounts, KubeSame
     DEF K!vars, K!store, K!counters, K!history, KubeTyped, KubeReqTyped, KubeRestTyped,
         KubeStoreTyped, CalledWith
<1> QED
  BY <1>1, <1>2, <1>3, <1>4, <1>5, <1>6, KubeStart DEF K!Next

LEMMA KubeInitTyped ==
    ASSUME K!Init
    PROVE  KubeTyped
<1>1. KubeReqTyped
  <2>1. 0 \in 0 .. Len(K!Path["renew"])
    BY PathRenew
  <2>2. \A r \in K!Reqs : req[r] = K!Idle
    BY DEF K!Init
  <2>3. req \in [K!Reqs -> KubeRequest]
    BY KubeIdle DEF K!Init
  <2> QED
    BY <2>1, <2>2, <2>3, KubeIdle DEF KubeReqTyped
<1>2. KubeStoreTyped
  BY KubeIdle DEF K!Init, KubeStoreTyped
<1>3. KubeCounted
  <2>1. started = 0 /\ failures = 0 /\ crashes = 0
    BY DEF K!Init
  <2>2. 0 \in 0 .. MaxRequests /\ 0 \in 0 .. MaxFailures /\ 0 \in 0 .. MaxCrashes
    BY VpnUsersAssumption
  <2> QED
    BY <2>1, <2>2 DEF KubeCounted
<1>4. KubeRestTyped
  BY DEF K!Init, KubeRestTyped
<1> QED
  BY <1>1, <1>2, <1>3, <1>4 DEF KubeTyped

-----------------------------------------------------------------------------
(* Secrets and their versions, whoever is at work *)

\* An update of a secret that has changed since it was read is refused: what the
\* request holds is the secret, or an older version of it.
KubeFresh(q) ==
    /\ q.serial \in K!Issued
    /\ q.copy.version <= secrets[q.serial].version
    /\ q.copy.version = secrets[q.serial].version => q.copy = secrets[q.serial]

\* What the request q holds.
KubeHeld(q) ==
    /\ q.op \in {"revoke", "unrevoke", "rotate", "delete"} /\ q.pc = 3 =>
           KubeFresh(q) /\ q.copy.name = q.user
    /\ \/ q.op = "create" /\ q.pc = 8
       \/ q.op = "rotate" /\ q.pc = 10
       \/ q.op = "saveCcd" /\ q.pc = 2
       => KubeFresh(q)
    /\ q.op \in {"revoke", "delete"} /\ q.pc > 2 => q.serial \in K!Issued
    /\ q.op = "rotate" /\ q.pc > 2 /\ q.pc <= 9 => q.serial \in K!Issued
    /\ q.op = "rotate" /\ q.pc > 9 => q.old \in K!Issued
    /\ q.crl \subseteq K!Issued

KubeBase ==
    /\ \A s \in K!Issued : secrets[s].version > 0
    /\ \A s \in K!Serials : secrets[s].name = K!Archived => secrets[s].revokedAt
    /\ crlSecret \subseteq K!Issued
    /\ crlDisk \subseteq K!Issued
    /\ out \subseteq K!Issued
    /\ \A r \in K!Reqs : KubeHeld(req[r])

\* A secret that changes gets a later version, so that none is ever lost.
Grown ==
    \A s \in K!Serials :
        secrets'[s] # secrets[s] => secrets'[s].version > secrets[s].version

LEMMA IssuedKept ==
    ASSUME KubeStoreTyped, KubeStoreTyped', Grown
    PROVE  K!Issued \subseteq K!Issued'
<1> SUFFICES ASSUME NEW s \in K!Issued
             PROVE  s \in K!Issued'
  OBVIOUS
<1>1. /\ s \in K!Serials /\ secrets[s] # K!NoSecret
      /\ secrets[s].version \in Nat /\ secrets'[s].version \in Nat
  BY DEF K!Issued, KubeStoreTyped, K!Secret
<1>2. CASE secrets'[s] = secrets[s]
  BY <1>1, <1>2 DEF K!Issued
<1>3. CASE secrets'[s] # secrets[s]
  <2>1. secrets'[s].version > 0
    BY <1>1, <1>3 DEF Grown
  <2>2. secrets'[s] # K!NoSecret
    BY <2>1 DEF K!NoSecret
  <2> QED
    BY <1>1, <2>2 DEF K!Issued
<1> QED
  BY <1>2, <1>3

LEMMA FreshKept ==
    ASSUME KubeStoreTyped, KubeStoreTyped', Grown, NEW q \in KubeRequest, KubeFresh(q)
    PROVE  KubeFresh(q)'
<1>1. q.serial \in K!Issued'
  BY IssuedKept DEF KubeFresh
<1>2. /\ q.serial \in K!Serials /\ q.copy.version \in Nat
      /\ secrets[q.serial].version \in Nat /\ secrets'[q.serial].version \in Nat
  BY DEF KubeFresh, K!Issued, KubeRequest, K!Secret, KubeStoreTyped
<1> QED
  BY <1>1, <1>2 DEF KubeFresh, Grown

LEMMA HeldKept ==
    ASSUME KubeStoreTyped, KubeStoreTyped', Grown, NEW q \in KubeRequest, KubeHeld(q)
    PROVE  KubeHeld(q)'
  BY IssuedKept, FreshKept DEF KubeHeld

LEMMA IdleHeld == KubeHeld(K!Idle) /\ KubeHeld(K!Idle)'
  BY KubeIdle DEF KubeHeld

\* The request goes on without having learned of a secret.
LEMMA HeldMoved ==
    ASSUME NEW e \in KubeRequest, KubeHeld(e)',
           ~(e.op \in {"revoke", "unrevoke", "rotate", "delete"} /\ e.pc = 2),
           ~(e.op = "create" /\ e.pc = 7), ~(e.op = "rotate" /\ e.pc = 9),
           ~(e.op = "saveCcd" /\ e.pc = 1)
    PROVE  KubeHeld([e EXCEPT !.pc = @ + 1])'
<1> DEFINE f == [e EXCEPT !.pc = @ + 1]
<1>1. /\ f.pc = e.pc + 1 /\ f.op = e.op /\ f.user = e.user /\ f.serial = e.serial
      /\ f.old = e.old /\ f.copy = e.copy /\ f.crl = e.crl /\ e.pc \in Nat
  BY KubeMoved DEF KubeRequest
<1> HIDE DEF f
<1>2. KubeFresh(e)' <=> KubeFresh(f)'
  BY <1>1 DEF KubeFresh
<1> QED
  BY <1>1, <1>2 DEF KubeHeld, f

\* What the end of a call does to the requests and to what was reported.
LEMMA ContinueEffect ==
    ASSUME KubeReqTyped, NEW r \in K!Reqs, NEW e \in KubeRequest, K!Continue(r, e)
    PROVE  /\ \A o \in K!Reqs \ {r} : req'[o] = req[o]
           /\ req'[r] \in {K!Idle, [e EXCEPT !.pc = @ + 1]}
           /\ \/ out' = out
              \/ /\ e.op \in {"revoke", "rotate", "delete"}
                 /\ e.pc = Len(K!Path[e.op])
                 /\ out' = out \cup {K!Withdrawing(e)}
<1>1. CASE e.pc = Len(K!Path[e.op])
  BY <1>1 DEF K!Continue, K!Report, KubeReqTyped
<1>2. CASE e.pc # Len(K!Path[e.op])
  BY <1>2 DEF K!Continue, KubeReqTyped, K!history
<1> QED
  BY <1>1, <1>2

LEMMA FailedEffect ==
    ASSUME KubeReqTyped, NEW r \in K!Reqs, K!Failed(r)
    PROVE  /\ \A o \in K!Reqs : req'[o] \in {req[o], K!Idle}
           /\ req'[r] = K!Idle
           /\ out' = out
<1>1. CASE K!SeedingCcd(r) \/ (req[r].op = "run" /\ K!At(r, "ccdDisk"))
  <2>1. K!Report(r, req[r])
    BY <1>1 DEF K!Failed, K!SeedingCcd
  <2>2. req[r].op \in {"create", "run"}
    BY <1>1 DEF K!SeedingCcd
  <2> QED
    BY <2>1, <2>2 DEF K!Report, KubeReqTyped
<1>2. CASE K!Abort(r)
  BY <1>2 DEF K!Abort, K!history, KubeReqTyped
<1>3. CASE req' = [o \in K!Reqs |-> K!Idle] /\ UNCHANGED K!history
  BY <1>3 DEF K!history
<1> QED
  BY <1>1, <1>2, <1>3 DEF K!Failed

\* The requests when a call of r ends.
LEMMA HeldEnds ==
    ASSUME KubeTyped, KubeTyped', Grown, \A o \in K!Reqs : KubeHeld(req[o]),
           NEW r \in K!Reqs, NEW e \in KubeRequest,
           KubeHeld([e EXCEPT !.pc = @ + 1])',
           K!Continue(r, e) \/ K!Failed(r)
    PROVE  \A o \in K!Reqs : KubeHeld(req[o])'
<1> SUFFICES ASSUME NEW o \in K!Reqs
             PROVE  KubeHeld(req[o])'
  OBVIOUS
<1>1. req[o] \in KubeRequest
  BY KubeOwn DEF KubeTyped
<1>2. \A q \in KubeRequest : KubeHeld(q) => KubeHeld(q)'
  BY HeldKept DEF KubeTyped
<1>3. req'[o] \in {req[o], K!Idle, [e EXCEPT !.pc = @ + 1]}
  BY ContinueEffect, FailedEffect DEF KubeTyped
<1>4. CASE req'[o] = req[o]
  <2>1. PICK q \in KubeRequest : q = req[o]
    BY <1>1
  <2>2. KubeHeld(q)'
    BY <1>2, <2>1
  <2> QED
    BY <1>4, <2>1, <2>2 DEF KubeHeld, KubeFresh
<1>5. CASE req'[o] = K!Idle
  BY <1>5, IdleHeld DEF KubeHeld, KubeFresh
<1>6. CASE req'[o] = [e EXCEPT !.pc = @ + 1]
  BY <1>6 DEF KubeHeld, KubeFresh
<1> QED
  BY <1>3, <1>4, <1>5, <1>6

\* What is reported as withdrawn was signed.
LEMMA OutEnds ==
    ASSUME KubeTyped, KubeTyped', Grown, out \subseteq K!Issued,
           NEW r \in K!Reqs, NEW e \in KubeRequest, KubeHeld(e),
           K!Continue(r, e) \/ K!Failed(r)
    PROVE  out' \subseteq K!Issued'
<1>1. K!Issued \subseteq K!Issued'
  BY IssuedKept DEF KubeTyped
<1>2. \/ out' = out
      \/ /\ e.op \in {"revoke", "rotate", "delete"}
         /\ e.pc = Len(K!Path[e.op])
         /\ out' = out \cup {K!Withdrawing(e)}
  BY ContinueEffect, FailedEffect DEF KubeTyped
<1>3. CASE e.op \in {"revoke", "delete"} /\ e.pc = Len(K!Path[e.op])
  <2>1. e.pc = 13
    BY <1>3, PathRevoke, PathDelete
  <2> QED
    BY <1>1, <1>2, <1>3, <2>1 DEF KubeHeld, K!Withdrawing
<1>4. CASE e.op = "rotate" /\ e.pc = Len(K!Path[e.op])
  BY <1>1, <1>2, <1>4, PathRotate DEF KubeHeld, K!Withdrawing
<1> QED
  BY <1>1, <1>2, <1>3, <1>4

\* A call that leaves the secrets alone.
LEMMA KeptGrown ==
    ASSUME UNCHANGED secrets
    PROVE  Grown /\ K!Issued' = K!Issued /\ K!Revoked' = K!Revoked
  BY DEF Grown, K!Issued, K!Revoked

LEMMA BaseEnds ==
    ASSUME KubeTyped, KubeTyped', KubeBase, UNCHANGED secrets,
           crlSecret' \subseteq K!Issued, crlDisk' \subseteq K!Issued,
           NEW r \in K!Reqs, NEW e \in KubeRequest, KubeHeld(e),
           KubeHeld([e EXCEPT !.pc = @ + 1])',
           K!Continue(r, e) \/ K!Failed(r)
    PROVE  KubeBase'
<1>1. Grown /\ K!Issued' = K!Issued
  BY KeptGrown
<1>2. \A o \in K!Reqs : KubeHeld(req[o])'
  BY <1>1, HeldEnds DEF KubeBase
<1>3. out' \subseteq K!Issued'
  BY <1>1, OutEnds DEF KubeBase
<1> QED
  BY <1>1, <1>2, <1>3 DEF KubeBase

LEMMA KubeCallBase ==
    ASSUME KubeTyped, KubeTyped', KubeBase, NEW r \in K!Reqs,
           \/ K!Check(r) \/ K!Absent(r) \/ K!CcdDisk(r) \/ K!Verify(r) \/ K!AnswerDone(r)
           \/ K!PutIndex(r) \/ K!IndexDisk(r) \/ K!PutCrl(r) \/ K!CrlDisk(r)
    PROVE  KubeBase'
<1>1. PICK q \in KubeRequest : q = req[r]
  BY KubeOwn DEF KubeTyped
<1>2. KubeHeld(q)
  BY <1>1 DEF KubeBase
<1>3. /\ UNCHANGED secrets
      /\ crlSecret' \in {crlSecret, q.crl} /\ crlDisk' \in {crlDisk, crlSecret}
      /\ K!Continue(r, q) \/ K!Failed(r)
  BY <1>1 DEF K!Check, K!Absent, K!CcdDisk, K!Verify, K!AnswerDone, K!Reads, K!Refused,
              K!PutIndex, K!IndexDisk, K!PutCrl, K!CrlDisk, K!Writes, K!store
<1>4. crlSecret' \subseteq K!Issued /\ crlDisk' \subseteq K!Issued
  BY <1>2, <1>3 DEF KubeBase, KubeHeld
<1>5. KubeHeld(q)'
  BY <1>2, <1>3, KeptGrown, HeldKept DEF KubeTyped
<1>6. KubeHeld([q EXCEPT !.pc = @ + 1])'
  <2>1. /\ ~(q.op \in {"revoke", "unrevoke", "rotate", "delete"} /\ q.pc = 2)
        /\ ~(q.op = "create" /\ q.pc = 7) /\ ~(q.op = "rotate" /\ q.pc = 9)
        /\ ~(q.op = "saveCcd" /\ q.pc = 1)
    <3>1. \/ K!At(r, "check") \/ K!At(r, "absent") \/ K!At(r, "ccdDisk") \/ K!At(r, "verify")
          \/ K!At(r, "answer") \/ K!At(r, "putIndex") \/ K!At(r, "indexDisk")
          \/ K!At(r, "putCrl") \/ K!At(r, "crlDisk")
      BY DEF K!Check, K!Absent, K!CcdDisk, K!Verify, K!AnswerDone, K!PutIndex, K!IndexDisk,
             K!PutCrl, K!CrlDisk
    <3> QED
      BY <1>1, <3>1, Places DEF KubeTyped
  <2> QED
    BY <1>5, <2>1, HeldMoved
<1> QED
  BY <1>2, <1>3, <1>4, <1>6, BaseEnds

\* A list is noted in the request.
LEMMA KubeListBase ==
    ASSUME KubeTyped, KubeTyped', KubeBase, NEW r \in K!Reqs,
           K!ListIndex(r) \/ K!ListRevoked(r)
    PROVE  KubeBase'
<1>1. PICK q \in KubeRequest : q = req[r]
  BY KubeOwn DEF KubeTyped
<1>2. KubeHeld(q) /\ K!Revoked \subseteq K!Issued
  BY <1>1 DEF KubeBase, K!Revoked, K!Issued, K!NoSecret
<1>3. PICK e \in KubeRequest :
         /\ K!Continue(r, e) \/ K!Failed(r)
         /\ e.op = q.op /\ e.pc = q.pc /\ e.user = q.user /\ e.serial = q.serial
         /\ e.old = q.old /\ e.copy = q.copy /\ e.crl \in {q.crl, K!Revoked}
  <2>1. CASE K!ListIndex(r)
    <3> DEFINE d == [q EXCEPT !.index = K!IndexTxt]
    <3>1. K!IndexTxt \in [K!Serials -> KubeRow]
      BY DEF K!IndexTxt, KubeRow, KubeTyped, KubeStoreTyped, K!Secret
    <3>2. d \in KubeRequest
      BY <3>1 DEF KubeRequest
    <3>3. /\ d.op = q.op /\ d.pc = q.pc /\ d.user = q.user /\ d.serial = q.serial
          /\ d.old = q.old /\ d.copy = q.copy /\ d.crl = q.crl
      BY DEF KubeRequest
    <3>4. K!Continue(r, d) \/ K!Failed(r)
      BY <1>1, <2>1 DEF K!ListIndex, K!Reads
    <3> QED
      BY <3>2, <3>3, <3>4
  <2>2. CASE K!ListRevoked(r)
    <3> DEFINE d == [q EXCEPT !.crl = K!Revoked]
    <3>1. K!Revoked \subseteq K!Serials
      BY DEF K!Revoked
    <3>2. d \in KubeRequest
      BY <3>1 DEF KubeRequest
    <3>3. /\ d.op = q.op /\ d.pc = q.pc /\ d.user = q.user /\ d.serial = q.serial
          /\ d.old = q.old /\ d.copy = q.copy /\ d.crl = K!Revoked
      BY DEF KubeRequest
    <3>4. K!Continue(r, d) \/ K!Failed(r)
      BY <1>1, <2>2 DEF K!ListRevoked
    <3> QED
      BY <3>2, <3>3, <3>4
  <2> QED
    BY <2>1, <2>2
<1>4. UNCHANGED <<secrets, crlSecret, crlDisk>>
  BY DEF K!ListIndex, K!ListRevoked, K!Reads, K!store
<1>5. KubeHeld(e)
  BY <1>2, <1>3 DEF KubeHeld, KubeFresh
<1>6. KubeHeld(e)'
  BY <1>4, <1>5, KeptGrown, HeldKept DEF KubeTyped
<1>7. KubeHeld([e EXCEPT !.pc = @ + 1])'
  <2>1. /\ ~(q.op \in {"revoke", "unrevoke", "rotate", "delete"} /\ q.pc = 2)
        /\ ~(q.op = "create" /\ q.pc = 7) /\ ~(q.op = "rotate" /\ q.pc = 9)
        /\ ~(q.op = "saveCcd" /\ q.pc = 1)
    BY <1>1, Places DEF KubeTyped, K!ListIndex, K!ListRevoked
  <2> QED
    BY <1>3, <1>6, <2>1, HeldMoved
<1>8. crlSecret' \subseteq K!Issued /\ crlDisk' \subseteq K!Issued
  BY <1>4 DEF KubeBase
<1> QED
  BY <1>3, <1>4, <1>5, <1>7, <1>8, BaseEnds

\* The secret of a user was issued.
LEMMA NamedIssued ==
    ASSUME KubeStoreTyped, NEW u \in Users, NEW s \in K!Named(u)
    PROVE  s \in K!Issued
  BY VpnUsersAssumption DEF K!Named, K!Issued, K!NoSecret

LEMMA FailedBase ==
    ASSUME KubeTyped, KubeTyped', KubeBase, UNCHANGED <<secrets, crlSecret, crlDisk>>,
           NEW r \in K!Reqs, K!Failed(r)
    PROVE  KubeBase'
<1>1. KubeHeld(K!Idle) /\ KubeHeld(K!Idle)' /\ K!Idle \in KubeRequest
  BY IdleHeld, KubeIdle
<1>2. KubeHeld([K!Idle EXCEPT !.pc = @ + 1])'
  BY <1>1, HeldMoved, KubeIdle
<1>3. crlSecret' \subseteq K!Issued /\ crlDisk' \subseteq K!Issued
  BY DEF KubeBase
<1> QED
  BY <1>1, <1>2, <1>3, BaseEnds

LEMMA KubeGetBase ==
    ASSUME KubeTyped, KubeTyped', KubeBase, NEW r \in K!Reqs, K!Get(r)
    PROVE  KubeBase'
<1>1. PICK q \in KubeRequest : q = req[r] /\ CalledWith(q)
  BY KubeOwn DEF KubeTyped
<1>2. /\ q.op \in {"revoke", "unrevoke", "rotate", "delete"} /\ q.pc = 2
      /\ q.user \in Users /\ KubeHeld(q)
  BY <1>1, Places DEF K!Get, KubeTyped, CalledWith, KubeBase
<1>3. /\ UNCHANGED <<secrets, crlSecret, crlDisk>>
      /\ crlSecret' \subseteq K!Issued /\ crlDisk' \subseteq K!Issued
  BY DEF K!Get, K!Reads, K!Refused, K!store, KubeBase
<1>4. CASE K!Failed(r)
  BY <1>3, <1>4, FailedBase
<1>5. ASSUME NEW s \in K!Named(q.user),
             K!Continue(r, [q EXCEPT !.serial = s, !.copy = secrets[s]])
      PROVE  KubeBase'
  <2>0. s \in K!Serials /\ secrets[s] \in K!Secret /\ secrets[s].name = q.user
    BY DEF K!Named, KubeTyped, KubeStoreTyped
  <2> DEFINE d == [q EXCEPT !.serial = s, !.copy = secrets[s]]
  <2>1. d \in KubeRequest
    BY <2>0, KubeSerials DEF KubeRequest
  <2>2. /\ d.op = q.op /\ d.pc = q.pc /\ d.user = q.user /\ d.serial = s
        /\ d.old = q.old /\ d.copy = secrets[s] /\ d.crl = q.crl
    BY DEF KubeRequest
  <2> HIDE DEF d
  <2>3. PICK e \in KubeRequest : e = d
    BY <2>1
  <2>4. s \in K!Issued /\ s \in K!Issued'
    BY <1>2, <1>3, NamedIssued, KeptGrown DEF KubeTyped
  <2>5. KubeHeld(e)
    BY <1>2, <2>2, <2>3, <2>4 DEF KubeHeld
  <2> DEFINE f == [e EXCEPT !.pc = @ + 1]
  <2>6. /\ f.pc = e.pc + 1 /\ f.op = e.op /\ f.user = e.user /\ f.serial = e.serial
        /\ f.old = e.old /\ f.copy = e.copy /\ f.crl = e.crl
    BY KubeMoved
  <2> HIDE DEF f
  <2>7. f.pc = 3 /\ f.op = q.op /\ f.user = q.user /\ f.serial = s /\ f.copy = secrets[s] /\ f.crl = q.crl
    BY <1>2, <2>2, <2>3, <2>6
  <2>8. KubeFresh(f)'
    <3>1. secrets[s].version \in Nat
      BY <2>0 DEF K!Secret
    <3> QED
      BY <1>3, <2>4, <2>7, <3>1 DEF KubeFresh
  <2>9. KubeHeld(f)'
    <3>1. f.crl \subseteq K!Issued'
      BY <1>2, <1>3, <2>7, KeptGrown DEF KubeHeld
    <3> QED
      BY <1>2, <2>0, <2>4, <2>7, <2>8, <3>1 DEF KubeHeld
  <2>10. K!Continue(r, e)
    BY <1>5, <2>3 DEF d
  <2> QED
    BY <1>3, <2>5, <2>9, <2>10, BaseEnds DEF f
<1> QED
  BY <1>1, <1>4, <1>5 DEF K!Get, K!Reads, K!Refused

LEMMA KubeGetCcdBase ==
    ASSUME KubeNames, KubeTyped, KubeTyped', KubeBase, NEW r \in K!Reqs, K!GetCcd(r)
    PROVE  KubeBase'
<1>1. PICK q \in KubeRequest : q = req[r] /\ CalledWith(q)
  BY KubeOwn DEF KubeTyped
<1>2. /\ \/ q.op = "create" /\ q.pc = 7
         \/ q.op = "rotate" /\ q.pc = 9
         \/ q.op = "saveCcd" /\ q.pc = 1
      /\ q.user \in Users /\ KubeHeld(q)
  BY <1>1, Places DEF K!GetCcd, KubeTyped, CalledWith, KubeBase
<1>3. CASE K!Transferred(q, q.copy) = "none"
  <2>1. /\ req' = [req EXCEPT ![r] = Skipped(q)]
        /\ UNCHANGED <<secrets, crlSecret, crlDisk, out>>
        /\ q.op = "rotate" /\ q.pc = 9
    BY <1>1, <1>3, KubeSkips DEF KubeTyped, K!store, K!history
  <2>2. Grown /\ K!Issued' = K!Issued
    BY <2>1, KeptGrown
  <2>3. PICK f \in KubeRequest : f = Skipped(q)
    BY SkippedFields
  <2>4. f.pc = 12 /\ f.old = q.serial /\ f.op = "rotate" /\ f.crl = q.crl
    BY <2>1, <2>3, SkippedFields
  <2>5. KubeHeld(f)'
    BY <1>2, <2>1, <2>2, <2>4 DEF KubeHeld
  <2>6. ASSUME NEW o \in K!Reqs
        PROVE  KubeHeld(req[o])'
    <3>1. CASE o = r
      <4>1. req'[o] = f
        BY <2>1, <2>3, <3>1 DEF KubeTyped, KubeReqTyped
      <4> QED
        BY <2>5, <4>1 DEF KubeHeld, KubeFresh
    <3>2. CASE o # r
      <4>1. PICK p \in KubeRequest : p = req[o]
        BY KubeOwn DEF KubeTyped
      <4>2. req'[o] = p
        BY <2>1, <3>2, <4>1 DEF KubeTyped, KubeReqTyped
      <4>3. KubeHeld(p)'
        BY <2>2, <4>1, HeldKept DEF KubeTyped, KubeBase
      <4> QED
        BY <4>2, <4>3 DEF KubeHeld, KubeFresh
    <3> QED
      BY <3>1, <3>2
  <2> QED
    BY <2>1, <2>2, <2>6 DEF KubeBase
<1>4. ASSUME UNCHANGED <<secrets, crlSecret, crlDisk>>, NEW s \in K!Named(q.user),
             K!Continue(r, Fetched(q, s))
      PROVE  KubeBase'
  <2>0. s \in K!Serials /\ secrets[s] \in K!Secret
    BY DEF K!Named, KubeTyped, KubeStoreTyped
  <2>1. /\ Fetched(q, s) \in KubeRequest
        /\ Fetched(q, s).op = q.op /\ Fetched(q, s).pc = q.pc
        /\ Fetched(q, s).user = q.user /\ Fetched(q, s).crl = q.crl
        /\ Fetched(q, s).old = q.serial /\ Fetched(q, s).serial = s
        /\ Fetched(q, s).copy = secrets[s]
    BY <1>1, <1>2, <2>0, FetchedFields DEF KubeTyped
  <2>2. PICK e \in KubeRequest : e = Fetched(q, s)
    BY <2>1
  <2>3. s \in K!Issued /\ s \in K!Issued' /\ K!Issued' = K!Issued
    BY <1>2, <1>4, NamedIssued, KeptGrown DEF KubeTyped
  <2>4. KubeHeld(e)
    BY <1>2, <2>1, <2>2, <2>3 DEF KubeHeld
  <2> DEFINE f == [e EXCEPT !.pc = @ + 1]
  <2>5. /\ f.pc = e.pc + 1 /\ f.op = e.op /\ f.user = e.user /\ f.serial = e.serial
        /\ f.old = e.old /\ f.copy = e.copy /\ f.crl = e.crl
    BY KubeMoved
  <2> HIDE DEF f
  <2>6. /\ f.pc = q.pc + 1 /\ f.op = q.op /\ f.serial = s /\ f.old = q.serial
        /\ f.copy = secrets[s] /\ f.crl = q.crl
    BY <2>1, <2>2, <2>5
  <2>7. KubeFresh(f)'
    <3>1. secrets[s].version \in Nat
      BY <2>0 DEF K!Secret
    <3> QED
      BY <1>4, <2>3, <2>6, <3>1 DEF KubeFresh
  <2>8. KubeHeld(f)'
    BY <1>2, <2>3, <2>6, <2>7 DEF KubeHeld
  <2>9. K!Continue(r, e)
    BY <1>4, <2>2
  <2>10. crlSecret' \subseteq K!Issued /\ crlDisk' \subseteq K!Issued
    BY <1>4 DEF KubeBase
  <2> QED
    BY <1>4, <2>4, <2>8, <2>9, <2>10, BaseEnds DEF f
<1>5. CASE K!Transferred(q, q.copy) # "none"
  BY <1>1, <1>4, <1>5, KubeFetches, FailedBase DEF K!Reads, K!Refused, K!store
<1> QED
  BY <1>3, <1>5

\* An update of a secret.
LEMMA UpdateEffect ==
    ASSUME KubeTyped, KubeBase, NEW r \in K!Reqs, KubeFresh(req[r]),
           NEW new \in K!Secret, new.version = req[r].copy.version, K!Update(r, new)
    PROVE  /\ UNCHANGED <<crlSecret, crlDisk, RevokedCerts>>
           /\ K!Continue(r, req[r]) \/ K!Failed(r)
           /\ \/ UNCHANGED secrets /\ K!Failed(r)
              \/ /\ req[r].copy = secrets[req[r].serial]
                 /\ secrets' = [secrets EXCEPT ![req[r].serial] = [new EXCEPT !.version = @ + 1]]
<1>1. ~K!Conflict(r) => req[r].copy = secrets[req[r].serial]
  BY DEF K!Conflict, KubeFresh
<1> QED
  BY <1>1 DEF K!Update, K!Writes, K!Refused, K!store

LEMMA UpdateGrown ==
    ASSUME KubeTyped, KubeBase, NEW q \in KubeRequest, q.serial \in K!Issued,
           q.copy = secrets[q.serial],
           NEW new \in K!Secret, new.version = q.copy.version,
           new.name = K!Archived => new.revokedAt,
           secrets' = [secrets EXCEPT ![q.serial] = [new EXCEPT !.version = @ + 1]]
    PROVE  /\ Grown
           /\ K!Issued' = K!Issued
           /\ \A s \in K!Issued : secrets'[s].version > 0
           /\ \A s \in K!Serials : secrets'[s].name = K!Archived => secrets'[s].revokedAt
           /\ \A s \in K!Serials \ {q.serial} : secrets'[s] = secrets[s]
           /\ secrets'[q.serial].name = new.name /\ secrets'[q.serial].revokedAt = new.revokedAt
<1> DEFINE put == [new EXCEPT !.version = @ + 1]
<1>1. /\ put.version = new.version + 1 /\ put.name = new.name /\ put.revokedAt = new.revokedAt
      /\ new.version \in Nat
  BY KubeNewSecret
<1> HIDE DEF put
<1>2. q.serial \in K!Serials /\ secrets[q.serial] # K!NoSecret
  BY DEF K!Issued
<1>3. /\ secrets'[q.serial] = put
      /\ \A s \in K!Serials \ {q.serial} : secrets'[s] = secrets[s]
  BY <1>2 DEF put, KubeTyped, KubeStoreTyped
<1>4. put # K!NoSecret
  BY <1>1 DEF K!NoSecret
<1>5. Grown
  BY <1>1, <1>2, <1>3 DEF Grown
<1>6. K!Issued' = K!Issued
  BY <1>2, <1>3, <1>4 DEF K!Issued
<1>7. \A s \in K!Issued : secrets'[s].version > 0
  BY <1>1, <1>2, <1>3 DEF KubeBase, K!Issued
<1>8. \A s \in K!Serials : secrets'[s].name = K!Archived => secrets'[s].revokedAt
  BY <1>1, <1>3 DEF KubeBase
<1> QED
  BY <1>1, <1>3, <1>5, <1>6, <1>7, <1>8

\* The secret that each update makes of the copy c.
Stamped(c) == [c EXCEPT !.revokedAt = TRUE]
Cleared(c) == [c EXCEPT !.revokedAt = FALSE]
PutAway(c) == [c EXCEPT !.name = K!Archived, !.revokedAt = TRUE]
WithCcd(c, d) == [c EXCEPT !.ccd = d]

LEMMA UpdateFields ==
    ASSUME NEW c \in K!Secret, NEW d \in Ccds \cup {"clean", "none"}
    PROVE  /\ Stamped(c) \in K!Secret /\ Stamped(c).version = c.version
           /\ Stamped(c).name = c.name /\ Stamped(c).revokedAt = TRUE
           /\ Cleared(c) \in K!Secret /\ Cleared(c).version = c.version
           /\ Cleared(c).name = c.name /\ Cleared(c).revokedAt = FALSE
           /\ PutAway(c) \in K!Secret /\ PutAway(c).version = c.version
           /\ PutAway(c).revokedAt = TRUE
           /\ WithCcd(c, d) \in K!Secret /\ WithCcd(c, d).version = c.version
           /\ WithCcd(c, d).name = c.name /\ WithCcd(c, d).revokedAt = c.revokedAt
<1>1. Stamped(c) \in K!Secret /\ Cleared(c) \in K!Secret /\ PutAway(c) \in K!Secret
  BY DEF K!Secret, Stamped, Cleared, PutAway
<1>2. WithCcd(c, d) \in K!Secret
  BY DEF K!Secret, WithCcd
<1> QED
  BY <1>1, <1>2 DEF K!Secret, Stamped, Cleared, PutAway, WithCcd

LEMMA BaseGrown ==
    ASSUME KubeTyped, KubeTyped', KubeBase, Grown, UNCHANGED <<crlSecret, crlDisk>>,
           \A s \in K!Issued' : secrets'[s].version > 0,
           \A s \in K!Serials : secrets'[s].name = K!Archived => secrets'[s].revokedAt,
           NEW r \in K!Reqs, NEW q \in KubeRequest, q = req[r],
           ~(q.op \in {"revoke", "unrevoke", "rotate", "delete"} /\ q.pc = 2),
           ~(q.op = "create" /\ q.pc = 7), ~(q.op = "rotate" /\ q.pc = 9),
           ~(q.op = "saveCcd" /\ q.pc = 1),
           K!Continue(r, q) \/ K!Failed(r)
    PROVE  KubeBase'
<1>1. KubeHeld(q)
  BY DEF KubeBase
<1>2. KubeHeld([q EXCEPT !.pc = @ + 1])'
  BY <1>1, HeldKept, HeldMoved DEF KubeTyped
<1>3. \A o \in K!Reqs : KubeHeld(req[o])'
  BY <1>2, HeldEnds DEF KubeBase
<1>4. out' \subseteq K!Issued'
  BY <1>1, OutEnds DEF KubeBase
<1>5. crlSecret' \subseteq K!Issued' /\ crlDisk' \subseteq K!Issued'
  BY IssuedKept DEF KubeBase, KubeTyped
<1> QED
  BY <1>3, <1>4, <1>5 DEF KubeBase

\* What the calls that update a secret do: nothing (they fail, or a secret is marked
\* already), or the secret the request has read, which has not changed, is replaced.
SecretKept(r, q) ==
    /\ UNCHANGED secrets
    /\ K!Failed(r) \/ (q.op = "revoke" /\ q.pc = 3 /\ q.copy.revokedAt)

SecretReplaced(q) ==
    /\ q.serial \in K!Issued
    /\ q.copy = secrets[q.serial]
    /\ \A s \in K!Serials \ {q.serial} : secrets'[s] = secrets[s]
    /\ \/ /\ q.op = "revoke" /\ q.pc = 3
          /\ secrets'[q.serial].name = q.copy.name
          /\ secrets'[q.serial].revokedAt
       \/ /\ q.op = "unrevoke" /\ q.pc = 3
          /\ secrets'[q.serial].name = q.copy.name
       \/ /\ q.op \in {"rotate", "delete"} /\ q.pc = 3
          /\ secrets'[q.serial].revokedAt
       \/ /\ \/ q.op = "create" /\ q.pc = 8
             \/ q.op = "rotate" /\ q.pc = 10
             \/ q.op = "saveCcd" /\ q.pc = 2
          /\ secrets'[q.serial].name = secrets[q.serial].name
          /\ secrets'[q.serial].revokedAt = secrets[q.serial].revokedAt

LEMMA SecretEffect ==
    ASSUME KubeTyped, KubeBase, NEW r \in K!Reqs, NEW q \in KubeRequest, q = req[r],
           K!Stamp(r) \/ K!Clear(r) \/ K!Archive(r) \/ K!PutCcd(r)
    PROVE  /\ UNCHANGED <<crlSecret, crlDisk, RevokedCerts>>
           /\ K!Continue(r, q) \/ K!Failed(r)
           /\ Grown
           /\ K!Issued' = K!Issued
           /\ \A s \in K!Issued : secrets'[s].version > 0
           /\ \A s \in K!Serials : secrets'[s].name = K!Archived => secrets'[s].revokedAt
           /\ SecretKept(r, q) \/ SecretReplaced(q)
           /\ \/ q.op \in {"revoke", "unrevoke", "rotate", "delete"} /\ q.pc = 3
              \/ q.op = "create" /\ q.pc = 8
              \/ q.op = "rotate" /\ q.pc = 10
              \/ q.op = "saveCcd" /\ q.pc = 2
<1> DEFINE c == q.copy
<1>1. c \in K!Secret /\ q.ccd \in Ccds \cup {"clean", "none"}
  BY DEF KubeRequest
<1>2. KubeHeld(q) /\ (q.op \notin {"renew", "run"} => q.user \in Users)
  BY KubeOwn DEF KubeBase, KubeTyped, CalledWith
<1>3. K!Archived \notin Users
  BY VpnUsersAssumption DEF K!Archived
<1>4. ASSUME UNCHANGED secrets
      PROVE  /\ Grown
             /\ K!Issued' = K!Issued
             /\ \A s \in K!Issued : secrets'[s].version > 0
             /\ \A s \in K!Serials : secrets'[s].name = K!Archived => secrets'[s].revokedAt
  BY <1>4, KeptGrown DEF KubeBase
<1>5. ASSUME KubeFresh(q), NEW new \in K!Secret, new.version = c.version, K!Update(r, new),
             c = secrets[q.serial] => (new.name = K!Archived => new.revokedAt)
      PROVE  /\ UNCHANGED <<crlSecret, crlDisk, RevokedCerts>>
             /\ K!Continue(r, q) \/ K!Failed(r)
             /\ \/ UNCHANGED secrets /\ K!Failed(r)
                \/ /\ q.serial \in K!Issued /\ c = secrets[q.serial]
                   /\ Grown
                   /\ K!Issued' = K!Issued
                   /\ \A s \in K!Issued : secrets'[s].version > 0
                   /\ \A s \in K!Serials : secrets'[s].name = K!Archived => secrets'[s].revokedAt
                   /\ \A s \in K!Serials \ {q.serial} : secrets'[s] = secrets[s]
                   /\ secrets'[q.serial].name = new.name
                   /\ secrets'[q.serial].revokedAt = new.revokedAt
  <2>1. /\ UNCHANGED <<crlSecret, crlDisk, RevokedCerts>>
        /\ K!Continue(r, q) \/ K!Failed(r)
        /\ \/ UNCHANGED secrets /\ K!Failed(r)
           \/ /\ c = secrets[q.serial]
              /\ secrets' = [secrets EXCEPT ![q.serial] = [new EXCEPT !.version = @ + 1]]
    BY <1>5, UpdateEffect
  <2>2. q.serial \in K!Issued
    BY <1>5 DEF KubeFresh
  <2>3. CASE c = secrets[q.serial] /\ secrets' = [secrets EXCEPT ![q.serial] = [new EXCEPT !.version = @ + 1]]
    BY <1>5, <2>1, <2>2, <2>3, UpdateGrown
  <2> QED
    BY <2>1, <2>3
<1>6. CASE K!Stamp(r)
  <2>1. q.op = "revoke" /\ q.pc = 3
    BY <1>6, Places DEF K!Stamp, KubeTyped
  <2>2. CASE c.revokedAt
    BY <1>4, <1>6, <2>1, <2>2 DEF K!Stamp, K!store, SecretKept
  <2>3. CASE ~c.revokedAt
    <3>1. KubeFresh(q) /\ K!Update(r, Stamped(c))
      BY <1>2, <1>6, <2>1, <2>3 DEF K!Stamp, Stamped, KubeHeld
    <3>2. /\ Stamped(c) \in K!Secret /\ Stamped(c).version = c.version
          /\ Stamped(c).name = c.name /\ Stamped(c).revokedAt
      BY <1>1, UpdateFields
    <3> QED
      BY <1>4, <1>5, <2>1, <3>1, <3>2 DEF SecretKept, SecretReplaced
  <2> QED
    BY <2>2, <2>3
<1>7. CASE K!Clear(r)
  <2>1. q.op = "unrevoke" /\ q.pc = 3
    BY <1>7, Places DEF K!Clear, KubeTyped
  <2>2. KubeFresh(q) /\ K!Update(r, Cleared(c)) /\ c.name # K!Archived
    BY <1>2, <1>3, <1>7, <2>1 DEF K!Clear, Cleared, KubeHeld
  <2>3. /\ Cleared(c) \in K!Secret /\ Cleared(c).version = c.version
        /\ Cleared(c).name = c.name
    BY <1>1, UpdateFields
  <2> QED
    BY <1>4, <1>5, <2>1, <2>2, <2>3 DEF SecretKept, SecretReplaced
<1>8. CASE K!Archive(r)
  <2>1. q.op \in {"rotate", "delete"} /\ q.pc = 3
    BY <1>8, Places DEF K!Archive, KubeTyped
  <2>2. KubeFresh(q) /\ K!Update(r, PutAway(c))
    BY <1>2, <1>8, <2>1 DEF K!Archive, PutAway, KubeHeld
  <2>3. PutAway(c) \in K!Secret /\ PutAway(c).version = c.version /\ PutAway(c).revokedAt
    BY <1>1, UpdateFields
  <2> QED
    BY <1>4, <1>5, <2>1, <2>2, <2>3 DEF SecretKept, SecretReplaced
<1>9. CASE K!PutCcd(r)
  <2>1. \/ q.op = "create" /\ q.pc = 8
        \/ q.op = "rotate" /\ q.pc = 10
        \/ q.op = "saveCcd" /\ q.pc = 2
    BY <1>9, Places DEF K!PutCcd, KubeTyped
  <2>2. KubeFresh(q) /\ K!Update(r, WithCcd(c, q.ccd))
    BY <1>2, <1>9, <2>1 DEF K!PutCcd, WithCcd, KubeHeld
  <2>3. /\ WithCcd(c, q.ccd) \in K!Secret /\ WithCcd(c, q.ccd).version = c.version
        /\ WithCcd(c, q.ccd).name = c.name /\ WithCcd(c, q.ccd).revokedAt = c.revokedAt
    BY <1>1, UpdateFields
  <2>4. c = secrets[q.serial] => (c.name = K!Archived => c.revokedAt)
    BY <2>2 DEF KubeBase, KubeFresh, K!Issued
  <2> QED
    BY <1>4, <1>5, <2>1, <2>2, <2>3, <2>4 DEF SecretKept, SecretReplaced
<1> QED
  BY <1>6, <1>7, <1>8, <1>9

LEMMA KubeSecretBase ==
    ASSUME KubeTyped, KubeTyped', KubeBase, NEW r \in K!Reqs,
           K!Stamp(r) \/ K!Clear(r) \/ K!Archive(r) \/ K!PutCcd(r)
    PROVE  KubeBase'
<1>1. PICK q \in KubeRequest : q = req[r]
  BY KubeOwn DEF KubeTyped
<1>2. /\ UNCHANGED <<crlSecret, crlDisk>>
      /\ K!Continue(r, q) \/ K!Failed(r)
      /\ Grown
      /\ \A s \in K!Issued' : secrets'[s].version > 0
      /\ \A s \in K!Serials : secrets'[s].name = K!Archived => secrets'[s].revokedAt
      /\ \/ q.op \in {"revoke", "unrevoke", "rotate", "delete"} /\ q.pc = 3
         \/ q.op = "create" /\ q.pc = 8
         \/ q.op = "rotate" /\ q.pc = 10
         \/ q.op = "saveCcd" /\ q.pc = 2
  BY <1>1, SecretEffect
<1> QED
  BY <1>1, <1>2, BaseGrown

\* A new secret.
LEMMA CreateEffect ==
    ASSUME KubeTyped, KubeBase, NEW r \in K!Reqs, NEW q \in KubeRequest, q = req[r], K!Create(r)
    PROVE  /\ UNCHANGED <<crlSecret, crlDisk, RevokedCerts>>
           /\ K!Continue(r, q) \/ K!Failed(r)
           /\ (q.op = "create" /\ q.pc = 3) \/ (q.op = "rotate" /\ q.pc = 5)
           /\ \/ UNCHANGED secrets
              \/ \E s \in K!Serials \ K!Issued :
                    /\ K!Issued' = K!Issued \cup {s}
                    /\ \A t \in K!Serials \ {s} : secrets'[t] = secrets[t]
                    /\ secrets'[s].version = 1 /\ secrets'[s].name = q.user
                    /\ q.user \in Users /\ ~secrets'[s].revokedAt
<1>1. (q.op = "create" /\ q.pc = 3) \/ (q.op = "rotate" /\ q.pc = 5)
  BY Places DEF K!Create, KubeTyped
<1>2. q.user \in Users
  BY <1>1, KubeOwn DEF KubeTyped, CalledWith
<1> DEFINE made == [K!NoSecret EXCEPT !.name = req[r].user, !.version = 1]
<1>3. PICK s \in K!Serials \ K!Issued : K!Writes(r, secrets, [secrets EXCEPT ![s] = made])
  BY DEF K!Create
<1>4. made.version = 1 /\ made.name = q.user /\ made.revokedAt = FALSE /\ made # K!NoSecret
  <2>1. made.version = 1 /\ made.name = q.user /\ made.revokedAt = FALSE
    BY DEF K!NoSecret
  <2>2. K!NoSecret.version = 0
    BY DEF K!NoSecret
  <2> HIDE DEF made
  <2> QED
    BY <2>1, <2>2
<1>5. /\ secrets' \in {secrets, [secrets EXCEPT ![s] = made]}
      /\ K!Continue(r, q) \/ K!Failed(r)
  BY <1>3 DEF K!Writes
<1> HIDE DEF made
<1>6. UNCHANGED <<crlSecret, crlDisk, RevokedCerts>>
  BY DEF K!Create
<1>7. CASE secrets' = [secrets EXCEPT ![s] = made]
  <2>1. secrets'[s] = made /\ \A t \in K!Serials \ {s} : secrets'[t] = secrets[t]
    BY <1>7 DEF KubeTyped, KubeStoreTyped
  <2>2. K!Issued' = K!Issued \cup {s}
    BY <1>4, <2>1 DEF K!Issued
  <2> QED
    BY <1>1, <1>2, <1>4, <1>5, <1>6, <2>1, <2>2
<1> QED
  BY <1>1, <1>5, <1>6, <1>7

LEMMA KubeCreateBase ==
    ASSUME KubeTyped, KubeTyped', KubeBase, NEW r \in K!Reqs, K!Create(r)
    PROVE  KubeBase'
<1>1. PICK q \in KubeRequest : q = req[r]
  BY KubeOwn DEF KubeTyped
<1>2. /\ UNCHANGED <<crlSecret, crlDisk>>
      /\ K!Continue(r, q) \/ K!Failed(r)
      /\ (q.op = "create" /\ q.pc = 3) \/ (q.op = "rotate" /\ q.pc = 5)
  BY <1>1, CreateEffect
<1>3. /\ Grown
      /\ \A s \in K!Issued' : secrets'[s].version > 0
      /\ \A s \in K!Serials : secrets'[s].name = K!Archived => secrets'[s].revokedAt
  <2>1. CASE UNCHANGED secrets
    BY <2>1, KeptGrown DEF KubeBase
  <2>2. ASSUME NEW s \in K!Serials \ K!Issued,
               K!Issued' = K!Issued \cup {s},
               \A t \in K!Serials \ {s} : secrets'[t] = secrets[t],
               secrets'[s].version = 1, secrets'[s].name \in Users
        PROVE  /\ Grown
               /\ \A t \in K!Issued' : secrets'[t].version > 0
               /\ \A t \in K!Serials : secrets'[t].name = K!Archived => secrets'[t].revokedAt
    <3>1. secrets[s].version = 0
      BY DEF K!Issued, K!NoSecret
    <3>2. Grown
      BY <2>2, <3>1 DEF Grown
    <3>3. \A t \in K!Issued' : secrets'[t].version > 0
      BY <2>2 DEF KubeBase, K!Issued
    <3>4. \A t \in K!Serials : secrets'[t].name = K!Archived => secrets'[t].revokedAt
      BY <2>2, VpnUsersAssumption DEF KubeBase, K!Archived
    <3> QED
      BY <3>2, <3>3, <3>4
  <2> QED
    BY <1>1, <2>1, <2>2, CreateEffect
<1> QED
  BY <1>1, <1>2, <1>3, BaseGrown

\* A new request holds nothing, and the others hold what they held.
LEMMA HeldBegun ==
    ASSUME KubeTyped, KubeTyped', KubeBase, UNCHANGED secrets, NEW r \in K!Reqs,
           req'[r].pc = 1, req'[r].crl = {},
           \A o \in K!Reqs \ {r} : req'[o] \in {req[o], [req[o] EXCEPT !.alone = FALSE]}
    PROVE  \A o \in K!Reqs : KubeHeld(req[o])'
<1>1. KubeHeld(req[r])'
  BY DEF KubeHeld
<1>2. ASSUME NEW o \in K!Reqs \ {r}
      PROVE  KubeHeld(req[o])'
  <2>1. PICK p \in KubeRequest : p = req[o]
    BY KubeOwn DEF KubeTyped
  <2>2. KubeHeld(p)'
    BY <2>1, KeptGrown, HeldKept DEF KubeTyped, KubeBase
  <2>3. /\ req'[o].op = p.op /\ req'[o].user = p.user /\ req'[o].pc = p.pc
        /\ req'[o].serial = p.serial /\ req'[o].old = p.old /\ req'[o].copy = p.copy
        /\ req'[o].crl = p.crl
    BY <2>1, Interrupted
  <2> QED
    BY <2>2, <2>3 DEF KubeHeld, KubeFresh
<1> QED
  BY <1>1, <1>2

LEMMA HeldIdle ==
    ASSUME KubeTyped, KubeTyped', KubeBase, UNCHANGED secrets,
           \A o \in K!Reqs : req'[o] \in {req[o], K!Idle}
    PROVE  \A o \in K!Reqs : KubeHeld(req[o])'
<1> SUFFICES ASSUME NEW o \in K!Reqs
             PROVE  KubeHeld(req[o])'
  OBVIOUS
<1>1. PICK p \in KubeRequest : p = req[o]
  BY KubeOwn DEF KubeTyped
<1>2. KubeHeld(p)'
  BY <1>1, KeptGrown, HeldKept DEF KubeTyped, KubeBase
<1>3. KubeHeld(K!Idle)'
  BY IdleHeld
<1> QED
  BY <1>1, <1>2, <1>3 DEF KubeHeld, KubeFresh

LEMMA KubeNextBase ==
    ASSUME KubeNames, KubeTyped, KubeTyped', KubeBase, [K!Next]_K!vars
    PROVE  KubeBase'
<1>0. ASSUME UNCHANGED <<secrets, crlSecret, crlDisk>>, out' \subseteq out,
             \A o \in K!Reqs : KubeHeld(req[o])'
      PROVE  KubeBase'
  BY <1>0, KeptGrown DEF KubeBase
<1>1. ASSUME NEW r \in K!Reqs, K!Step(r)
      PROVE  KubeBase'
  BY <1>1, KubeCallBase, KubeListBase, KubeGetBase, KubeGetCcdBase, KubeSecretBase,
     KubeCreateBase DEF K!Step
<1>2. ASSUME NEW r \in K!Reqs, K!RenewalTick(r) \/ K!Boot(r)
      PROVE  KubeBase'
  <2>1. /\ req'[r].pc = 1 /\ req'[r].crl = {}
        /\ \A o \in K!Reqs \ {r} : req'[o] = req[o]
    BY <1>2, RenewalIsRenew, KubeBegins DEF K!Boot
  <2>2. UNCHANGED <<secrets, crlSecret, crlDisk, out>>
    BY <1>2 DEF K!RenewalTick, K!Boot, K!store, K!history
  <2> QED
    BY <1>0, <2>1, <2>2, HeldBegun
<1>3. ASSUME NEW r \in K!Reqs,
             NEW op \in {"create", "revoke", "unrevoke", "rotate", "delete", "saveCcd"},
             NEW u \in Users, NEW c \in Ccds \cup {"clean"}, K!Start(r, op, u, c)
      PROVE  KubeBase'
  <2>1. PICK a \in BOOLEAN, k \in Ccds \cup {"none"} :
           /\ req'[r] = Begun(op, u, c, a, k)
           /\ \A o \in K!Reqs \ {r} : req'[o] \in {req[o], [req[o] EXCEPT !.alone = FALSE]}
    BY <1>3, KubeStarts
  <2>2. req'[r].pc = 1 /\ req'[r].crl = {}
    <3>1. op \in KubeOps /\ u \in Users \cup {"none"} /\ c \in Ccds \cup {"clean", "none"}
      BY DEF KubeOps
    <3> QED
      BY <2>1, <3>1, BegunFields
  <2>3. UNCHANGED <<secrets, crlSecret, crlDisk>> /\ out' \subseteq out
    BY <1>3 DEF K!Start, K!store
  <2> QED
    BY <1>0, <2>1, <2>2, <2>3, HeldBegun
<1>4. CASE K!Crash
  <2>1. UNCHANGED <<secrets, crlSecret, crlDisk, out>>
    BY <1>4 DEF K!Crash, K!store, K!history
  <2>2. \A o \in K!Reqs : req'[o] = K!Idle
    BY <1>4 DEF K!Crash
  <2> QED
    BY <1>0, <2>1, <2>2, HeldIdle
<1>5. CASE K!ListUsers \/ UNCHANGED K!vars
  <2>1. UNCHANGED <<secrets, crlSecret, crlDisk, out, req>>
    BY <1>5 DEF K!ListUsers, K!vars, K!store, K!history
  <2> QED
    BY <1>0, <2>1, HeldIdle
<1> QED
  BY <1>1, <1>2, <1>3, <1>4, <1>5 DEF K!Next

LEMMA KubeInitBase ==
    ASSUME K!Init
    PROVE  KubeBase
<1>1. K!Issued = {}
  BY DEF K!Init, K!Issued
<1>2. \A r \in K!Reqs : KubeHeld(req[r])
  BY IdleHeld DEF K!Init
<1>3. \A s \in K!Serials : secrets[s].name # K!Archived
  BY DEF K!Init, K!NoSecret, K!Archived
<1> QED
  BY <1>1, <1>2, <1>3 DEF K!Init, KubeBase

LEMMA KubeAssumed ==
    ASSUME K!KubernetesStoreAssumption
    PROVE  KubeNames
  BY DEF K!KubernetesStoreAssumption, KubeNames

LEMMA KubeBaseInductive ==
    ASSUME KubeNames
    PROVE  K!Spec => [](KubeTyped /\ KubeBase)
<1>1. K!Init => KubeTyped /\ KubeBase
  BY KubeInitTyped, KubeInitBase
<1>2. KubeTyped /\ KubeBase /\ [K!Next]_K!vars => (KubeTyped /\ KubeBase)'
  BY KubeNextTyped, KubeNextBase
<1> QED
  BY <1>1, <1>2, PTL DEF K!Spec

\* Every variable of the Kubernetes store keeps its type, for any users, CCDs,
\* overlapping requests, failing calls and crashes; and a secret that was put away
\* (easyrsaRotate, easyrsaDelete) is revoked for good, although saves of CCDs and
\* other operations update it from copies that they read before.
THEOREM KubernetesTypeCorrect ==
    ASSUME K!KubernetesStoreAssumption
    PROVE  K!Spec => []K!TypeOK
<1>1. KubeTyped /\ KubeBase => K!TypeOK
  <2> SUFFICES ASSUME KubeTyped, KubeBase
               PROVE  K!TypeOK
    OBVIOUS
  <2>1. DOMAIN K!Path = KubeOps
    BY DEF K!Path, KubeOps
  <2>2. \A r \in K!Reqs : /\ req[r].op \in DOMAIN K!Path
                          /\ req[r].pc \in 0 .. Len(K!Path[req[r].op])
                          /\ req[r].serial \in 0 .. MaxSerials /\ req[r].old \in 0 .. MaxSerials
                          /\ req[r].crl \subseteq K!Serials /\ req[r].alone \in BOOLEAN
                          /\ req[r].copy \in K!Secret
    BY <2>1 DEF KubeTyped, KubeReqTyped, KubeRequest
  <2>3. {idxSecret, idxDisk} \subseteq
            [K!Serials -> [name : Users \cup {K!Archived, "none"}, revokedAt : BOOLEAN]]
    BY DEF KubeTyped, KubeStoreTyped, KubeRow
  <2> QED
    BY <2>2, <2>3
       DEF K!TypeOK, KubeTyped, KubeStoreTyped, KubeRestTyped, KubeCounted, KubeBase
<1>2. KubeNames
  BY KubeAssumed
<1> QED
  BY <1>1, <1>2, KubeBaseInductive, PTL

-----------------------------------------------------------------------------
(* One operation on certificates at a time *)

\* What the request q counts on: an unrevoke that what it is about to clear was not
\* reported as withdrawn since; the others that the secret is marked, then listed,
\* then in the CRL secret, then in the CRL on the disk.
KubeCall(q) ==
    /\ q.op = "unrevoke" /\ q.pc \in {1, 2} => out \cap K!Named(q.user) = {}
    /\ q.op = "unrevoke" /\ q.pc = 3 => q.serial \notin out
    /\ q.op = "revoke" /\ q.pc = 3 /\ q.copy.revokedAt => q.serial \in K!Revoked
    /\ q.op \in {"revoke", "delete"} =>
          /\ q.pc > 3 => q.serial \in K!Revoked
          /\ q.pc = 10 => q.serial \in q.crl
          /\ q.pc > 10 => q.serial \in crlSecret
          /\ q.pc > 12 => q.serial \in crlDisk
    /\ q.op = "rotate" =>
          /\ q.pc > 3 /\ q.pc <= 9 => q.serial \in K!Revoked
          /\ q.pc > 9 => q.old \in K!Revoked
          /\ q.pc = 18 => q.old \in q.crl
          /\ q.pc > 18 => q.old \in crlSecret
          /\ q.pc > 20 => q.old \in crlDisk
    /\ \/ q.op \in {"revoke", "delete", "unrevoke"} /\ q.pc = 10
       \/ q.op = "rotate" /\ q.pc = 18
       \/ q.op = "renew" /\ q.pc = 4
       \/ q.op = "run" /\ q.pc = 6
       => out \subseteq q.crl

\* Saves of CCDs have slots of their own.
KubeKind(r) == req[r].pc > 0 => (r \in CcdReqs <=> req[r].op = "saveCcd")

\* What was reported as withdrawn is marked, so that every later list has it, and is
\* in both copies of the CRL.
OutKept ==
    /\ out \subseteq K!Revoked
    /\ out \subseteq crlSecret
    /\ out \subseteq crlDisk

KubeInv ==
    /\ OutKept
    /\ \A r \in K!Reqs : KubeCall(req[r])
    /\ \A r \in K!Reqs : KubeKind(r)

LEMMA NothingToCall ==
    ASSUME NEW q, q.pc = 0 \/ q.op \in {"create", "saveCcd"}
    PROVE  KubeCall(q) /\ KubeCall(q)'
  BY DEF KubeCall

\* Names and marks of the secrets are left alone.
SameMarks ==
    \A s \in K!Serials :
        secrets'[s].name = secrets[s].name /\ secrets'[s].revokedAt = secrets[s].revokedAt

LEMMA MarksKept ==
    ASSUME SameMarks
    PROVE  K!Revoked' = K!Revoked /\ \A u : K!Named(u)' = K!Named(u)
  BY DEF SameMarks, K!Revoked, K!Named

LEMMA CallKept ==
    ASSUME SameMarks, UNCHANGED <<crlSecret, crlDisk, out>>, NEW q, KubeCall(q)
    PROVE  KubeCall(q)'
<1>1. K!Revoked' = K!Revoked /\ K!Named(q.user)' = K!Named(q.user)
  BY MarksKept
<1> QED
  BY <1>1 DEF KubeCall

\* A call without consequences for what the request counts on.
LEMMA CallMoved ==
    ASSUME NEW e \in KubeRequest, KubeCall(e)', e.pc > 0,
           ~(e.op \in {"revoke", "unrevoke"} /\ e.pc = 2),
           ~(e.op \in {"revoke", "rotate", "delete"} /\ e.pc = 3),
           ~(e.op = "rotate" /\ e.pc \in {9, 17, 18, 20}),
           ~(e.op \in {"revoke", "unrevoke", "delete"} /\ e.pc \in {9, 10, 12}),
           ~(e.op = "renew" /\ e.pc = 3), ~(e.op = "run" /\ e.pc = 5)
    PROVE  KubeCall([e EXCEPT !.pc = @ + 1])'
<1> DEFINE f == [e EXCEPT !.pc = @ + 1]
<1>1. /\ f.pc = e.pc + 1 /\ f.op = e.op /\ f.user = e.user /\ f.serial = e.serial
      /\ f.old = e.old /\ f.copy = e.copy /\ f.crl = e.crl /\ e.pc \in Nat
  BY KubeMoved DEF KubeRequest
<1> HIDE DEF f
<1>2. KubeCall(f)'
  <2>1. CASE e.op = "unrevoke"
    BY <1>1, <2>1 DEF KubeCall
  <2>2. CASE e.op = "revoke"
    BY <1>1, <2>2 DEF KubeCall
  <2>3. CASE e.op = "delete"
    BY <1>1, <2>3 DEF KubeCall
  <2>4. CASE e.op = "rotate"
    BY <1>1, <2>4 DEF KubeCall
  <2>5. CASE e.op \in {"renew", "run"}
    BY <1>1, <2>5 DEF KubeCall
  <2> QED
    BY <1>1, <2>1, <2>2, <2>3, <2>4, <2>5 DEF KubeCall
<1> QED
  BY <1>2 DEF f

\* The requests when a call of r ends: the others count on what they counted on.
LEMMA CallEnds ==
    ASSUME KubeTyped, KubeInv, NEW r \in K!Reqs, NEW e \in KubeRequest,
           e.op = req[r].op, e.pc = req[r].pc, e.pc > 0,
           K!Continue(r, e) \/ K!Failed(r),
           req'[r] = [e EXCEPT !.pc = @ + 1] => KubeCall([e EXCEPT !.pc = @ + 1])',
           \A o \in K!Reqs \ {r}, q \in KubeRequest : q = req[o] => KubeCall(q)'
    PROVE  /\ \A o \in K!Reqs : KubeCall(req[o])'
           /\ \A o \in K!Reqs : KubeKind(o)'
<1> DEFINE f == [e EXCEPT !.pc = @ + 1]
<1>1. f \in KubeRequest /\ f.op = e.op /\ f.pc = e.pc + 1
  BY KubeMoved
<1>2. K!Idle.pc = 0 /\ KubeCall(K!Idle)'
  BY KubeIdle, NothingToCall
<1>3. /\ req'[r] \in {K!Idle, f}
      /\ \A o \in K!Reqs \ {r} : req'[o] \in {req[o], K!Idle}
  BY ContinueEffect, FailedEffect DEF KubeTyped
<1> HIDE DEF f
<1>4. ASSUME NEW o \in K!Reqs
      PROVE  KubeCall(req[o])' /\ KubeKind(o)'
  <2>1. CASE req'[o] = K!Idle
    BY <1>2, <2>1 DEF KubeCall, KubeKind
  <2>2. CASE o = r /\ req'[o] = f
    BY <1>1, <2>2 DEF KubeCall, KubeKind, KubeInv, f
  <2>3. CASE o # r /\ req'[o] = req[o]
    <3>1. PICK q \in KubeRequest : q = req[o]
      BY KubeOwn DEF KubeTyped
    <3>2. KubeCall(q)'
      BY <2>3, <3>1
    <3> QED
      BY <2>3, <3>1, <3>2 DEF KubeCall, KubeKind, KubeInv
  <2> QED
    BY <1>3, <2>1, <2>2, <2>3
<1> QED
  BY <1>4

\* While the operation on certificates is at a call, every other request is a save or
\* idle.
LEMMA OthersSave ==
    ASSUME KubeNames, OneCertRequest, KubeTyped, KubeInv, NEW r \in K!Reqs, req[r].pc > 0,
           req[r].op # "saveCcd"
    PROVE  \A o \in K!Reqs \ {r}, q \in KubeRequest : q = req[o] => KubeCall(q) /\ KubeCall(q)'
<1>1. r \in CertReqs
  BY DEF KubeInv, KubeKind, K!Reqs
<1>2. ASSUME NEW o \in K!Reqs \ {r}, NEW q \in KubeRequest, q = req[o]
      PROVE  KubeCall(q) /\ KubeCall(q)'
  <2>1. o \notin CertReqs
    BY <1>1 DEF OneCertRequest
  <2>2. q.pc \in Nat
    BY DEF KubeRequest
  <2>3. q.pc = 0 \/ q.op = "saveCcd"
    BY <1>2, <2>1, <2>2 DEF KubeInv, KubeKind, K!Reqs
  <2> QED
    BY <2>3, NothingToCall
<1> QED
  BY <1>2

\* A call that leaves names, marks and the CRL alone, and does not report.
LEMMA InvEnds ==
    ASSUME KubeTyped, KubeInv, NEW r \in K!Reqs, NEW e \in KubeRequest,
           e.op = req[r].op, e.pc = req[r].pc, e.pc > 0,
           K!Continue(r, e) \/ K!Failed(r),
           SameMarks, UNCHANGED <<crlSecret, crlDisk, out>>,
           req'[r] = [e EXCEPT !.pc = @ + 1] => KubeCall([e EXCEPT !.pc = @ + 1])'
    PROVE  KubeInv'
<1>1. ASSUME NEW o \in K!Reqs \ {r}, NEW q \in KubeRequest, q = req[o]
      PROVE  KubeCall(q)'
  BY <1>1, CallKept DEF KubeInv
<1>2. OutKept'
  BY MarksKept DEF KubeInv, OutKept
<1> QED
  BY <1>1, <1>2, CallEnds DEF KubeInv

\* Only the last call of a revoke, a rotation or a delete reports a withdrawal.
LEMMA NoReport ==
    ASSUME KubeTyped, NEW r \in K!Reqs, NEW e \in KubeRequest,
           e.op = req[r].op, e.pc = req[r].pc, e.pc > 0, ~K!At(r, "answer"),
           K!Continue(r, e) \/ K!Failed(r)
    PROVE  UNCHANGED out
<1>1. \/ out' = out
      \/ e.op \in {"revoke", "rotate", "delete"} /\ e.pc = Len(K!Path[e.op])
  BY ContinueEffect, FailedEffect DEF KubeTyped
<1>2. CASE e.op \in {"revoke", "rotate", "delete"} /\ e.pc = Len(K!Path[e.op])
  <2>1. K!Path[e.op][e.pc] = "answer"
    <3>1. CASE e.op = "revoke"
      BY <1>2, <3>1, PathRevoke
    <3>2. CASE e.op = "rotate"
      BY <1>2, <3>2, PathRotate
    <3>3. CASE e.op = "delete"
      BY <1>2, <3>3, PathDelete
    <3> QED
      BY <1>2, <3>1, <3>2, <3>3
  <2> QED
    BY <2>1 DEF K!At
<1> QED
  BY <1>1, <1>2

LEMMA KeptMarks ==
    ASSUME UNCHANGED secrets
    PROVE  SameMarks
  BY DEF SameMarks

\* Two requests that agree on what matters.
LEMMA CallSame ==
    ASSUME NEW e, NEW q, KubeCall(q),
           e.op = q.op, e.pc = q.pc, e.user = q.user, e.serial = q.serial, e.old = q.old,
           e.copy = q.copy, e.crl = q.crl
    PROVE  KubeCall(e)
  BY DEF KubeCall

LEMMA KubeCallInv ==
    ASSUME KubeTyped, KubeInv, NEW r \in K!Reqs,
           \/ K!Check(r) \/ K!Absent(r) \/ K!CcdDisk(r) \/ K!Verify(r)
           \/ K!PutIndex(r) \/ K!IndexDisk(r) \/ K!ListIndex(r)
    PROVE  KubeInv'
<1>1. PICK q \in KubeRequest : q = req[r]
  BY KubeOwn DEF KubeTyped
<1>2. \/ K!At(r, "check") \/ K!At(r, "absent") \/ K!At(r, "ccdDisk") \/ K!At(r, "verify")
      \/ K!At(r, "putIndex") \/ K!At(r, "indexDisk") \/ K!At(r, "listIndex")
  BY DEF K!Check, K!Absent, K!CcdDisk, K!Verify, K!PutIndex, K!IndexDisk, K!ListIndex
<1>3. ~K!At(r, "answer") /\ q.pc > 0
  BY <1>1, <1>2 DEF K!At
<1>4. /\ ~(q.op \in {"revoke", "unrevoke"} /\ q.pc = 2)
      /\ ~(q.op \in {"revoke", "rotate", "delete"} /\ q.pc = 3)
      /\ ~(q.op = "rotate" /\ q.pc \in {9, 17, 18, 20})
      /\ ~(q.op \in {"revoke", "unrevoke", "delete"} /\ q.pc \in {9, 10, 12})
      /\ ~(q.op = "renew" /\ q.pc = 3) /\ ~(q.op = "run" /\ q.pc = 5)
  BY <1>1, <1>2, Places DEF KubeTyped
<1>5. UNCHANGED <<secrets, crlSecret, crlDisk>>
  BY DEF K!Check, K!Absent, K!CcdDisk, K!Verify, K!Reads, K!Refused, K!PutIndex, K!IndexDisk,
         K!ListIndex, K!Writes, K!store
<1>6. PICK e \in KubeRequest :
         /\ K!Continue(r, e) \/ K!Failed(r)
         /\ e.op = q.op /\ e.pc = q.pc /\ e.user = q.user /\ e.serial = q.serial
         /\ e.old = q.old /\ e.copy = q.copy /\ e.crl = q.crl
  <2>1. CASE K!ListIndex(r)
    <3> DEFINE d == [q EXCEPT !.index = K!IndexTxt]
    <3>1. K!IndexTxt \in [K!Serials -> KubeRow]
      BY DEF K!IndexTxt, KubeRow, KubeTyped, KubeStoreTyped, K!Secret
    <3>2. d \in KubeRequest
      BY <3>1 DEF KubeRequest
    <3>3. /\ d.op = q.op /\ d.pc = q.pc /\ d.user = q.user /\ d.serial = q.serial
          /\ d.old = q.old /\ d.copy = q.copy /\ d.crl = q.crl
      BY DEF KubeRequest
    <3>4. K!Continue(r, d) \/ K!Failed(r)
      BY <1>1, <2>1 DEF K!ListIndex, K!Reads
    <3> QED
      BY <3>2, <3>3, <3>4
  <2>2. CASE ~K!ListIndex(r)
    <3>1. K!Continue(r, q) \/ K!Failed(r)
      BY <1>1, <2>2 DEF K!Check, K!Absent, K!CcdDisk, K!Verify, K!Reads, K!Refused, K!PutIndex,
                        K!IndexDisk, K!Writes
    <3> QED
      BY <3>1
  <2> QED
    BY <2>1, <2>2
<1>7. UNCHANGED out
  BY <1>1, <1>3, <1>6, NoReport
<1>8. KubeCall(e)
  <2>1. KubeCall(q)
    BY <1>1 DEF KubeInv
  <2> QED
    BY <1>6, <2>1, CallSame
<1>9. KubeCall([e EXCEPT !.pc = @ + 1])'
  <2>1. KubeCall(e)'
    BY <1>5, <1>7, <1>8, KeptMarks, CallKept
  <2> QED
    BY <1>3, <1>4, <1>6, <2>1, CallMoved
<1> QED
  BY <1>1, <1>3, <1>5, <1>6, <1>7, <1>9, KeptMarks, InvEnds

\* A call that fails and has no effect.
LEMMA FailedInv ==
    ASSUME KubeTyped, KubeInv, NEW r \in K!Reqs, K!Failed(r), SameMarks,
           UNCHANGED <<crlSecret, crlDisk>>
    PROVE  KubeInv'
<1>1. /\ \A o \in K!Reqs : req'[o] \in {req[o], K!Idle}
      /\ out' = out
  BY FailedEffect DEF KubeTyped
<1>2. OutKept'
  BY <1>1, MarksKept DEF KubeInv, OutKept
<1>3. ASSUME NEW o \in K!Reqs
      PROVE  KubeCall(req[o])' /\ KubeKind(o)'
  <2>1. PICK q \in KubeRequest : q = req[o]
    BY KubeOwn DEF KubeTyped
  <2>2. KubeCall(q)' /\ KubeCall(K!Idle)' /\ K!Idle.pc = 0
    BY <1>1, <2>1, CallKept, NothingToCall, KubeIdle DEF KubeInv
  <2> QED
    BY <1>1, <2>1, <2>2 DEF KubeCall, KubeKind, KubeInv
<1> QED
  BY <1>2, <1>3 DEF KubeInv

LEMMA KubeGetInv ==
    ASSUME KubeTyped, KubeInv, NEW r \in K!Reqs, K!Get(r)
    PROVE  KubeInv'
<1>1. PICK q \in KubeRequest : q = req[r]
  BY KubeOwn DEF KubeTyped
<1>2. /\ q.op \in {"revoke", "unrevoke", "rotate", "delete"} /\ q.pc = 2 /\ KubeCall(q)
      /\ ~K!At(r, "answer")
  BY <1>1, Places DEF K!Get, KubeTyped, KubeInv, K!At
<1>3. UNCHANGED <<secrets, crlSecret, crlDisk>>
  BY DEF K!Get, K!Reads, K!Refused, K!store
<1>4. CASE K!Failed(r)
  BY <1>3, <1>4, KeptMarks, FailedInv
<1>5. ASSUME NEW s \in K!Named(q.user),
             K!Continue(r, [q EXCEPT !.serial = s, !.copy = secrets[s]])
      PROVE  KubeInv'
  <2>0. s \in K!Serials /\ secrets[s] \in K!Secret
    BY DEF K!Named, KubeTyped, KubeStoreTyped
  <2> DEFINE d == [q EXCEPT !.serial = s, !.copy = secrets[s]]
  <2>1. d \in KubeRequest
    BY <2>0, KubeSerials DEF KubeRequest
  <2>2. /\ d.op = q.op /\ d.pc = q.pc /\ d.user = q.user /\ d.serial = s
        /\ d.copy = secrets[s] /\ d.crl = q.crl
    BY DEF KubeRequest
  <2> HIDE DEF d
  <2>3. PICK e \in KubeRequest : e = d
    BY <2>1
  <2>4. K!Continue(r, e)
    BY <1>5, <2>3 DEF d
  <2>5. UNCHANGED out
    BY <1>1, <1>2, <2>2, <2>3, <2>4, NoReport
  <2> DEFINE f == [e EXCEPT !.pc = @ + 1]
  <2>6. f.pc = 3 /\ f.op = q.op /\ f.serial = s /\ f.copy = secrets[s]
    BY <1>2, <2>2, <2>3, KubeMoved
  <2> HIDE DEF f
  <2>7. KubeCall(f)'
    <3>1. q.op = "unrevoke" => s \notin out
      BY <1>2 DEF KubeCall
    <3>2. secrets[s].revokedAt => s \in K!Revoked'
      BY <1>3, <2>0 DEF K!Revoked
    <3> QED
      BY <1>2, <2>5, <2>6, <3>1, <3>2 DEF KubeCall
  <2> QED
    BY <1>1, <1>2, <1>3, <2>2, <2>3, <2>4, <2>5, <2>7, KeptMarks, InvEnds DEF f
<1> QED
  BY <1>1, <1>4, <1>5 DEF K!Get, K!Reads, K!Refused

LEMMA KubeGetCcdInv ==
    ASSUME KubeNames, KubeTyped, KubeInv, NEW r \in K!Reqs, K!GetCcd(r)
    PROVE  KubeInv'
<1>1. PICK q \in KubeRequest : q = req[r] /\ CalledWith(q)
  BY KubeOwn DEF KubeTyped
<1>2. /\ \/ q.op = "create" /\ q.pc = 7
         \/ q.op = "rotate" /\ q.pc = 9
         \/ q.op = "saveCcd" /\ q.pc = 1
      /\ KubeCall(q) /\ ~K!At(r, "answer")
  BY <1>1, Places DEF K!GetCcd, KubeTyped, KubeInv, K!At
<1>3. CASE K!Transferred(q, q.copy) = "none"
  <2>1. /\ req' = [req EXCEPT ![r] = Skipped(q)]
        /\ UNCHANGED <<secrets, crlSecret, crlDisk, out>>
        /\ q.op = "rotate" /\ q.pc = 9
    BY <1>1, <1>3, KubeSkips DEF KubeTyped, K!store, K!history
  <2>2. PICK f \in KubeRequest : f = Skipped(q)
    BY SkippedFields
  <2>3. f.pc = 12 /\ f.old = q.serial /\ f.op = "rotate"
    BY <2>1, <2>2, SkippedFields
  <2>4. KubeCall(f)'
    BY <1>2, <2>1, <2>3, KeptGrown DEF KubeCall
  <2>5. ASSUME NEW o \in K!Reqs
        PROVE  KubeCall(req[o])' /\ KubeKind(o)'
    <3>1. CASE o = r
      <4>1. req'[o] = f
        BY <2>1, <2>2, <3>1 DEF KubeTyped, KubeReqTyped
      <4> QED
        BY <1>1, <2>1, <2>3, <2>4, <3>1, <4>1 DEF KubeCall, KubeKind, KubeInv
    <3>2. CASE o # r
      <4>1. PICK p \in KubeRequest : p = req[o]
        BY KubeOwn DEF KubeTyped
      <4>2. req'[o] = p
        BY <2>1, <3>2, <4>1 DEF KubeTyped, KubeReqTyped
      <4>3. KubeCall(p)'
        BY <2>1, <4>1, KeptMarks, CallKept DEF KubeInv
      <4> QED
        BY <4>1, <4>2, <4>3 DEF KubeCall, KubeKind, KubeInv
    <3> QED
      BY <3>1, <3>2
  <2>6. OutKept'
    BY <2>1, KeptGrown DEF KubeInv, OutKept
  <2> QED
    BY <2>5, <2>6 DEF KubeInv
<1>4. ASSUME UNCHANGED <<secrets, crlSecret, crlDisk>>, NEW s \in K!Named(q.user),
             K!Continue(r, Fetched(q, s))
      PROVE  KubeInv'
  <2>1. /\ Fetched(q, s) \in KubeRequest
        /\ Fetched(q, s).op = q.op /\ Fetched(q, s).pc = q.pc /\ Fetched(q, s).old = q.serial
    BY <1>1, <1>2, FetchedFields DEF KubeTyped, K!Named
  <2>2. PICK e \in KubeRequest : e = Fetched(q, s)
    BY <2>1
  <2>3. K!Continue(r, e)
    BY <1>4, <2>2
  <2>4. UNCHANGED out
    BY <1>1, <1>2, <2>1, <2>2, <2>3, NoReport
  <2> DEFINE f == [e EXCEPT !.pc = @ + 1]
  <2>5. f.pc = q.pc + 1 /\ f.op = q.op /\ f.old = q.serial
    BY <2>1, <2>2, KubeMoved
  <2> HIDE DEF f
  <2>6. KubeCall(f)'
    BY <1>2, <1>4, <2>4, <2>5, KeptGrown DEF KubeCall
  <2>7. q.pc > 0
    BY <1>2
  <2> QED
    BY <1>1, <1>4, <2>1, <2>2, <2>3, <2>4, <2>6, <2>7, KeptMarks, InvEnds DEF f
<1>5. CASE K!Transferred(q, q.copy) # "none"
  BY <1>1, <1>4, <1>5, KubeFetches, KeptMarks, FailedInv DEF K!Reads, K!Refused, K!store
<1> QED
  BY <1>3, <1>5

LEMMA KubeSecretInv ==
    ASSUME KubeNames, OneCertRequest, KubeTyped, KubeBase, KubeInv, NEW r \in K!Reqs,
           K!Stamp(r) \/ K!Clear(r) \/ K!Archive(r) \/ K!PutCcd(r)
    PROVE  KubeInv'
<1>1. PICK q \in KubeRequest : q = req[r]
  BY KubeOwn DEF KubeTyped
<1>2. /\ UNCHANGED <<crlSecret, crlDisk>>
      /\ K!Continue(r, q) \/ K!Failed(r)
      /\ SecretKept(r, q) \/ SecretReplaced(q)
  BY <1>1, SecretEffect
<1>3. KubeCall(q) /\ q.pc > 0 /\ ~K!At(r, "answer")
  BY <1>1 DEF KubeInv, K!Stamp, K!Clear, K!Archive, K!PutCcd, K!At
<1>4. UNCHANGED out
  BY <1>1, <1>2, <1>3, NoReport
<1> DEFINE f == [q EXCEPT !.pc = @ + 1]
<1>5. f.pc = q.pc + 1 /\ f.op = q.op /\ f.serial = q.serial /\ f.old = q.old
  BY KubeMoved
<1>6. CASE SecretKept(r, q)
  <2>1. SameMarks /\ K!Revoked' = K!Revoked
    BY <1>6, KeptMarks, KeptGrown DEF SecretKept
  <2>2. CASE K!Failed(r)
    BY <1>2, <2>1, <2>2, FailedInv
  <2>3. CASE q.op = "revoke" /\ q.pc = 3 /\ q.copy.revokedAt
    <3> HIDE DEF f
    <3>1. KubeCall(f)'
      BY <1>3, <1>5, <2>1, <2>3 DEF KubeCall
    <3> QED
      BY <1>1, <1>2, <1>3, <1>4, <2>1, <3>1, InvEnds DEF f
  <2> QED
    BY <1>6, <2>2, <2>3 DEF SecretKept
<1>7. CASE SecretReplaced(q)
  <2>0. q.serial \in K!Serials
    BY <1>7 DEF SecretReplaced, K!Issued
  <2>1. CASE \/ q.op = "create" /\ q.pc = 8
             \/ q.op = "rotate" /\ q.pc = 10
             \/ q.op = "saveCcd" /\ q.pc = 2
    <3>1. SameMarks
      BY <1>7, <2>0, <2>1 DEF SecretReplaced, SameMarks
    <3>2. KubeCall(q)'
      BY <1>2, <1>3, <1>4, <3>1, CallKept
    <3>3. KubeCall(f)'
      BY <1>3, <2>1, <3>2, CallMoved
    <3> QED
      BY <1>1, <1>2, <1>3, <1>4, <3>1, <3>3, InvEnds
  <2>2. CASE q.op \in {"revoke", "unrevoke", "rotate", "delete"} /\ q.pc = 3
    <3> HIDE DEF f
    <3>1. \A o \in K!Reqs \ {r}, p \in KubeRequest : p = req[o] => KubeCall(p)'
      BY <1>1, <1>3, <2>2, OthersSave
    <3>2. out \subseteq K!Revoked'
      <4>1. ASSUME NEW s \in out
            PROVE  s \in K!Revoked'
        <5>1. s \in K!Serials /\ secrets[s].revokedAt
          BY DEF KubeInv, OutKept, K!Revoked
        <5>2. CASE s # q.serial
          BY <1>7, <5>1, <5>2 DEF SecretReplaced, K!Revoked
        <5>3. CASE s = q.serial
          <6>1. q.op # "unrevoke"
            BY <1>3, <2>2, <5>3 DEF KubeCall
          <6> QED
            BY <1>7, <2>2, <5>1, <5>3, <6>1 DEF SecretReplaced, K!Revoked
        <5> QED
          BY <5>2, <5>3
      <4> QED
        BY <4>1
    <3>3. OutKept'
      BY <1>2, <1>4, <3>2 DEF KubeInv, OutKept
    <3>4. q.op # "unrevoke" => q.serial \in K!Revoked'
      BY <1>7, <2>0, <2>2 DEF SecretReplaced, K!Revoked
    <3>5. KubeCall(f)'
      BY <1>5, <2>2, <3>4 DEF KubeCall
    <3> QED
      BY <1>1, <1>2, <1>3, <3>1, <3>3, <3>5, CallEnds DEF KubeInv, f
  <2> QED
    BY <1>7, <2>1, <2>2 DEF SecretReplaced
<1> QED
  BY <1>2, <1>6, <1>7

LEMMA KubeCreateInv ==
    ASSUME KubeNames, OneCertRequest, KubeTyped, KubeBase, KubeInv, NEW r \in K!Reqs, K!Create(r)
    PROVE  KubeInv'
<1>1. PICK q \in KubeRequest : q = req[r]
  BY KubeOwn DEF KubeTyped
<1>2. /\ UNCHANGED <<crlSecret, crlDisk>>
      /\ K!Continue(r, q) \/ K!Failed(r)
      /\ (q.op = "create" /\ q.pc = 3) \/ (q.op = "rotate" /\ q.pc = 5)
  BY <1>1, CreateEffect
<1>3. KubeCall(q) /\ q.pc > 0 /\ ~K!At(r, "answer")
  BY <1>1 DEF KubeInv, K!Create, K!At
<1>4. UNCHANGED out
  BY <1>1, <1>2, <1>3, NoReport
<1>5. K!Revoked' = K!Revoked
  <2>1. CASE UNCHANGED secrets
    BY <2>1, KeptGrown
  <2>2. ASSUME NEW s \in K!Serials \ K!Issued,
               \A t \in K!Serials \ {s} : secrets'[t] = secrets[t],
               ~secrets'[s].revokedAt
        PROVE  K!Revoked' = K!Revoked
    <3>1. ~secrets[s].revokedAt
      BY DEF K!Issued, K!NoSecret
    <3> QED
      BY <2>2, <3>1 DEF K!Revoked
  <2> QED
    BY <1>1, <2>1, <2>2, CreateEffect
<1> DEFINE f == [q EXCEPT !.pc = @ + 1]
<1>6. f.pc = q.pc + 1 /\ f.op = q.op /\ f.serial = q.serial /\ f.old = q.old
  BY KubeMoved
<1> HIDE DEF f
<1>7. KubeCall(f)'
  BY <1>2, <1>3, <1>5, <1>6 DEF KubeCall
<1>8. OutKept'
  BY <1>2, <1>4, <1>5 DEF KubeInv, OutKept
<1>9. \A o \in K!Reqs \ {r}, p \in KubeRequest : p = req[o] => KubeCall(p)'
  BY <1>1, <1>2, <1>3, OthersSave
<1> QED
  BY <1>1, <1>2, <1>3, <1>7, <1>8, <1>9, CallEnds DEF KubeInv, f

LEMMA KubeListInv ==
    ASSUME KubeTyped, KubeInv, NEW r \in K!Reqs, K!ListRevoked(r)
    PROVE  KubeInv'
<1>1. PICK q \in KubeRequest : q = req[r]
  BY KubeOwn DEF KubeTyped
<1>2. /\ \/ q.op \in {"revoke", "unrevoke", "delete"} /\ q.pc = 9
         \/ q.op = "rotate" /\ q.pc = 17
         \/ q.op = "renew" /\ q.pc = 3
         \/ q.op = "run" /\ q.pc = 5
      /\ KubeCall(q) /\ ~K!At(r, "answer") /\ q.pc > 0
  BY <1>1, Places DEF KubeInv, K!ListRevoked, K!At, KubeTyped
<1>3. UNCHANGED <<secrets, crlSecret, crlDisk>>
  BY DEF K!ListRevoked, K!store
<1> DEFINE d == [q EXCEPT !.crl = K!Revoked]
<1>4. d \in KubeRequest
  <2>1. K!Revoked \subseteq K!Serials
    BY DEF K!Revoked
  <2> QED
    BY <2>1 DEF KubeRequest
<1>5. /\ d.op = q.op /\ d.pc = q.pc /\ d.serial = q.serial /\ d.old = q.old
      /\ d.crl = K!Revoked
  BY DEF KubeRequest
<1>6. K!Continue(r, d) \/ K!Failed(r)
  BY <1>1 DEF K!ListRevoked
<1> HIDE DEF d
<1>7. PICK e \in KubeRequest : e = d
  BY <1>4
<1>8. UNCHANGED out
  BY <1>1, <1>2, <1>5, <1>6, <1>7, NoReport
<1> DEFINE f == [e EXCEPT !.pc = @ + 1]
<1>9. /\ f.pc = q.pc + 1 /\ f.op = q.op /\ f.serial = q.serial /\ f.old = q.old
      /\ f.crl = K!Revoked
  BY <1>5, <1>7, KubeMoved
<1> HIDE DEF f
<1>10. KubeCall(f)'
  <2>1. out \subseteq K!Revoked /\ K!Revoked' = K!Revoked
    BY <1>3, KeptGrown DEF KubeInv, OutKept
  <2>2. CASE q.op \in {"revoke", "unrevoke", "delete"} /\ q.pc = 9
    BY <1>2, <1>8, <1>9, <2>1, <2>2 DEF KubeCall
  <2>3. CASE q.op = "rotate" /\ q.pc = 17
    BY <1>2, <1>8, <1>9, <2>1, <2>3 DEF KubeCall
  <2>4. CASE q.op \in {"renew", "run"}
    BY <1>2, <1>8, <1>9, <2>1, <2>4 DEF KubeCall
  <2> QED
    BY <1>2, <2>2, <2>3, <2>4
<1> QED
  BY <1>1, <1>2, <1>3, <1>5, <1>6, <1>7, <1>8, <1>10, KeptMarks, InvEnds DEF f

LEMMA KubePutCrlInv ==
    ASSUME KubeNames, OneCertRequest, KubeTyped, KubeInv, NEW r \in K!Reqs, K!PutCrl(r)
    PROVE  KubeInv'
<1>1. PICK q \in KubeRequest : q = req[r]
  BY KubeOwn DEF KubeTyped
<1>2. /\ \/ q.op \in {"revoke", "unrevoke", "delete"} /\ q.pc = 10
         \/ q.op = "rotate" /\ q.pc = 18
         \/ q.op = "renew" /\ q.pc = 4
         \/ q.op = "run" /\ q.pc = 6
      /\ KubeCall(q) /\ ~K!At(r, "answer") /\ q.pc > 0
  BY <1>1, Places DEF KubeInv, K!PutCrl, K!At, KubeTyped
<1>3. /\ UNCHANGED <<secrets, crlDisk>>
      /\ \/ K!Continue(r, q) /\ crlSecret' = q.crl
         \/ K!Failed(r) /\ crlSecret' \in {crlSecret, q.crl}
  BY <1>1 DEF K!PutCrl, K!Writes
<1>4. UNCHANGED out
  BY <1>1, <1>2, <1>3, NoReport
<1>5. K!Revoked' = K!Revoked
  BY <1>3, KeptGrown
<1>6. OutKept'
  <2>1. out \subseteq q.crl
    BY <1>2 DEF KubeCall
  <2> QED
    BY <1>3, <1>4, <1>5, <2>1 DEF KubeInv, OutKept
<1> DEFINE f == [q EXCEPT !.pc = @ + 1]
<1>7. f.pc = q.pc + 1 /\ f.op = q.op /\ f.serial = q.serial /\ f.old = q.old
  BY KubeMoved
<1>8. req'[r] = f => crlSecret' = q.crl
  <2>1. K!Failed(r) => req'[r] = K!Idle
    BY FailedEffect DEF KubeTyped
  <2> HIDE DEF f
  <2>2. f # K!Idle
    <3>1. f.pc > 0
      BY <1>2, <1>7
    <3> QED
      BY <3>1, KubeIdle
  <2> QED
    BY <1>3, <2>1, <2>2
<1> HIDE DEF f
<1>9. req'[r] = f => KubeCall(f)'
  <2> SUFFICES ASSUME crlSecret' = q.crl
               PROVE  KubeCall(f)'
    BY <1>8
  <2>1. CASE q.op \in {"revoke", "unrevoke", "delete"} /\ q.pc = 10
    BY <1>2, <1>5, <1>7, <2>1 DEF KubeCall
  <2>2. CASE q.op = "rotate" /\ q.pc = 18
    BY <1>2, <1>5, <1>7, <2>2 DEF KubeCall
  <2>3. CASE q.op \in {"renew", "run"}
    BY <1>2, <1>7, <2>3 DEF KubeCall
  <2> QED
    BY <1>2, <2>1, <2>2, <2>3
<1>10. \A o \in K!Reqs \ {r}, p \in KubeRequest : p = req[o] => KubeCall(p)'
  BY <1>1, <1>2, OthersSave
<1> QED
  BY <1>1, <1>2, <1>3, <1>6, <1>9, <1>10, CallEnds DEF KubeInv, f

LEMMA KubeCrlDiskInv ==
    ASSUME KubeNames, OneCertRequest, KubeTyped, KubeInv, NEW r \in K!Reqs, K!CrlDisk(r)
    PROVE  KubeInv'
<1>1. PICK q \in KubeRequest : q = req[r]
  BY KubeOwn DEF KubeTyped
<1>2. /\ \/ q.op \in {"revoke", "delete"} /\ q.pc = 12
         \/ q.op = "unrevoke" /\ q.pc = 11
         \/ q.op = "rotate" /\ q.pc = 20
         \/ q.op = "renew" /\ q.pc = 5
         \/ q.op = "run" /\ q.pc \in {7, 8}
      /\ KubeCall(q) /\ ~K!At(r, "answer") /\ q.pc > 0
  BY <1>1, Places DEF KubeInv, K!CrlDisk, K!At, KubeTyped
<1>3. /\ UNCHANGED <<secrets, crlSecret>>
      /\ \/ K!Continue(r, q) /\ crlDisk' = crlSecret
         \/ K!Failed(r) /\ crlDisk' \in {crlDisk, crlSecret}
  BY <1>1 DEF K!CrlDisk, K!Writes
<1>4. UNCHANGED out
  BY <1>1, <1>2, <1>3, NoReport
<1>5. K!Revoked' = K!Revoked
  BY <1>3, KeptGrown
<1>6. OutKept'
  BY <1>3, <1>4, <1>5 DEF KubeInv, OutKept
<1> DEFINE f == [q EXCEPT !.pc = @ + 1]
<1>7. f.pc = q.pc + 1 /\ f.op = q.op /\ f.serial = q.serial /\ f.old = q.old
  BY KubeMoved
<1>8. req'[r] = f => crlDisk' = crlSecret
  <2>1. K!Failed(r) => req'[r] = K!Idle
    BY FailedEffect DEF KubeTyped
  <2> HIDE DEF f
  <2>2. f # K!Idle
    <3>1. f.pc > 0
      BY <1>2, <1>7
    <3> QED
      BY <3>1, KubeIdle
  <2> QED
    BY <1>3, <2>1, <2>2
<1> HIDE DEF f
<1>9. req'[r] = f => KubeCall(f)'
  <2> SUFFICES ASSUME crlDisk' = crlSecret
               PROVE  KubeCall(f)'
    BY <1>8
  <2>1. CASE q.op \in {"revoke", "delete"} /\ q.pc = 12
    BY <1>2, <1>3, <1>5, <1>7, <2>1 DEF KubeCall
  <2>2. CASE q.op = "rotate" /\ q.pc = 20
    BY <1>2, <1>3, <1>5, <1>7, <2>2 DEF KubeCall
  <2>3. CASE q.op \in {"unrevoke", "renew", "run"}
    BY <1>2, <1>7, <2>3 DEF KubeCall
  <2> QED
    BY <1>2, <2>1, <2>2, <2>3
<1>10. \A o \in K!Reqs \ {r}, p \in KubeRequest : p = req[o] => KubeCall(p)'
  BY <1>1, <1>2, OthersSave
<1> QED
  BY <1>1, <1>2, <1>3, <1>6, <1>9, <1>10, CallEnds DEF KubeInv, f

\* The answer of a revoke, a rotation or a delete.
LEMMA AnswerEffect ==
    ASSUME KubeTyped, KubeInv, NEW r \in K!Reqs, K!AnswerDone(r)
    PROVE  \E s \in K!Revoked \cap crlSecret \cap crlDisk :
              /\ out' = out \cup {s}
              /\ UNCHANGED <<secrets, crlSecret, crlDisk>>
              /\ req'[r] = K!Idle
              /\ \A o \in K!Reqs \ {r} : req'[o] = req[o]
<1>1. PICK q \in KubeRequest : q = req[r]
  BY KubeOwn DEF KubeTyped
<1>2. /\ \/ q.op \in {"revoke", "delete"} /\ q.pc = 13
         \/ q.op = "rotate" /\ q.pc = 21
      /\ KubeCall(q)
  BY <1>1, Places DEF KubeInv, K!AnswerDone, KubeTyped
<1>3. q.pc = Len(K!Path[q.op])
  BY <1>2, PathRevoke, PathDelete, PathRotate
<1>4. K!Report(r, q)
  BY <1>1, <1>3 DEF K!AnswerDone, K!Continue
<1>5. /\ out' = out \cup {K!Withdrawing(q)}
      /\ req'[r] = K!Idle /\ \A o \in K!Reqs \ {r} : req'[o] = req[o]
  BY <1>2, <1>4 DEF K!Report, KubeTyped, KubeReqTyped
<1>6. K!Withdrawing(q) \in K!Revoked \cap crlSecret \cap crlDisk
  BY <1>2 DEF KubeCall, K!Withdrawing
<1>7. UNCHANGED <<secrets, crlSecret, crlDisk>>
  BY DEF K!AnswerDone, K!store
<1> QED
  BY <1>5, <1>6, <1>7

LEMMA KubeAnswerInv ==
    ASSUME KubeNames, OneCertRequest, KubeTyped, KubeInv, NEW r \in K!Reqs, K!AnswerDone(r)
    PROVE  KubeInv'
<1>1. PICK s \in K!Revoked \cap crlSecret \cap crlDisk :
         /\ out' = out \cup {s}
         /\ UNCHANGED <<secrets, crlSecret, crlDisk>>
         /\ req'[r] = K!Idle
         /\ \A o \in K!Reqs \ {r} : req'[o] = req[o]
  BY AnswerEffect
<1>2. req[r].pc > 0 /\ req[r].op # "saveCcd"
  <2>1. K!At(r, "answer")
    BY DEF K!AnswerDone
  <2> QED
    BY <2>1, Places DEF KubeTyped
<1>3. OutKept'
  BY <1>1, KeptGrown DEF KubeInv, OutKept
<1>4. ASSUME NEW o \in K!Reqs
      PROVE  KubeCall(req[o])' /\ KubeKind(o)'
  <2>1. CASE o = r
    BY <1>1, <2>1, KubeIdle DEF KubeCall, KubeKind
  <2>2. CASE o # r
    <3>1. PICK p \in KubeRequest : p = req[o]
      BY KubeOwn DEF KubeTyped
    <3>2. KubeCall(p)'
      BY <1>2, <2>2, <3>1, OthersSave
    <3> QED
      BY <1>1, <2>2, <3>1, <3>2 DEF KubeCall, KubeKind, KubeInv
  <2> QED
    BY <2>1, <2>2
<1> QED
  BY <1>3, <1>4 DEF KubeInv

\* A request that begins.
LEMMA BegunInv ==
    ASSUME KubeTyped, KubeInv, UNCHANGED <<secrets, crlSecret, crlDisk, out>>, NEW r \in K!Reqs,
           req'[r].pc = 1, req'[r].op # "unrevoke",
           r \in CcdReqs <=> req'[r].op = "saveCcd",
           \A o \in K!Reqs \ {r} : req'[o] \in {req[o], [req[o] EXCEPT !.alone = FALSE]}
    PROVE  KubeInv'
<1>1. KubeCall(req[r])' /\ KubeKind(r)'
  BY DEF KubeCall, KubeKind
<1>2. ASSUME NEW o \in K!Reqs \ {r}
      PROVE  KubeCall(req[o])' /\ KubeKind(o)'
  <2>1. PICK p \in KubeRequest : p = req[o]
    BY KubeOwn DEF KubeTyped
  <2>2. KubeCall(p)'
    BY <2>1, KeptMarks, CallKept DEF KubeInv
  <2>3. /\ req'[o].op = p.op /\ req'[o].user = p.user /\ req'[o].pc = p.pc
        /\ req'[o].serial = p.serial /\ req'[o].old = p.old /\ req'[o].copy = p.copy
        /\ req'[o].crl = p.crl
    BY <2>1, Interrupted
  <2> QED
    BY <2>1, <2>2, <2>3 DEF KubeCall, KubeKind, KubeInv
<1>3. OutKept'
  BY KeptGrown DEF KubeInv, OutKept
<1> QED
  BY <1>1, <1>2, <1>3 DEF KubeInv

LEMMA KubeStartInv ==
    ASSUME KubeNames, OneCertRequest, KubeTyped, KubeInv, NEW r \in K!Reqs,
           NEW op \in {"create", "revoke", "unrevoke", "rotate", "delete", "saveCcd"},
           NEW u \in Users, NEW c \in Ccds \cup {"clean"}, K!Start(r, op, u, c)
    PROVE  KubeInv'
<1>1. PICK a \in BOOLEAN, k \in Ccds \cup {"none"} :
         /\ req'[r] = Begun(op, u, c, a, k)
         /\ \A o \in K!Reqs \ {r} : req'[o] \in {req[o], [req[o] EXCEPT !.alone = FALSE]}
  BY KubeStarts
<1>2. req'[r].pc = 1 /\ req'[r].op = op /\ req'[r].user = u
  <2>1. op \in KubeOps /\ u \in Users \cup {"none"} /\ c \in Ccds \cup {"clean", "none"}
    BY DEF KubeOps
  <2> QED
    BY <1>1, <2>1, BegunFields
<1>3. /\ UNCHANGED <<secrets, crlSecret, crlDisk>>
      /\ out' = IF op = "unrevoke" THEN out \ K!Named(u) ELSE out
      /\ (op = "saveCcd") <=> (r \in CcdReqs)
  BY DEF K!Start, K!store
<1>4. CASE op # "unrevoke"
  BY <1>1, <1>2, <1>3, <1>4, BegunInv
<1>5. CASE op = "unrevoke"
  <2>1. r \in CertReqs
    BY <1>3, <1>5 DEF K!Reqs
  <2>2. OutKept'
    BY <1>3, <1>5, KeptGrown DEF KubeInv, OutKept
  <2>3. KubeCall(req[r])' /\ KubeKind(r)'
    <3>1. out' \cap K!Named(u)' = {}
      BY <1>3, <1>5, KeptMarks, MarksKept
    <3> QED
      BY <1>2, <1>3, <1>5, <3>1 DEF KubeCall, KubeKind
  <2>4. ASSUME NEW o \in K!Reqs \ {r}
        PROVE  KubeCall(req[o])' /\ KubeKind(o)'
    <3>1. o \notin CertReqs
      BY <2>1 DEF OneCertRequest
    <3>2. req[o] \in KubeRequest /\ req[o].pc \in Nat
      BY KubeOwn DEF KubeTyped, KubeRequest
    <3>3. req[o].pc = 0 \/ req[o].op = "saveCcd"
      BY <3>1, <3>2 DEF KubeInv, KubeKind, K!Reqs
    <3>4. req'[o].op = req[o].op /\ req'[o].pc = req[o].pc
      BY <1>1, <3>2, Interrupted
    <3> QED
      BY <3>3, <3>4 DEF KubeCall, KubeKind, KubeInv
  <2> QED
    BY <2>2, <2>3, <2>4 DEF KubeInv
<1> QED
  BY <1>4, <1>5

LEMMA KubeNextInv ==
    ASSUME KubeNames, OneCertRequest, KubeTyped, KubeBase, KubeInv, [K!Next]_K!vars
    PROVE  KubeInv'
<1>1. ASSUME NEW r \in K!Reqs, K!Step(r)
      PROVE  KubeInv'
  BY <1>1, KubeCallInv, KubeGetInv, KubeGetCcdInv, KubeSecretInv, KubeCreateInv, KubeListInv,
     KubePutCrlInv, KubeCrlDiskInv, KubeAnswerInv DEF K!Step
<1>2. ASSUME NEW r \in K!Reqs, K!RenewalTick(r) \/ K!Boot(r)
      PROVE  KubeInv'
  <2>1. /\ req'[r].pc = 1 /\ req'[r].op \in {"renew", "run"}
        /\ \A o \in K!Reqs \ {r} : req'[o] = req[o]
    BY <1>2, RenewalIsRenew, KubeBegins DEF K!Boot
  <2>2. r \notin CcdReqs
    BY <1>2 DEF K!RenewalTick, K!Boot, KubeNames
  <2>3. UNCHANGED <<secrets, crlSecret, crlDisk, out>>
    BY <1>2 DEF K!RenewalTick, K!Boot, K!store, K!history
  <2> QED
    BY <2>1, <2>2, <2>3, BegunInv
<1>3. ASSUME UNCHANGED <<secrets, crlSecret, crlDisk, out>>,
             \A o \in K!Reqs : req'[o] \in {req[o], K!Idle}
      PROVE  KubeInv'
  <2>1. OutKept'
    BY <1>3, KeptGrown DEF KubeInv, OutKept
  <2>2. ASSUME NEW o \in K!Reqs
        PROVE  KubeCall(req[o])' /\ KubeKind(o)'
    <3>1. PICK q \in KubeRequest : q = req[o]
      BY KubeOwn DEF KubeTyped
    <3>2. KubeCall(q)' /\ KubeCall(K!Idle)' /\ K!Idle.pc = 0
      BY <1>3, <3>1, KeptMarks, CallKept, NothingToCall, KubeIdle DEF KubeInv
    <3> QED
      BY <1>3, <3>1, <3>2 DEF KubeCall, KubeKind, KubeInv
  <2> QED
    BY <2>1, <2>2 DEF KubeInv
<1>4. CASE K!Crash
  <2>1. UNCHANGED <<secrets, crlSecret, crlDisk, out>>
    BY <1>4 DEF K!Crash, K!store, K!history
  <2>2. \A o \in K!Reqs : req'[o] = K!Idle
    BY <1>4 DEF K!Crash
  <2> QED
    BY <1>3, <2>1, <2>2
<1>5. CASE K!ListUsers \/ UNCHANGED K!vars
  <2>1. UNCHANGED <<secrets, crlSecret, crlDisk, out, req>>
    BY <1>5 DEF K!ListUsers, K!vars, K!store, K!history
  <2> QED
    BY <1>3, <2>1
<1> QED
  BY <1>1, <1>2, <1>4, <1>5, KubeStartInv DEF K!Next

LEMMA KubeInitInv ==
    ASSUME K!Init
    PROVE  KubeInv
<1>1. \A r \in K!Reqs : req[r] = K!Idle
  BY DEF K!Init
<1>2. KubeCall(K!Idle) /\ K!Idle.pc = 0
  BY NothingToCall, KubeIdle
<1> QED
  BY <1>1, <1>2 DEF K!Init, KubeInv, OutKept, KubeKind

LEMMA KubeInductive ==
    ASSUME KubeNames, OneCertRequest
    PROVE  K!Spec => [](KubeTyped /\ KubeBase /\ KubeInv)
<1>1. K!Init => KubeInv
  BY KubeInitInv
<1>2. KubeTyped /\ KubeBase /\ KubeInv /\ [K!Next]_K!vars => KubeInv'
  BY KubeNextInv
<1> QED
  BY <1>1, <1>2, KubeBaseInductive, PTL DEF K!Spec

-----------------------------------------------------------------------------
(* CertLifecycle on the Kubernetes backend *)

\* Nothing that CertLifecycle speaks of has changed.
LEMMA KubeQuiet ==
    ASSUME K!Issued' = K!Issued, UNCHANGED <<crlDisk, out>>
    PROVE  UNCHANGED K!Lifecycle!vars
  BY DEF K!Lifecycle!vars, K!Usable

LEMMA KubeStepSimulates ==
    ASSUME KubeTyped, KubeBase, KubeInv, NEW r \in K!Reqs, K!Step(r)
    PROVE  K!Lifecycle!Next \/ UNCHANGED K!Lifecycle!vars
<1>1. PICK q \in KubeRequest : q = req[r]
  BY KubeOwn DEF KubeTyped
<1>2. CASE \/ K!Check(r) \/ K!Absent(r) \/ K!CcdDisk(r) \/ K!Verify(r)
           \/ K!PutIndex(r) \/ K!IndexDisk(r) \/ K!PutCrl(r)
  <2>1. /\ UNCHANGED <<secrets, crlDisk>>
        /\ K!Continue(r, q) \/ K!Failed(r)
    BY <1>1, <1>2 DEF K!Check, K!Absent, K!CcdDisk, K!Verify, K!Reads, K!Refused, K!PutIndex,
                      K!IndexDisk, K!PutCrl, K!Writes, K!store
  <2>2. ~K!At(r, "answer") /\ q.pc > 0
    BY <1>1, <1>2 DEF K!Check, K!Absent, K!CcdDisk, K!Verify, K!PutIndex, K!IndexDisk, K!PutCrl,
                      K!At
  <2>3. UNCHANGED out
    BY <1>1, <2>1, <2>2, NoReport
  <2> QED
    BY <2>1, <2>3, KeptGrown, KubeQuiet
<1>3. CASE K!ListIndex(r) \/ K!ListRevoked(r) \/ K!Get(r) \/ K!GetCcd(r)
  <2>1. UNCHANGED <<secrets, crlDisk>>
    BY <1>3 DEF K!ListIndex, K!ListRevoked, K!Get, K!GetCcd, K!Reads, K!Refused, K!store
  <2>2. ~K!At(r, "answer") /\ q.pc > 0
    BY <1>1, <1>3 DEF K!ListIndex, K!ListRevoked, K!Get, K!GetCcd, K!At
  <2>3. UNCHANGED out
    <3>1. CASE K!Failed(r)
      BY <3>1, FailedEffect DEF KubeTyped
    <3>2. ASSUME NEW e, e.op = q.op, e.pc = q.pc, K!Continue(r, e)
          PROVE  UNCHANGED out
      <4>1. e.pc # Len(K!Path[e.op])
        \* None of these calls is the last of its operation.
        <5>1. /\ q.op \in {"revoke", "unrevoke", "delete"} => q.pc \in {2, 4, 7, 9}
              /\ q.op = "create" => q.pc \in {4, 7}
              /\ q.op = "rotate" => q.pc \in {2, 6, 9, 12, 15, 17}
              /\ q.op = "renew" => q.pc \in {1, 3}
              /\ q.op = "saveCcd" => q.pc = 1
              /\ q.op = "run" => q.pc \in {1, 3, 5}
          BY <1>1, <1>3, Places DEF K!ListIndex, K!ListRevoked, K!Get, K!GetCcd, KubeTyped
        <5>2. q.op \in KubeOps
          BY DEF KubeRequest
        <5>3. CASE q.op = "create"
          BY <3>2, <5>1, <5>3, PathCreate
        <5>4. CASE q.op = "revoke"
          BY <3>2, <5>1, <5>4, PathRevoke
        <5>5. CASE q.op = "unrevoke"
          BY <3>2, <5>1, <5>5, PathUnrevoke
        <5>6. CASE q.op = "rotate"
          BY <3>2, <5>1, <5>6, PathRotate
        <5>7. CASE q.op = "delete"
          BY <3>2, <5>1, <5>7, PathDelete
        <5>8. CASE q.op = "renew"
          BY <3>2, <5>1, <5>8, PathRenew
        <5>9. CASE q.op = "saveCcd"
          BY <3>2, <5>1, <5>9, PathSaveCcd
        <5>10. CASE q.op = "run"
          BY <3>2, <5>1, <5>10, PathRun
        <5> QED
          BY <5>2, <5>3, <5>4, <5>5, <5>6, <5>7, <5>8, <5>9, <5>10 DEF KubeOps
      <4> QED
        BY <3>2, <4>1 DEF K!Continue, K!history
    <3>3. ASSUME NEW s
          PROVE  /\ [q EXCEPT !.serial = s, !.copy = secrets[s]].op = q.op
                 /\ [q EXCEPT !.serial = s, !.copy = secrets[s]].pc = q.pc
                 /\ Fetched(q, s).op = q.op /\ Fetched(q, s).pc = q.pc
      BY DEF Fetched, KubeRequest
    <3>4. /\ [q EXCEPT !.index = K!IndexTxt].op = q.op /\ [q EXCEPT !.index = K!IndexTxt].pc = q.pc
          /\ [q EXCEPT !.crl = K!Revoked].op = q.op /\ [q EXCEPT !.crl = K!Revoked].pc = q.pc
      BY DEF KubeRequest
    <3>5. CASE K!ListIndex(r) \/ K!ListRevoked(r)
      BY <1>1, <3>1, <3>2, <3>4, <3>5 DEF K!ListIndex, K!ListRevoked, K!Reads
    <3>6. CASE K!Get(r)
      BY <1>1, <3>1, <3>2, <3>3, <3>6 DEF K!Get, K!Reads, K!Refused
    <3>7. CASE K!GetCcd(r)
      <4>1. \/ UNCHANGED out
            \/ K!Refused(r)
            \/ \E s \in K!Named(q.user) : K!Reads(r, Fetched(q, s))
        BY <1>1, <3>7 DEF K!GetCcd, Fetched, K!history
      <4> QED
        BY <3>1, <3>2, <3>3, <4>1 DEF K!Reads, K!Refused
    <3> QED
      BY <1>3, <3>5, <3>6, <3>7
  <2> QED
    BY <2>1, <2>3, KeptGrown, KubeQuiet
<1>4. CASE K!Stamp(r) \/ K!Clear(r) \/ K!Archive(r) \/ K!PutCcd(r)
  <2>1. /\ UNCHANGED crlDisk /\ K!Issued' = K!Issued
        /\ K!Continue(r, q) \/ K!Failed(r)
    BY <1>1, <1>4, SecretEffect
  <2>2. ~K!At(r, "answer") /\ q.pc > 0
    BY <1>1, <1>4 DEF K!Stamp, K!Clear, K!Archive, K!PutCcd, K!At
  <2>3. UNCHANGED out
    BY <1>1, <2>1, <2>2, NoReport
  <2> QED
    BY <2>1, <2>3, KubeQuiet
<1>5. CASE K!Create(r)
  <2>1. /\ UNCHANGED crlDisk
        /\ K!Continue(r, q) \/ K!Failed(r)
        /\ \/ UNCHANGED secrets
           \/ \E s \in K!Serials \ K!Issued : K!Issued' = K!Issued \cup {s}
    BY <1>1, <1>5, CreateEffect
  <2>2. ~K!At(r, "answer") /\ q.pc > 0
    BY <1>1, <1>5 DEF K!Create, K!At
  <2>3. UNCHANGED out
    BY <1>1, <2>1, <2>2, NoReport
  <2>4. ASSUME NEW s \in K!Serials \ K!Issued, K!Issued' = K!Issued \cup {s}
        PROVE  K!Lifecycle!Next
    <3>1. s \notin crlDisk
      BY DEF KubeBase
    <3>2. K!Usable' = K!Usable \cup {s}
      BY <2>1, <2>4, <3>1 DEF K!Usable
    <3>3. K!Lifecycle!Issue(s)
      BY <2>3, <2>4, <3>2 DEF K!Lifecycle!Issue
    <3> QED
      BY <3>3 DEF K!Lifecycle!Next
  <2> QED
    BY <2>1, <2>3, <2>4, KeptGrown, KubeQuiet
<1>6. CASE K!CrlDisk(r)
  <2>1. /\ UNCHANGED secrets /\ crlDisk' \in {crlDisk, crlSecret}
        /\ K!Continue(r, q) \/ K!Failed(r)
    BY <1>1, <1>6 DEF K!CrlDisk, K!Writes
  <2>2. ~K!At(r, "answer") /\ q.pc > 0
    BY <1>1, <1>6 DEF K!CrlDisk, K!At
  <2>3. UNCHANGED out
    BY <1>1, <2>1, <2>2, NoReport
  <2>4. CASE crlDisk' = crlSecret
    <3>1. K!Issued' = K!Issued /\ K!Usable' = K!Issued \ crlSecret
      BY <2>1, <2>4, KeptGrown DEF K!Usable
    <3>2. K!Usable' \subseteq K!Issued \ out
      BY <3>1 DEF KubeInv, OutKept
    <3>3. K!Lifecycle!Publish(K!Issued \ crlSecret)
      BY <2>3, <3>1, <3>2 DEF K!Lifecycle!Publish
    <3>4. (K!Issued \ crlSecret) \in SUBSET K!Serials
      BY DEF K!Issued
    <3> QED
      BY <3>3, <3>4 DEF K!Lifecycle!Next
  <2> QED
    BY <2>1, <2>3, <2>4, KeptGrown, KubeQuiet
<1>7. CASE K!AnswerDone(r)
  <2>1. PICK s \in K!Revoked \cap crlSecret \cap crlDisk :
           /\ out' = out \cup {s}
           /\ UNCHANGED <<secrets, crlSecret, crlDisk>>
    BY <1>7, AnswerEffect
  <2>2. K!Issued' = K!Issued /\ K!Usable' = K!Usable
    BY <2>1, KeptGrown DEF K!Usable
  <2>3. s \in K!Issued /\ s \notin K!Usable
    BY <2>1 DEF KubeBase, K!Usable
  <2>4. K!Lifecycle!Withdraw(s) /\ s \in K!Serials
    BY <2>1, <2>2, <2>3 DEF K!Lifecycle!Withdraw, K!Issued
  <2> QED
    BY <2>4 DEF K!Lifecycle!Next
<1> QED
  BY <1>2, <1>3, <1>4, <1>5, <1>6, <1>7 DEF K!Step

LEMMA KubeNextSimulates ==
    ASSUME KubeTyped, KubeBase, KubeInv, [K!Next]_K!vars
    PROVE  [K!Lifecycle!Next]_K!Lifecycle!vars
<1>1. ASSUME NEW r \in K!Reqs,
             NEW op \in {"create", "revoke", "unrevoke", "rotate", "delete", "saveCcd"},
             NEW u \in Users, NEW c \in Ccds \cup {"clean"}, K!Start(r, op, u, c)
      PROVE  K!Lifecycle!Next \/ UNCHANGED K!Lifecycle!vars
  <2>1. /\ UNCHANGED <<secrets, crlDisk>>
        /\ out' = IF op = "unrevoke" THEN out \ K!Named(u) ELSE out
    BY <1>1 DEF K!Start, K!store
  <2>2. K!Issued' = K!Issued /\ K!Usable' = K!Usable
    BY <2>1, KeptGrown DEF K!Usable
  <2>3. CASE op = "unrevoke"
    <3>1. K!Lifecycle!Readmit(K!Named(u))
      BY <2>1, <2>2, <2>3 DEF K!Lifecycle!Readmit
    <3>2. K!Named(u) \in SUBSET K!Serials
      BY DEF K!Named
    <3> QED
      BY <3>1, <3>2 DEF K!Lifecycle!Next
  <2> QED
    BY <2>1, <2>2, <2>3, KubeQuiet
<1>2. ASSUME NEW r \in K!Reqs, K!RenewalTick(r) \/ K!Boot(r)
      PROVE  UNCHANGED K!Lifecycle!vars
  <2>1. UNCHANGED <<secrets, crlDisk, out>>
    BY <1>2 DEF K!RenewalTick, K!Boot, K!store, K!history
  <2> QED
    BY <2>1, KeptGrown, KubeQuiet
<1>3. CASE K!Crash \/ K!ListUsers \/ UNCHANGED K!vars
  <2>1. UNCHANGED <<secrets, crlDisk, out>>
    BY <1>3 DEF K!Crash, K!ListUsers, K!vars, K!store, K!history
  <2> QED
    BY <2>1, KeptGrown, KubeQuiet
<1> QED
  BY <1>1, <1>2, <1>3, KubeStepSimulates DEF K!Next

\* The store on Kubernetes secrets keeps the promise of CertLifecycle, as long as
\* operations on certificates come one at a time: each API call of each operation is a
\* step of the abstract store or changes nothing that it speaks of, whichever calls
\* fail, before or after they took effect, wherever the process crashes, and however
\* many CCDs are saved meanwhile (kubernetes.go: easyrsaRevoke, easyrsaUnrevoke,
\* easyrsaRotate, easyrsaDelete, easyrsaGenCRL, secretUpdateCcd).
THEOREM KubernetesKeepsPromise ==
    ASSUME K!KubernetesStoreAssumption, OneCertRequest
    PROVE  K!Spec => K!ImplementsLifecycle
<1>1. K!Init => K!Lifecycle!Init
  BY DEF K!Init, K!Lifecycle!Init, K!Issued, K!Usable
<1>2. KubeTyped /\ KubeBase /\ KubeInv /\ [K!Next]_K!vars => [K!Lifecycle!Next]_K!Lifecycle!vars
  BY KubeNextSimulates
<1>3. KubeNames
  BY KubeAssumed
<1> QED
  BY <1>1, <1>2, <1>3, KubeInductive, PTL DEF K!Spec, K!ImplementsLifecycle, K!Lifecycle!Spec

\* verifyRevokedInCRL is right as long as operations on certificates come one at a
\* time: no certificate that was reported as withdrawn passes the CRL on the disk.  So the
\* race of two of them that the finding shows is the only way to a false success.
THEOREM NoFalseSuccess ==
    ASSUME K!KubernetesStoreAssumption, OneCertRequest
    PROVE  K!Spec => []K!WithdrawnNotUsable
<1>1. KubeInv => K!WithdrawnNotUsable
  BY DEF KubeInv, OutKept, K!WithdrawnNotUsable, K!Usable
<1>2. KubeNames
  BY KubeAssumed
<1> QED
  BY <1>1, <1>2, KubeInductive, PTL


-----------------------------------------------------------------------------
(* CCDs on the Kubernetes backend, whoever is at work *)

\* The secrets of u were there before, with the CCD they have.
Steady(u) ==
    \A s \in K!Serials : secrets'[s].name = u =>
        secrets[s].name = u /\ secrets'[s].ccd = secrets[s].ccd

HasCcd(u, c) == \A s \in K!Named(u) : secrets[s].ccd = c

Writing(q) == q.pc > 0 /\ q.op \in K!WritesCcd

AtPutCcd(q) ==
    \/ q.op = "create" /\ q.pc = 8
    \/ q.op = "rotate" /\ q.pc = 10
    \/ q.op = "saveCcd" /\ q.pc = 2

\* What the request q counts on: a save that the secret it has read is the only one of
\* its user, until the CCD is there; a rotation that the CCD it is to keep is in the
\* secret, then in its copy, then in its hands, then in the new secret.
CcdCall(q) ==
    /\ AtPutCcd(q) =>
          q.copy.name = q.user /\ (q.alone => K!Named(q.user) \subseteq {q.serial})
    /\ q.alone /\ q.op = "saveCcd" /\ q.pc = 3 => HasCcd(q.user, q.ccd)
    /\ q.alone /\ q.op = "rotate" /\ q.keep # "none" =>
          /\ q.pc \in {1, 2} \/ q.pc > 10 => HasCcd(q.user, q.keep)
          /\ q.pc > 2 /\ q.pc < 10 => q.copy.ccd = q.keep
          /\ q.pc = 10 => q.ccd = q.keep

\* Of two operations that write the CCD of one user neither is alone.
AloneKnown ==
    \A r, o \in K!Reqs :
        r # o /\ Writing(req[r]) /\ Writing(req[o]) /\ req[r].user = req[o].user
        => ~req[r].alone

\* What was reported as saved is there, and nobody is about to write another.
SavedThere ==
    /\ \A u \in Users : saved[u] # "none" => HasCcd(u, saved[u])
    /\ \A r \in K!Reqs : Writing(req[r]) => saved[req[r].user] = "none"

CcdInv ==
    /\ AloneKnown
    /\ SavedThere
    /\ \A r \in K!Reqs : CcdCall(req[r])

LEMMA SteadyHas ==
    ASSUME NEW u, Steady(u)
    PROVE  /\ K!Named(u)' \subseteq K!Named(u)
           /\ \A c : HasCcd(u, c) => HasCcd(u, c)'
  BY DEF Steady, HasCcd, K!Named

LEMMA KeptSteady ==
    ASSUME UNCHANGED secrets
    PROVE  \A u : Steady(u)
  BY DEF Steady

LEMMA CcdCallKept ==
    ASSUME NEW q \in KubeRequest, CcdCall(q), Steady(q.user) \/ ~q.alone \/ ~Writing(q)
    PROVE  CcdCall(q)'
<1>1. q.pc \in Nat
  BY DEF KubeRequest
<1>2. CASE ~q.alone
  BY <1>2 DEF CcdCall
<1>3. CASE ~Writing(q)
  BY <1>1, <1>3 DEF CcdCall, Writing, K!WritesCcd, AtPutCcd
<1>4. CASE Steady(q.user)
  BY <1>4, SteadyHas DEF CcdCall
<1> QED
  BY <1>2, <1>3, <1>4

\* A call that does not read a secret or put a CCD.
LEMMA CcdMoved ==
    ASSUME NEW e \in KubeRequest, CcdCall(e), e.pc > 0,
           ~(e.op = "rotate" /\ e.pc \in {2, 9, 10}),
           ~(e.op = "saveCcd" /\ e.pc \in {1, 2}), ~(e.op = "create" /\ e.pc = 7),
           e.op = "rotate" /\ (e.pc = 1 \/ e.pc > 10) => Steady(e.user)
    PROVE  CcdCall([e EXCEPT !.pc = @ + 1])'
<1> DEFINE f == [e EXCEPT !.pc = @ + 1]
<1>1. /\ f.pc = e.pc + 1 /\ f.op = e.op /\ f.user = e.user /\ f.ccd = e.ccd
      /\ f.serial = e.serial /\ f.copy = e.copy /\ f.alone = e.alone /\ f.keep = e.keep
      /\ e.pc \in Nat
  BY KubeMoved DEF KubeRequest
<1> HIDE DEF f
<1>2. ~AtPutCcd(f)
  BY <1>1 DEF AtPutCcd
<1>3. ~(f.op = "saveCcd" /\ f.pc = 3)
  BY <1>1
<1>4. ASSUME f.alone, f.op = "rotate", f.keep # "none"
      PROVE  /\ f.pc \in {1, 2} \/ f.pc > 10 => HasCcd(f.user, f.keep)'
             /\ f.pc > 2 /\ f.pc < 10 => f.copy.ccd = f.keep
             /\ f.pc # 10
  <2>1. CASE e.pc = 1 \/ e.pc > 10
    <3>1. HasCcd(e.user, e.keep)
      BY <1>1, <1>4, <2>1 DEF CcdCall
    <3>2. HasCcd(e.user, e.keep)'
      BY <1>1, <1>4, <2>1, <3>1, SteadyHas
    <3>3. HasCcd(f.user, f.keep)'
      BY <1>1, <3>2
    <3> QED
      BY <1>1, <2>1, <3>3
  <2>2. CASE e.pc > 2 /\ e.pc < 9
    BY <1>1, <1>4, <2>2 DEF CcdCall
  <2> QED
    BY <1>1, <1>4, <2>1, <2>2
<1>5. CcdCall(f)'
  BY <1>2, <1>3, <1>4 DEF CcdCall, AtPutCcd
<1> QED
  BY <1>5 DEF f

\* Saves and rotations that were alone are reported as the user's CCD.
LEMMA SavedEffect ==
    ASSUME NEW r \in K!Reqs, NEW e, K!Continue(r, e) \/ K!Failed(r)
    PROVE  \/ UNCHANGED saved
           \/ /\ e.pc = Len(K!Path[e.op]) /\ e.op \in {"saveCcd", "rotate"} /\ e.alone
              /\ saved' = [saved EXCEPT ![e.user] = IF e.op = "rotate" THEN e.keep ELSE e.ccd]
              /\ req' = [req EXCEPT ![r] = K!Idle]
<1>1. CASE K!Continue(r, e)
  BY <1>1 DEF K!Continue, K!Report, K!history
<1>2. CASE (K!SeedingCcd(r) \/ (req[r].op = "run" /\ K!At(r, "ccdDisk"))) /\ K!Failed(r)
  BY <1>2 DEF K!Failed, K!SeedingCcd, K!Report
<1>3. CASE ~(K!SeedingCcd(r) \/ (req[r].op = "run" /\ K!At(r, "ccdDisk"))) /\ K!Failed(r)
  BY <1>3 DEF K!Failed, K!Abort, K!history
<1> QED
  BY <1>1, <1>2, <1>3

\* A call of r ends: it has left the CCDs alone, or written one of its own user.
LEMMA CcdEnds ==
    ASSUME KubeTyped, CcdInv, NEW r \in K!Reqs, NEW q \in KubeRequest, q = req[r],
           NEW e \in KubeRequest, e.op = q.op, e.pc = q.pc, e.user = q.user,
           e.alone = q.alone, e.pc > 0,
           K!Continue(r, e) \/ K!Failed(r),
           \A u \in Users : Steady(u) \/ (Writing(q) /\ u = q.user),
           saved' # saved => UNCHANGED secrets /\ CcdCall(e),
           req'[r] = [e EXCEPT !.pc = @ + 1] => CcdCall([e EXCEPT !.pc = @ + 1])'
    PROVE  CcdInv'
<1> DEFINE f == [e EXCEPT !.pc = @ + 1]
<1>1. /\ f.pc = e.pc + 1 /\ f.op = q.op /\ f.user = q.user /\ f.alone = q.alone
      /\ f \in KubeRequest /\ e.pc \in Nat
  BY KubeMoved DEF KubeRequest
<1>2. /\ req'[r] \in {K!Idle, f}
      /\ \A o \in K!Reqs \ {r} : req'[o] \in {req[o], K!Idle}
  BY ContinueEffect, FailedEffect DEF KubeTyped
<1>3. K!Idle.pc = 0 /\ K!Idle.op = "renew"
  BY KubeIdle
<1>4. req'[r] = f => CcdCall(f)'
  OBVIOUS
<1>5. (f.pc > 0 /\ e.pc > 0 /\ f.pc # K!Idle.pc)
  BY <1>1, <1>3
<1> HIDE DEF f
<1>6. \A o \in K!Reqs : Writing(req[o])' =>
           /\ Writing(req[o]) /\ req'[o].user = req[o].user /\ req'[o].alone = req[o].alone
  BY <1>1, <1>2, <1>3 DEF Writing
<1>7. AloneKnown'
  BY <1>6 DEF AloneKnown, CcdInv
<1>8. \A o \in K!Reqs : req[o] \in KubeRequest /\ (Writing(req[o]) => req[o].user \in Users)
  BY KubeOwn DEF KubeTyped, CalledWith, Writing, K!WritesCcd
<1>9. \A o \in K!Reqs : CcdCall(req[o])'
  <2>1. ASSUME NEW o \in K!Reqs
        PROVE  CcdCall(req[o])'
    <3>1. CASE req'[o] = K!Idle
      BY <1>3, <3>1 DEF CcdCall, AtPutCcd
    <3>2. CASE o = r /\ req'[o] = f
      BY <1>4, <3>2 DEF CcdCall, AtPutCcd
    <3>3. CASE o # r /\ req'[o] = req[o]
      <4>1. PICK p \in KubeRequest : p = req[o]
        BY <1>8
      <4>2. Steady(p.user) \/ ~p.alone \/ ~Writing(p)
        <5> SUFFICES ASSUME p.alone, Writing(p), ~Steady(p.user)
                     PROVE  FALSE
          OBVIOUS
        <5>1. Writing(q) /\ p.user = q.user
          BY <1>8, <4>1
        <5> QED
          BY <3>3, <4>1, <5>1 DEF CcdInv, AloneKnown
      <4>3. CcdCall(p)'
        BY <4>1, <4>2, CcdCallKept DEF CcdInv
      <4> QED
        BY <3>3, <4>1, <4>3 DEF CcdCall, AtPutCcd
    <3> QED
      BY <1>2, <3>1, <3>2, <3>3
  <2> QED
    BY <2>1
<1>10. CASE UNCHANGED saved
  <2>1. ASSUME NEW u \in Users, saved[u] # "none"
        PROVE  HasCcd(u, saved[u])'
    <3>1. HasCcd(u, saved[u])
      BY <2>1 DEF CcdInv, SavedThere
    <3>2. Steady(u)
      BY <2>1 DEF CcdInv, SavedThere
    <3>3. PICK c : c = saved[u]
      OBVIOUS
    <3>4. HasCcd(u, c)'
      BY <3>1, <3>2, <3>3, SteadyHas
    <3> QED
      BY <1>10, <3>3, <3>4 DEF HasCcd
  <2>2. \A u \in Users : saved'[u] # "none" => HasCcd(u, saved[u])'
    BY <1>10, <2>1
  <2>3. \A o \in K!Reqs : Writing(req[o])' => saved'[req'[o].user] = "none"
    BY <1>6, <1>10 DEF CcdInv, SavedThere
  <2> QED
    BY <1>7, <1>9, <2>2, <2>3 DEF CcdInv, SavedThere
<1>11. CASE saved' # saved
  <2>1. /\ e.pc = Len(K!Path[e.op]) /\ e.op \in {"saveCcd", "rotate"} /\ e.alone
        /\ saved' = [saved EXCEPT ![e.user] = IF e.op = "rotate" THEN e.keep ELSE e.ccd]
        /\ req'[r] = K!Idle
    BY <1>11, SavedEffect DEF KubeTyped, KubeReqTyped
  <2>2. Writing(q) /\ q.user \in Users
    BY <1>8, <2>1 DEF Writing, K!WritesCcd
  <2> DEFINE c == IF e.op = "rotate" THEN e.keep ELSE e.ccd
  <2>3. \A u \in Users : saved'[u] = IF u = q.user THEN c ELSE saved[u]
    BY <2>1, <2>2 DEF KubeTyped, KubeRestTyped
  <2>4. c # "none" => HasCcd(q.user, c)
    <3>1. CASE e.op = "rotate"
      BY <1>11, <2>1, <3>1, PathRotate DEF CcdCall
    <3>2. CASE e.op = "saveCcd"
      BY <1>11, <2>1, <3>2, PathSaveCcd DEF CcdCall
    <3> QED
      BY <2>1, <3>1, <3>2
  <2> HIDE DEF c
  <2>5. ASSUME NEW u \in Users, saved'[u] # "none"
        PROVE  HasCcd(u, saved[u])'
    <3>1. HasCcd(u, saved'[u])
      BY <2>3, <2>4, <2>5 DEF CcdInv, SavedThere
    <3> QED
      BY <1>11, <3>1 DEF HasCcd, K!Named
  <2>6. ASSUME NEW o \in K!Reqs, Writing(req[o])'
        PROVE  saved'[req'[o].user] = "none"
    <3>1. /\ Writing(req[o]) /\ req'[o].user = req[o].user /\ req[o].user \in Users
          /\ saved[req[o].user] = "none"
      BY <1>6, <1>8, <2>6 DEF CcdInv, SavedThere
    <3>2. o # r
      BY <1>3, <2>1, <2>6 DEF Writing
    <3>3. req[o].user # q.user
      BY <2>1, <2>2, <3>1, <3>2 DEF CcdInv, AloneKnown
    <3> QED
      BY <2>3, <3>1, <3>3
  <2> QED
    BY <1>7, <1>9, <2>5, <2>6 DEF CcdInv, SavedThere
<1> QED
  BY <1>10, <1>11

\* A call that leaves the secrets alone and reads none.
LEMMA CcdQuiet ==
    ASSUME KubeTyped, CcdInv, UNCHANGED secrets, NEW r \in K!Reqs,
           NEW q \in KubeRequest, q = req[r],
           NEW e \in KubeRequest, e.op = q.op, e.pc = q.pc, e.user = q.user,
           e.alone = q.alone, e.keep = q.keep, e.ccd = q.ccd, e.copy = q.copy,
           e.serial = q.serial, e.pc > 0,
           ~(q.op = "rotate" /\ q.pc \in {2, 9, 10}),
           ~(q.op = "saveCcd" /\ q.pc \in {1, 2}), ~(q.op = "create" /\ q.pc = 7),
           K!Continue(r, e) \/ K!Failed(r)
    PROVE  CcdInv'
<1>1. \A u : Steady(u)
  BY KeptSteady
<1>2. CcdCall(q)
  BY DEF CcdInv
<1>3. CcdCall(e)
  BY <1>2 DEF CcdCall, AtPutCcd
<1>4. CcdCall([e EXCEPT !.pc = @ + 1])'
  BY <1>1, <1>3, CcdMoved
<1> QED
  BY <1>1, <1>3, <1>4, CcdEnds

LEMMA CcdCallStep ==
    ASSUME KubeTyped, CcdInv, NEW r \in K!Reqs,
           \/ K!Check(r) \/ K!Absent(r) \/ K!CcdDisk(r) \/ K!Verify(r) \/ K!AnswerDone(r)
           \/ K!PutIndex(r) \/ K!IndexDisk(r) \/ K!PutCrl(r) \/ K!CrlDisk(r)
           \/ K!ListIndex(r) \/ K!ListRevoked(r)
    PROVE  CcdInv'
<1>1. PICK q \in KubeRequest : q = req[r]
  BY KubeOwn DEF KubeTyped
<1>2. \/ K!At(r, "check") \/ K!At(r, "absent") \/ K!At(r, "ccdDisk") \/ K!At(r, "verify")
      \/ K!At(r, "putIndex") \/ K!At(r, "indexDisk") \/ K!At(r, "listIndex")
      \/ K!At(r, "putCrl") \/ K!At(r, "crlDisk") \/ K!At(r, "listRevoked")
      \/ K!At(r, "answer")
  BY DEF K!Check, K!Absent, K!CcdDisk, K!Verify, K!PutIndex, K!IndexDisk, K!ListIndex,
         K!PutCrl, K!CrlDisk, K!ListRevoked, K!AnswerDone
<1>3. q.pc > 0
  BY <1>1, <1>2 DEF K!At
<1>4. /\ ~(q.op = "rotate" /\ q.pc \in {2, 9, 10})
      /\ ~(q.op = "saveCcd" /\ q.pc \in {1, 2}) /\ ~(q.op = "create" /\ q.pc = 7)
  BY <1>1, <1>2, Places DEF KubeTyped
<1>5. UNCHANGED secrets
  BY DEF K!Check, K!Absent, K!CcdDisk, K!Verify, K!PutIndex, K!IndexDisk, K!ListIndex,
         K!PutCrl, K!CrlDisk, K!ListRevoked, K!AnswerDone, K!Reads, K!Refused, K!store
<1>6. CASE K!ListIndex(r) \/ K!ListRevoked(r)
  <2>1. K!IndexTxt \in [K!Serials -> KubeRow] /\ K!Revoked \in SUBSET K!Serials
    BY DEF K!IndexTxt, K!Revoked, KubeRow, KubeTyped, KubeStoreTyped, K!Secret
  <2>2. /\ [q EXCEPT !.index = K!IndexTxt] \in KubeRequest
        /\ [q EXCEPT !.crl = K!Revoked] \in KubeRequest
    BY <2>1 DEF KubeRequest
  <2>3. PICK e \in KubeRequest :
           /\ e = [q EXCEPT !.index = K!IndexTxt] \/ e = [q EXCEPT !.crl = K!Revoked]
           /\ K!Continue(r, e) \/ K!Failed(r)
    BY <1>1, <1>6, <2>2 DEF K!ListIndex, K!ListRevoked, K!Reads
  <2>4. /\ e.op = q.op /\ e.pc = q.pc /\ e.user = q.user /\ e.alone = q.alone
        /\ e.keep = q.keep /\ e.ccd = q.ccd /\ e.copy = q.copy /\ e.serial = q.serial
    BY <2>3 DEF KubeRequest
  <2> QED
    BY <1>1, <1>3, <1>4, <1>5, <2>3, <2>4, CcdQuiet
<1>7. CASE ~(K!ListIndex(r) \/ K!ListRevoked(r))
  <2>1. K!Continue(r, q) \/ K!Failed(r)
    BY <1>1, <1>7 DEF K!Check, K!Absent, K!CcdDisk, K!Verify, K!PutIndex, K!IndexDisk,
         K!PutCrl, K!CrlDisk, K!AnswerDone, K!Reads, K!Refused, K!Writes
  <2> QED
    BY <1>1, <1>3, <1>4, <1>5, <2>1, CcdQuiet
<1> QED
  BY <1>6, <1>7

\* A call that fails and has no effect.
LEMMA CcdFailed ==
    ASSUME KubeTyped, CcdInv, UNCHANGED secrets, NEW r \in K!Reqs, req[r].pc > 0, K!Failed(r)
    PROVE  CcdInv'
<1>1. PICK q \in KubeRequest : q = req[r]
  BY KubeOwn DEF KubeTyped
<1>2. req'[r] = K!Idle /\ K!Idle.pc = 0
  BY FailedEffect, KubeIdle DEF KubeTyped
<1> DEFINE f == [q EXCEPT !.pc = @ + 1]
<1>3. f.pc = q.pc + 1 /\ q.pc \in Nat
  BY KubeMoved DEF KubeRequest
<1> HIDE DEF f
<1>4. req'[r] # f
  BY <1>2, <1>3
<1>5. CcdCall(q) /\ \A u : Steady(u)
  BY <1>1, KeptSteady DEF CcdInv
<1> QED
  BY <1>1, <1>4, <1>5, CcdEnds DEF f

LEMMA CcdGetStep ==
    ASSUME KubeTyped, CcdInv, NEW r \in K!Reqs, K!Get(r)
    PROVE  CcdInv'
<1>1. PICK q \in KubeRequest : q = req[r]
  BY KubeOwn DEF KubeTyped
<1>2. /\ q.op \in {"revoke", "unrevoke", "rotate", "delete"} /\ q.pc = 2 /\ CcdCall(q)
  BY <1>1, Places DEF K!Get, KubeTyped, CcdInv
<1>3. UNCHANGED secrets /\ \A u : Steady(u)
  BY KeptSteady DEF K!Get, K!Reads, K!Refused, K!store
<1>4. CASE K!Failed(r)
  BY <1>1, <1>2, <1>3, <1>4, CcdFailed
<1>5. ASSUME NEW s \in K!Named(q.user),
             K!Continue(r, [q EXCEPT !.serial = s, !.copy = secrets[s]])
      PROVE  CcdInv'
  <2>0. s \in K!Serials /\ secrets[s] \in K!Secret
    BY DEF K!Named, KubeTyped, KubeStoreTyped
  <2>1. [q EXCEPT !.serial = s, !.copy = secrets[s]] \in KubeRequest
    BY <2>0, KubeSerials DEF KubeRequest
  <2>2. PICK e \in KubeRequest : e = [q EXCEPT !.serial = s, !.copy = secrets[s]]
    BY <2>1
  <2>3. /\ e.op = q.op /\ e.pc = q.pc /\ e.user = q.user /\ e.alone = q.alone
        /\ e.keep = q.keep /\ e.copy = secrets[s]
    BY <2>2 DEF KubeRequest
  <2>4. K!Continue(r, e)
    BY <1>5, <2>2
  <2>5. CcdCall(e)
    BY <1>2, <2>3 DEF CcdCall, AtPutCcd
  <2> DEFINE f == [e EXCEPT !.pc = @ + 1]
  <2>6. f.pc = 3 /\ f.op = q.op /\ f.alone = q.alone /\ f.keep = q.keep /\ f.copy = secrets[s]
    BY <1>2, <2>3, KubeMoved
  <2> HIDE DEF f
  <2>7. q.alone /\ q.op = "rotate" /\ q.keep # "none" => secrets[s].ccd = q.keep
    BY <1>2 DEF CcdCall, HasCcd
  <2>8. CcdCall(f)'
    BY <1>2, <2>6, <2>7 DEF CcdCall, AtPutCcd
  <2> QED
    BY <1>1, <1>2, <1>3, <2>3, <2>4, <2>5, <2>8, CcdEnds DEF f
<1> QED
  BY <1>1, <1>4, <1>5 DEF K!Get, K!Reads, K!Refused

LEMMA CcdGetCcdStep ==
    ASSUME KubeNames, KubeTyped, CcdInv, NEW r \in K!Reqs, K!GetCcd(r)
    PROVE  CcdInv'
<1>1. PICK q \in KubeRequest : q = req[r] /\ CalledWith(q)
  BY KubeOwn DEF KubeTyped
<1>2. /\ \/ q.op = "create" /\ q.pc = 7
         \/ q.op = "rotate" /\ q.pc = 9
         \/ q.op = "saveCcd" /\ q.pc = 1
      /\ CcdCall(q)
  BY <1>1, Places DEF K!GetCcd, KubeTyped, CcdInv
<1>3. CASE K!Transferred(q, q.copy) = "none"
  <2>1. /\ req' = [req EXCEPT ![r] = Skipped(q)]
        /\ UNCHANGED <<secrets, saved>>
        /\ q.op = "rotate" /\ q.pc = 9
    BY <1>1, <1>3, KubeSkips DEF KubeTyped, K!store, K!history
  <2>2. PICK f \in KubeRequest : f = Skipped(q)
    BY SkippedFields
  <2>3. /\ f.pc = 12 /\ f.op = "rotate" /\ f.user = q.user /\ f.alone = q.alone
        /\ f.keep = q.keep
    BY <2>1, <2>2, SkippedFields
  <2>4. ~(q.alone /\ q.keep # "none")
    BY <1>2, <1>3, <2>1 DEF CcdCall, K!Transferred
  <2>5. CcdCall(f)'
    BY <2>3, <2>4 DEF CcdCall, AtPutCcd
  <2>6. \A o \in K!Reqs : req'[o] = (IF o = r THEN f ELSE req[o])
    BY <2>1, <2>2 DEF KubeTyped, KubeReqTyped
  <2>7. \A o \in K!Reqs : CcdCall(req[o])'
    <3>1. ASSUME NEW o \in K!Reqs
          PROVE  CcdCall(req[o])'
      <4>1. PICK p \in KubeRequest : p = req[o]
        BY KubeOwn DEF KubeTyped
      <4>2. CcdCall(p)'
        BY <2>1, <4>1, KeptSteady, CcdCallKept DEF CcdInv
      <4> QED
        BY <2>5, <2>6, <4>1, <4>2 DEF CcdCall, AtPutCcd
    <3> QED
      BY <3>1
  <2>8. \A o \in K!Reqs : Writing(req[o])' =>
             /\ Writing(req[o]) /\ req'[o].user = req[o].user /\ req'[o].alone = req[o].alone
    BY <1>1, <2>1, <2>3, <2>6 DEF Writing
  <2>9. AloneKnown'
    BY <2>8 DEF CcdInv, AloneKnown
  <2>10. SavedThere'
    BY <2>1, <2>8 DEF CcdInv, SavedThere, HasCcd, K!Named
  <2> QED
    BY <2>7, <2>9, <2>10 DEF CcdInv
<1>4. ASSUME UNCHANGED secrets, NEW s \in K!Serials, K!Named(q.user) = {s},
             K!Continue(r, Fetched(q, s))
      PROVE  CcdInv'
  <2>1. /\ Fetched(q, s) \in KubeRequest
        /\ Fetched(q, s).op = q.op /\ Fetched(q, s).pc = q.pc /\ Fetched(q, s).user = q.user
        /\ Fetched(q, s).copy = secrets[s] /\ Fetched(q, s).alone = q.alone
        /\ Fetched(q, s).keep = q.keep /\ Fetched(q, s).ccd = K!Transferred(q, q.copy)
        /\ Fetched(q, s).serial = s
    BY <1>1, <1>2, FetchedFields DEF KubeTyped
  <2>2. PICK e \in KubeRequest : e = Fetched(q, s)
    BY <2>1
  <2>3. K!Continue(r, e) /\ e.op = q.op /\ e.pc = q.pc /\ e.user = q.user /\ e.alone = q.alone
    BY <1>4, <2>1, <2>2
  <2> DEFINE f == [e EXCEPT !.pc = @ + 1]
  <2>4. /\ f.pc = q.pc + 1 /\ f.op = q.op /\ f.user = q.user /\ f.serial = s
        /\ f.copy = secrets[s] /\ f.alone = q.alone /\ f.keep = q.keep
        /\ f.ccd = K!Transferred(q, q.copy)
    BY <2>1, <2>2, KubeMoved
  <2> HIDE DEF f
  <2>5. secrets[s].name = q.user
    BY <1>4 DEF K!Named
  <2>6. K!Named(q.user)' \subseteq {s}
    BY <1>4 DEF K!Named
  <2>7. q.op = "rotate" /\ q.alone /\ q.keep # "none" => f.ccd = q.keep
    BY <1>2, <2>4 DEF CcdCall, K!Transferred
  <2>8. CcdCall(f)'
    <3>1. AtPutCcd(f)
      BY <1>2, <2>4 DEF AtPutCcd
    <3>2. K!Named(f.user)' \subseteq {f.serial} /\ f.copy.name = f.user
      BY <2>4, <2>5, <2>6
    <3> QED
      BY <1>2, <2>4, <2>7, <3>2 DEF CcdCall, AtPutCcd
  <2>9. UNCHANGED saved /\ e.pc > 0
    <3>1. ~(e.pc = Len(K!Path[e.op]) /\ e.op \in {"saveCcd", "rotate"})
      BY <1>2, <2>3, PathRotate, PathSaveCcd
    <3> QED
      BY <1>2, <2>3, <3>1, SavedEffect
  <2> QED
    BY <1>1, <1>4, <2>3, <2>8, <2>9, KeptSteady, CcdEnds DEF f
<1>5. CASE K!Transferred(q, q.copy) # "none"
  <2>1. UNCHANGED secrets
    BY <1>1, <1>5 DEF K!GetCcd, K!Reads, K!Refused, K!store
  <2>2. CASE K!Failed(r)
    <3>1. req[r].pc > 0
      BY DEF K!GetCcd, K!At
    <3> QED
      BY <2>1, <2>2, <3>1, CcdFailed
  <2>3. CASE \E s \in K!Serials : K!Named(q.user) = {s}
    <3>1. PICK s \in K!Serials : K!Named(q.user) = {s}
      BY <2>3
    <3>2. K!Reads(r, Fetched(q, s))
      BY <1>1, <1>5, <3>1 DEF K!GetCcd, Fetched
    <3> QED
      BY <1>4, <2>1, <2>2, <3>1, <3>2 DEF K!Reads
  <2> QED
    BY <1>1, <1>5, <2>2, <2>3 DEF K!GetCcd, K!Refused
<1> QED
  BY <1>3, <1>5

\* The CCD of the secret that an update makes.
LEMMA UpdateCcds ==
    ASSUME NEW c \in K!Secret, NEW d \in Ccds \cup {"clean", "none"}
    PROVE  /\ Stamped(c).ccd = c.ccd /\ Cleared(c).ccd = c.ccd /\ PutAway(c).ccd = c.ccd
           /\ PutAway(c).name = K!Archived /\ WithCcd(c, d).ccd = d
  BY DEF K!Secret, Stamped, Cleared, PutAway, WithCcd

\* What an update does to the secrets of each user.
LEMMA UpdateSteady ==
    ASSUME KubeTyped, KubeBase, NEW r \in K!Reqs, NEW q \in KubeRequest, q = req[r],
           KubeFresh(q), NEW new \in K!Secret, new.version = q.copy.version, K!Update(r, new),
           new.name = q.copy.name \/ new.name = K!Archived
    PROVE  /\ K!Continue(r, q) \/ K!Failed(r)
           /\ \A u \in Users : u # q.copy.name \/ new.ccd = q.copy.ccd => Steady(u)
           /\ K!Failed(r) \/ (secrets'[q.serial].ccd = new.ccd /\
                              \A s \in K!Serials : secrets'[s].name = q.copy.name =>
                                  secrets[s].name = q.copy.name)
<1>0. q.serial \in K!Serials /\ q.copy \in K!Secret
  BY DEF KubeFresh, K!Issued, KubeRequest
<1>1. K!Archived \notin Users
  BY VpnUsersAssumption DEF K!Archived
<1>2. /\ K!Continue(r, q) \/ K!Failed(r)
      /\ \/ UNCHANGED secrets /\ K!Failed(r)
         \/ /\ q.copy = secrets[q.serial]
            /\ secrets' = [secrets EXCEPT ![q.serial] = [new EXCEPT !.version = @ + 1]]
  BY UpdateEffect
<1>3. CASE UNCHANGED secrets /\ K!Failed(r)
  BY <1>2, <1>3, KeptSteady
<1>4. CASE /\ q.copy = secrets[q.serial]
           /\ secrets' = [secrets EXCEPT ![q.serial] = [new EXCEPT !.version = @ + 1]]
  <2> DEFINE put == [new EXCEPT !.version = @ + 1]
  <2>1. put.name = new.name /\ put.ccd = new.ccd
    BY DEF K!Secret
  <2> HIDE DEF put
  <2>2. /\ secrets'[q.serial] = put
        /\ \A s \in K!Serials \ {q.serial} : secrets'[s] = secrets[s]
    BY <1>0, <1>4 DEF put, KubeTyped, KubeStoreTyped
  <2>3. ASSUME NEW u \in Users, u # q.copy.name \/ new.ccd = q.copy.ccd
        PROVE  Steady(u)
    <3>1. u # K!Archived
      BY <1>1
    <3> QED
      BY <1>4, <2>1, <2>2, <2>3, <3>1 DEF Steady
  <2> QED
    BY <1>2, <1>4, <2>1, <2>2, <2>3
<1> QED
  BY <1>2, <1>3, <1>4

LEMMA CcdSecretStep ==
    ASSUME KubeTyped, KubeBase, CcdInv, NEW r \in K!Reqs,
           K!Stamp(r) \/ K!Clear(r) \/ K!Archive(r) \/ K!PutCcd(r)
    PROVE  CcdInv'
<1>1. PICK q \in KubeRequest : q = req[r]
  BY KubeOwn DEF KubeTyped
<1>2. CcdCall(q) /\ KubeHeld(q) /\ q.copy \in K!Secret /\ q.ccd \in Ccds \cup {"clean", "none"}
  BY <1>1 DEF CcdInv, KubeBase, KubeRequest
<1> DEFINE c == q.copy
           d == q.ccd
<1>0. /\ Stamped(c) \in K!Secret /\ Stamped(c).version = c.version
      /\ Stamped(c).name = c.name /\ Stamped(c).ccd = c.ccd
      /\ Cleared(c) \in K!Secret /\ Cleared(c).version = c.version
      /\ Cleared(c).name = c.name /\ Cleared(c).ccd = c.ccd
      /\ PutAway(c) \in K!Secret /\ PutAway(c).version = c.version
      /\ PutAway(c).name = K!Archived /\ PutAway(c).ccd = c.ccd
      /\ WithCcd(c, d) \in K!Secret /\ WithCcd(c, d).version = c.version
      /\ WithCcd(c, d).name = c.name /\ WithCcd(c, d).ccd = d
  <2> HIDE DEF c, d
  <2>1. c \in K!Secret /\ d \in Ccds \cup {"clean", "none"}
    BY <1>2 DEF c, d
  <2>2. /\ Stamped(c) \in K!Secret /\ Stamped(c).version = c.version
        /\ Stamped(c).name = c.name
        /\ Cleared(c) \in K!Secret /\ Cleared(c).version = c.version
        /\ Cleared(c).name = c.name
        /\ PutAway(c) \in K!Secret /\ PutAway(c).version = c.version
        /\ WithCcd(c, d) \in K!Secret /\ WithCcd(c, d).version = c.version
        /\ WithCcd(c, d).name = c.name
    BY <2>1, UpdateFields
  <2>3. /\ Stamped(c).ccd = c.ccd /\ Cleared(c).ccd = c.ccd /\ PutAway(c).ccd = c.ccd
        /\ PutAway(c).name = K!Archived /\ WithCcd(c, d).ccd = d
    BY <2>1, UpdateCcds
  <2> QED
    BY <2>2, <2>3
<1>3. CASE K!Stamp(r) \/ K!Clear(r) \/ K!Archive(r)
  <2>1. q.op \in {"revoke", "unrevoke", "rotate", "delete"} /\ q.pc = 3 /\ KubeFresh(q)
    BY <1>1, <1>2, <1>3, Places DEF K!Stamp, K!Clear, K!Archive, KubeTyped, KubeHeld
  <2>2. CASE UNCHANGED secrets /\ K!Continue(r, q)
    BY <1>1, <2>1, <2>2, CcdQuiet
  <2>3. CASE \E new \in {Stamped(q.copy), Cleared(q.copy), PutAway(q.copy)} : K!Update(r, new)
    <3>1. PICK new \in {Stamped(q.copy), Cleared(q.copy), PutAway(q.copy)} : K!Update(r, new)
      BY <2>3
    <3>2. /\ new \in K!Secret /\ new.version = q.copy.version /\ new.ccd = q.copy.ccd
          /\ new.name = q.copy.name \/ new.name = K!Archived
      BY <1>0, <3>1
    <3>3. /\ K!Continue(r, q) \/ K!Failed(r)
          /\ \A u \in Users : Steady(u)
      BY <1>1, <2>1, <3>1, <3>2, UpdateSteady
    <3>4. CcdCall([q EXCEPT !.pc = @ + 1])'
      BY <1>2, <2>1, CcdMoved
    <3>5. UNCHANGED saved
      <4>1. ~(q.pc = Len(K!Path[q.op]) /\ q.op \in {"saveCcd", "rotate"})
        <5>1. Len(K!Path["rotate"]) # 3
          BY PathRotate
        <5> QED
          BY <2>1, <5>1
      <4> QED
        BY <3>3, <4>1, SavedEffect
    <3> QED
      BY <1>1, <2>1, <3>3, <3>4, <3>5, CcdEnds
  <2> QED
    BY <1>1, <1>3, <2>2, <2>3
       DEF K!Stamp, K!Clear, K!Archive, Stamped, Cleared, PutAway, K!store
<1>4. CASE K!PutCcd(r)
  <2>1. AtPutCcd(q) /\ KubeFresh(q) /\ q.copy.name = q.user
    BY <1>1, <1>2, <1>4, Places DEF K!PutCcd, KubeTyped, KubeHeld, AtPutCcd, CcdCall
  <2>2. K!Update(r, WithCcd(q.copy, q.ccd))
    BY <1>1, <1>4 DEF K!PutCcd, WithCcd
  <2>3. /\ WithCcd(q.copy, q.ccd) \in K!Secret
        /\ WithCcd(q.copy, q.ccd).version = q.copy.version
        /\ WithCcd(q.copy, q.ccd).name = q.copy.name /\ WithCcd(q.copy, q.ccd).ccd = q.ccd
    BY <1>0
  <2>4. /\ K!Continue(r, q) \/ K!Failed(r)
        /\ \A u \in Users : u # q.user => Steady(u)
        /\ K!Failed(r) \/ (secrets'[q.serial].ccd = q.ccd /\
                           \A s \in K!Serials : secrets'[s].name = q.user =>
                               secrets[s].name = q.user)
    BY <1>1, <2>1, <2>2, <2>3, UpdateSteady
  <2>5. Writing(q) /\ q.pc > 0
    BY <2>1 DEF Writing, AtPutCcd, K!WritesCcd
  <2>6. UNCHANGED saved
    <3>1. ~(q.pc = Len(K!Path[q.op]) /\ q.op \in {"saveCcd", "rotate"})
      <4>1. Len(K!Path["rotate"]) # 10 /\ Len(K!Path["saveCcd"]) # 2
        BY PathRotate, PathSaveCcd
      <4> QED
        BY <2>1, <4>1 DEF AtPutCcd
    <3> QED
      BY <2>4, <3>1, SavedEffect
  <2> DEFINE f == [q EXCEPT !.pc = @ + 1]
  <2>7. /\ f.pc = q.pc + 1 /\ f.op = q.op /\ f.user = q.user /\ f.alone = q.alone
        /\ f.keep = q.keep /\ f.ccd = q.ccd /\ q.pc \in Nat
    BY KubeMoved DEF KubeRequest
  <2> HIDE DEF f
  <2>8. ASSUME req'[r] = f
        PROVE  CcdCall(f)'
    <3>1. ~K!Failed(r)
      <4>1. K!Idle.pc = 0 /\ (K!Failed(r) => req'[r] = K!Idle)
        BY FailedEffect, KubeIdle DEF KubeTyped
      <4> QED
        BY <2>5, <2>7, <2>8, <4>1
    <3>2. q.alone => HasCcd(q.user, q.ccd)'
      <4> SUFFICES ASSUME q.alone, NEW s \in K!Serials, secrets'[s].name = q.user
                   PROVE  secrets'[s].ccd = q.ccd
        BY DEF HasCcd, K!Named
      <4>1. s = q.serial
        BY <1>2, <2>1, <2>4, <3>1 DEF CcdCall, K!Named
      <4> QED
        BY <2>4, <3>1, <4>1
    <3>3. q.alone => HasCcd(f.user, f.ccd)'
      BY <2>7, <3>2
    <3>4. f.alone /\ f.op = "rotate" /\ f.keep # "none" => f.ccd = f.keep /\ f.pc = 11
      BY <1>2, <2>1, <2>7 DEF CcdCall, AtPutCcd
    <3>5. ~AtPutCcd(f)
      BY <2>1, <2>7 DEF AtPutCcd
    <3>6. f.alone /\ f.op = "rotate" /\ f.keep # "none" => HasCcd(f.user, f.keep)'
      BY <2>7, <3>3, <3>4
    <3> QED
      BY <2>7, <3>3, <3>4, <3>5, <3>6 DEF CcdCall, AtPutCcd
  <2> QED
    BY <1>1, <2>4, <2>5, <2>6, <2>8, CcdEnds DEF f
<1> QED
  BY <1>3, <1>4

LEMMA CcdCreateStep ==
    ASSUME KubeTyped, KubeBase, CcdInv, NEW r \in K!Reqs, K!Create(r)
    PROVE  CcdInv'
<1>1. PICK q \in KubeRequest : q = req[r]
  BY KubeOwn DEF KubeTyped
<1>2. /\ K!Continue(r, q) \/ K!Failed(r)
      /\ (q.op = "create" /\ q.pc = 3) \/ (q.op = "rotate" /\ q.pc = 5)
      /\ \/ UNCHANGED secrets
         \/ \E s \in K!Serials : /\ secrets'[s].name = q.user
                                 /\ \A t \in K!Serials \ {s} : secrets'[t] = secrets[t]
  BY <1>1, CreateEffect
<1>3. Writing(q) /\ CcdCall(q)
  BY <1>1, <1>2 DEF Writing, K!WritesCcd, CcdInv
<1>4. \A u \in Users : u # q.user => Steady(u)
  BY <1>2 DEF Steady
<1>5. UNCHANGED saved
  <2>1. ~(q.pc = Len(K!Path[q.op]) /\ q.op \in {"saveCcd", "rotate"})
    <3>1. CASE q.op = "create" /\ q.pc = 3
      BY <3>1
    <3>2. CASE q.op = "rotate" /\ q.pc = 5
      <4>1. q.pc # Len(K!Path["rotate"])
        BY <3>2, PathRotate
      <4> QED
        BY <3>2, <4>1
    <3> QED
      BY <1>2, <3>1, <3>2
  <2> QED
    BY <1>2, <2>1, SavedEffect
<1>6. CcdCall([q EXCEPT !.pc = @ + 1])'
  BY <1>2, <1>3, CcdMoved
<1>7. q.pc > 0
  BY <1>2
<1> QED
  BY <1>1, <1>2, <1>3, <1>4, <1>5, <1>6, <1>7, CcdEnds

LEMMA CcdStartStep ==
    ASSUME KubeTyped, CcdInv, NEW r \in K!Reqs,
           NEW op \in {"create", "revoke", "unrevoke", "rotate", "delete", "saveCcd"},
           NEW u \in Users, NEW c \in Ccds \cup {"clean"}, K!Start(r, op, u, c)
    PROVE  CcdInv'
<1> DEFINE a == ~K!Replacing(u)
           k == IF op = "rotate" THEN saved[u] ELSE "none"
           touched == op \in K!WritesCcd
<1>1. req' = [o \in K!Reqs |->
                 IF o = r THEN Begun(op, u, c, a, k)
                 ELSE IF touched /\ req[o].user = u THEN [req[o] EXCEPT !.alone = FALSE]
                 ELSE req[o]]
  BY DEF K!Start, Begun
<1>2. a \in BOOLEAN /\ k \in Ccds \cup {"none"} /\ op \in KubeOps
  BY DEF K!Replacing, KubeTyped, KubeRestTyped, KubeOps
<1>3. /\ UNCHANGED secrets
      /\ \A v \in Users : saved'[v] \in {saved[v], "none"}
      /\ touched => saved'[u] = "none"
  BY DEF K!Start, K!store, KubeTyped, KubeRestTyped
<1>4. \A o \in K!Reqs : req[o] \in KubeRequest /\ (Writing(req[o]) => req[o].user \in Users)
  BY KubeOwn DEF KubeTyped, CalledWith, Writing, K!WritesCcd
<1>5. \A o \in K!Reqs \ {r} : touched /\ Writing(req[o]) /\ req[o].user = u => ~a
  BY DEF K!Replacing, Writing
<1>6. k # "none" => op = "rotate" /\ HasCcd(u, k)
  BY DEF CcdInv, SavedThere
<1> HIDE DEF a, k
<1>7. PICK b \in KubeRequest : b = Begun(op, u, c, a, k)
  BY <1>2, BegunFields
<1>8. b.op = op /\ b.user = u /\ b.pc = 1 /\ b.alone = a /\ b.keep = k
  <2>1. u \in Users \cup {"none"} /\ c \in Ccds \cup {"clean", "none"}
    OBVIOUS
  <2> QED
    BY <1>2, <1>7, <2>1, BegunFields
<1>9. req'[r] = b
  BY <1>1, <1>7
<1>10. ASSUME NEW o \in K!Reqs \ {r}
       PROVE  /\ Writing(req[o])' <=> Writing(req[o])
              /\ req'[o].user = req[o].user
              /\ req'[o].alone => req[o].alone /\ ~(touched /\ req[o].user = u)
              /\ CcdCall(req[o])'
  <2>1. PICK p \in KubeRequest : p = req[o]
    BY <1>4
  <2>2. CcdCall(p) /\ CcdCall(p)'
    BY <1>3, <2>1, KeptSteady, CcdCallKept DEF CcdInv
  <2>3. CASE req'[o] = p /\ ~(touched /\ req[o].user = u)
    BY <2>1, <2>2, <2>3 DEF CcdCall, AtPutCcd, Writing
  <2>4. CASE req'[o] = [p EXCEPT !.alone = FALSE]
    <3> DEFINE f == [p EXCEPT !.alone = FALSE]
    <3>1. /\ f.op = p.op /\ f.user = p.user /\ f.pc = p.pc /\ f.copy = p.copy /\ ~f.alone
      BY Interrupted
    <3> HIDE DEF f
    <3>2. req'[o] = f
      BY <2>4 DEF f
    <3>3. CcdCall(f)'
      BY <2>2, <3>1 DEF CcdCall, AtPutCcd
    <3> QED
      BY <2>1, <3>1, <3>2, <3>3 DEF CcdCall, AtPutCcd, Writing
  <2> QED
    BY <1>1, <2>1, <2>3, <2>4
<1>11. CcdCall(req[r])'
  <2>1. b.keep # "none" => HasCcd(b.user, b.keep)
    BY <1>6, <1>8
  <2>2. b.keep # "none" => HasCcd(b.user, b.keep)'
    BY <1>3, <2>1 DEF HasCcd, K!Named
  <2>3. CcdCall(b)'
    BY <1>8, <2>2 DEF CcdCall, AtPutCcd
  <2> QED
    BY <1>9, <2>3 DEF CcdCall, AtPutCcd
<1>12. AloneKnown'
  <2> SUFFICES ASSUME NEW x \in K!Reqs, NEW y \in K!Reqs, x # y, Writing(req[x])',
                      Writing(req[y])', req'[x].user = req'[y].user, req'[x].alone
               PROVE  FALSE
    BY DEF AloneKnown
  <2>1. CASE x = r
    <3>1. touched /\ Writing(req[y]) /\ req[y].user = u /\ a
      BY <1>8, <1>9, <1>10, <2>1 DEF Writing
    <3> QED
      BY <1>5, <2>1, <3>1
  <2>2. CASE y = r
    <3>1. touched /\ req[x].user = u
      BY <1>8, <1>9, <1>10, <2>2 DEF Writing
    <3> QED
      BY <1>10, <2>2, <3>1
  <2>3. CASE x # r /\ y # r
    BY <1>10, <2>3 DEF CcdInv, AloneKnown
  <2> QED
    BY <2>1, <2>2, <2>3
<1>13. SavedThere'
  <2>1. ASSUME NEW v \in Users, saved'[v] # "none"
        PROVE  HasCcd(v, saved[v])'
    BY <1>3, <2>1 DEF CcdInv, SavedThere, HasCcd, K!Named
  <2>2. ASSUME NEW o \in K!Reqs, Writing(req[o])'
        PROVE  saved'[req'[o].user] = "none"
    <3>1. CASE o = r
      BY <1>3, <1>8, <1>9, <2>2, <3>1 DEF Writing
    <3>2. CASE o # r
      BY <1>3, <1>4, <1>10, <2>2, <3>2 DEF CcdInv, SavedThere
    <3> QED
      BY <3>1, <3>2
  <2> QED
    BY <2>1, <2>2 DEF SavedThere
<1> QED
  BY <1>10, <1>11, <1>12, <1>13 DEF CcdInv

LEMMA CcdNext ==
    ASSUME KubeNames, KubeTyped, KubeBase, CcdInv, [K!Next]_K!vars
    PROVE  CcdInv'
<1>1. ASSUME NEW r \in K!Reqs, K!Step(r)
      PROVE  CcdInv'
  BY <1>1, CcdCallStep, CcdGetStep, CcdGetCcdStep, CcdSecretStep, CcdCreateStep DEF K!Step
<1>2. ASSUME UNCHANGED <<secrets, saved>>,
             \A o \in K!Reqs : req'[o] = req[o] \/ ~Writing(req[o])'
      PROVE  CcdInv'
  <2>1. AloneKnown' /\ SavedThere'
    BY <1>2 DEF CcdInv, AloneKnown, SavedThere, HasCcd, K!Named, Writing
  <2>2. ASSUME NEW o \in K!Reqs
        PROVE  CcdCall(req[o])'
    <3>1. CASE req'[o] = req[o]
      <4>1. PICK p \in KubeRequest : p = req[o]
        BY KubeOwn DEF KubeTyped
      <4>2. CcdCall(p)'
        BY <1>2, <4>1, KeptSteady, CcdCallKept DEF CcdInv
      <4> QED
        BY <3>1, <4>1, <4>2 DEF CcdCall, AtPutCcd
    <3>2. CASE ~Writing(req[o])'
      <4>1. req'[o] \in KubeRequest /\ req'[o].pc \in Nat
        BY KubeOwn, KubeNextTyped DEF KubeTyped, KubeReqTyped, KubeRequest
      <4> QED
        BY <3>2, <4>1 DEF CcdCall, AtPutCcd, Writing, K!WritesCcd
    <3> QED
      BY <1>2, <3>1, <3>2
  <2> QED
    BY <2>1, <2>2 DEF CcdInv
<1>3. ASSUME NEW r \in K!Reqs, K!RenewalTick(r) \/ K!Boot(r)
      PROVE  CcdInv'
  <2>1. /\ req'[r].op \in {"renew", "run"}
        /\ \A o \in K!Reqs \ {r} : req'[o] = req[o]
    BY <1>3, RenewalIsRenew, KubeBegins DEF K!Boot
  <2>2. ~Writing(req[r])'
    BY <2>1 DEF Writing, K!WritesCcd
  <2>3. UNCHANGED <<secrets, saved>>
    BY <1>3 DEF K!RenewalTick, K!Boot, K!store, K!history
  <2> QED
    BY <1>2, <2>1, <2>2, <2>3
<1>4. CASE K!Crash
  <2>1. UNCHANGED <<secrets, saved>>
    BY <1>4 DEF K!Crash, K!store, K!history
  <2>2. \A o \in K!Reqs : req'[o] = K!Idle
    BY <1>4 DEF K!Crash
  <2>3. \A o \in K!Reqs : ~Writing(req[o])'
    BY <2>2, KubeIdle DEF Writing
  <2> QED
    BY <1>2, <2>1, <2>3
<1>5. CASE K!ListUsers \/ UNCHANGED K!vars
  <2>1. UNCHANGED <<secrets, saved, req>>
    BY <1>5 DEF K!ListUsers, K!vars, K!store, K!history
  <2> QED
    BY <1>2, <2>1
<1> QED
  BY <1>1, <1>3, <1>4, <1>5, CcdStartStep DEF K!Next

LEMMA CcdInit ==
    ASSUME K!Init
    PROVE  CcdInv
<1>1. \A r \in K!Reqs : req[r] = K!Idle
  BY DEF K!Init
<1>2. K!Idle.pc = 0
  BY KubeIdle
<1>3. \A u \in Users : saved[u] = "none"
  BY DEF K!Init
<1> QED
  BY <1>1, <1>2, <1>3
     DEF CcdInv, AloneKnown, SavedThere, CcdCall, AtPutCcd, Writing

\* The CCD that was last reported as saved stays with the user, through revoke,
\* unrevoke and rotation, for any overlapping operations, failing calls and crashes: no
\* update from an older copy of the secret brings back another CCD (kubernetes.go:
\* secretUpdateCcd, easyrsaRotate, transferRoutes).
THEOREM SavedCcdKept ==
    ASSUME K!KubernetesStoreAssumption
    PROVE  K!Spec => []K!CcdKept
<1>1. K!Init => CcdInv
  BY CcdInit
<1>2. KubeNames
  BY KubeAssumed
<1>3. KubeTyped /\ KubeBase /\ CcdInv /\ [K!Next]_K!vars => CcdInv'
  BY <1>2, CcdNext
<1>4. KubeTyped /\ CcdInv => K!CcdKept
  BY DEF KubeTyped, KubeRestTyped, CcdInv, SavedThere, HasCcd, K!CcdKept
<1> QED
  BY <1>1, <1>2, <1>3, <1>4, KubeBaseInductive, PTL DEF K!Spec

-----------------------------------------------------------------------------
(* Who can connect, until a second call fails: operations one at a time *)

\* The index lists every secret of a user.
Covers(listing) == \A u \in Users : \A s \in K!Named(u) : listing[s].name = u

\* A certificate that was just built, and one that can be used.
Admitted(u) ==
    \E s \in K!Serials : /\ K!Named(u) = {s} /\ ~secrets[s].revokedAt
                         /\ s \notin crlSecret /\ s \notin crlDisk
Reachable(u) ==
    \E s \in K!Serials : /\ K!Named(u) = {s} /\ ~secrets[s].revokedAt
                         /\ s \notin crlSecret /\ s \notin crlDisk
                         /\ idxSecret[s] = [name |-> u, revokedAt |-> FALSE]

AtPutIndex(q) ==
    \/ q.op = "create" /\ q.pc = 5
    \/ q.op \in {"revoke", "unrevoke", "delete"} /\ q.pc \in {5, 8}
    \/ q.op = "rotate" /\ q.pc \in {7, 13, 16}
    \/ q.op = "renew" /\ q.pc = 2
    \/ q.op = "run" /\ q.pc \in {2, 4}

AtPutCrl(q) ==
    \/ q.op \in {"revoke", "delete", "unrevoke"} /\ q.pc = 10
    \/ q.op = "rotate" /\ q.pc = 18
    \/ q.op = "renew" /\ q.pc = 4
    \/ q.op = "run" /\ q.pc = 6

\* While a new certificate is not in the index on the disk, or the start has not
\* written it.
Behind(q) ==
    \/ q.op = "create" /\ q.pc \in {4, 5, 6}
    \/ q.op = "rotate" /\ q.pc \in {6, 7, 8}
    \/ q.op = "run" /\ q.pc > 0 /\ q.pc < 10

Absentee(q) ==
    \/ q.op = "create" /\ q.pc = 3
    \/ q.op = "rotate" /\ q.pc \in {4, 5}

Built(q) ==
    \/ q.op = "create" /\ q.pc \in {4, 5}
    \/ q.op = "rotate" /\ q.pc \in {6, 7}

Ready(q) ==
    \/ q.op = "create" /\ q.pc > 5
    \/ q.op = "rotate" /\ q.pc > 7

\* What the request q counts on.  The list it is about to put is the list as it is.  Its
\* user has no certificate before one is built, as the index told while nothing had
\* failed, or as the list of secrets told; and one that can be used when it is done.
LiveCall(q) ==
    /\ AtPutIndex(q) => q.index = K!IndexTxt
    /\ AtPutCrl(q) => q.crl = K!Revoked
    /\ q.op \in {"revoke", "unrevoke", "rotate", "delete"} /\ q.pc > 0 => q.user \notin good
    /\ failures = 0 =>
          /\ q.op = "create" /\ q.pc = 2 => K!Named(q.user) = {}
          /\ \/ q.op = "create" /\ q.pc = 6
             \/ q.op = "rotate" /\ q.pc = 8
             \/ q.op = "run" /\ q.pc > 2 /\ q.pc < 10
             => Covers(idxSecret)
    /\ failures <= 1 =>
          /\ Absentee(q) => K!Named(q.user) = {}
          /\ Built(q) => Admitted(q.user)
          /\ Ready(q) => Reachable(q.user)
          /\ q.op = "unrevoke" =>
                /\ q.pc > 2 => K!Named(q.user) = {q.serial}
                /\ q.pc > 3 => ~secrets[q.serial].revokedAt
                /\ q.pc > 5 => idxSecret[q.serial] = [name |-> q.user, revokedAt |-> FALSE]
                /\ q.pc > 10 => q.serial \notin crlSecret

\* Requests are handled by a process that is up.
Running == \A r \in K!Reqs : req[r].pc > 0 => up

\* As long as nothing has failed, both copies of the index list every secret.
IndexKept ==
    failures = 0 /\ up /\ (\A r \in K!Reqs : ~Behind(req[r])) =>
        Covers(idxSecret) /\ Covers(idxDisk)

GoodKept == failures <= 1 => \A u \in good : Reachable(u)

LiveInv ==
    /\ Running /\ IndexKept /\ GoodKept /\ K!OneSecretPerUser
    /\ \A r \in K!Reqs : LiveCall(req[r])

\* The names and the marks of the secrets are as they were; index.txt and the CRL are
\* as they were, or have been rebuilt or copied.
Refreshed ==
    /\ SameMarks
    /\ idxSecret' \in {idxSecret, K!IndexTxt} /\ idxDisk' \in {idxDisk, idxSecret}
    /\ crlSecret' \in {crlSecret, K!Revoked} /\ crlDisk' \in {crlDisk, crlSecret}

LEMMA RefreshedKeeps ==
    ASSUME KubeStoreTyped, Refreshed
    PROVE  /\ K!Revoked' = K!Revoked /\ K!IndexTxt' = K!IndexTxt
           /\ \A u : K!Named(u)' = K!Named(u)
           /\ \A s \in K!Serials : secrets'[s].revokedAt = secrets[s].revokedAt
           /\ Covers(K!IndexTxt)
           /\ Covers(idxSecret) => Covers(idxSecret)'
           /\ Covers(idxSecret) /\ Covers(idxDisk) => Covers(idxDisk)'
           /\ \A u : Admitted(u) => Admitted(u)'
           /\ \A u : Reachable(u) => Reachable(u)'
<1>1. K!Revoked' = K!Revoked /\ \A u : K!Named(u)' = K!Named(u)
  BY MarksKept DEF Refreshed
<1>2. \A s \in K!Serials : /\ secrets'[s].name = secrets[s].name
                           /\ secrets'[s].revokedAt = secrets[s].revokedAt
  BY DEF Refreshed, SameMarks
<1>3. K!IndexTxt' = K!IndexTxt
  BY <1>2 DEF K!IndexTxt
<1>4. \A s \in K!Serials :
          K!IndexTxt[s] = [name |-> secrets[s].name, revokedAt |-> secrets[s].revokedAt]
  BY DEF K!IndexTxt
<1>5. \A s \in K!Serials : s \in K!Revoked => secrets[s].revokedAt
  BY DEF K!Revoked
<1>6. Covers(K!IndexTxt)
  <2> SUFFICES ASSUME NEW u \in Users, NEW s \in K!Named(u)
               PROVE  K!IndexTxt[s].name = u
    BY DEF Covers
  <2>1. s \in K!Serials /\ secrets[s].name = u
    BY DEF K!Named
  <2>2. K!IndexTxt[s] = [name |-> secrets[s].name, revokedAt |-> secrets[s].revokedAt]
    BY <2>1 DEF K!IndexTxt
  <2> QED
    BY <2>1, <2>2
<1>7. Covers(idxSecret) => Covers(idxSecret)'
  BY <1>1, <1>6 DEF Covers, Refreshed
<1>8. Covers(idxSecret) /\ Covers(idxDisk) => Covers(idxDisk)'
  BY <1>1 DEF Covers, Refreshed
<1>9. \A u : Admitted(u) => Admitted(u)'
  BY <1>1, <1>2, <1>5 DEF Admitted, Refreshed
<1>10. ASSUME NEW u, Reachable(u)
       PROVE  Reachable(u)'
  <2>1. PICK s \in K!Serials : /\ K!Named(u) = {s} /\ ~secrets[s].revokedAt
                               /\ s \notin crlSecret /\ s \notin crlDisk
                               /\ idxSecret[s] = [name |-> u, revokedAt |-> FALSE]
    BY <1>10 DEF Reachable
  <2>2. secrets[s].name = u /\ secrets[s].revokedAt = FALSE
    BY <2>1 DEF K!Named, KubeStoreTyped, K!Secret
  <2>3. idxSecret'[s] = [name |-> u, revokedAt |-> FALSE]
    BY <1>4, <2>1, <2>2 DEF Refreshed
  <2>4. s \notin crlSecret' /\ s \notin crlDisk'
    BY <1>5, <2>1 DEF Refreshed
  <2>5. K!Named(u)' = {s} /\ ~secrets'[s].revokedAt
    BY <1>1, <1>2, <2>1
  <2> QED
    BY <2>3, <2>4, <2>5 DEF Reachable
<1> QED
  BY <1>1, <1>2, <1>3, <1>6, <1>7, <1>8, <1>9, <1>10

\* Requests that are idle and saves count on nothing.
LEMMA SavesCountOnNothing ==
    ASSUME NEW q, q.pc = 0 \/ q.op = "saveCcd"
    PROVE  LiveCall(q) /\ LiveCall(q)' /\ ~Behind(q)
  BY DEF LiveCall, AtPutIndex, AtPutCrl, Absentee, Built, Ready, Behind

LEMMA LiveCallKept ==
    ASSUME KubeStoreTyped, Refreshed, good' \subseteq good, failures \in Nat,
           failures' \in {failures, failures + 1}, NEW q \in KubeRequest, LiveCall(q)
    PROVE  LiveCall(q)'
<1>1. /\ failures' = 0 => failures = 0
      /\ failures' <= 1 => failures <= 1
  OBVIOUS
<1>2. q.pc \in Nat
  BY DEF KubeRequest
<1>3. ASSUME failures <= 1, q.op = "unrevoke", q.pc > 2
      PROVE  /\ K!Named(q.user)' = {q.serial}
             /\ q.pc > 3 => ~secrets'[q.serial].revokedAt
             /\ q.pc > 5 => idxSecret'[q.serial] = [name |-> q.user, revokedAt |-> FALSE]
             /\ q.pc > 10 => q.serial \notin crlSecret'
  <2>1. /\ K!Named(q.user) = {q.serial}
        /\ q.pc > 3 => ~secrets[q.serial].revokedAt
        /\ q.pc > 5 => idxSecret[q.serial] = [name |-> q.user, revokedAt |-> FALSE]
        /\ q.pc > 10 => q.serial \notin crlSecret
    BY <1>3 DEF LiveCall
  <2>2. q.serial \in K!Serials /\ secrets[q.serial].name = q.user
    BY <2>1 DEF K!Named
  <2>3. secrets[q.serial].revokedAt \in BOOLEAN
    BY <2>2 DEF KubeStoreTyped, K!Secret
  <2>4. K!IndexTxt[q.serial] = [name |-> q.user, revokedAt |-> secrets[q.serial].revokedAt]
    BY <2>2 DEF K!IndexTxt
  <2>5. q.serial \in K!Revoked => secrets[q.serial].revokedAt
    BY <2>2 DEF K!Revoked
  <2>6. K!Named(q.user)' = {q.serial} /\ secrets'[q.serial].revokedAt = secrets[q.serial].revokedAt
    BY <2>1, <2>2, RefreshedKeeps
  <2>7. q.pc > 5 => idxSecret'[q.serial] = [name |-> q.user, revokedAt |-> FALSE]
    <3>1. q.pc > 5 => secrets[q.serial].revokedAt = FALSE
      BY <1>2, <2>1, <2>3
    <3>2. CASE idxSecret' = idxSecret
      BY <2>1, <3>2
    <3>3. CASE idxSecret' = K!IndexTxt
      BY <2>4, <3>1, <3>3
    <3> QED
      BY <3>2, <3>3 DEF Refreshed
  <2>8. q.pc > 10 => q.serial \notin crlSecret'
    BY <1>2, <2>1, <2>5 DEF Refreshed
  <2> QED
    BY <2>1, <2>6, <2>7, <2>8
<1> QED
  BY <1>1, <1>2, <1>3, RefreshedKeeps
     DEF LiveCall, AtPutIndex, AtPutCrl, Absentee, Built, Ready

\* A request is at a report: the operation has come to its end, or to the optional seed
\* of a new user's CCD.
Reporting(q) ==
    \/ q.op = "create" /\ q.pc > 6
    \/ q.op = "unrevoke" /\ q.pc = 11
    \/ q.op = "rotate" /\ q.pc = 21

LEMMA GoodEffect ==
    ASSUME KubeReqTyped, NEW r \in K!Reqs, NEW q \in KubeRequest, q = req[r],
           NEW e \in KubeRequest, e.op = q.op, e.pc = q.pc, e.user = q.user, q.pc > 0,
           K!Continue(r, e) \/ K!Failed(r)
    PROVE  /\ \/ good' = good
              \/ good' = good \cup {q.user} /\ Reporting(q) /\ req'[r] = K!Idle
           /\ \/ up' = up /\ \A o \in K!Reqs \ {r} : req'[o] = req[o]
              \/ ~up' /\ q.op = "run" /\ K!Failed(r) /\ \A o \in K!Reqs : req'[o] = K!Idle
<1>1. CASE K!Continue(r, e)
  <2>1. e.op \in {"create", "unrevoke", "rotate"} /\ e.pc = Len(K!Path[e.op]) => Reporting(q)
    <3> SUFFICES ASSUME e.op \in {"create", "unrevoke", "rotate"}, e.pc = Len(K!Path[e.op])
                 PROVE  Reporting(q)
      OBVIOUS
    <3>1. CASE e.op = "create"
      BY <3>1, PathCreate DEF Reporting
    <3>2. CASE e.op = "unrevoke"
      BY <3>2, PathUnrevoke DEF Reporting
    <3>3. CASE e.op = "rotate"
      BY <3>3, PathRotate DEF Reporting
    <3> QED
      BY <3>1, <3>2, <3>3
  <2>2. CASE e.pc = Len(K!Path[e.op])
    BY <1>1, <2>1, <2>2 DEF K!Continue, K!Report, KubeReqTyped
  <2>3. CASE e.pc # Len(K!Path[e.op])
    BY <1>1, <2>3 DEF K!Continue, K!history, KubeReqTyped
  <2> QED
    BY <2>2, <2>3
<1>2. CASE K!SeedingCcd(r) /\ K!Failed(r)
  <2>1. Reporting(q)
    BY <1>2, Places DEF K!SeedingCcd, Reporting
  <2>2. K!Report(r, q)
    BY <1>2 DEF K!Failed, K!SeedingCcd
  <2> QED
    BY <2>1, <2>2 DEF K!Report, KubeReqTyped
<1>3. CASE ~K!SeedingCcd(r) /\ q.op = "run" /\ K!Failed(r)
  <2>1. CASE K!At(r, "ccdDisk")
    BY <1>3, <2>1 DEF K!Failed, K!Report, KubeReqTyped
  <2>2. CASE ~K!At(r, "ccdDisk")
    BY <1>3, <2>2 DEF K!Failed, K!history
  <2> QED
    BY <2>1, <2>2
<1>4. CASE ~K!SeedingCcd(r) /\ q.op # "run" /\ K!Failed(r)
  BY <1>4 DEF K!Failed, K!Abort, K!history, KubeReqTyped
<1> QED
  BY <1>1, <1>2, <1>3, <1>4

MovesTo(e, f) == f = [e EXCEPT !.pc = @ + 1]

LEMMA Moves ==
    ASSUME NEW e \in KubeRequest
    PROVE  \E f \in KubeRequest :
              /\ MovesTo(e, f)
              /\ f.op = e.op /\ f.pc = e.pc + 1 /\ f.user = e.user /\ f.serial = e.serial
              /\ f.index = e.index /\ f.crl = e.crl
  BY KubeMoved DEF MovesTo

\* While the operation on certificates is at a call, every other request is a save or
\* idle.
LEMMA OthersQuiet ==
    ASSUME KubeNames, OneCertRequest, KubeTyped, KubeInv, NEW r \in K!Reqs, req[r].pc > 0,
           req[r].op # "saveCcd"
    PROVE  \A o \in K!Reqs \ {r} : req[o].pc = 0 \/ req[o].op = "saveCcd"
<1>1. r \in CertReqs
  BY DEF KubeInv, KubeKind, K!Reqs
<1>2. ASSUME NEW o \in K!Reqs \ {r}
      PROVE  req[o].pc = 0 \/ req[o].op = "saveCcd"
  <2>1. o \notin CertReqs
    BY <1>1 DEF OneCertRequest
  <2>2. req[o].pc \in Nat
    BY KubeOwn DEF KubeTyped, KubeRequest
  <2> QED
    BY <1>2, <2>1, <2>2 DEF KubeInv, KubeKind, K!Reqs
<1> QED
  BY <1>2

\* A call of an operation on certificates ends.
LEMMA LiveEnds ==
    ASSUME KubeNames, OneCertRequest, KubeTyped, KubeInv, LiveInv, NEW r \in K!Reqs,
           NEW q \in KubeRequest, q = req[r], q.op # "saveCcd",
           NEW e \in KubeRequest, e.op = q.op, e.pc = q.pc, e.user = q.user, q.pc > 0,
           K!Continue(r, e) \/ K!Failed(r),
           NEW f \in KubeRequest, MovesTo(e, f),
           failures' = 0 => \/ Covers(idxSecret)' /\ Covers(idxDisk)'
                            \/ req'[r] = f /\ Behind(f),
           K!OneSecretPerUser',
           failures' <= 1 => \A u \in good' : Reachable(u)',
           req'[r] = f => LiveCall(f)'
    PROVE  LiveInv'
<1>1. /\ req'[r] \in {K!Idle, f}
      /\ \A o \in K!Reqs \ {r} : req'[o] \in {req[o], K!Idle}
  BY ContinueEffect, FailedEffect DEF KubeTyped, MovesTo
<1>2. K!Idle.pc = 0
  BY KubeIdle
<1>3. ASSUME NEW o \in K!Reqs \ {r}
      PROVE  req'[o].pc = 0 \/ req'[o].op = "saveCcd"
  BY <1>1, <1>2, <1>3, OthersQuiet
<1>4. ASSUME NEW o \in K!Reqs
      PROVE  LiveCall(req[o])'
  <2>1. CASE req'[o].pc = 0 \/ req'[o].op = "saveCcd"
    BY <2>1 DEF LiveCall, AtPutIndex, AtPutCrl, Absentee, Built, Ready
  <2>2. CASE o = r /\ req'[o] = f
    BY <2>2 DEF LiveCall, AtPutIndex, AtPutCrl, Absentee, Built, Ready
  <2> QED
    BY <1>1, <1>2, <1>3, <2>1, <2>2
<1>5. Running'
  <2>1. up
    BY DEF LiveInv, Running
  <2>2. up' = up \/ \A o \in K!Reqs : req'[o] = K!Idle
    BY GoodEffect DEF KubeTyped
  <2>3. CASE up' = up
    BY <2>1, <2>3 DEF Running
  <2>4. CASE \A o \in K!Reqs : req'[o] = K!Idle
    BY <1>2, <2>4 DEF Running
  <2> QED
    BY <2>2, <2>3, <2>4
<1>6. IndexKept'
  BY DEF IndexKept, Behind
<1>7. GoodKept'
  BY DEF GoodKept
<1> QED
  BY <1>4, <1>5, <1>6, <1>7 DEF LiveInv

\* The calls after which a request counts on more than before.
Gains(q) ==
    \/ q.op = "create" /\ q.pc \in {1, 2, 3, 5}
    \/ q.op = "rotate" /\ q.pc \in {3, 5, 7}
    \/ q.op = "unrevoke" /\ q.pc \in {2, 3, 5, 10}
    \/ q.op = "run" /\ q.pc = 2

LEMMA LiveMoved ==
    ASSUME NEW e \in KubeRequest, LiveCall(e)', e.pc > 0, ~Gains(e),
           NEW f \in KubeRequest, f.op = e.op, f.pc = e.pc + 1, f.user = e.user,
           f.serial = e.serial,
           AtPutIndex(f) => f.index = K!IndexTxt', AtPutCrl(f) => f.crl = K!Revoked'
    PROVE  LiveCall(f)'
<1>1. e.pc \in Nat
  BY DEF KubeRequest
<1>2. f.op \in {"revoke", "unrevoke", "rotate", "delete"} /\ f.pc > 0 => f.user \notin good'
  BY DEF LiveCall
<1>3. failures' = 0 =>
          /\ f.op = "create" /\ f.pc = 2 => K!Named(f.user)' = {}
          /\ \/ f.op = "create" /\ f.pc = 6
             \/ f.op = "rotate" /\ f.pc = 8
             \/ f.op = "run" /\ f.pc > 2 /\ f.pc < 10
             => Covers(idxSecret)'
  BY <1>1 DEF LiveCall, Gains
<1>4. failures' <= 1 =>
          /\ Absentee(f) => K!Named(f.user)' = {}
          /\ Built(f) => Admitted(f.user)'
          /\ Ready(f) => Reachable(f.user)'
  BY <1>1 DEF LiveCall, Gains, Absentee, Built, Ready
<1>5. failures' <= 1 /\ f.op = "unrevoke" =>
          /\ f.pc > 2 => K!Named(f.user)' = {f.serial}
          /\ f.pc > 3 => ~secrets'[f.serial].revokedAt
          /\ f.pc > 5 => idxSecret'[f.serial] = [name |-> f.user, revokedAt |-> FALSE]
          /\ f.pc > 10 => f.serial \notin crlSecret'
  BY <1>1 DEF LiveCall, Gains
<1> QED
  BY <1>2, <1>3, <1>4, <1>5 DEF LiveCall, AtPutIndex, AtPutCrl, Absentee, Built, Ready

LEMMA LiveSame ==
    ASSUME NEW e, NEW q \in KubeRequest, LiveCall(q)', e.op = q.op, e.pc = q.pc, e.user = q.user,
           e.serial = q.serial \/ ~(q.op = "unrevoke" /\ q.pc > 2),
           e.index = q.index \/ ~AtPutIndex(q), e.crl = q.crl \/ ~AtPutCrl(q)
    PROVE  LiveCall(e)'
<1>1. CASE q.op = "unrevoke" /\ q.pc > 2
  BY <1>1 DEF LiveCall, AtPutIndex, AtPutCrl, Absentee, Built, Ready
<1>2. CASE ~(q.op = "unrevoke" /\ q.pc > 2)
  <2>1. q.pc \in Nat
    BY DEF KubeRequest
  <2>2. ~(q.op = "unrevoke" /\ (q.pc > 2 \/ q.pc > 3 \/ q.pc > 5 \/ q.pc > 10))
    BY <1>2, <2>1
  <2> QED
    BY <2>2 DEF LiveCall, AtPutIndex, AtPutCrl, Absentee, Built, Ready
<1> QED
  BY <1>1, <1>2

\* A call of an operation on certificates that does not change names and marks.
LEMMA LiveStep ==
    ASSUME KubeNames, OneCertRequest, KubeTyped, KubeInv, LiveInv, Refreshed,
           failures' \in {failures, failures + 1},
           NEW r \in K!Reqs, NEW q \in KubeRequest, q = req[r], q.op # "saveCcd", q.pc > 0,
           NEW e \in KubeRequest, e.op = q.op, e.pc = q.pc, e.user = q.user,
           e.serial = q.serial \/ ~(q.op = "unrevoke" /\ q.pc > 2),
           e.index = q.index \/ ~AtPutIndex(q), e.crl = q.crl \/ ~AtPutCrl(q),
           K!Continue(r, e) \/ K!Failed(r),
           NEW f \in KubeRequest, MovesTo(e, f),
           AtPutIndex(f) => f.index = K!IndexTxt, AtPutCrl(f) => f.crl = K!Revoked,
           failures' = 0 /\ Behind(q) =>
               \/ Covers(idxSecret)' /\ Covers(idxDisk)'
               \/ req'[r] = f /\ Behind(f),
           failures' <= 1 /\ q.op = "unrevoke" /\ q.pc = 11 /\ good' # good
               => Reachable(q.user)',
           Gains(q) /\ req'[r] = f => LiveCall(f)'
    PROVE  LiveInv'
<1>1. LiveCall(q) /\ failures \in Nat /\ KubeStoreTyped /\ KubeReqTyped
  BY DEF LiveInv, KubeTyped, KubeCounted
<1>2. f.op = e.op /\ f.pc = e.pc + 1 /\ f.user = e.user /\ f.serial = e.serial /\ e.pc \in Nat
  BY KubeMoved DEF KubeRequest, MovesTo
<1>3. /\ failures' = 0 => failures = 0
      /\ failures' <= 1 => failures <= 1
  BY <1>1
<1>4. failures' = 0 => \/ Covers(idxSecret)' /\ Covers(idxDisk)'
                       \/ req'[r] = f /\ Behind(f)
  <2>1. CASE failures = 0 /\ ~Behind(q)
    <3>1. \A o \in K!Reqs : ~Behind(req[o])
      <4>1. \A o \in K!Reqs \ {r} : ~Behind(req[o])
        BY OthersQuiet, SavesCountOnNothing
      <4> QED
        BY <2>1, <4>1
    <3>2. up
      BY DEF LiveInv, Running
    <3>3. Covers(idxSecret) /\ Covers(idxDisk)
      BY <2>1, <3>1, <3>2 DEF LiveInv, IndexKept
    <3> QED
      BY <1>1, <3>3, RefreshedKeeps
  <2> QED
    BY <1>3, <2>1
<1>5. K!OneSecretPerUser'
  BY <1>1, <1>3, RefreshedKeeps DEF LiveInv, K!OneSecretPerUser
<1>6. failures' <= 1 => \A u \in good' : Reachable(u)'
  <2>1. failures' <= 1 => \A u \in good : Reachable(u)'
    BY <1>1, <1>3, RefreshedKeeps DEF LiveInv, GoodKept
  <2>2. failures' <= 1 /\ Reporting(q) /\ good' # good => Reachable(q.user)'
    <3>1. failures' <= 1 /\ Ready(q) => Reachable(q.user)'
      BY <1>1, <1>3, RefreshedKeeps DEF LiveCall
    <3>2. q.pc \in Nat
      BY <1>2
    <3> QED
      BY <3>1, <3>2 DEF Reporting, Ready
  <2>3. good' = good \/ (good' = good \cup {q.user} /\ Reporting(q))
    BY <1>1, GoodEffect
  <2> QED
    BY <2>1, <2>2, <2>3
<1>7. ASSUME req'[r] = f
      PROVE  LiveCall(f)'
  <2>1. CASE ~Gains(q)
    <3>1. good' = good
      <4>1. f # K!Idle
        <5>1. f.pc # 0 /\ K!Idle.pc = 0
          BY <1>2, KubeIdle
        <5> QED
          BY <5>1
      <4> QED
        BY <1>1, <1>7, <4>1, GoodEffect
    <3>2. LiveCall(q)'
      BY <1>1, <3>1, LiveCallKept
    <3>3. LiveCall(e)'
      BY <3>2, LiveSame
    <3>4. ~Gains(e) /\ e.pc > 0
      BY <2>1 DEF Gains
    <3>5. K!IndexTxt' = K!IndexTxt /\ K!Revoked' = K!Revoked
      BY <1>1, RefreshedKeeps
    <3> QED
      BY <1>2, <3>3, <3>4, <3>5, LiveMoved
  <2> QED
    BY <1>7, <2>1
<1> QED
  BY <1>4, <1>5, <1>6, <1>7, LiveEnds

\* A call of a save.
LEMMA LiveSave ==
    ASSUME KubeTyped, LiveInv, Refreshed, UNCHANGED idxSecret,
           failures' \in {failures, failures + 1},
           NEW r \in K!Reqs, NEW q \in KubeRequest, q = req[r], q.op = "saveCcd", q.pc > 0,
           NEW e \in KubeRequest, e.op = q.op, e.pc = q.pc, e.user = q.user,
           K!Continue(r, e) \/ K!Failed(r)
    PROVE  LiveInv'
<1>1. failures \in Nat /\ KubeStoreTyped /\ KubeReqTyped
  BY DEF KubeTyped, KubeCounted
<1>2. /\ failures' = 0 => failures = 0
      /\ failures' <= 1 => failures <= 1
  BY <1>1
<1>3. good' = good /\ up' = up /\ \A o \in K!Reqs \ {r} : req'[o] = req[o]
  BY <1>1, GoodEffect DEF Reporting
<1>4. req'[r].pc = 0 \/ req'[r].op = "saveCcd"
  BY <1>1, ContinueEffect, FailedEffect, KubeIdle, KubeMoved
<1>5. ASSUME NEW o \in K!Reqs
      PROVE  LiveCall(req[o])'
  <2>1. CASE o = r
    BY <1>4, <2>1 DEF LiveCall, AtPutIndex, AtPutCrl, Absentee, Built, Ready
  <2>2. CASE o # r
    <3>1. PICK p \in KubeRequest : p = req[o]
      BY KubeOwn DEF KubeTyped
    <3>2. LiveCall(p)'
      BY <1>1, <1>3, <3>1, LiveCallKept DEF LiveInv
    <3>3. req'[o] = p
      BY <1>3, <2>2, <3>1
    <3> QED
      BY <3>2, <3>3 DEF LiveCall, AtPutIndex, AtPutCrl, Absentee, Built, Ready
  <2> QED
    BY <2>1, <2>2
<1>6. up
  BY DEF LiveInv, Running
<1>7. Running'
  BY <1>3, <1>6 DEF Running
<1>8. IndexKept'
  <2>1. \A o \in K!Reqs : ~Behind(req[o])' => ~Behind(req[o])
    BY <1>3 DEF Behind
  <2> QED
    BY <1>1, <1>2, <1>3, <2>1, RefreshedKeeps DEF LiveInv, IndexKept
<1>9. GoodKept'
  BY <1>1, <1>2, <1>3, RefreshedKeeps DEF LiveInv, GoodKept
<1>10. K!OneSecretPerUser'
  BY <1>1, <1>2, RefreshedKeeps DEF LiveInv, K!OneSecretPerUser
<1> QED
  BY <1>5, <1>7, <1>8, <1>9, <1>10 DEF LiveInv

LEMMA KeptRefreshed ==
    ASSUME UNCHANGED K!store
    PROVE  Refreshed
  BY KeptMarks DEF Refreshed, K!store

LEMMA OneMore ==
    ASSUME K!Fault \/ UNCHANGED K!counters
    PROVE  /\ failures' \in {failures, failures + 1}
           /\ K!Fault => failures' = failures + 1
           /\ UNCHANGED K!counters => failures' = failures
  BY DEF K!Fault, K!counters

\* A call ends with the next one to come.
LEMMA Proceeds ==
    ASSUME KubeReqTyped, NEW r \in K!Reqs, NEW e, K!Continue(r, e), e.pc # Len(K!Path[e.op])
    PROVE  \A f : MovesTo(e, f) => req'[r] = f
  BY DEF K!Continue, KubeReqTyped, MovesTo

LEMMA BehindProceeds ==
    ASSUME NEW q, Behind(q)
    PROVE  q.pc # Len(K!Path[q.op])
<1>1. CASE q.op = "create" /\ q.pc \in {4, 5, 6}
  BY <1>1, PathCreate
<1>2. CASE q.op = "rotate" /\ q.pc \in {6, 7, 8}
  BY <1>2, PathRotate
<1>3. CASE q.op = "run" /\ q.pc < 10
  BY <1>3, PathRun
<1> QED
  BY <1>1, <1>2, <1>3 DEF Behind

LEMMA LiveVerifyStep ==
    ASSUME KubeNames, OneCertRequest, KubeTyped, KubeInv, LiveInv, NEW r \in K!Reqs,
           K!Verify(r) \/ K!AnswerDone(r) \/ K!CcdDisk(r)
    PROVE  LiveInv'
<1>1. PICK q \in KubeRequest : q = req[r]
  BY KubeOwn DEF KubeTyped
<1>2. /\ K!Continue(r, q) \/ K!Failed(r)
      /\ UNCHANGED K!store
      /\ K!Fault \/ UNCHANGED K!counters
  BY <1>1 DEF K!Verify, K!AnswerDone, K!CcdDisk, K!Reads
<1>3. q.pc > 0 /\ (K!At(r, "verify") \/ K!At(r, "answer") \/ K!At(r, "ccdDisk"))
  BY <1>1 DEF K!Verify, K!AnswerDone, K!CcdDisk, K!At
<1>4. Refreshed /\ failures' \in {failures, failures + 1} /\ UNCHANGED idxSecret
  BY <1>2, KeptRefreshed, OneMore DEF K!store
<1>5. CASE q.op = "saveCcd"
  BY <1>1, <1>2, <1>3, <1>4, <1>5, LiveSave
<1>6. CASE q.op # "saveCcd"
  <2>1. \/ q.op \in {"revoke", "delete"} /\ q.pc \in {11, 13}
        \/ q.op = "rotate" /\ q.pc \in {11, 19, 21}
        \/ q.op = "create" /\ q.pc = 9
        \/ q.op = "run" /\ q.pc = 10
    BY <1>1, <1>3, <1>6, Places DEF KubeTyped
  <2>2. PICK f \in KubeRequest : /\ MovesTo(q, f)
                                 /\ f.op = q.op /\ f.pc = q.pc + 1
    BY Moves
  <2>3. ~AtPutIndex(f) /\ ~AtPutCrl(f) /\ ~Behind(q) /\ ~Gains(q) /\ q.op # "unrevoke"
    BY <2>1, <2>2 DEF AtPutIndex, AtPutCrl, Behind, Gains
  <2> QED
    BY <1>1, <1>2, <1>3, <1>4, <1>6, <2>2, <2>3, LiveStep
<1> QED
  BY <1>5, <1>6

\* The index tells that a new user has no certificate, as long as nothing has failed.
LEMMA LiveCheckStep ==
    ASSUME KubeNames, OneCertRequest, KubeTyped, KubeInv, LiveInv, NEW r \in K!Reqs,
           K!Check(r)
    PROVE  LiveInv'
<1>1. PICK q \in KubeRequest : q = req[r] /\ CalledWith(q)
  BY KubeOwn DEF KubeTyped
<1>2. /\ K!Continue(r, q) \/ K!Failed(r)
      /\ UNCHANGED K!store
      /\ UNCHANGED K!counters
  BY <1>1 DEF K!Check
<1>3. q.op \in {"create", "revoke", "unrevoke", "rotate", "delete"} /\ q.pc = 1
  BY <1>1, Places DEF K!Check, KubeTyped
<1>4. Refreshed /\ failures' \in {failures, failures + 1} /\ failures' = failures
  BY <1>2, KeptRefreshed, OneMore
<1>5. PICK f \in KubeRequest : /\ MovesTo(q, f)
                               /\ f.op = q.op /\ f.pc = q.pc + 1 /\ f.user = q.user
  BY Moves
<1>6. ~AtPutIndex(f) /\ ~AtPutCrl(f) /\ ~Behind(q) /\ (Gains(q) => q.op = "create")
  BY <1>3, <1>5 DEF AtPutIndex, AtPutCrl, Behind, Gains
<1>7. ASSUME q.op = "create", req'[r] = f
      PROVE  LiveCall(f)'
  <2>1. ~K!Failed(r)
    <3>1. K!Failed(r) => req'[r].pc = 0
      BY FailedEffect, KubeIdle DEF KubeTyped
    <3> QED
      BY <1>3, <1>5, <1>7, <3>1
  <2>2. \A s \in K!Serials : idxDisk[s].name # q.user
    BY <1>1, <1>7, <2>1 DEF K!Check
  <2>3. failures = 0 => K!Named(q.user) = {}
    <3> SUFFICES ASSUME failures = 0
                 PROVE  K!Named(q.user) = {}
      OBVIOUS
    <3>1. \A o \in K!Reqs \ {r} : ~Behind(req[o])
      BY <1>1, <1>3, OthersQuiet, SavesCountOnNothing
    <3>2. up
      BY <1>1, <1>3 DEF LiveInv, Running
    <3>3. Covers(idxDisk)
      BY <1>1, <1>6, <3>1, <3>2 DEF LiveInv, IndexKept
    <3>4. q.user \in Users
      BY <1>1, <1>7 DEF CalledWith
    <3>5. \A s \in K!Named(q.user) : s \in K!Serials
      BY DEF K!Named
    <3> QED
      BY <2>2, <3>3, <3>4, <3>5 DEF Covers
  <2>4. failures' = 0 => K!Named(f.user)' = {}
    BY <1>4, <1>5, <2>3, RefreshedKeeps DEF KubeTyped
  <2>5. f.op = "create" /\ f.pc = 2
    BY <1>3, <1>5, <1>7
  <2> QED
    BY <2>4, <2>5 DEF LiveCall, AtPutIndex, AtPutCrl, Absentee, Built, Ready
<1> QED
  BY <1>1, <1>2, <1>3, <1>4, <1>5, <1>6, <1>7, LiveStep

\* The lists of secrets that are made into index.txt and the CRL.
LEMMA LiveListStep ==
    ASSUME KubeNames, OneCertRequest, KubeTyped, KubeInv, LiveInv, NEW r \in K!Reqs,
           K!ListIndex(r) \/ K!ListRevoked(r)
    PROVE  LiveInv'
<1>1. PICK q \in KubeRequest : q = req[r]
  BY KubeOwn DEF KubeTyped
<1>2. K!IndexTxt \in [K!Serials -> KubeRow] /\ K!Revoked \in SUBSET K!Serials
  BY DEF K!IndexTxt, K!Revoked, KubeRow, KubeTyped, KubeStoreTyped, K!Secret
<1>3. /\ [q EXCEPT !.index = K!IndexTxt] \in KubeRequest
      /\ [q EXCEPT !.crl = K!Revoked] \in KubeRequest
  BY <1>2 DEF KubeRequest
<1>4. PICK e \in KubeRequest :
         /\ \/ e = [q EXCEPT !.index = K!IndexTxt] /\ K!At(r, "listIndex")
            \/ e = [q EXCEPT !.crl = K!Revoked] /\ K!At(r, "listRevoked")
         /\ (K!Continue(r, e) /\ UNCHANGED K!counters) \/ (K!Failed(r) /\ K!Fault)
  BY <1>1, <1>3 DEF K!ListIndex, K!ListRevoked, K!Reads
<1>5. UNCHANGED K!store
  BY DEF K!ListIndex, K!ListRevoked, K!Reads
<1>6. /\ e.op = q.op /\ e.pc = q.pc /\ e.user = q.user /\ e.serial = q.serial
      /\ K!At(r, "listIndex") /\ ~K!At(r, "listRevoked") => e.index = K!IndexTxt
      /\ K!At(r, "listRevoked") /\ ~K!At(r, "listIndex") => e.crl = K!Revoked
  BY <1>4 DEF KubeRequest
<1>7. Refreshed /\ failures' \in {failures, failures + 1}
  BY <1>4, <1>5, KeptRefreshed, OneMore
<1>8. /\ K!At(r, "listIndex") =>
             \/ q.op = "create" /\ q.pc = 4
             \/ q.op \in {"revoke", "unrevoke", "delete"} /\ q.pc \in {4, 7}
             \/ q.op = "rotate" /\ q.pc \in {6, 12, 15}
             \/ q.op = "renew" /\ q.pc = 1
             \/ q.op = "run" /\ q.pc \in {1, 3}
      /\ K!At(r, "listRevoked") =>
             \/ q.op \in {"revoke", "unrevoke", "delete"} /\ q.pc = 9
             \/ q.op = "rotate" /\ q.pc = 17
             \/ q.op = "renew" /\ q.pc = 3
             \/ q.op = "run" /\ q.pc = 5
  BY <1>1, Places DEF KubeTyped
<1>9. PICK f \in KubeRequest :
         /\ MovesTo(e, f)
         /\ f.op = e.op /\ f.pc = e.pc + 1 /\ f.index = e.index /\ f.crl = e.crl
  BY Moves
<1>10. /\ AtPutIndex(f) => f.index = K!IndexTxt
       /\ AtPutCrl(f) => f.crl = K!Revoked
       /\ ~AtPutIndex(q) /\ ~AtPutCrl(q) /\ ~Gains(q) /\ q.op # "saveCcd" /\ q.pc > 0
       /\ ~(q.op = "unrevoke" /\ q.pc = 11)
  BY <1>4, <1>6, <1>8, <1>9 DEF AtPutIndex, AtPutCrl, Gains
<1>11. Behind(q) => Behind(f)
  BY <1>4, <1>6, <1>8, <1>9 DEF Behind
<1>12. Behind(q) /\ failures' = 0 => req'[r] = f
  <2> SUFFICES ASSUME Behind(q), failures' = 0
               PROVE  req'[r] = f
    OBVIOUS
  <2>1. K!Continue(r, e)
    <3>1. failures \in Nat
      BY DEF KubeTyped, KubeCounted
    <3> QED
      BY <1>4, <3>1, OneMore
  <2>2. e.pc # Len(K!Path[e.op])
    BY <1>6, BehindProceeds
  <2> QED
    BY <1>9, <2>1, <2>2, Proceeds DEF KubeTyped
<1>13. K!Continue(r, e) \/ K!Failed(r)
  BY <1>4
<1>14. /\ e.op = q.op /\ e.pc = q.pc /\ e.user = q.user /\ e.serial = q.serial
       /\ MovesTo(e, f)
       /\ failures' = 0 /\ Behind(q) => req'[r] = f /\ Behind(f)
  BY <1>6, <1>9, <1>11, <1>12
<1>15. e \in KubeRequest /\ f \in KubeRequest
  BY <1>4, <1>9
<1> QED
  BY <1>1, <1>7, <1>10, <1>13, <1>14, <1>15, LiveStep

\* A call that writes index.txt or the CRL.
LEMMA LivePut ==
    ASSUME KubeNames, OneCertRequest, KubeTyped, KubeInv, LiveInv, Refreshed,
           NEW r \in K!Reqs, NEW q \in KubeRequest, q = req[r], q.op # "saveCcd", q.pc > 0,
           (K!Continue(r, q) /\ UNCHANGED K!counters) \/ (K!Failed(r) /\ K!Fault),
           NEW f \in KubeRequest, MovesTo(q, f), f.pc = q.pc + 1, ~AtPutIndex(f), ~AtPutCrl(f),
           K!Continue(r, q) /\ failures' = 0 /\ Behind(q) =>
               Behind(f) \/ (Covers(idxSecret)' /\ Covers(idxDisk)'),
           K!Continue(r, q) /\ failures' <= 1 /\ q.op = "unrevoke" /\ q.pc = 11 =>
               Reachable(q.user)',
           K!Continue(r, q) /\ LiveCall(q)' /\ failures' = failures /\ Gains(q) =>
               LiveCall(f)'
    PROVE  LiveInv'
<1>1. K!Fault \/ UNCHANGED K!counters
  OBVIOUS
<1>2. failures' \in {failures, failures + 1}
  BY <1>1, OneMore
<1>3. K!Continue(r, q) \/ K!Failed(r)
  OBVIOUS
<1>4. failures' = 0 => K!Continue(r, q)
  <2>1. failures \in Nat
    BY DEF KubeTyped, KubeCounted
  <2> QED
    BY <1>1, <2>1, OneMore
<1>5. K!Failed(r) => req'[r].pc = 0
  BY FailedEffect, KubeIdle DEF KubeTyped
<1>6. f.pc # 0
  BY DEF KubeRequest
<1>7. ASSUME req'[r] = f
      PROVE  K!Continue(r, q) /\ failures' = failures /\ good' = good /\ LiveCall(q)'
  <2>1. ~K!Failed(r)
    BY <1>5, <1>6, <1>7
  <2>2. failures' = failures
    BY <2>1, OneMore
  <2>3. good' = good
    BY <1>6, <1>7, GoodEffect, KubeIdle DEF KubeTyped
  <2>4. failures \in Nat
    BY DEF KubeTyped, KubeCounted
  <2>5. LiveCall(q)'
    BY <1>2, <2>3, <2>4, LiveCallKept DEF LiveInv, KubeTyped
  <2> QED
    BY <2>1, <2>2, <2>3, <2>5
<1>8. failures' = 0 /\ Behind(q) =>
          \/ Covers(idxSecret)' /\ Covers(idxDisk)'
          \/ req'[r] = f /\ Behind(f)
  <2>1. K!Continue(r, q) /\ Behind(q) => req'[r] = f
    BY BehindProceeds, Proceeds DEF KubeTyped
  <2> QED
    BY <1>4, <2>1
<1>9. failures' <= 1 /\ q.op = "unrevoke" /\ q.pc = 11 /\ good' # good => Reachable(q.user)'
  <2> SUFFICES ASSUME failures' <= 1, q.op = "unrevoke", q.pc = 11, good' # good
               PROVE  K!Continue(r, q)
    OBVIOUS
  <2>1. K!Failed(r) => UNCHANGED good
    BY DEF K!Failed, K!SeedingCcd, K!Abort, K!history
  <2> QED
    BY <1>3, <2>1
<1>10. Gains(q) /\ req'[r] = f => LiveCall(f)'
  BY <1>7
<1> QED
  BY <1>2, <1>3, <1>8, <1>9, <1>10, LiveStep

LEMMA LivePutIndexStep ==
    ASSUME KubeNames, OneCertRequest, KubeTyped, KubeInv, LiveInv, NEW r \in K!Reqs,
           K!PutIndex(r)
    PROVE  LiveInv'
<1>1. PICK q \in KubeRequest : q = req[r]
  BY KubeOwn DEF KubeTyped
<1>2. AtPutIndex(q) /\ LiveCall(q)
  BY <1>1, Places DEF K!PutIndex, KubeTyped, AtPutIndex, LiveInv
<1>3. q.index = K!IndexTxt
  BY <1>2 DEF LiveCall
<1>4. /\ \/ K!Continue(r, q) /\ UNCHANGED K!counters /\ idxSecret' = K!IndexTxt
         \/ K!Failed(r) /\ K!Fault
      /\ idxSecret' \in {idxSecret, K!IndexTxt}
      /\ UNCHANGED <<secrets, idxDisk, crlSecret, crlDisk>>
  BY <1>1, <1>3 DEF K!PutIndex, K!Writes
<1>5. Refreshed
  BY <1>4, KeptMarks DEF Refreshed
<1>6. PICK f \in KubeRequest :
         /\ MovesTo(q, f)
         /\ f.op = q.op /\ f.pc = q.pc + 1 /\ f.user = q.user /\ f.serial = q.serial
  BY Moves
<1>7. /\ ~AtPutIndex(f) /\ ~AtPutCrl(f) /\ q.op # "saveCcd" /\ q.pc > 0
      /\ Behind(q) => Behind(f)
      /\ ~(q.op = "unrevoke" /\ q.pc = 11)
  BY <1>2, <1>6 DEF AtPutIndex, AtPutCrl, Behind
<1>8. ASSUME K!Continue(r, q), LiveCall(q)', failures' = failures, Gains(q)
      PROVE  LiveCall(f)'
  <2>1. idxSecret' = K!IndexTxt
    <3>1. CASE K!Failed(r) /\ K!Fault
      <4>1. failures \in Nat
        BY DEF KubeTyped, KubeCounted
      <4> QED
        BY <1>8, <3>1, <4>1, OneMore
    <3> QED
      BY <1>4, <3>1
  <2>2. \A u : K!Named(u)' = K!Named(u)
    BY <1>5, RefreshedKeeps DEF KubeTyped
  <2>3. Covers(idxSecret)'
    BY <1>5, <2>1, <2>2, RefreshedKeeps DEF KubeTyped, Covers
  <2>4. ASSUME NEW u, NEW s \in K!Serials, K!Named(u) = {s}, ~secrets[s].revokedAt
        PROVE  idxSecret'[s] = [name |-> u, revokedAt |-> FALSE]
    <3>1. secrets[s].name = u /\ secrets[s].revokedAt = FALSE
      BY <2>4 DEF K!Named, KubeTyped, KubeStoreTyped, K!Secret
    <3>2. K!IndexTxt[s] = [name |-> secrets[s].name, revokedAt |-> secrets[s].revokedAt]
      BY DEF K!IndexTxt
    <3> QED
      BY <2>1, <3>1, <3>2
  <2>5. ASSUME Admitted(q.user)
        PROVE  Reachable(q.user)'
    <3>1. PICK s \in K!Serials : /\ K!Named(q.user) = {s} /\ ~secrets[s].revokedAt
                                 /\ s \notin crlSecret /\ s \notin crlDisk
      BY <2>5 DEF Admitted
    <3>2. idxSecret'[s] = [name |-> q.user, revokedAt |-> FALSE]
      BY <2>4, <3>1
    <3> QED
      BY <1>4, <2>2, <3>1, <3>2 DEF Reachable
  <2>6. CASE q.op \in {"create", "rotate"}
    <3>1. (q.op = "create" /\ q.pc = 5) \/ (q.op = "rotate" /\ q.pc = 7)
      BY <1>2, <1>8, <2>6 DEF Gains, AtPutIndex
    <3>2. failures' <= 1 => Reachable(f.user)'
      BY <1>2, <1>6, <1>8, <2>5, <3>1 DEF LiveCall, Built
    <3>3. q.op = "rotate" => f.user \notin good'
      BY <1>6, <1>8, <3>1 DEF LiveCall
    <3> QED
      BY <1>6, <1>7, <2>3, <3>1, <3>2, <3>3 DEF LiveCall, Absentee, Built, Ready
  <2>7. CASE q.op = "unrevoke"
    <3>1. q.pc = 5
      BY <1>2, <1>8, <2>7 DEF Gains, AtPutIndex
    <3>2. /\ f.user \notin good'
          /\ failures' <= 1 => K!Named(f.user)' = {f.serial} /\ ~secrets'[f.serial].revokedAt
      BY <1>6, <1>8, <2>7, <3>1 DEF LiveCall
    <3>3. failures' <= 1 => idxSecret'[f.serial] = [name |-> f.user, revokedAt |-> FALSE]
      <4> SUFFICES ASSUME failures' <= 1
                   PROVE  idxSecret'[f.serial] = [name |-> f.user, revokedAt |-> FALSE]
        OBVIOUS
      <4>1. K!Named(f.user) = {f.serial} /\ ~secrets[f.serial].revokedAt
        BY <1>4, <2>2, <3>2
      <4>2. f.serial \in K!Serials
        BY <4>1 DEF K!Named
      <4> QED
        BY <2>4, <4>1, <4>2
    <3> QED
      BY <1>6, <1>7, <2>7, <3>1, <3>2, <3>3 DEF LiveCall, Absentee, Built, Ready
  <2>8. CASE q.op = "run"
    BY <1>6, <1>7, <2>3, <2>8 DEF LiveCall, Absentee, Built, Ready
  <2> QED
    BY <1>8, <2>6, <2>7, <2>8 DEF Gains
<1>9. (K!Continue(r, q) /\ UNCHANGED K!counters) \/ (K!Failed(r) /\ K!Fault)
  BY <1>4
<1> QED
  BY <1>1, <1>5, <1>6, <1>7, <1>8, <1>9, LivePut

LEMMA LiveIndexDiskStep ==
    ASSUME KubeNames, OneCertRequest, KubeTyped, KubeInv, LiveInv, NEW r \in K!Reqs,
           K!IndexDisk(r)
    PROVE  LiveInv'
<1>1. PICK q \in KubeRequest : q = req[r]
  BY KubeOwn DEF KubeTyped
<1>2. /\ \/ q.op \in {"create", "revoke", "unrevoke", "delete"} /\ q.pc = 6
         \/ q.op = "rotate" /\ q.pc \in {8, 14}
         \/ q.op = "run" /\ q.pc = 9
      /\ LiveCall(q)
  BY <1>1, Places DEF K!IndexDisk, KubeTyped, LiveInv
<1>3. /\ \/ K!Continue(r, q) /\ UNCHANGED K!counters /\ idxDisk' = idxSecret
         \/ K!Failed(r) /\ K!Fault
      /\ idxDisk' \in {idxDisk, idxSecret}
      /\ UNCHANGED <<secrets, idxSecret, crlSecret, crlDisk>>
  BY <1>1 DEF K!IndexDisk, K!Writes
<1>4. Refreshed
  BY <1>3, KeptMarks DEF Refreshed
<1>5. PICK f \in KubeRequest : MovesTo(q, f) /\ f.op = q.op /\ f.pc = q.pc + 1
  BY Moves
<1>6. /\ ~AtPutIndex(f) /\ ~AtPutCrl(f) /\ q.op # "saveCcd" /\ q.pc > 0 /\ ~Gains(q)
      /\ ~(q.op = "unrevoke" /\ q.pc = 11)
  BY <1>2, <1>5 DEF AtPutIndex, AtPutCrl, Gains
<1>7. ASSUME failures' = 0, Behind(q)
      PROVE  Covers(idxSecret)' /\ Covers(idxDisk)'
  <2>1. failures = 0 /\ idxDisk' = idxSecret
    <3>1. failures \in Nat
      BY DEF KubeTyped, KubeCounted
    <3> QED
      BY <1>3, <1>7, <3>1, OneMore
  <2>2. Covers(idxSecret)
    BY <1>2, <1>7, <2>1 DEF LiveCall, Behind
  <2> QED
    BY <1>3, <2>1, <2>2 DEF Covers, K!Named
<1>8. (K!Continue(r, q) /\ UNCHANGED K!counters) \/ (K!Failed(r) /\ K!Fault)
  BY <1>3
<1> QED
  BY <1>1, <1>4, <1>5, <1>6, <1>7, <1>8, LivePut

LEMMA LivePutCrlStep ==
    ASSUME KubeNames, OneCertRequest, KubeTyped, KubeInv, LiveInv, NEW r \in K!Reqs,
           K!PutCrl(r)
    PROVE  LiveInv'
<1>1. PICK q \in KubeRequest : q = req[r]
  BY KubeOwn DEF KubeTyped
<1>2. AtPutCrl(q) /\ LiveCall(q)
  BY <1>1, Places DEF K!PutCrl, KubeTyped, LiveInv, AtPutCrl
<1>3. q.crl = K!Revoked
  BY <1>2 DEF LiveCall
<1>4. /\ \/ K!Continue(r, q) /\ UNCHANGED K!counters /\ crlSecret' = K!Revoked
         \/ K!Failed(r) /\ K!Fault
      /\ crlSecret' \in {crlSecret, K!Revoked}
      /\ UNCHANGED <<secrets, idxSecret, idxDisk, crlDisk>>
  BY <1>1, <1>3 DEF K!PutCrl, K!Writes
<1>5. Refreshed
  BY <1>4, KeptMarks DEF Refreshed
<1>6. PICK f \in KubeRequest :
         /\ MovesTo(q, f)
         /\ f.op = q.op /\ f.pc = q.pc + 1 /\ f.user = q.user /\ f.serial = q.serial
  BY Moves
<1>7. /\ ~AtPutIndex(f) /\ ~AtPutCrl(f) /\ q.op # "saveCcd" /\ q.pc > 0
      /\ Behind(q) => Behind(f)
      /\ ~(q.op = "unrevoke" /\ q.pc = 11)
  BY <1>2, <1>6 DEF AtPutIndex, AtPutCrl, Behind
<1>8. ASSUME LiveCall(q)', failures' = failures, Gains(q)
      PROVE  LiveCall(f)'
  <2>1. crlSecret' = K!Revoked
    <3>1. failures \in Nat
      BY DEF KubeTyped, KubeCounted
    <3> QED
      BY <1>4, <1>8, <3>1, OneMore
  <2>2. q.op = "unrevoke" /\ q.pc = 10
    BY <1>2, <1>8 DEF Gains, AtPutCrl
  <2>3. /\ f.user \notin good'
        /\ failures' <= 1 =>
               /\ K!Named(f.user)' = {f.serial} /\ ~secrets'[f.serial].revokedAt
               /\ idxSecret'[f.serial] = [name |-> f.user, revokedAt |-> FALSE]
    BY <1>6, <1>8, <2>2 DEF LiveCall
  <2>4. failures' <= 1 => f.serial \notin crlSecret'
    BY <1>4, <2>1, <2>3 DEF K!Revoked
  <2> QED
    BY <1>6, <1>7, <2>2, <2>3, <2>4 DEF LiveCall, Absentee, Built, Ready
<1>9. (K!Continue(r, q) /\ UNCHANGED K!counters) \/ (K!Failed(r) /\ K!Fault)
  BY <1>4
<1> QED
  BY <1>1, <1>5, <1>6, <1>7, <1>8, <1>9, LivePut

LEMMA LiveCrlDiskStep ==
    ASSUME KubeNames, OneCertRequest, KubeTyped, KubeInv, LiveInv, NEW r \in K!Reqs,
           K!CrlDisk(r)
    PROVE  LiveInv'
<1>1. PICK q \in KubeRequest : q = req[r]
  BY KubeOwn DEF KubeTyped
<1>2. /\ \/ q.op \in {"revoke", "delete"} /\ q.pc = 12
         \/ q.op = "unrevoke" /\ q.pc = 11
         \/ q.op = "rotate" /\ q.pc = 20
         \/ q.op = "renew" /\ q.pc = 5
         \/ q.op = "run" /\ q.pc \in {7, 8}
      /\ LiveCall(q)
  BY <1>1, Places DEF K!CrlDisk, KubeTyped, LiveInv
<1>3. /\ \/ K!Continue(r, q) /\ UNCHANGED K!counters /\ crlDisk' = crlSecret
         \/ K!Failed(r) /\ K!Fault
      /\ crlDisk' \in {crlDisk, crlSecret}
      /\ UNCHANGED <<secrets, idxSecret, idxDisk, crlSecret>>
  BY <1>1 DEF K!CrlDisk, K!Writes
<1>4. Refreshed
  BY <1>3, KeptMarks DEF Refreshed
<1>5. PICK f \in KubeRequest : MovesTo(q, f) /\ f.op = q.op /\ f.pc = q.pc + 1
  BY Moves
<1>6. /\ ~AtPutIndex(f) /\ ~AtPutCrl(f) /\ q.op # "saveCcd" /\ q.pc > 0 /\ ~Gains(q)
      /\ Behind(q) => Behind(f)
  BY <1>2, <1>5 DEF AtPutIndex, AtPutCrl, Gains, Behind
<1>7. ASSUME failures' <= 1, q.op = "unrevoke", q.pc = 11, K!Continue(r, q)
      PROVE  Reachable(q.user)'
  <2>1. crlDisk' = crlSecret /\ failures' = failures
    <3>1. ~K!Failed(r)
      <4>1. q.pc = Len(K!Path[q.op])
        BY <1>7, PathUnrevoke
      <4>2. good' = good \cup {q.user}
        BY <1>7, <4>1 DEF K!Continue, K!Report
      <4>3. q.user \notin good
        BY <1>2, <1>7 DEF LiveCall
      <4>4. K!Failed(r) => UNCHANGED good
        BY <1>1, <1>7 DEF K!Failed, K!SeedingCcd, K!Abort, K!history
      <4> QED
        BY <4>2, <4>3, <4>4
    <3> QED
      BY <1>3, <3>1, OneMore
  <2>2. /\ K!Named(q.user) = {q.serial} /\ ~secrets[q.serial].revokedAt
        /\ idxSecret[q.serial] = [name |-> q.user, revokedAt |-> FALSE]
        /\ q.serial \notin crlSecret
    BY <1>2, <1>7, <2>1 DEF LiveCall
  <2>3. q.serial \in K!Serials
    BY <2>2 DEF K!Named
  <2>4. K!Named(q.user)' = {q.serial}
    BY <1>3, <2>2 DEF K!Named
  <2> QED
    BY <1>3, <2>1, <2>2, <2>3, <2>4 DEF Reachable
<1>8. (K!Continue(r, q) /\ UNCHANGED K!counters) \/ (K!Failed(r) /\ K!Fault)
  BY <1>3
<1> QED
  BY <1>1, <1>4, <1>5, <1>6, <1>7, <1>8, LivePut

\* Two secrets of the user are refused; so the one that an unrevoke has read is the only
\* one.
LEMMA LiveGetStep ==
    ASSUME KubeNames, OneCertRequest, KubeTyped, KubeInv, LiveInv, NEW r \in K!Reqs,
           K!Get(r)
    PROVE  LiveInv'
<1>1. PICK q \in KubeRequest : q = req[r]
  BY KubeOwn DEF KubeTyped
<1>2. /\ q.op \in {"revoke", "unrevoke", "rotate", "delete"} /\ q.pc = 2
      /\ LiveCall(q)
  BY <1>1, Places DEF K!Get, KubeTyped, LiveInv
<1>3. UNCHANGED K!store /\ (K!Fault \/ UNCHANGED K!counters)
  BY DEF K!Get, K!Reads, K!Refused
<1>4. Refreshed /\ failures' \in {failures, failures + 1}
  BY <1>3, KeptRefreshed, OneMore
<1>5. /\ ~AtPutIndex(q) /\ ~AtPutCrl(q) /\ ~Behind(q) /\ q.op # "saveCcd" /\ q.pc > 0
      /\ ~(q.op = "unrevoke" /\ q.pc > 2) /\ ~(q.op = "unrevoke" /\ q.pc = 11)
  BY <1>2 DEF AtPutIndex, AtPutCrl, Behind
<1>6. CASE K!Failed(r)
  <2>1. PICK f \in KubeRequest : MovesTo(q, f) /\ f.op = q.op /\ f.pc = q.pc + 1
    BY Moves
  <2>2. ~AtPutIndex(f) /\ ~AtPutCrl(f)
    BY <1>2, <2>1 DEF AtPutIndex, AtPutCrl
  <2>3. req'[r] # f
    BY <1>2, <1>6, <2>1, FailedEffect, KubeIdle DEF KubeTyped
  <2> QED
    BY <1>1, <1>4, <1>5, <1>6, <2>1, <2>2, <2>3, LiveStep
<1>7. CASE ~K!Failed(r)
  <2>1. PICK s \in K!Named(q.user) :
           /\ K!Named(q.user) = {s}
           /\ K!Continue(r, [q EXCEPT !.serial = s, !.copy = secrets[s]])
    BY <1>1, <1>7 DEF K!Get, K!Reads, K!Refused
  <2>2. s \in K!Serials
    BY DEF K!Named
  <2>3. secrets[s] \in K!Secret /\ s \in 0 .. MaxSerials
    BY <2>2, KubeSerials DEF KubeTyped, KubeStoreTyped
  <2>4. [q EXCEPT !.serial = s, !.copy = secrets[s]] \in KubeRequest
    BY <2>3 DEF KubeRequest
  <2>5. PICK e \in KubeRequest : e = [q EXCEPT !.serial = s, !.copy = secrets[s]]
    BY <2>4
  <2>6. e.op = q.op /\ e.pc = q.pc /\ e.user = q.user /\ e.serial = s
    BY <2>5 DEF KubeRequest
  <2>7. K!Continue(r, e)
    BY <2>1, <2>5
  <2>8. PICK f \in KubeRequest :
           /\ MovesTo(e, f)
           /\ f.op = e.op /\ f.pc = e.pc + 1 /\ f.user = e.user /\ f.serial = e.serial
    BY Moves
  <2>9. ~AtPutIndex(f) /\ ~AtPutCrl(f) /\ (Gains(q) => q.op = "unrevoke")
    BY <1>2, <2>6, <2>8 DEF AtPutIndex, AtPutCrl, Gains
  <2>10. ASSUME q.op = "unrevoke", req'[r] = f
         PROVE  LiveCall(f)'
    <3>1. f.op = "unrevoke" /\ f.pc = 3 /\ f.user = q.user /\ f.serial = s
      BY <1>2, <2>6, <2>8, <2>10
    <3>2. good' = good
      BY <1>1, <1>2, <2>6, <2>7, GoodEffect DEF KubeTyped, Reporting
    <3>3. f.user \notin good'
      BY <1>2, <3>1, <3>2 DEF LiveCall
    <3>4. K!Named(f.user)' = {f.serial}
      BY <1>4, <2>1, <3>1, RefreshedKeeps DEF KubeTyped
    <3> QED
      BY <3>1, <3>3, <3>4 DEF LiveCall, AtPutIndex, AtPutCrl, Absentee, Built, Ready
  <2> QED
    BY <1>1, <1>4, <1>5, <2>6, <2>7, <2>8, <2>9, <2>10, LiveStep
<1> QED
  BY <1>6, <1>7

\* A list of secrets tells that the user has no certificate; one that fails tells nothing,
\* but then nothing has failed before.
LEMMA LiveAbsentStep ==
    ASSUME KubeNames, OneCertRequest, KubeTyped, KubeInv, LiveInv, NEW r \in K!Reqs,
           K!Absent(r)
    PROVE  LiveInv'
<1>1. PICK q \in KubeRequest : q = req[r] /\ CalledWith(q)
  BY KubeOwn DEF KubeTyped
<1>2. /\ (q.op = "create" /\ q.pc = 2) \/ (q.op = "rotate" /\ q.pc = 4)
      /\ LiveCall(q)
  BY <1>1, Places DEF K!Absent, KubeTyped, LiveInv
<1>3. /\ K!Continue(r, q) \/ K!Failed(r)
      /\ UNCHANGED K!store
      /\ K!Fault \/ UNCHANGED K!counters
      /\ K!Failed(r) \/ K!Fault \/ \A s \in K!Serials : K!Named(q.user) # {s}
  BY <1>1 DEF K!Absent, K!Refused
<1>4. Refreshed /\ failures' \in {failures, failures + 1}
  BY <1>3, KeptRefreshed, OneMore
<1>5. PICK f \in KubeRequest :
         MovesTo(q, f) /\ f.op = q.op /\ f.pc = q.pc + 1 /\ f.user = q.user
  BY Moves
<1>6. /\ ~AtPutIndex(f) /\ ~AtPutCrl(f) /\ ~Behind(q) /\ (Gains(q) => q.op = "create")
      /\ q.op # "saveCcd" /\ q.pc > 0 /\ q.op # "unrevoke"
  BY <1>2, <1>5 DEF AtPutIndex, AtPutCrl, Behind, Gains
<1>7. ASSUME q.op = "create", req'[r] = f
      PROVE  LiveCall(f)'
  <2>1. f.op = "create" /\ f.pc = 3
    BY <1>2, <1>5, <1>7
  <2>2. ~K!Failed(r)
    BY <1>7, <2>1, FailedEffect, KubeIdle DEF KubeTyped
  <2>3. ASSUME failures' <= 1
        PROVE  K!Named(q.user) = {}
    <3>1. failures \in Nat
      BY DEF KubeTyped, KubeCounted
    <3>2. CASE K!Fault
      <4>1. failures = 0
        BY <2>3, <3>1, <3>2, OneMore
      <4> QED
        BY <1>2, <1>7, <4>1 DEF LiveCall
    <3>3. CASE ~K!Fault
      <4>1. failures <= 1
        BY <1>3, <2>3, <3>3, OneMore
      <4>2. \A s \in K!Serials : K!Named(q.user) # {s}
        BY <1>3, <2>2, <3>3
      <4>3. q.user \in Users
        BY <1>1, <1>7 DEF CalledWith
      <4>4. \A s, t \in K!Named(q.user) : s = t
        BY <4>1, <4>3 DEF LiveInv, K!OneSecretPerUser
      <4>5. \A s \in K!Named(q.user) : s \in K!Serials
        BY DEF K!Named
      <4> QED
        BY <4>2, <4>4, <4>5
    <3> QED
      BY <3>2, <3>3
  <2>4. failures' <= 1 => K!Named(f.user)' = {}
    BY <1>4, <1>5, <2>3, RefreshedKeeps DEF KubeTyped
  <2> QED
    BY <2>1, <2>4 DEF LiveCall, AtPutIndex, AtPutCrl, Absentee, Built, Ready
<1> QED
  BY <1>1, <1>3, <1>4, <1>5, <1>6, <1>7, LiveStep

LEMMA LiveGetCcdStep ==
    ASSUME KubeNames, OneCertRequest, KubeTyped, KubeInv, LiveInv, NEW r \in K!Reqs,
           K!GetCcd(r)
    PROVE  LiveInv'
<1>1. PICK q \in KubeRequest : q = req[r] /\ CalledWith(q)
  BY KubeOwn DEF KubeTyped
<1>2. /\ \/ q.op = "create" /\ q.pc = 7
         \/ q.op = "rotate" /\ q.pc = 9
         \/ q.op = "saveCcd" /\ q.pc = 1
      /\ LiveCall(q)
  BY <1>1, Places DEF K!GetCcd, KubeTyped, LiveInv
<1>3. CASE K!Transferred(q, q.copy) = "none"
  <2>1. /\ req' = [req EXCEPT ![r] = Skipped(q)]
        /\ UNCHANGED <<secrets, idxSecret, idxDisk, crlSecret, crlDisk, up, failures, good>>
        /\ q.op = "rotate" /\ q.pc = 9
    BY <1>1, <1>3, KubeSkips DEF KubeTyped, K!store, K!history, K!counters
  <2>2. PICK f \in KubeRequest : f = Skipped(q)
    BY SkippedFields
  <2>3. f.pc = 12 /\ f.op = "rotate" /\ f.user = q.user
    BY <2>1, <2>2, SkippedFields
  <2>4. \A o \in K!Reqs : req'[o] = (IF o = r THEN f ELSE req[o])
    BY <2>1, <2>2 DEF KubeTyped, KubeReqTyped
  <2>5. Refreshed /\ failures' \in {failures, failures + 1} /\ good' \subseteq good
    BY <2>1, KeptMarks DEF Refreshed
  <2>6. failures \in Nat
    BY DEF KubeTyped, KubeCounted
  <2>7. f.user \notin good' /\ (failures' <= 1 => Reachable(f.user)')
    <3>1. q.user \notin good /\ (failures <= 1 => Reachable(q.user))
      BY <1>2, <2>1 DEF LiveCall, Ready
    <3> QED
      BY <2>1, <2>3, <2>5, <3>1, RefreshedKeeps DEF KubeTyped
  <2>8. LiveCall(f)'
    BY <2>3, <2>7 DEF LiveCall, AtPutIndex, AtPutCrl, Absentee, Built, Ready
  <2>9. ASSUME NEW o \in K!Reqs
        PROVE  LiveCall(req[o])'
    <3>1. CASE o = r
      <4>1. req'[o] = f
        BY <2>4, <3>1
      <4> QED
        BY <2>8, <4>1 DEF LiveCall, AtPutIndex, AtPutCrl, Absentee, Built, Ready
    <3>2. CASE o # r
      <4>1. PICK p \in KubeRequest : p = req[o]
        BY KubeOwn DEF KubeTyped
      <4>2. LiveCall(p)'
        BY <2>5, <2>6, <4>1, LiveCallKept DEF LiveInv, KubeTyped
      <4>3. req'[o] = p
        BY <2>4, <3>2, <4>1
      <4> QED
        BY <4>2, <4>3 DEF LiveCall, AtPutIndex, AtPutCrl, Absentee, Built, Ready
    <3> QED
      BY <3>1, <3>2
  <2>10. Running'
    BY <1>1, <2>1, <2>4 DEF LiveInv, Running
  <2>11. IndexKept'
    <3>1. \A o \in K!Reqs : ~Behind(req[o])' => ~Behind(req[o])
      BY <1>1, <2>1, <2>4 DEF Behind
    <3> QED
      BY <2>1, <3>1 DEF LiveInv, IndexKept, Covers, K!Named
  <2>12. GoodKept' /\ K!OneSecretPerUser'
    BY <2>1, <2>5, RefreshedKeeps DEF LiveInv, GoodKept, K!OneSecretPerUser, KubeTyped
  <2> QED
    BY <2>9, <2>10, <2>11, <2>12 DEF LiveInv
<1>4. CASE K!Transferred(q, q.copy) # "none"
  <2>1. /\ UNCHANGED K!store /\ (K!Fault \/ UNCHANGED K!counters)
        /\ \/ K!Failed(r)
           \/ \E s \in K!Named(q.user) : K!Continue(r, Fetched(q, s))
    BY <1>1, <1>4, KubeFetches DEF K!Reads, K!Refused
  <2>2. \A s \in K!Named(q.user) : s \in K!Serials
    BY DEF K!Named
  <2>3. PICK e \in KubeRequest :
           /\ K!Continue(r, e) \/ K!Failed(r)
           /\ e.op = q.op /\ e.pc = q.pc /\ e.user = q.user
    <3>1. CASE K!Failed(r)
      BY <3>1
    <3>2. CASE ~K!Failed(r)
      <4>1. PICK s \in K!Named(q.user) : K!Continue(r, Fetched(q, s))
        BY <2>1, <3>2
      <4>2. /\ Fetched(q, s) \in KubeRequest
            /\ Fetched(q, s).op = q.op /\ Fetched(q, s).pc = q.pc
            /\ Fetched(q, s).user = q.user
        BY <1>1, <1>2, <2>2, FetchedFields DEF KubeTyped
      <4> QED
        BY <4>1, <4>2
    <3> QED
      BY <3>1, <3>2
  <2>4. Refreshed /\ failures' \in {failures, failures + 1} /\ UNCHANGED idxSecret
    BY <2>1, KeptRefreshed, OneMore DEF K!store
  <2>5. q.pc > 0
    BY <1>2
  <2>6. CASE q.op = "saveCcd"
    BY <1>1, <2>3, <2>4, <2>5, <2>6, LiveSave
  <2>7. CASE q.op # "saveCcd"
    <3>1. PICK f \in KubeRequest : MovesTo(e, f) /\ f.op = e.op /\ f.pc = e.pc + 1
      BY Moves
    <3>2. /\ ~AtPutIndex(f) /\ ~AtPutCrl(f) /\ ~Behind(q) /\ ~Gains(q)
          /\ ~AtPutIndex(q) /\ ~AtPutCrl(q) /\ q.op # "unrevoke"
      BY <1>2, <2>3, <2>7, <3>1 DEF AtPutIndex, AtPutCrl, Behind, Gains
    <3> QED
      BY <1>1, <2>3, <2>4, <2>5, <2>7, <3>1, <3>2, LiveStep
  <2> QED
    BY <2>6, <2>7
<1> QED
  BY <1>3, <1>4

\* What the update of a secret does.
LEMMA UpdateOutcome ==
    ASSUME KubeTyped, KubeBase, NEW r \in K!Reqs, NEW q \in KubeRequest, q = req[r],
           KubeFresh(q), NEW new \in K!Secret, new.version = q.copy.version, K!Update(r, new)
    PROVE  /\ UNCHANGED <<idxSecret, idxDisk, crlSecret, crlDisk>>
           /\ K!Fault \/ UNCHANGED K!counters
           /\ K!Continue(r, q) \/ K!Failed(r)
           /\ q.serial \in K!Serials
           /\ \/ UNCHANGED secrets /\ K!Failed(r)
              \/ /\ q.copy = secrets[q.serial]
                 /\ \A s \in K!Serials \ {q.serial} : secrets'[s] = secrets[s]
                 /\ secrets'[q.serial].name = new.name
                 /\ secrets'[q.serial].revokedAt = new.revokedAt
<1>1. /\ UNCHANGED <<idxSecret, idxDisk, crlSecret, crlDisk>>
      /\ K!Fault \/ UNCHANGED K!counters
  BY DEF K!Update, K!Writes, K!Refused, K!store
<1>2. q.serial \in K!Serials
  BY DEF KubeFresh, K!Issued
<1>3. /\ K!Continue(r, q) \/ K!Failed(r)
      /\ \/ UNCHANGED secrets /\ K!Failed(r)
         \/ /\ q.copy = secrets[q.serial]
            /\ secrets' = [secrets EXCEPT ![q.serial] = [new EXCEPT !.version = @ + 1]]
  BY UpdateEffect
<1>4. ASSUME secrets' = [secrets EXCEPT ![q.serial] = [new EXCEPT !.version = @ + 1]]
      PROVE  /\ \A s \in K!Serials \ {q.serial} : secrets'[s] = secrets[s]
             /\ secrets'[q.serial].name = new.name
             /\ secrets'[q.serial].revokedAt = new.revokedAt
  <2> DEFINE put == [new EXCEPT !.version = @ + 1]
  <2>1. put.name = new.name /\ put.revokedAt = new.revokedAt
    BY KubeNewSecret
  <2> HIDE DEF put
  <2>2. /\ secrets'[q.serial] = put
        /\ \A s \in K!Serials \ {q.serial} : secrets'[s] = secrets[s]
    BY <1>2, <1>4 DEF put, KubeTyped, KubeStoreTyped
  <2> QED
    BY <2>1, <2>2
<1> QED
  BY <1>1, <1>2, <1>3, <1>4

\* The certificate of a request that is not reported as active can be marked or put away:
\* no other user's is touched.
LEMMA LiveUpdateStep ==
    ASSUME KubeNames, OneCertRequest, KubeTyped, KubeBase, KubeInv, LiveInv,
           NEW r \in K!Reqs, NEW q \in KubeRequest, q = req[r],
           q.op \in {"revoke", "unrevoke", "rotate", "delete"}, q.pc = 3,
           NEW new \in K!Secret, new.version = q.copy.version, K!Update(r, new),
           \/ new.name = q.copy.name /\ q.op \in {"revoke", "unrevoke"}
           \/ new.name = K!Archived /\ q.op \in {"rotate", "delete"},
           q.op = "unrevoke" => new.revokedAt = FALSE
    PROVE  LiveInv'
<1>1. /\ KubeFresh(q) /\ q.copy.name = q.user /\ LiveCall(q) /\ q.user \in Users
      /\ failures \in Nat /\ KubeReqTyped
  BY KubeOwn DEF KubeBase, KubeHeld, LiveInv, KubeTyped, CalledWith, KubeCounted
<1>2. /\ UNCHANGED <<idxSecret, idxDisk, crlSecret, crlDisk>>
      /\ K!Fault \/ UNCHANGED K!counters
      /\ K!Continue(r, q) \/ K!Failed(r)
      /\ q.serial \in K!Serials
      /\ \/ UNCHANGED secrets /\ K!Failed(r)
         \/ /\ q.copy = secrets[q.serial]
            /\ \A s \in K!Serials \ {q.serial} : secrets'[s] = secrets[s]
            /\ secrets'[q.serial].name = new.name
            /\ secrets'[q.serial].revokedAt = new.revokedAt
  BY <1>1, UpdateOutcome
<1>3. failures' \in {failures, failures + 1}
  BY <1>2, OneMore
<1>4. /\ failures' = 0 => failures = 0
      /\ failures' <= 1 => failures <= 1
  BY <1>1, <1>3
<1>5. PICK f \in KubeRequest :
         /\ MovesTo(q, f)
         /\ f.op = q.op /\ f.pc = q.pc + 1 /\ f.user = q.user /\ f.serial = q.serial
  BY Moves
<1>6. ~AtPutIndex(f) /\ ~AtPutCrl(f) /\ ~Behind(q) /\ q.op # "saveCcd" /\ q.pc > 0
  BY <1>5 DEF AtPutIndex, AtPutCrl, Behind
<1>7. CASE UNCHANGED secrets /\ K!Failed(r)
  <2>1. Refreshed
    BY <1>2, <1>7, KeptMarks DEF Refreshed
  <2>2. req'[r] # f
    BY <1>5, <1>7, FailedEffect, KubeIdle DEF KubeTyped
  <2> QED
    BY <1>2, <1>3, <1>5, <1>6, <2>1, <2>2, LiveStep
<1>8. CASE /\ q.copy = secrets[q.serial]
           /\ \A s \in K!Serials \ {q.serial} : secrets'[s] = secrets[s]
           /\ secrets'[q.serial].name = new.name
           /\ secrets'[q.serial].revokedAt = new.revokedAt
  <2>1. secrets[q.serial].name = q.user /\ q.serial \in K!Named(q.user)
    BY <1>1, <1>2, <1>8 DEF K!Named
  <2>2. \A u \in Users : u # K!Archived
    BY VpnUsersAssumption DEF K!Archived
  <2>3. \A u \in Users : K!Named(u)' \subseteq K!Named(u)
    BY <1>1, <1>8, <2>1, <2>2 DEF K!Named
  <2>4. \A u \in Users : u # q.user => K!Named(u)' = K!Named(u) /\ q.serial \notin K!Named(u)
    BY <1>1, <1>8, <2>1, <2>2 DEF K!Named
  <2>5. /\ Covers(idxSecret) => Covers(idxSecret)'
        /\ Covers(idxDisk) => Covers(idxDisk)'
    BY <1>2, <2>3 DEF Covers
  <2>6. failures' = 0 => Covers(idxSecret)' /\ Covers(idxDisk)'
    <3>1. \A o \in K!Reqs : ~Behind(req[o])
      <4>1. \A o \in K!Reqs \ {r} : ~Behind(req[o])
        BY <1>6, OthersQuiet, SavesCountOnNothing
      <4> QED
        BY <1>6, <4>1
    <3>2. up
      BY DEF LiveInv, Running
    <3> QED
      BY <1>4, <2>5, <3>1, <3>2 DEF LiveInv, IndexKept
  <2>7. K!OneSecretPerUser'
    BY <1>4, <2>3 DEF LiveInv, K!OneSecretPerUser
  <2>8. good' = good /\ q.user \notin good /\ good \subseteq Users
    <3>1. ~Reporting(q)
      BY DEF Reporting
    <3>2. good' = good
      BY <1>1, <1>2, <1>6, <3>1, GoodEffect
    <3> QED
      BY <1>1, <3>2 DEF LiveCall, KubeTyped, KubeRestTyped
  <2>9. failures' <= 1 => \A u \in good' : Reachable(u)'
    <3> SUFFICES ASSUME failures' <= 1, NEW u \in good
                 PROVE  Reachable(u)'
      BY <2>8
    <3>1. u \in Users /\ u # q.user
      BY <2>8
    <3>2. PICK s \in K!Serials : /\ K!Named(u) = {s} /\ ~secrets[s].revokedAt
                                 /\ s \notin crlSecret /\ s \notin crlDisk
                                 /\ idxSecret[s] = [name |-> u, revokedAt |-> FALSE]
      BY <1>4 DEF LiveInv, GoodKept, Reachable
    <3>3. K!Named(u)' = {s} /\ s # q.serial
      BY <2>4, <3>1, <3>2
    <3>4. secrets'[s] = secrets[s]
      BY <1>8, <3>3
    <3> QED
      BY <1>2, <3>2, <3>3, <3>4 DEF Reachable
  <2>10. failures <= 1 /\ q.op = "rotate" => K!Named(q.user)' = {}
    <3> SUFFICES ASSUME failures <= 1, q.op = "rotate", NEW s \in K!Named(q.user)'
                 PROVE  FALSE
      OBVIOUS
    <3>1. s \in K!Named(q.user)
      BY <1>1, <2>3
    <3>2. s = q.serial
      BY <1>1, <2>1, <3>1 DEF LiveInv, K!OneSecretPerUser
    <3>3. secrets'[s].name = q.user
      BY DEF K!Named
    <3> QED
      BY <1>1, <1>8, <2>2, <3>2, <3>3
  <2>11. failures <= 1 /\ q.op = "unrevoke" =>
             K!Named(q.user)' = {q.serial} /\ ~secrets'[q.serial].revokedAt
    <3> SUFFICES ASSUME failures <= 1, q.op = "unrevoke"
                 PROVE  K!Named(q.user)' = {q.serial} /\ ~secrets'[q.serial].revokedAt
      OBVIOUS
    <3>1. K!Named(q.user) = {q.serial}
      BY <1>1 DEF LiveCall
    <3>2. q.serial \in K!Named(q.user)'
      BY <1>1, <1>2, <1>8 DEF K!Named
    <3> QED
      BY <1>1, <1>8, <2>3, <3>1, <3>2
  <2>12. LiveCall(f)'
    <3>1. f.user \notin good' /\ f.pc = 4
      BY <1>5, <2>8
    <3>2. failures' <= 1 /\ f.op = "rotate" => K!Named(f.user)' = {}
      BY <1>4, <1>5, <2>10
    <3>3. failures' <= 1 /\ f.op = "unrevoke" =>
              K!Named(f.user)' = {f.serial} /\ ~secrets'[f.serial].revokedAt
      BY <1>4, <1>5, <2>11
    <3>4. f.op \in {"revoke", "unrevoke", "rotate", "delete"}
      BY <1>5
    <3> QED
      BY <1>6, <3>1, <3>2, <3>3, <3>4 DEF LiveCall, Absentee, Built, Ready
  <2> QED
    BY <1>2, <1>5, <1>6, <2>6, <2>7, <2>9, <2>12, LiveEnds
<1> QED
  BY <1>2, <1>7, <1>8

LEMMA LiveSecretStep ==
    ASSUME KubeNames, OneCertRequest, KubeTyped, KubeBase, KubeInv, LiveInv,
           NEW r \in K!Reqs, K!Stamp(r) \/ K!Clear(r) \/ K!Archive(r) \/ K!PutCcd(r)
    PROVE  LiveInv'
<1>1. PICK q \in KubeRequest : q = req[r]
  BY KubeOwn DEF KubeTyped
<1>2. q.copy \in K!Secret /\ q.ccd \in Ccds \cup {"clean", "none"}
  BY DEF KubeRequest
<1> DEFINE c == q.copy
           d == q.ccd
<1>3. /\ Stamped(c) \in K!Secret /\ Stamped(c).version = c.version
      /\ Stamped(c).name = c.name
      /\ Cleared(c) \in K!Secret /\ Cleared(c).version = c.version
      /\ Cleared(c).name = c.name /\ Cleared(c).revokedAt = FALSE
      /\ PutAway(c) \in K!Secret /\ PutAway(c).version = c.version
      /\ PutAway(c).name = K!Archived
      /\ WithCcd(c, d) \in K!Secret /\ WithCcd(c, d).version = c.version
      /\ WithCcd(c, d).name = c.name /\ WithCcd(c, d).revokedAt = c.revokedAt
  <2> HIDE DEF c, d
  <2>1. c \in K!Secret /\ d \in Ccds \cup {"clean", "none"}
    BY <1>2 DEF c, d
  <2>2. /\ Stamped(c) \in K!Secret /\ Stamped(c).version = c.version
        /\ Stamped(c).name = c.name
        /\ Cleared(c) \in K!Secret /\ Cleared(c).version = c.version
        /\ Cleared(c).name = c.name /\ Cleared(c).revokedAt = FALSE
        /\ PutAway(c) \in K!Secret /\ PutAway(c).version = c.version
        /\ WithCcd(c, d) \in K!Secret /\ WithCcd(c, d).version = c.version
        /\ WithCcd(c, d).name = c.name /\ WithCcd(c, d).revokedAt = c.revokedAt
    BY <2>1, UpdateFields
  <2>3. PutAway(c).name = K!Archived
    BY <2>1, UpdateCcds
  <2> QED
    BY <2>2, <2>3
<1>4. CASE K!Stamp(r)
  <2>1. q.op = "revoke" /\ q.pc = 3
    BY <1>1, <1>4, Places DEF K!Stamp, KubeTyped
  <2>2. CASE q.copy.revokedAt
    <3>1. K!Continue(r, q) /\ UNCHANGED K!store /\ UNCHANGED K!counters
      BY <1>1, <1>4, <2>2 DEF K!Stamp
    <3>2. Refreshed /\ failures' \in {failures, failures + 1}
      BY <3>1, KeptRefreshed, OneMore
    <3>3. PICK f \in KubeRequest : MovesTo(q, f) /\ f.op = q.op /\ f.pc = q.pc + 1
      BY Moves
    <3>4. /\ ~AtPutIndex(f) /\ ~AtPutCrl(f) /\ ~Behind(q) /\ ~Gains(q)
          /\ q.op # "saveCcd" /\ q.pc > 0 /\ q.op # "unrevoke"
      BY <2>1, <3>3 DEF AtPutIndex, AtPutCrl, Behind, Gains
    <3> QED
      BY <1>1, <3>1, <3>2, <3>3, <3>4, LiveStep
  <2>3. CASE ~q.copy.revokedAt
    <3>1. K!Update(r, Stamped(q.copy))
      BY <1>1, <1>4, <2>3 DEF K!Stamp, Stamped
    <3>2. PICK new \in K!Secret : /\ new.version = q.copy.version /\ new.name = q.copy.name
                                  /\ K!Update(r, new)
      BY <1>3, <3>1
    <3> QED
      BY <1>1, <2>1, <3>2, LiveUpdateStep
  <2> QED
    BY <2>2, <2>3
<1>5. CASE K!Clear(r)
  <2>1. q.op = "unrevoke" /\ q.pc = 3
    BY <1>1, <1>5, Places DEF K!Clear, KubeTyped
  <2>2. K!Update(r, Cleared(q.copy))
    BY <1>1, <1>5 DEF K!Clear, Cleared
  <2>3. PICK new \in K!Secret : /\ new.version = q.copy.version /\ new.name = q.copy.name
                                /\ new.revokedAt = FALSE /\ K!Update(r, new)
    BY <1>3, <2>2
  <2> QED
    BY <1>1, <2>1, <2>3, LiveUpdateStep
<1>6. CASE K!Archive(r)
  <2>1. q.op \in {"rotate", "delete"} /\ q.pc = 3
    BY <1>1, <1>6, Places DEF K!Archive, KubeTyped
  <2>2. K!Update(r, PutAway(q.copy))
    BY <1>1, <1>6 DEF K!Archive, PutAway
  <2>3. PICK new \in K!Secret : /\ new.version = q.copy.version /\ new.name = K!Archived
                                /\ K!Update(r, new)
    BY <1>3, <2>2
  <2> QED
    BY <1>1, <2>1, <2>3, LiveUpdateStep
<1>7. CASE K!PutCcd(r)
  <2>1. AtPutCcd(q) /\ KubeFresh(q)
    BY <1>1, <1>7, Places DEF K!PutCcd, KubeTyped, KubeHeld, KubeBase, AtPutCcd
  <2>2. K!Update(r, WithCcd(q.copy, q.ccd))
    BY <1>1, <1>7 DEF K!PutCcd, WithCcd
  <2>3. PICK new \in K!Secret : /\ new.version = q.copy.version /\ new.name = q.copy.name
                                /\ new.revokedAt = q.copy.revokedAt /\ K!Update(r, new)
    BY <1>3, <2>2
  <2>4. /\ UNCHANGED <<idxSecret, idxDisk, crlSecret, crlDisk>>
        /\ K!Fault \/ UNCHANGED K!counters
        /\ K!Continue(r, q) \/ K!Failed(r)
        /\ \/ UNCHANGED secrets
           \/ /\ q.copy = secrets[q.serial]
              /\ \A s \in K!Serials \ {q.serial} : secrets'[s] = secrets[s]
              /\ secrets'[q.serial].name = new.name
              /\ secrets'[q.serial].revokedAt = new.revokedAt
    BY <1>1, <2>1, <2>3, UpdateOutcome
  <2>5. SameMarks
    BY <2>3, <2>4 DEF SameMarks
  <2>6. Refreshed /\ failures' \in {failures, failures + 1} /\ UNCHANGED idxSecret
    BY <2>4, <2>5, OneMore DEF Refreshed
  <2>7. q.pc > 0
    BY <2>1 DEF AtPutCcd
  <2>8. CASE q.op = "saveCcd"
    BY <1>1, <2>4, <2>6, <2>7, <2>8, LiveSave
  <2>9. CASE q.op # "saveCcd"
    <3>1. PICK f \in KubeRequest : MovesTo(q, f) /\ f.op = q.op /\ f.pc = q.pc + 1
      BY Moves
    <3>2. /\ ~AtPutIndex(f) /\ ~AtPutCrl(f) /\ ~Behind(q) /\ ~Gains(q) /\ q.op # "unrevoke"
      BY <2>1, <2>9, <3>1 DEF AtPutIndex, AtPutCrl, Behind, Gains, AtPutCcd
    <3> QED
      BY <1>1, <2>4, <2>6, <2>7, <2>9, <3>1, <3>2, LiveStep
  <2> QED
    BY <2>8, <2>9
<1> QED
  BY <1>4, <1>5, <1>6, <1>7

LEMMA CreateOutcome ==
    ASSUME KubeTyped, NEW r \in K!Reqs, NEW q \in KubeRequest, q = req[r], K!Create(r)
    PROVE  /\ UNCHANGED <<idxSecret, idxDisk, crlSecret, crlDisk>>
           /\ (K!Continue(r, q) /\ UNCHANGED K!counters) \/ (K!Failed(r) /\ K!Fault)
           /\ \/ UNCHANGED secrets /\ K!Failed(r) /\ K!Fault
              \/ \E s \in K!Serials \ K!Issued :
                    /\ \A t \in K!Serials \ {s} : secrets'[t] = secrets[t]
                    /\ secrets'[s].name = q.user /\ ~secrets'[s].revokedAt
<1> DEFINE new == [K!NoSecret EXCEPT !.name = q.user, !.version = 1]
<1>1. new.name = q.user /\ new.revokedAt = FALSE
  BY DEF K!NoSecret
<1> HIDE DEF new
<1>2. PICK s \in K!Serials \ K!Issued : K!Writes(r, secrets, [secrets EXCEPT ![s] = new])
  BY DEF K!Create, new
<1>3. secrets' = [secrets EXCEPT ![s] = new] =>
          /\ \A t \in K!Serials \ {s} : secrets'[t] = secrets[t]
          /\ secrets'[s] = new
  BY DEF KubeTyped, KubeStoreTyped
<1>4. UNCHANGED <<idxSecret, idxDisk, crlSecret, crlDisk>>
  BY DEF K!Create
<1> QED
  BY <1>1, <1>2, <1>3, <1>4 DEF K!Writes

\* The first certificate of its user.
LEMMA LiveCreateStep ==
    ASSUME KubeNames, OneCertRequest, KubeTyped, KubeBase, KubeInv, LiveInv,
           NEW r \in K!Reqs, K!Create(r)
    PROVE  LiveInv'
<1>1. PICK q \in KubeRequest : q = req[r] /\ CalledWith(q)
  BY KubeOwn DEF KubeTyped
<1>2. /\ (q.op = "create" /\ q.pc = 3) \/ (q.op = "rotate" /\ q.pc = 5)
      /\ LiveCall(q)
  BY <1>1, Places DEF K!Create, KubeTyped, LiveInv
<1>3. /\ UNCHANGED <<idxSecret, idxDisk, crlSecret, crlDisk>>
      /\ (K!Continue(r, q) /\ UNCHANGED K!counters) \/ (K!Failed(r) /\ K!Fault)
      /\ \/ UNCHANGED secrets /\ K!Failed(r) /\ K!Fault
         \/ \E s \in K!Serials \ K!Issued :
               /\ \A t \in K!Serials \ {s} : secrets'[t] = secrets[t]
               /\ secrets'[s].name = q.user /\ ~secrets'[s].revokedAt
  BY <1>1, CreateOutcome
<1>4. /\ K!Continue(r, q) \/ K!Failed(r)
      /\ failures' \in {failures, failures + 1}
  BY <1>3, OneMore
<1>5. PICK f \in KubeRequest :
         /\ MovesTo(q, f)
         /\ f.op = q.op /\ f.pc = q.pc + 1 /\ f.user = q.user
  BY Moves
<1>6. /\ ~AtPutIndex(f) /\ ~AtPutCrl(f) /\ ~Behind(q) /\ Behind(f) /\ q.op # "saveCcd"
      /\ q.pc > 0 /\ q.op # "unrevoke"
  BY <1>2, <1>5 DEF AtPutIndex, AtPutCrl, Behind
<1>7. failures' <= 1 => failures <= 1
  <2>1. failures \in Nat
    BY DEF KubeTyped, KubeCounted
  <2> QED
    BY <1>4, <2>1
<1>8. CASE UNCHANGED secrets /\ K!Failed(r) /\ K!Fault
  <2>1. Refreshed
    BY <1>3, <1>8, KeptMarks DEF Refreshed
  <2>2. req'[r] # f
    BY <1>2, <1>5, <1>8, FailedEffect, KubeIdle DEF KubeTyped
  <2> QED
    BY <1>1, <1>4, <1>5, <1>6, <2>1, <2>2, LiveStep
<1>9. ASSUME NEW s \in K!Serials \ K!Issued,
             \A t \in K!Serials \ {s} : secrets'[t] = secrets[t],
             secrets'[s].name = q.user, ~secrets'[s].revokedAt
      PROVE  LiveInv'
  <2>1. q.user \in Users
    BY <1>1, <1>2 DEF CalledWith
  <2>2. \A u \in Users : s \notin K!Named(u)
    BY NamedIssued DEF KubeTyped
  <2>3. /\ K!Named(q.user)' = K!Named(q.user) \cup {s}
        /\ \A u \in Users : u # q.user => K!Named(u)' = K!Named(u)
    BY <1>9, <2>2 DEF K!Named
  <2>4. failures <= 1 => K!Named(q.user) = {}
    BY <1>2 DEF LiveCall, Absentee
  <2>5. failures' = 0 => req'[r] = f /\ Behind(f)
    <3>1. failures \in Nat
      BY DEF KubeTyped, KubeCounted
    <3>2. failures' = 0 => K!Continue(r, q)
      BY <1>3, <3>1, OneMore
    <3>3. q.pc # Len(K!Path[q.op])
      <4>1. CASE q.op = "create" /\ q.pc = 3
        BY <4>1, PathCreate
      <4>2. CASE q.op = "rotate" /\ q.pc = 5
        BY <4>2, PathRotate
      <4> QED
        BY <1>2, <4>1, <4>2
    <3> QED
      BY <1>5, <1>6, <3>2, <3>3, Proceeds DEF KubeTyped
  <2>6. K!OneSecretPerUser'
    <3> SUFFICES ASSUME failures' <= 1, NEW u \in Users, NEW x \in K!Named(u)',
                        NEW y \in K!Named(u)'
                 PROVE  x = y
      BY DEF K!OneSecretPerUser
    <3>1. CASE u = q.user
      BY <1>7, <2>3, <2>4, <3>1
    <3>2. CASE u # q.user
      BY <1>7, <2>3, <3>2 DEF LiveInv, K!OneSecretPerUser
    <3> QED
      BY <3>1, <3>2
  <2>7. good' = good /\ good \subseteq Users
    <3>1. ~Reporting(q)
      BY <1>2 DEF Reporting
    <3> QED
      BY <1>1, <1>4, <1>6, <3>1, GoodEffect DEF KubeTyped, KubeRestTyped
  <2>8. failures' <= 1 => \A u \in good' : Reachable(u)'
    <3> SUFFICES ASSUME failures' <= 1, NEW u \in good
                 PROVE  Reachable(u)'
      BY <2>7
    <3>1. PICK t \in K!Serials : /\ K!Named(u) = {t} /\ ~secrets[t].revokedAt
                                 /\ t \notin crlSecret /\ t \notin crlDisk
                                 /\ idxSecret[t] = [name |-> u, revokedAt |-> FALSE]
      BY <1>7 DEF LiveInv, GoodKept, Reachable
    <3>2. u \in Users /\ u # q.user /\ t # s
      BY <1>7, <2>2, <2>4, <2>7, <3>1
    <3>3. K!Named(u)' = {t} /\ secrets'[t] = secrets[t]
      BY <1>9, <2>3, <3>1, <3>2
    <3> QED
      BY <1>3, <3>1, <3>3 DEF Reachable
  <2>9. ASSUME req'[r] = f
        PROVE  LiveCall(f)'
    <3>1. s \notin crlSecret' /\ s \notin crlDisk'
      BY <1>3 DEF KubeBase
    <3>2. failures' <= 1 => K!Named(f.user)' = {s}
      BY <1>5, <1>7, <2>3, <2>4
    <3>3. failures' <= 1 => Admitted(f.user)'
      BY <1>9, <3>1, <3>2 DEF Admitted
    <3>4. f.op = "rotate" => f.user \notin good'
      BY <1>2, <1>5, <1>6, <2>7 DEF LiveCall
    <3>5. (f.op = "create" /\ f.pc = 4) \/ (f.op = "rotate" /\ f.pc = 6)
      BY <1>2, <1>5
    <3> QED
      BY <1>6, <3>3, <3>4, <3>5 DEF LiveCall, Absentee, Built, Ready
  <2> QED
    BY <1>1, <1>4, <1>5, <1>6, <2>5, <2>6, <2>8, <2>9, LiveEnds
<1> QED
  BY <1>3, <1>8, <1>9

\* A request is taken, or the process starts.
LEMMA LiveBegins ==
    ASSUME KubeTyped, KubeTyped', LiveInv, UNCHANGED K!store, UNCHANGED failures,
           good' \subseteq good, up' = TRUE, NEW r \in K!Reqs, req[r].pc = 0,
           req'[r].pc = 1,
           req'[r].op \in {"revoke", "unrevoke", "rotate", "delete"} => req'[r].user \notin good',
           up \/ req'[r].op = "run",
           \A o \in K!Reqs \ {r} : req'[o] \in {req[o], [req[o] EXCEPT !.alone = FALSE]}
    PROVE  LiveInv'
<1>1. Refreshed /\ failures \in Nat /\ failures' \in {failures, failures + 1}
  BY KeptRefreshed DEF KubeTyped, KubeCounted
<1>2. ASSUME NEW o \in K!Reqs \ {r}
      PROVE  LiveCall(req[o])' /\ (~Behind(req[o])' => ~Behind(req[o]))
  <2>1. PICK p \in KubeRequest : p = req[o]
    BY KubeOwn DEF KubeTyped
  <2>2. LiveCall(p)'
    BY <1>1, <2>1, LiveCallKept DEF LiveInv, KubeTyped
  <2> DEFINE f == [p EXCEPT !.alone = FALSE]
  <2>3. /\ f.op = p.op /\ f.user = p.user /\ f.pc = p.pc /\ f.serial = p.serial
        /\ f.crl = p.crl /\ f.index = p.index
    BY Interrupted
  <2> HIDE DEF f
  <2>4. PICK g : /\ g = req'[o]
                 /\ g.op = p.op /\ g.user = p.user /\ g.pc = p.pc /\ g.serial = p.serial
                 /\ g.crl = p.crl /\ g.index = p.index
    BY <2>1, <2>3 DEF f
  <2>5. LiveCall(g)'
    BY <2>2, <2>4, LiveSame
  <2> QED
    BY <2>1, <2>4, <2>5
       DEF LiveCall, AtPutIndex, AtPutCrl, Absentee, Built, Ready, Behind
<1>3. LiveCall(req[r])'
  BY DEF LiveCall, AtPutIndex, AtPutCrl, Absentee, Built, Ready
<1>4. Running'
  BY DEF Running
<1>5. IndexKept'
  <2>1. CASE up
    <3>1. ~Behind(req[r])
      BY SavesCountOnNothing
    <3> QED
      BY <1>2, <2>1, <3>1 DEF LiveInv, IndexKept, Covers, K!Named, K!store
  <2>2. CASE req'[r].op = "run"
    <3>1. Behind(req[r])'
      BY <2>2 DEF Behind
    <3> QED
      BY <3>1 DEF IndexKept
  <2> QED
    BY <2>1, <2>2
<1>6. GoodKept' /\ K!OneSecretPerUser'
  BY <1>1, RefreshedKeeps DEF LiveInv, GoodKept, K!OneSecretPerUser, KubeTyped
<1> QED
  BY <1>2, <1>3, <1>4, <1>5, <1>6 DEF LiveInv

LEMMA LiveStartStep ==
    ASSUME KubeTyped, KubeTyped', LiveInv, NEW r \in K!Reqs,
           NEW op \in {"create", "revoke", "unrevoke", "rotate", "delete", "saveCcd"},
           NEW u \in Users, NEW c \in Ccds \cup {"clean"}, K!Start(r, op, u, c)
    PROVE  LiveInv'
<1>1. PICK a \in BOOLEAN, k \in Ccds \cup {"none"} :
         /\ req'[r] = Begun(op, u, c, a, k)
         /\ \A o \in K!Reqs \ {r} : req'[o] \in {req[o], [req[o] EXCEPT !.alone = FALSE]}
  BY KubeStarts
<1>2. /\ Begun(op, u, c, a, k).op = op /\ Begun(op, u, c, a, k).user = u
      /\ Begun(op, u, c, a, k).pc = 1
  BY BegunFields DEF KubeOps
<1>3. req'[r].op = op /\ req'[r].user = u /\ req'[r].pc = 1
  BY <1>1, <1>2
<1>4. /\ UNCHANGED K!store /\ UNCHANGED failures /\ up' = up /\ up
      /\ req[r].pc = 0 /\ good' \subseteq good
      /\ op \in {"revoke", "unrevoke", "rotate", "delete"} => u \notin good'
  BY DEF K!Start, K!Serving
<1>5. up' = TRUE
  BY <1>4 DEF KubeTyped, KubeRestTyped
<1> QED
  BY <1>1, <1>3, <1>4, <1>5, LiveBegins

LEMMA LiveNext ==
    ASSUME KubeNames, OneCertRequest, KubeTyped, KubeBase, KubeInv, LiveInv, [K!Next]_K!vars
    PROVE  LiveInv'
<1>0. KubeTyped'
  BY KubeNextTyped
<1>1. ASSUME NEW r \in K!Reqs, K!Step(r)
      PROVE  LiveInv'
  BY <1>1, LiveVerifyStep, LiveCheckStep, LiveListStep, LivePutIndexStep, LiveIndexDiskStep,
     LivePutCrlStep, LiveCrlDiskStep, LiveGetStep, LiveAbsentStep, LiveGetCcdStep,
     LiveSecretStep, LiveCreateStep
     DEF K!Step
<1>2. ASSUME NEW r \in K!Reqs, K!RenewalTick(r) \/ K!Boot(r)
      PROVE  LiveInv'
  <2>1. /\ req'[r].op \in {"renew", "run"} /\ req'[r].pc = 1
        /\ K!Boot(r) => req'[r].op = "run"
        /\ \A o \in K!Reqs \ {r} : req'[o] = req[o]
    BY <1>2, RenewalIsRenew, KubeBegins DEF K!Boot
  <2>2. /\ UNCHANGED K!store /\ UNCHANGED failures /\ UNCHANGED good
        /\ K!RenewalTick(r) => up /\ up' = up /\ req[r].pc = 0
        /\ K!Boot(r) => ~up /\ up' = TRUE
    BY <1>2 DEF K!RenewalTick, K!Boot, K!counters, K!history, K!Serving
  <2>3. up' = TRUE /\ req[r].pc = 0
    <3>1. req[r].pc \in Nat
      BY KubeOwn DEF KubeTyped, KubeRequest
    <3>2. CASE K!Boot(r)
      BY <2>2, <3>1, <3>2 DEF LiveInv, Running
    <3>3. CASE K!RenewalTick(r)
      BY <2>2, <3>3 DEF KubeTyped, KubeRestTyped
    <3> QED
      BY <1>2, <3>2, <3>3
  <2>4. up \/ req'[r].op = "run"
    BY <1>2, <2>1, <2>2
  <2>5. good' \subseteq good /\ req'[r].op \notin {"revoke", "unrevoke", "rotate", "delete"}
    BY <2>1, <2>2
  <2> QED
    BY <1>0, <2>1, <2>2, <2>3, <2>4, <2>5, LiveBegins
<1>3. CASE K!Crash
  <2>1. /\ \A o \in K!Reqs : req'[o] = K!Idle
        /\ UNCHANGED K!store /\ UNCHANGED failures /\ UNCHANGED good /\ up' = FALSE
    BY <1>3 DEF K!Crash, K!history
  <2>2. Refreshed
    BY <2>1, KeptRefreshed
  <2>3. K!Idle.pc = 0
    BY KubeIdle
  <2>4. \A o \in K!Reqs : LiveCall(req[o])'
    BY <2>1, <2>3 DEF LiveCall, AtPutIndex, AtPutCrl, Absentee, Built, Ready
  <2>5. Running' /\ IndexKept'
    BY <2>1, <2>3 DEF Running, IndexKept
  <2>6. GoodKept' /\ K!OneSecretPerUser'
    BY <2>1, <2>2, RefreshedKeeps DEF LiveInv, GoodKept, K!OneSecretPerUser, KubeTyped
  <2> QED
    BY <2>4, <2>5, <2>6 DEF LiveInv
<1>4. CASE K!ListUsers \/ UNCHANGED K!vars
  <2>1. /\ UNCHANGED <<secrets, idxSecret, crlSecret, crlDisk, req, up, failures, good>>
        /\ idxDisk' \in {idxDisk, idxSecret}
    BY <1>4 DEF K!ListUsers, K!vars, K!store, K!counters, K!history
  <2>2. Refreshed /\ failures' \in {failures, failures + 1} /\ good' \subseteq good
    BY <2>1, KeptMarks DEF Refreshed
  <2>3. failures \in Nat
    BY DEF KubeTyped, KubeCounted
  <2>4. ASSUME NEW o \in K!Reqs
        PROVE  LiveCall(req[o])'
    <3>1. PICK p \in KubeRequest : p = req[o]
      BY KubeOwn DEF KubeTyped
    <3>2. LiveCall(p)'
      BY <2>2, <2>3, <3>1, LiveCallKept DEF LiveInv, KubeTyped
    <3>3. req'[o] = p
      BY <2>1, <3>1
    <3> QED
      BY <3>2, <3>3 DEF LiveCall, AtPutIndex, AtPutCrl, Absentee, Built, Ready
  <2>5. Running'
    BY <2>1 DEF LiveInv, Running
  <2>6. IndexKept'
    <3>1. \A o \in K!Reqs : ~Behind(req[o])' => ~Behind(req[o])
      BY <2>1 DEF Behind
    <3> QED
      BY <2>1, <2>2, <3>1, RefreshedKeeps DEF LiveInv, IndexKept, KubeTyped
  <2>7. GoodKept' /\ K!OneSecretPerUser'
    BY <2>1, <2>2, RefreshedKeeps DEF LiveInv, GoodKept, K!OneSecretPerUser, KubeTyped
  <2> QED
    BY <2>4, <2>5, <2>6, <2>7 DEF LiveInv
<1> QED
  BY <1>0, <1>1, <1>2, <1>3, <1>4, LiveStartStep DEF K!Next

LEMMA LiveInit ==
    ASSUME K!Init
    PROVE  LiveInv
<1>1. \A r \in K!Reqs : req[r].pc = 0
  BY KubeIdle DEF K!Init
<1>2. \A u \in Users : K!Named(u) = {}
  BY VpnUsersAssumption DEF K!Init, K!NoSecret, K!Named
<1>3. \A r \in K!Reqs : LiveCall(req[r])
  BY <1>1, SavesCountOnNothing
<1>4. Running /\ IndexKept /\ GoodKept /\ K!OneSecretPerUser
  BY <1>1, <1>2 DEF K!Init, Running, IndexKept, Covers, GoodKept, K!OneSecretPerUser
<1> QED
  BY <1>3, <1>4 DEF LiveInv

LEMMA LiveInductive ==
    ASSUME KubeNames, OneCertRequest
    PROVE  K!Spec => [](KubeTyped /\ LiveInv)
<1>1. K!Init => LiveInv
  BY LiveInit
<1>2. KubeTyped /\ KubeBase /\ KubeInv /\ LiveInv /\ [K!Next]_K!vars => LiveInv'
  BY LiveNext
<1> QED
  BY <1>1, <1>2, KubeInductive, PTL DEF K!Spec

\* A retry of a creation that stopped half way does not build a second certificate, as
\* long as one call fails at most and operations on certificates do not overlap: until
\* something fails the index on the disk lists every secret, so that userCreate refuses,
\* and after that the list in easyrsaBuildClient does not fail again.
THEOREM OneSecretUntilSecondFailure ==
    ASSUME K!KubernetesStoreAssumption, OneCertRequest
    PROVE  K!Spec => []K!OneSecretPerUser
<1>1. KubeNames
  BY KubeAssumed
<1>2. LiveInv => K!OneSecretPerUser
  BY DEF LiveInv
<1> QED
  BY <1>1, <1>2, LiveInductive, PTL

\* Under the same conditions a user who was reported as created, unrevoked or rotated has
\* one secret, is listed as valid, and the CRL on the disk lets the certificate pass
\* (userCreate, userUnrevoke, userRotate over kubernetes.go).
THEOREM ActiveUntilSecondFailure ==
    ASSUME K!KubernetesStoreAssumption, OneCertRequest
    PROVE  K!Spec => [](failures <= 1 => K!ActiveIsConnectable)
<1>1. KubeNames
  BY KubeAssumed
<1>2. KubeTyped /\ LiveInv => (failures <= 1 => K!ActiveIsConnectable)
  <2> SUFFICES ASSUME KubeTyped, LiveInv, failures <= 1, NEW u \in good
               PROVE  \E s \in K!Usable :
                         /\ K!Named(u) = {s}
                         /\ ~secrets[s].revokedAt
                         /\ idxSecret[s] = [name |-> u, revokedAt |-> FALSE]
    BY DEF K!ActiveIsConnectable
  <2>1. PICK s \in K!Serials : /\ K!Named(u) = {s} /\ ~secrets[s].revokedAt
                               /\ s \notin crlSecret /\ s \notin crlDisk
                               /\ idxSecret[s] = [name |-> u, revokedAt |-> FALSE]
    BY DEF LiveInv, GoodKept, Reachable
  <2>2. s \in K!Issued
    BY <2>1, NamedIssued DEF KubeTyped, KubeRestTyped
  <2> QED
    BY <2>1, <2>2 DEF K!Usable
<1> QED
  BY <1>1, <1>2, LiveInductive, PTL
=============================================================================
