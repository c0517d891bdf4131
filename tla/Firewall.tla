------------------------------- MODULE Firewall -------------------------------
(***************************************************************************)
(* Server-side route enforcement (firewall.go): the firewallController,    *)
(* its event queue, and the iptables chain it maintains.                   *)
(*                                                                         *)
(* The chain is dropped traffic by default; every route that a connected   *)
(* client may use is one ACCEPT rule.  The controller cannot read the      *)
(* chain: it keeps its own account of what it installed (fwSession) and    *)
(* sends the difference.  Any iptables command may fail, and then changes  *)
(* nothing; deleting a rule that is not there always fails.                *)
(*                                                                         *)
(* Events are stored in a map (pending) and announced on a channel that    *)
(* holds one token (kick).  One goroutine handles them, each event under   *)
(* one hold of fc.mu; a reconcile first takes a snapshot of the connected  *)
(* clients, while nobody can push, and then works from it.                 *)
(*                                                                         *)
(* EvConnect and EvDisconnect are handled by the code but pushed by        *)
(* nothing outside its tests, so they do not occur here.                   *)
(***************************************************************************)
EXTENDS Naturals

CONSTANTS
    CNs,           \* common names of the VPN users
    IPs,           \* VPN addresses
    CIDRs,         \* destinations that a route can name
    MaxFailures,   \* bound on the events, polls and start-up steps that fail
    MaxChanges,    \* bound on connects, disconnects and policy changes
    MaxCrashes     \* bound on crashes

ASSUME FirewallAssumption ==
    /\ MaxFailures \in Nat
    /\ MaxChanges \in Nat
    /\ MaxCrashes \in Nat

VARIABLES
    chain,      \* the kernel's tables: the chain, and the jump to it
    accepts,    \* how often the chain holds the ACCEPT of a session and a CIDR
    tracked,    \* the keys of fc.sessions
    session,    \* what fc.sessions holds for them
    pending,    \* fc.pending: events stored and not yet taken
    kick,       \* fc.kick holds a token
    loop,       \* where eventHandlerLoop stands
    batch,      \* the events it has taken and not yet handled
    snap,       \* the snapshot a reconcile works from
    boot,       \* the next step of initChain, or "running", or "dead"
    ccd,        \* the routes of each user's CCD
    common,     \* the common routes, expanded
    live,       \* the clients connected to OpenVPN
    owed,       \* pushes that were called and have not stored their event
    unkicked,   \* pushes that have stored it and not yet kicked
    failures, changes, crashes

controller == <<tracked, session>>
queue == <<pending, kick, loop, batch, snap, owed, unkicked>>
world == <<ccd, common, live>>
vars == <<chain, accepts, controller, queue, boot, world, failures, changes, crashes>>

Chain == [exists : BOOLEAN, jumps : Nat, drop : BOOLEAN, stateful : BOOLEAN]
Key == [CN : CNs, VpnIP : IPs]
Session == [AllowedCIDRs : SUBSET CIDRs, pendingDeletes : SUBSET CIDRs]
NewSession == [AllowedCIDRs |-> {}, pendingDeletes |-> {}]

UserChanged(cn) == [Kind |-> "EvUserChanged", CN |-> cn]
CommonChanged == [Kind |-> "EvCommonChanged"]
Reconcile == [Kind |-> "EvReconcile"]
Event == {UserChanged(cn) : cn \in CNs} \cup {CommonChanged, Reconcile}

NoRules == [k \in Key |-> [c \in CIDRs |-> 0]]
NoSessions == [k \in Key |-> NewSession]

Boot == {"create", "detach", "flush", "drop", "stateful", "attach", "running", "dead"}

\* The process starts on a fresh kernel; users may have routes and be connected.
Init ==
    /\ chain = [exists |-> FALSE, jumps |-> 0, drop |-> FALSE, stateful |-> FALSE]
    /\ accepts = NoRules
    /\ tracked = {}
    /\ session = NoSessions
    /\ pending = {} /\ kick = FALSE /\ loop = "wait" /\ batch = {} /\ snap = {}
    /\ owed = {} /\ unkicked = {}
    /\ boot = "create"
    /\ ccd \in [CNs -> SUBSET CIDRs]
    /\ common \in SUBSET CIDRs
    /\ live \in {L \in SUBSET Key : \A j, k \in L : j.VpnIP = k.VpnIP => j = k}
    /\ failures = 0 /\ changes = 0 /\ crashes = 0

\* Whether something went wrong in a step, counted against the bound.
Fails(f) ==
    /\ f => failures < MaxFailures
    /\ failures' = IF f THEN failures + 1 ELSE failures

-----------------------------------------------------------------------------
(* initChain, one command at a time *)

\* -N: an existing chain is fine, and so is any other error, for now.
BootCreate(f) ==
    /\ boot = "create"
    /\ Fails(f)
    /\ chain' = [chain EXCEPT !.exists = @ \/ ~f]
    /\ boot' = "detach"
    /\ UNCHANGED <<accepts, controller, queue, world, changes, crashes>>

\* -D FORWARD: the error is ignored, the jump may not exist.
BootDetach(f) ==
    /\ boot = "detach"
    /\ Fails(f)
    /\ chain' = [chain EXCEPT !.jumps = IF f \/ @ = 0 THEN @ ELSE @ - 1]
    /\ boot' = "flush"
    /\ UNCHANGED <<accepts, controller, queue, world, changes, crashes>>

BootFlush(f) ==
    /\ boot = "flush"
    /\ Fails(f)
    /\ IF f \/ ~chain.exists
         THEN boot' = "dead" /\ UNCHANGED <<chain, accepts>>
         ELSE /\ boot' = "drop"
              /\ chain' = [chain EXCEPT !.drop = FALSE, !.stateful = FALSE]
              /\ accepts' = NoRules
    /\ UNCHANGED <<controller, queue, world, changes, crashes>>

\* installCatchAllDrop
BootDrop(f) ==
    /\ boot = "drop"
    /\ Fails(f)
    /\ boot' = IF f THEN "dead" ELSE "stateful"
    /\ chain' = [chain EXCEPT !.drop = ~f]
    /\ UNCHANGED <<accepts, controller, queue, world, changes, crashes>>

BootStateful(f) ==
    /\ boot = "stateful"
    /\ Fails(f)
    /\ boot' = IF f THEN "dead" ELSE "attach"
    /\ chain' = [chain EXCEPT !.stateful = ~f]
    /\ UNCHANGED <<accepts, controller, queue, world, changes, crashes>>

\* Mutant: a jump that could not be inserted is not noticed.
BootAttachUnchecked(checked, f) ==
    /\ boot = "attach"
    /\ Fails(f \/ ~checked)
    /\ chain' = [chain EXCEPT !.jumps = IF f \/ @ > 0 THEN @ ELSE @ + 1]
    /\ boot' = "running"
    /\ owed' = {Reconcile}
    /\ UNCHANGED <<accepts, controller, pending, kick, loop, batch, snap, unkicked,
                   world, changes, crashes>>

\* -C FORWARD, and -I FORWARD when it reports no jump (checked is FALSE when
\* the check itself fails); then Start pushes the first reconcile.
BootAttach(checked, f) ==
    LET found == chain.jumps > 0 /\ checked IN
    /\ boot = "attach"
    /\ Fails(~checked \/ (~found /\ f))
    /\ chain' = [chain EXCEPT !.jumps = IF found \/ f THEN @ ELSE @ + 1]
    /\ boot' = IF ~found /\ f THEN "dead" ELSE "running"
    /\ owed' = IF ~found /\ f THEN {} ELSE {Reconcile}
    /\ UNCHANGED <<accepts, controller, pending, kick, loop, batch, snap, unkicked,
                   world, changes, crashes>>

-----------------------------------------------------------------------------
(* Rules of one session.  F is the set of CIDRs whose command iptables      *)
(* refuses; the results are the session and the rules it leaves.            *)

computeAllowedCIDRs(cn) == ccd[cn] \cup common

Stuck(k, c, F) == c \in F \/ accepts[k][c] = 0

ToDel(k, want) == (session[k].AllowedCIDRs \cup session[k].pendingDeletes) \ want
ToAdd(k, want) == want \ session[k].AllowedCIDRs
StuckDeletes(k, want, F) == {c \in ToDel(k, want) : Stuck(k, c, F)}

\* Mutant: a rule that could not be deleted is struck from the account.
applyDiffForgets(k, want, F) ==
    [AllowedCIDRs |-> want \ (ToAdd(k, want) \cap F), pendingDeletes |-> {}]

\* Mutant: a rule that could not be inserted counts as installed.
applyDiffOptimistic(k, want, F) ==
    [AllowedCIDRs |-> want \cup StuckDeletes(k, want, F),
     pendingDeletes |-> StuckDeletes(k, want, F)]

\* When there is nothing to do the session keeps its pendingDeletes.
applyDiff(k, want, F) ==
    IF ToDel(k, want) = {} /\ ToAdd(k, want) = {}
      THEN session[k]
      ELSE [AllowedCIDRs |->
              (want \ (ToAdd(k, want) \cap F)) \cup StuckDeletes(k, want, F),
            pendingDeletes |-> StuckDeletes(k, want, F)]

\* Mutant: a delete that is queued from both sources is sent twice.
RulesAfterDiffTwice(k, want, F) ==
    [c \in CIDRs |->
        IF c \in ToAdd(k, want) \ F THEN accepts[k][c] + 1
        ELSE IF c \in ToDel(k, want) \ StuckDeletes(k, want, F)
          THEN accepts[k][c] - (IF c \in session[k].pendingDeletes THEN 2 ELSE 1)
        ELSE accepts[k][c]]

RulesAfterDiff(k, want, F) ==
    [c \in CIDRs |->
        IF c \in ToAdd(k, want) \ F THEN accepts[k][c] + 1
        ELSE IF c \in ToDel(k, want) \ StuckDeletes(k, want, F) THEN accepts[k][c] - 1
        ELSE accepts[k][c]]

\* uninstallRulesFor: the CIDRs whose -D failed.
Remaining(k, F) == {c \in session[k].AllowedCIDRs : Stuck(k, c, F)}

RulesAfterUninstall(k, F) ==
    [c \in CIDRs |->
        IF c \in session[k].AllowedCIDRs \ Remaining(k, F) THEN accepts[k][c] - 1
        ELSE accepts[k][c]]

-----------------------------------------------------------------------------
(* push and eventHandlerLoop *)

\* fc.mu is held from the snapshot of a reconcile to its end.
Unlocked == loop # "reconcile"

PushStore(ev) ==
    /\ ev \in owed
    /\ Unlocked
    /\ owed' = owed \ {ev}
    /\ pending' = pending \cup {ev}
    /\ unkicked' = unkicked \cup {ev}
    /\ UNCHANGED <<chain, accepts, controller, kick, loop, batch, snap, boot, world,
                   failures, changes, crashes>>

\* Mutant: the event is stored and nobody is woken.
PushKickMissing(ev) ==
    /\ ev \in unkicked
    /\ unkicked' = unkicked \ {ev}
    /\ UNCHANGED <<chain, accepts, controller, pending, kick, loop, batch, snap, owed,
                   boot, world, failures, changes, crashes>>

\* The send is dropped when the channel already holds a token.
PushKick(ev) ==
    /\ ev \in unkicked
    /\ unkicked' = unkicked \ {ev}
    /\ kick' = TRUE
    /\ UNCHANGED <<chain, accepts, controller, pending, loop, batch, snap, owed, boot,
                   world, failures, changes, crashes>>

ReceiveKick ==
    /\ boot = "running"
    /\ loop = "wait"
    /\ kick
    /\ kick' = FALSE
    /\ loop' = "woken"
    /\ UNCHANGED <<chain, accepts, controller, pending, batch, snap, owed, unkicked,
                   boot, world, failures, changes, crashes>>

TakeBatch ==
    /\ loop = "woken"
    /\ batch' = pending
    /\ pending' = {}
    /\ loop' = IF pending = {} THEN "wait" ELSE "handle"
    /\ UNCHANGED <<chain, accepts, controller, kick, snap, owed, unkicked, boot, world,
                   failures, changes, crashes>>

\* An event is done; the loop goes back to the channel after the last one.
Handled(ev) ==
    /\ batch' = batch \ {ev}
    /\ loop' = IF batch = {ev} THEN "wait" ELSE "handle"
    /\ UNCHANGED <<chain, pending, kick, owed, unkicked, boot, world, changes, crashes>>

\* EvUserChanged and EvCommonChanged: the diff is applied to the sessions K.
ApplyPolicy(K, F) ==
    /\ session' = [k \in Key |->
         IF k \in K THEN applyDiff(k, computeAllowedCIDRs(k.CN), F[k]) ELSE session[k]]
    /\ accepts' = [k \in Key |->
         IF k \in K THEN RulesAfterDiff(k, computeAllowedCIDRs(k.CN), F[k])
         ELSE accepts[k]]
    /\ Fails(\E k \in K : F[k] # {})
    /\ UNCHANGED <<tracked, snap>>

HandleUserChanged(cn, F) ==
    /\ loop = "handle"
    /\ UserChanged(cn) \in batch
    /\ ApplyPolicy({k \in tracked : k.CN = cn}, F)
    /\ Handled(UserChanged(cn))

HandleCommonChanged(F) ==
    /\ loop = "handle"
    /\ CommonChanged \in batch
    /\ ApplyPolicy(tracked, F)
    /\ Handled(CommonChanged)

\* reconcileLocked: the mgmt poll answers ...
ReconcileSnapshot ==
    /\ loop = "handle"
    /\ Reconcile \in batch
    /\ snap' = live
    /\ loop' = "reconcile"
    /\ UNCHANGED <<chain, accepts, controller, pending, kick, batch, owed, unkicked,
                   boot, world, failures, changes, crashes>>

\* ... or fails, and the reconcile is skipped.
ReconcileSkip ==
    /\ loop = "handle"
    /\ Reconcile \in batch
    /\ Fails(TRUE)
    /\ Handled(Reconcile)
    /\ UNCHANGED <<accepts, controller, snap>>

\* Mutant: sessions that are known and still connected are left as they are.
ReconcileApplyNewOnly(F) ==
    LET new == snap \ tracked
        want(k) == computeAllowedCIDRs(k.CN) IN
    /\ loop = "reconcile"
    /\ tracked' = snap
    /\ session' = [k \in Key |->
         IF k \in new THEN applyDiff(k, want(k), F[k])
         ELSE IF k \in snap THEN session[k] ELSE NewSession]
    /\ accepts' = [k \in Key |->
         IF k \in new THEN RulesAfterDiff(k, want(k), F[k])
         ELSE IF k \in snap THEN accepts[k] ELSE RulesAfterUninstall(k, {})]
    /\ Fails(\E k \in Key : F[k] # {})
    /\ snap' = {}
    /\ Handled(Reconcile)

\* Sessions that are gone are uninstalled, and kept while a rule is stuck; the
\* others, and those seen for the first time, are brought to their policy.
ReconcileApply(F) ==
    LET gone == tracked \ snap
        want(k) == computeAllowedCIDRs(k.CN) IN
    /\ loop = "reconcile"
    /\ tracked' = snap \cup {k \in gone : Remaining(k, F[k]) # {}}
    /\ session' = [k \in Key |->
         IF k \in snap THEN applyDiff(k, want(k), F[k])
         ELSE IF k \in gone /\ Remaining(k, F[k]) # {}
           THEN [session[k] EXCEPT !.AllowedCIDRs = Remaining(k, F[k])]
         ELSE NewSession]
    /\ accepts' = [k \in Key |->
         IF k \in snap THEN RulesAfterDiff(k, want(k), F[k])
         ELSE IF k \in gone THEN RulesAfterUninstall(k, F[k])
         ELSE accepts[k]]
    /\ Fails(\E k \in Key : F[k] # {})
    /\ snap' = {}
    /\ Handled(Reconcile)

\* The ticker of selfHealLoop.
SelfHeal ==
    /\ boot = "running"
    /\ Reconcile \notin owed \cup unkicked
    /\ owed' = owed \cup {Reconcile}
    /\ UNCHANGED <<chain, accepts, controller, pending, kick, loop, batch, snap,
                   unkicked, boot, world, failures, changes, crashes>>

-----------------------------------------------------------------------------
(* The world around the controller *)

Changes ==
    /\ changes < MaxChanges
    /\ changes' = changes + 1
    /\ UNCHANGED <<chain, accepts, controller, pending, kick, loop, batch, snap,
                   unkicked, boot, failures, crashes>>

\* A handler writes the policy and then calls push.
ChangeCcd(cn, routes) ==
    /\ boot = "running"
    /\ Changes
    /\ ccd' = [ccd EXCEPT ![cn] = routes]
    /\ owed' = owed \cup {UserChanged(cn)}
    /\ UNCHANGED <<common, live>>

ChangeCommon(routes) ==
    /\ boot = "running"
    /\ Changes
    /\ common' = routes
    /\ owed' = owed \cup {CommonChanged}
    /\ UNCHANGED <<ccd, live>>

\* OpenVPN gives a free address to a client, and takes it back.
Connect(k) ==
    /\ \A j \in live : j.VpnIP # k.VpnIP
    /\ Changes
    /\ live' = live \cup {k}
    /\ UNCHANGED <<ccd, common, owed>>

Disconnect(k) ==
    /\ k \in live
    /\ Changes
    /\ live' = live \ {k}
    /\ UNCHANGED <<ccd, common, owed>>

\* The supervisor starts the process again; the kernel keeps its tables.
Restart ==
    /\ tracked' = {} /\ session' = NoSessions
    /\ pending' = {} /\ kick' = FALSE /\ loop' = "wait" /\ batch' = {} /\ snap' = {}
    /\ owed' = {} /\ unkicked' = {}
    /\ boot' = "create"
    /\ UNCHANGED <<chain, accepts, world, failures, changes>>

RestartDead ==
    /\ boot = "dead"
    /\ Restart
    /\ UNCHANGED crashes

Crash ==
    /\ crashes < MaxCrashes
    /\ crashes' = crashes + 1
    /\ Restart

Refusals == [Key -> SUBSET CIDRs]

BootStep == \E f \in BOOLEAN :
    \/ BootCreate(f)
    \/ BootDetach(f)
    \/ BootFlush(f)
    \/ BootDrop(f)
    \/ BootStateful(f)
    \/ \E checked \in BOOLEAN : BootAttach(checked, f)

PushStep == \E ev \in Event : PushStore(ev) \/ PushKick(ev)

HandlerStep ==
    \/ ReceiveKick
    \/ TakeBatch
    \/ \E F \in Refusals :
         \/ \E cn \in CNs : HandleUserChanged(cn, F)
         \/ HandleCommonChanged(F)
         \/ ReconcileApply(F)
    \/ ReconcileSnapshot
    \/ ReconcileSkip

WorldStep ==
    \/ \E cn \in CNs, routes \in SUBSET CIDRs : ChangeCcd(cn, routes)
    \/ \E routes \in SUBSET CIDRs : ChangeCommon(routes)
    \/ \E k \in Key : Connect(k) \/ Disconnect(k)
    \/ Crash

Next ==
    \/ BootStep
    \/ PushStep
    \/ HandlerStep
    \/ SelfHeal
    \/ RestartDead
    \/ WorldStep

Spec == Init /\ [][Next]_vars

\* The goroutines are scheduled, the ticker fires, and the supervisor restarts
\* a process that exited.  Nothing is assumed of the world.
Fairness ==
    /\ WF_vars(BootStep)
    /\ \A ev \in Event : WF_vars(PushStore(ev)) /\ WF_vars(PushKick(ev))
    /\ WF_vars(HandlerStep)
    /\ WF_vars(SelfHeal)
    /\ WF_vars(RestartDead)

FairSpec == Spec /\ Fairness

-----------------------------------------------------------------------------
(* Properties *)

\* Every variable has its type.
TypeOK ==
    /\ chain \in Chain
    /\ accepts \in [Key -> [CIDRs -> Nat]]
    /\ tracked \in SUBSET Key
    /\ session \in [Key -> Session]
    /\ pending \in SUBSET Event
    /\ kick \in BOOLEAN
    /\ loop \in {"wait", "woken", "handle", "reconcile"}
    /\ batch \in SUBSET Event
    /\ snap \in SUBSET Key
    /\ boot \in Boot
    /\ ccd \in [CNs -> SUBSET CIDRs]
    /\ common \in SUBSET CIDRs
    /\ live \in SUBSET Key
    /\ owed \in SUBSET Event
    /\ unkicked \in SUBSET Event
    /\ failures \in Nat /\ changes \in Nat /\ crashes \in Nat

\* While the controller runs, its account covers the chain: an ACCEPT that is in
\* the chain belongs to a session the controller still tracks, is listed in that
\* session's AllowedCIDRs, and is there once.  So no rule is orphaned, whatever
\* commands fail (applyDiff, uninstallRulesFor, reconcileLocked).
NoOrphanAccept ==
    boot = "running" =>
        \A k \in Key, c \in CIDRs :
            accepts[k][c] > 0 =>
                accepts[k][c] = 1 /\ k \in tracked /\ c \in session[k].AllowedCIDRs

\* The account covers nothing else: a CIDR in AllowedCIDRs is in the chain, since
\* applyDiff "records exactly which ACCEPTs went live".
NoPhantomAccept ==
    boot = "running" =>
        \A k \in tracked : \A c \in session[k].AllowedCIDRs : accepts[k][c] > 0

\* An event that was stored does not sit in the map with nobody to take it: the
\* channel holds a token, or a pusher is about to send one, or the loop has
\* received one and is about to take the map.
NoLostWakeup ==
    pending # {} => kick \/ unkicked # {} \/ loop = "woken"

\* The handlers run only behind a complete chain: attached, with the stateful
\* rule that keeps the insert position of the ACCEPTs, and the catch-all DROP.
RunsBehindDrop ==
    boot = "running" => chain.jumps > 0 /\ chain.drop /\ chain.stateful

\* "If a LATER step fails the chain is still fail-CLOSED": when initChain gives
\* up with the catch-all DROP installed, the DROP is in force.  It is not (README,
\* "Where the code falls short").
FailedInitStillDrops ==
    boot = "dead" /\ chain.drop => chain.jumps > 0

\* Once the world stops changing and commands stop failing, the chain becomes and
\* stays what the policy asks for: one ACCEPT for every route of every connected
\* client, and no other.
Enforced ==
    /\ boot = "running"
    /\ \A k \in Key, c \in CIDRs :
         accepts[k][c] = IF k \in live /\ c \in computeAllowedCIDRs(k.CN) THEN 1 ELSE 0
Converges == <>[]Enforced

=============================================================================
