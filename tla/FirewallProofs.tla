---------------------------- MODULE FirewallProofs ----------------------------
(***************************************************************************)
(* Proofs about Firewall, for any users, addresses and routes, and any     *)
(* number of failed commands, crashes and restarts.                        *)
(*                                                                         *)
(* NoOrphanAccept is not inductive by itself: a restart forgets the        *)
(* account while the kernel keeps the rules, so the proof needs that the   *)
(* chain was flushed before the controller runs, that nothing is tracked   *)
(* until then, and that a key that is not tracked has an empty account.    *)
(***************************************************************************)
EXTENDS Firewall, TLAPS

\* Outside of normal operation the controller has no sessions and no events.
IdleUnlessRunning ==
    boot # "running" =>
        /\ tracked = {}
        /\ pending = {} /\ batch = {} /\ loop = "wait"
        /\ owed = {} /\ unkicked = {}

\* What initChain has established before each of its steps.
BootProgress ==
    /\ boot \in {"drop", "stateful", "attach"} => accepts = NoRules
    /\ boot \in {"stateful", "attach", "running"} => chain.drop
    /\ boot \in {"attach", "running"} => chain.stateful
    /\ boot = "running" => chain.jumps > 0

\* A key that is not tracked has an empty account.
Untracked == \A k \in Key : k \notin tracked => session[k] = NewSession

IInv ==
    /\ TypeOK
    /\ IdleUnlessRunning
    /\ BootProgress
    /\ Untracked
    /\ NoOrphanAccept
    /\ NoLostWakeup

-----------------------------------------------------------------------------
(* What the rule operations return *)

\* The account that applyDiff leaves is an account.
LEMMA DiffType ==
    ASSUME TypeOK, NEW k \in Key, NEW want \in SUBSET CIDRs, NEW F \in SUBSET CIDRs
    PROVE  /\ applyDiff(k, want, F) \in Session
           /\ RulesAfterDiff(k, want, F) \in [CIDRs -> Nat]
<1>1. session[k] \in Session /\ accepts[k] \in [CIDRs -> Nat]
  BY DEF TypeOK
<1>2. applyDiff(k, want, F) \in Session
  BY <1>1 DEF applyDiff, Session, ToAdd, ToDel, StuckDeletes
<1>3. ASSUME NEW c \in CIDRs
      PROVE  RulesAfterDiff(k, want, F)[c] \in Nat
  BY <1>1 DEF RulesAfterDiff, StuckDeletes, Stuck, ToDel, ToAdd
<1> QED
  BY <1>2, <1>3 DEF RulesAfterDiff

\* uninstallRulesFor leaves a part of the account, and no negative count.
LEMMA UninstallType ==
    ASSUME TypeOK, NEW k \in Key, NEW F \in SUBSET CIDRs
    PROVE  /\ Remaining(k, F) \in SUBSET CIDRs
           /\ RulesAfterUninstall(k, F) \in [CIDRs -> Nat]
<1>1. session[k] \in Session /\ accepts[k] \in [CIDRs -> Nat]
  BY DEF TypeOK
<1>2. Remaining(k, F) \in SUBSET CIDRs
  BY <1>1 DEF Remaining, Session
<1>3. ASSUME NEW c \in CIDRs
      PROVE  RulesAfterUninstall(k, F)[c] \in Nat
  BY <1>1 DEF RulesAfterUninstall, Remaining, Stuck
<1> QED
  BY <1>2, <1>3 DEF RulesAfterUninstall

\* The rules of a session are covered by its account: each is listed, once.
Covered(rules, s) ==
    \A c \in CIDRs : rules[c] > 0 => rules[c] = 1 /\ c \in s.AllowedCIDRs

\* applyDiff keeps the rules covered, whatever commands are refused.
LEMMA DiffCovers ==
    ASSUME TypeOK, NEW k \in Key, NEW want \in SUBSET CIDRs, NEW F \in SUBSET CIDRs,
           Covered(accepts[k], session[k])
    PROVE  Covered(RulesAfterDiff(k, want, F), applyDiff(k, want, F))
<1>1. session[k] \in Session /\ accepts[k] \in [CIDRs -> Nat]
  BY DEF TypeOK
<1> SUFFICES ASSUME NEW c \in CIDRs, RulesAfterDiff(k, want, F)[c] > 0
             PROVE  /\ RulesAfterDiff(k, want, F)[c] = 1
                    /\ c \in applyDiff(k, want, F).AllowedCIDRs
  BY DEF Covered
<1>2. accepts[k][c] \in Nat /\ (accepts[k][c] > 0 =>
          accepts[k][c] = 1 /\ c \in session[k].AllowedCIDRs)
  BY <1>1 DEF Covered
<1>3. CASE c \in ToAdd(k, want) \ F
  BY <1>1, <1>2, <1>3 DEF RulesAfterDiff, applyDiff, ToAdd
<1>4. CASE c \in ToDel(k, want) \ StuckDeletes(k, want, F)
  BY <1>1, <1>2, <1>4 DEF RulesAfterDiff, ToAdd, ToDel, StuckDeletes, Stuck
<1>5. CASE /\ c \notin ToAdd(k, want) \ F
           /\ c \notin ToDel(k, want) \ StuckDeletes(k, want, F)
  <2>1. RulesAfterDiff(k, want, F)[c] = accepts[k][c]
    BY <1>5 DEF RulesAfterDiff
  <2>2. accepts[k][c] = 1 /\ c \in session[k].AllowedCIDRs
    BY <2>1, <1>2
  <2>3. c \notin ToAdd(k, want)
    BY <2>2 DEF ToAdd
  <2>4. c \in want \/ c \in StuckDeletes(k, want, F)
    BY <1>5, <2>2 DEF ToDel
  <2> QED
    BY <2>1, <2>2, <2>3, <2>4 DEF applyDiff
<1> QED
  BY <1>3, <1>4, <1>5

\* uninstallRulesFor leaves only rules that it reports as remaining.
LEMMA UninstallCovers ==
    ASSUME TypeOK, NEW k \in Key, NEW F \in SUBSET CIDRs,
           Covered(accepts[k], session[k])
    PROVE  \A c \in CIDRs : RulesAfterUninstall(k, F)[c] > 0 =>
               RulesAfterUninstall(k, F)[c] = 1 /\ c \in Remaining(k, F)
<1>1. session[k] \in Session /\ accepts[k] \in [CIDRs -> Nat]
  BY DEF TypeOK
<1> SUFFICES ASSUME NEW c \in CIDRs, RulesAfterUninstall(k, F)[c] > 0
             PROVE  /\ RulesAfterUninstall(k, F)[c] = 1
                    /\ c \in Remaining(k, F)
  OBVIOUS
<1>2. accepts[k][c] \in Nat /\ (accepts[k][c] > 0 =>
          accepts[k][c] = 1 /\ c \in session[k].AllowedCIDRs)
  BY <1>1 DEF Covered
<1>3. CASE c \in session[k].AllowedCIDRs \ Remaining(k, F)
  BY <1>2, <1>3 DEF RulesAfterUninstall, Remaining, Stuck
<1>4. CASE c \notin session[k].AllowedCIDRs \ Remaining(k, F)
  BY <1>2, <1>4 DEF RulesAfterUninstall
<1> QED
  BY <1>3, <1>4

-----------------------------------------------------------------------------
(* Typing *)

\* The empty rules, the empty accounts and the events have their types.
LEMMA ConstTypes ==
    /\ NoRules \in [Key -> [CIDRs -> Nat]]
    /\ NewSession \in Session
    /\ NoSessions \in [Key -> Session]
    /\ CommonChanged \in Event /\ Reconcile \in Event
    /\ \A cn \in CNs : UserChanged(cn) \in Event
BY DEF NoRules, NewSession, Session, NoSessions, Event

\* What a user may reach is a set of CIDRs.
LEMMA AllowedType ==
    ASSUME TypeOK, NEW k \in Key
    PROVE  computeAllowedCIDRs(k.CN) \in SUBSET CIDRs
BY DEF TypeOK, computeAllowedCIDRs, Key

\* Counting a failure keeps the count a number.
LEMMA FailsType ==
    ASSUME TypeOK, NEW f \in BOOLEAN, Fails(f)
    PROVE  failures' \in Nat
BY DEF TypeOK, Fails

\* Handling a policy event preserves the types.
LEMMA ApplyPolicyType ==
    ASSUME TypeOK, NEW K \in SUBSET Key, NEW F \in Refusals, ApplyPolicy(K, F)
    PROVE  /\ session' \in [Key -> Session]
           /\ accepts' \in [Key -> [CIDRs -> Nat]]
           /\ failures' \in Nat
           /\ tracked' \in SUBSET Key
           /\ snap' \in SUBSET Key
<1>1. \A k \in Key : F[k] \in SUBSET CIDRs
  BY DEF Refusals
<1>2. \A k \in Key : /\ applyDiff(k, computeAllowedCIDRs(k.CN), F[k]) \in Session
                     /\ RulesAfterDiff(k, computeAllowedCIDRs(k.CN), F[k])
                          \in [CIDRs -> Nat]
  BY <1>1, AllowedType, DiffType
<1>3. session' \in [Key -> Session]
  BY <1>2 DEF ApplyPolicy, TypeOK
<1>4. accepts' \in [Key -> [CIDRs -> Nat]]
  BY <1>2 DEF ApplyPolicy, TypeOK
<1>5. failures' \in Nat
  <2> DEFINE bad == \E k \in K : F[k] # {}
  <2>1. bad \in BOOLEAN /\ Fails(bad)
    BY DEF ApplyPolicy
  <2> HIDE DEF bad
  <2> QED BY <2>1, FailsType
<1> QED
  BY <1>3, <1>4, <1>5 DEF ApplyPolicy, TypeOK

\* Init establishes the types.
LEMMA InitTypeOK == Init => TypeOK
<1> SUFFICES ASSUME Init PROVE TypeOK
  OBVIOUS
<1>1. chain \in Chain
  BY DEF Init, Chain
<1>2. live \in SUBSET Key /\ ccd \in [CNs -> SUBSET CIDRs] /\ common \in SUBSET CIDRs
  BY DEF Init
<1>3. kick \in BOOLEAN
  BY Zenon DEF Init
<1> QED
  BY <1>1, <1>2, <1>3, ConstTypes DEF Init, TypeOK, Boot

\* Every step preserves the types.
LEMMA NextTypeOK == TypeOK /\ [Next]_vars => TypeOK'
<1> SUFFICES ASSUME TypeOK, [Next]_vars PROVE TypeOK'
  OBVIOUS
<1> USE ConstTypes
<1>1. CASE UNCHANGED vars
  BY <1>1 DEF TypeOK, vars, controller, queue, world
<1>2. CASE BootStep
  <2> PICK f \in BOOLEAN :
        \/ BootCreate(f) \/ BootDetach(f) \/ BootFlush(f) \/ BootDrop(f)
        \/ BootStateful(f) \/ \E checked \in BOOLEAN : BootAttach(checked, f)
    BY <1>2 DEF BootStep
  <2>0. failures' \in Nat
    BY DEF BootCreate, BootDetach, BootFlush, BootDrop, BootStateful, BootAttach,
           Fails, TypeOK
  <2> USE <2>0 DEF TypeOK, Boot, controller, queue, world
  <2>1. CASE BootCreate(f)
    <3>1. chain' \in Chain
      BY <2>1 DEF BootCreate, Chain
    <3> QED BY <2>1, <3>1 DEF BootCreate
  <2>2. CASE BootDetach(f)
    <3>1. chain' \in Chain
      <4>1. chain.jumps \in Nat
        BY DEF Chain
      <4>2. (IF f \/ chain.jumps = 0 THEN chain.jumps ELSE chain.jumps - 1) \in Nat
        BY <4>1
      <4> QED BY <2>2, <4>2 DEF BootDetach, Chain
    <3> QED BY <2>2, <3>1 DEF BootDetach
  <2>3. CASE BootFlush(f)
    <3>1. chain' \in Chain
      BY <2>3 DEF BootFlush, Chain
    <3> QED BY <2>3, <3>1 DEF BootFlush
  <2>4. CASE BootDrop(f)
    <3>1. chain' \in Chain
      BY <2>4 DEF BootDrop, Chain
    <3> QED BY <2>4, <3>1 DEF BootDrop
  <2>5. CASE BootStateful(f)
    <3>1. chain' \in Chain
      BY <2>5 DEF BootStateful, Chain
    <3> QED BY <2>5, <3>1 DEF BootStateful
  <2>6. CASE \E checked \in BOOLEAN : BootAttach(checked, f)
    <3>1. chain' \in Chain
      BY <2>6 DEF BootAttach, Chain
    <3> QED BY <2>6, <3>1 DEF BootAttach
  <2> QED BY <2>1, <2>2, <2>3, <2>4, <2>5, <2>6
<1>3. CASE PushStep
  BY <1>3 DEF PushStep, PushStore, PushKick, TypeOK, controller, world
<1>4. CASE HandlerStep
  <2>1. CASE ReceiveKick
    BY <2>1 DEF ReceiveKick, TypeOK, controller, world
  <2>2. CASE TakeBatch
    BY <2>2 DEF TakeBatch, TypeOK, controller, world
  <2>3. ASSUME NEW F \in Refusals, NEW cn \in CNs, HandleUserChanged(cn, F)
        PROVE  TypeOK'
    <3>1. {k \in tracked : k.CN = cn} \in SUBSET Key
      BY DEF TypeOK
    <3> QED
      BY <2>3, <3>1, ApplyPolicyType
      DEF HandleUserChanged, Handled, TypeOK, world
  <2>4. ASSUME NEW F \in Refusals, HandleCommonChanged(F)
        PROVE  TypeOK'
    BY <2>4, ApplyPolicyType DEF HandleCommonChanged, Handled, TypeOK, world
  <2>5. ASSUME NEW F \in Refusals, ReconcileApply(F)
        PROVE  TypeOK'
    <3>1. \A k \in Key : F[k] \in SUBSET CIDRs
      BY DEF Refusals
    <3>2. \A k \in Key :
            /\ applyDiff(k, computeAllowedCIDRs(k.CN), F[k]) \in Session
            /\ RulesAfterDiff(k, computeAllowedCIDRs(k.CN), F[k]) \in [CIDRs -> Nat]
            /\ Remaining(k, F[k]) \in SUBSET CIDRs
            /\ RulesAfterUninstall(k, F[k]) \in [CIDRs -> Nat]
      BY <3>1, AllowedType, DiffType, UninstallType
    <3>3. \A k \in Key :
            [session[k] EXCEPT !.AllowedCIDRs = Remaining(k, F[k])] \in Session
      BY <3>2 DEF TypeOK, Session
    <3>4. session' \in [Key -> Session]
      BY <2>5, <3>2, <3>3 DEF ReconcileApply
    <3>5. accepts' \in [Key -> [CIDRs -> Nat]]
      BY <2>5, <3>2 DEF ReconcileApply, TypeOK
    <3>6. failures' \in Nat
      <4> DEFINE bad == \E k \in Key : F[k] # {}
      <4>1. bad \in BOOLEAN /\ Fails(bad)
        BY <2>5 DEF ReconcileApply
      <4> HIDE DEF bad
      <4> QED BY <4>1, FailsType
    <3>7. tracked' \in SUBSET Key
      BY <2>5 DEF ReconcileApply, TypeOK
    <3> QED
      BY <2>5, <3>4, <3>5, <3>6, <3>7 DEF ReconcileApply, Handled, TypeOK, world
  <2>6. CASE ReconcileSnapshot
    BY <2>6 DEF ReconcileSnapshot, TypeOK, controller, world
  <2>7. CASE ReconcileSkip
    BY <2>7 DEF ReconcileSkip, Handled, Fails, TypeOK, controller, world
  <2> QED
    BY <1>4, <2>1, <2>2, <2>3, <2>4, <2>5, <2>6, <2>7 DEF HandlerStep
<1>5. CASE SelfHeal
  BY <1>5 DEF SelfHeal, TypeOK, controller, world
<1>6. CASE RestartDead
  BY <1>6 DEF RestartDead, Restart, TypeOK, Boot, world
<1>7. CASE WorldStep
  <2> USE DEF TypeOK, Changes, controller
  <2>1. ASSUME NEW cn \in CNs, NEW routes \in SUBSET CIDRs, ChangeCcd(cn, routes)
        PROVE  TypeOK'
    BY <2>1 DEF ChangeCcd
  <2>2. ASSUME NEW routes \in SUBSET CIDRs, ChangeCommon(routes)
        PROVE  TypeOK'
    BY <2>2 DEF ChangeCommon
  <2>3. ASSUME NEW k \in Key, Connect(k) \/ Disconnect(k)
        PROVE  TypeOK'
    <3>1. live' \in SUBSET Key
      BY <2>3 DEF Connect, Disconnect
    <3> QED BY <2>3, <3>1 DEF Connect, Disconnect
  <2>4. CASE Crash
    <3>1. crashes' \in Nat
      BY <2>4 DEF Crash
    <3> QED BY <2>4, <3>1 DEF Crash, Restart, Boot, world
  <2> QED
    BY <1>7, <2>1, <2>2, <2>3, <2>4 DEF WorldStep
<1> QED
  BY <1>1, <1>2, <1>3, <1>4, <1>5, <1>6, <1>7 DEF Next

\* The controller's state is well typed in every reachable state.
THEOREM TypeCorrect == Spec => []TypeOK
BY InitTypeOK, NextTypeOK, PTL DEF Spec

-----------------------------------------------------------------------------
(* The inductive invariant *)

\* It holds before initChain has run for the first time.
LEMMA InitIInv == Init => IInv
<1> SUFFICES ASSUME Init PROVE IInv
  OBVIOUS
<1>1. TypeOK
  BY InitTypeOK
<1>2. Untracked
  BY DEF Init, Untracked, NoSessions
<1> QED
  BY <1>1, <1>2
  DEF Init, IInv, IdleUnlessRunning, BootProgress, NoOrphanAccept, NoLostWakeup

\* A step that leaves the kernel, the account and the stage of the start-up
\* alone preserves what IInv says of them.
LEMMA QuietStep ==
    ASSUME IInv, UNCHANGED <<chain, accepts, tracked, session, boot>>
    PROVE  BootProgress' /\ Untracked' /\ NoOrphanAccept'
BY DEF IInv, BootProgress, Untracked, NoOrphanAccept, NoRules

\* Handling a policy event keeps the account covering the chain.
LEMMA ApplyPolicyCovers ==
    ASSUME IInv, NEW K \in SUBSET tracked, NEW F \in Refusals, ApplyPolicy(K, F),
           boot = "running", UNCHANGED <<chain, boot>>
    PROVE  BootProgress' /\ Untracked' /\ NoOrphanAccept'
<1> USE DEF IInv
<1>1. \A k \in Key : F[k] \in SUBSET CIDRs
  BY DEF Refusals
<1>2. \A k \in K : k \in Key /\ Covered(accepts[k], session[k])
  BY DEF NoOrphanAccept, Covered, TypeOK
<1>3. \A k \in K : Covered(RulesAfterDiff(k, computeAllowedCIDRs(k.CN), F[k]),
                           applyDiff(k, computeAllowedCIDRs(k.CN), F[k]))
  BY <1>1, <1>2, AllowedType, DiffCovers
<1>4. Untracked'
  BY DEF ApplyPolicy, Untracked
<1>5. NoOrphanAccept'
  <2> SUFFICES ASSUME NEW k \in Key, NEW c \in CIDRs, accepts'[k][c] > 0
               PROVE  accepts'[k][c] = 1 /\ k \in tracked' /\ c \in session'[k].AllowedCIDRs
    BY DEF NoOrphanAccept
  <2>1. CASE k \in K
    BY <1>3, <2>1 DEF ApplyPolicy, Covered
  <2>2. CASE k \notin K
    BY <2>2 DEF ApplyPolicy, NoOrphanAccept
  <2> QED BY <2>1, <2>2
<1>6. BootProgress'
  BY DEF BootProgress
<1> QED
  BY <1>4, <1>5, <1>6

\* A reconcile keeps the account covering the chain.
LEMMA ReconcileCovers ==
    ASSUME IInv, NEW F \in Refusals, ReconcileApply(F), boot = "running"
    PROVE  BootProgress' /\ Untracked' /\ NoOrphanAccept'
<1> USE DEF IInv
<1> DEFINE want(k) == computeAllowedCIDRs(k.CN)
<1>1. \A k \in Key : F[k] \in SUBSET CIDRs /\ want(k) \in SUBSET CIDRs
  BY AllowedType DEF Refusals
<1>2. \A k \in Key : Covered(accepts[k], session[k])
  BY DEF NoOrphanAccept, Covered
<1>3. \A k \in Key : Covered(RulesAfterDiff(k, want(k), F[k]), applyDiff(k, want(k), F[k]))
  BY <1>1, <1>2, DiffCovers
<1>4. \A k \in Key : \A c \in CIDRs : RulesAfterUninstall(k, F[k])[c] > 0 =>
          RulesAfterUninstall(k, F[k])[c] = 1 /\ c \in Remaining(k, F[k])
  BY <1>1, <1>2, UninstallCovers
<1>5. Untracked'
  BY DEF ReconcileApply, Untracked
<1>6. NoOrphanAccept'
  <2> SUFFICES ASSUME NEW k \in Key, NEW c \in CIDRs, accepts'[k][c] > 0
               PROVE  accepts'[k][c] = 1 /\ k \in tracked' /\ c \in session'[k].AllowedCIDRs
    BY DEF NoOrphanAccept
  <2>1. CASE k \in snap
    <3>1. /\ accepts'[k] = RulesAfterDiff(k, want(k), F[k])
          /\ session'[k] = applyDiff(k, want(k), F[k])
          /\ k \in tracked'
      BY <2>1 DEF ReconcileApply
    <3> HIDE DEF want
    <3> QED BY <1>3, <3>1 DEF Covered
  <2>2. CASE k \notin snap /\ k \in tracked
    <3>1. accepts'[k] = RulesAfterUninstall(k, F[k])
      BY <2>2 DEF ReconcileApply
    <3>2. accepts'[k][c] = 1 /\ c \in Remaining(k, F[k])
      BY <1>4, <3>1
    <3>3. k \in tracked'
      BY <2>2, <3>2 DEF ReconcileApply
    <3>4. session'[k] = [session[k] EXCEPT !.AllowedCIDRs = Remaining(k, F[k])]
      BY <2>2, <3>2 DEF ReconcileApply
    <3>5. session[k] \in Session
      BY DEF TypeOK
    <3> QED BY <3>2, <3>3, <3>4, <3>5 DEF Session
  <2>3. CASE k \notin snap /\ k \notin tracked
    BY <2>3 DEF ReconcileApply, NoOrphanAccept
  <2> QED BY <2>1, <2>2, <2>3
<1>7. BootProgress'
  BY DEF BootProgress, ReconcileApply, Handled
<1> QED
  BY <1>5, <1>6, <1>7

\* Every command of initChain, every event, and every restart preserve it.
LEMMA NextIInv == IInv /\ [Next]_vars => IInv'
<1> SUFFICES ASSUME IInv, [Next]_vars PROVE IInv'
  OBVIOUS
<1>0. TypeOK'
  BY NextTypeOK DEF IInv
<1> DEFINE Rest == IdleUnlessRunning' /\ NoLostWakeup'
           Kernel == BootProgress' /\ Untracked' /\ NoOrphanAccept'
<1> SUFFICES Rest /\ Kernel
  BY <1>0 DEF IInv
<1>1. CASE UNCHANGED vars
  <2>1. Kernel
    BY <1>1, QuietStep DEF vars, controller
  <2>2. Rest
    BY <1>1 DEF vars, controller, queue, IInv, IdleUnlessRunning, NoLostWakeup
  <2> QED BY <2>1, <2>2
<1>2. CASE BootStep
  <2> PICK f \in BOOLEAN :
        \/ BootCreate(f) \/ BootDetach(f) \/ BootFlush(f) \/ BootDrop(f)
        \/ BootStateful(f) \/ \E checked \in BOOLEAN : BootAttach(checked, f)
    BY <1>2 DEF BootStep
  <2>0. chain \in Chain /\ boot # "running"
    BY DEF IInv, TypeOK, BootCreate, BootDetach, BootFlush, BootDrop, BootStateful,
           BootAttach
  <2>1. UNCHANGED <<tracked, session, pending, kick, loop, batch, unkicked>>
    BY DEF BootCreate, BootDetach, BootFlush, BootDrop, BootStateful, BootAttach,
           controller, queue
  <2>2. Untracked'
    BY <2>1 DEF IInv, Untracked
  <2>3. NoLostWakeup' /\ (owed' = {} => IdleUnlessRunning')
    BY <2>0, <2>1 DEF IInv, IdleUnlessRunning, NoLostWakeup
  <2>4. CASE BootCreate(f) \/ BootDetach(f)
    BY <2>0, <2>2, <2>3, <2>4
    DEF BootCreate, BootDetach, queue, IInv, IdleUnlessRunning, BootProgress, NoOrphanAccept
  <2>5. CASE BootFlush(f)
    BY <2>0, <2>2, <2>3, <2>5
    DEF BootFlush, queue, IInv, IdleUnlessRunning, BootProgress, NoOrphanAccept, NoRules
  <2>6. CASE BootDrop(f)
    <3>1. ~f => chain'.drop
      BY <2>0, <2>6 DEF BootDrop, Chain
    <3>2. boot' = (IF f THEN "dead" ELSE "stateful") /\ accepts' = accepts
          /\ owed' = owed /\ boot = "drop"
      BY <2>6 DEF BootDrop, queue
    <3> QED
      BY <2>0, <2>2, <2>3, <3>1, <3>2
      DEF IInv, IdleUnlessRunning, BootProgress, NoOrphanAccept, NoRules
  <2>7. CASE BootStateful(f)
    <3>1. chain'.drop /\ (~f => chain'.stateful)
      BY <2>0, <2>7 DEF BootStateful, Chain, IInv, BootProgress
    <3>2. boot' = (IF f THEN "dead" ELSE "attach") /\ accepts' = accepts
          /\ owed' = owed /\ boot = "stateful"
      BY <2>7 DEF BootStateful, queue
    <3> QED
      BY <2>0, <2>2, <2>3, <3>1, <3>2
      DEF IInv, IdleUnlessRunning, BootProgress, NoOrphanAccept, NoRules
  <2>8. CASE \E checked \in BOOLEAN : BootAttach(checked, f)
    <3> PICK checked \in BOOLEAN : BootAttach(checked, f)
      BY <2>8
    <3>1. chain.jumps \in Nat /\ chain.drop /\ chain.stateful /\ accepts = NoRules
      BY <2>0 DEF BootAttach, IInv, BootProgress, Chain
    <3>2. chain'.drop /\ chain'.stateful
      BY <2>0, <3>1 DEF BootAttach, Chain
    <3>3. boot' = "running" => chain'.jumps > 0
      BY <2>0, <3>1 DEF BootAttach, Chain
    <3>4. boot' \in {"dead", "running"} /\ accepts' = accepts
      BY DEF BootAttach
    <3>5. BootProgress'
      BY <3>2, <3>3, <3>4 DEF BootProgress
    <3>6. NoOrphanAccept'
      BY <3>1, <3>4 DEF NoOrphanAccept, NoRules
    <3>7. boot' # "running" => owed' = {}
      BY DEF BootAttach
    <3>8. IdleUnlessRunning'
      BY <2>3, <3>7 DEF IdleUnlessRunning
    <3> QED BY <2>2, <2>3, <3>5, <3>6, <3>8
  <2> QED BY <2>4, <2>5, <2>6, <2>7, <2>8
<1>3. CASE PushStep
  <2>1. Kernel
    BY <1>3, QuietStep DEF PushStep, PushStore, PushKick, controller
  <2>2. Rest
    BY <1>3 DEF PushStep, PushStore, PushKick, controller, IInv, IdleUnlessRunning,
                NoLostWakeup
  <2> QED BY <2>1, <2>2
<1>4. CASE HandlerStep
  <2>1. CASE ReceiveKick \/ TakeBatch \/ ReconcileSnapshot \/ ReconcileSkip
    <3>1. Kernel
      BY <2>1, QuietStep
      DEF ReceiveKick, TakeBatch, ReconcileSnapshot, ReconcileSkip, Handled, controller
    <3>2. Rest
      BY <2>1
      DEF ReceiveKick, TakeBatch, ReconcileSnapshot, ReconcileSkip, Handled, controller,
          IInv, IdleUnlessRunning, NoLostWakeup
    <3> QED BY <3>1, <3>2
  <2>2. ASSUME NEW F \in Refusals, NEW cn \in CNs, HandleUserChanged(cn, F)
        PROVE  Rest /\ Kernel
    <3>1. boot = "running" /\ UNCHANGED <<chain, boot>>
      BY <2>2 DEF HandleUserChanged, Handled, IInv, IdleUnlessRunning
    <3>2. Kernel
      BY <2>2, <3>1, ApplyPolicyCovers DEF HandleUserChanged
    <3>3. Rest
      BY <2>2, <3>1 DEF HandleUserChanged, Handled, ApplyPolicy, IInv,
                        IdleUnlessRunning, NoLostWakeup
    <3> QED BY <3>2, <3>3
  <2>3. ASSUME NEW F \in Refusals, HandleCommonChanged(F)
        PROVE  Rest /\ Kernel
    <3>1. boot = "running" /\ UNCHANGED <<chain, boot>>
      BY <2>3 DEF HandleCommonChanged, Handled, IInv, IdleUnlessRunning
    <3>2. Kernel
      BY <2>3, <3>1, ApplyPolicyCovers DEF HandleCommonChanged
    <3>3. Rest
      BY <2>3, <3>1 DEF HandleCommonChanged, Handled, ApplyPolicy, IInv,
                        IdleUnlessRunning, NoLostWakeup
    <3> QED BY <3>2, <3>3
  <2>4. ASSUME NEW F \in Refusals, ReconcileApply(F)
        PROVE  Rest /\ Kernel
    <3>1. boot = "running"
      BY <2>4 DEF ReconcileApply, IInv, IdleUnlessRunning
    <3>2. Kernel
      BY <2>4, <3>1, ReconcileCovers
    <3>3. Rest
      BY <2>4, <3>1 DEF ReconcileApply, Handled, IInv, IdleUnlessRunning, NoLostWakeup
    <3> QED BY <3>2, <3>3
  <2> QED
    BY <1>4, <2>1, <2>2, <2>3, <2>4 DEF HandlerStep
<1>5. CASE SelfHeal
  <2>1. Kernel
    BY <1>5, QuietStep DEF SelfHeal, controller
  <2>2. Rest
    BY <1>5 DEF SelfHeal, IInv, IdleUnlessRunning, NoLostWakeup
  <2> QED BY <2>1, <2>2
<1>6. CASE Restart
  <2>1. Untracked'
    BY <1>6 DEF Restart, Untracked, NoSessions
  <2> QED
    BY <1>6, <2>1 DEF Restart, BootProgress, NoOrphanAccept, IdleUnlessRunning,
                      NoLostWakeup
<1>7. CASE WorldStep /\ ~Crash
  <2>1. UNCHANGED <<chain, accepts, controller, pending, kick, loop, batch, unkicked, boot>>
    BY <1>7 DEF WorldStep, ChangeCcd, ChangeCommon, Connect, Disconnect, Changes
  <2>2. Kernel
    BY <2>1, QuietStep DEF controller
  <2>3. boot # "running" => owed' = owed
    BY <1>7 DEF WorldStep, ChangeCcd, ChangeCommon, Connect, Disconnect, Changes
  <2>4. Rest
    BY <2>1, <2>3 DEF controller, IInv, IdleUnlessRunning, NoLostWakeup
  <2> QED BY <2>2, <2>4
<1> QED
  BY <1>1, <1>2, <1>3, <1>4, <1>5, <1>6, <1>7 DEF Next, RestartDead, WorldStep, Crash

\* It holds in every reachable state.
LEMMA Inductive == Spec => []IInv
BY InitIInv, NextIInv, PTL DEF Spec

-----------------------------------------------------------------------------
(* Theorems *)

\* While the controller runs, every ACCEPT in the chain is accounted for, once,
\* by a session it tracks (applyDiff, uninstallRulesFor, reconcileLocked).
THEOREM AcceptsAccountedFor == Spec => []NoOrphanAccept
<1>1. IInv => NoOrphanAccept
  BY DEF IInv
<1> QED
  BY Inductive, <1>1, PTL

\* No stored event is left without a wake-up (push, eventHandlerLoop).
THEOREM WakeupsNotLost == Spec => []NoLostWakeup
<1>1. IInv => NoLostWakeup
  BY DEF IInv
<1> QED
  BY Inductive, <1>1, PTL

\* Events are handled only behind a complete, attached chain (initChain, Start).
THEOREM DropInForce == Spec => []RunsBehindDrop
<1>1. IInv => RunsBehindDrop
  BY DEF IInv, BootProgress, RunsBehindDrop
<1> QED
  BY Inductive, <1>1, PTL

-----------------------------------------------------------------------------
(* The account lists nothing that is not in the chain *)

\* What the session s lists is in the rules, the deletes it is to retry too; a delete
\* is left over only after a failure.
Exact(rules, s, clean) ==
    /\ s.pendingDeletes \subseteq s.AllowedCIDRs
    /\ \A c \in s.AllowedCIDRs : rules[c] > 0
    /\ clean => s.pendingDeletes = {}

\* A second failed event ends it: a session that is uninstalled in part keeps the
\* deletes it was to retry, done or not, and retrying one that is done fails for ever.
AccountExact ==
    failures <= 1 => \A k \in Key : Exact(accepts[k], session[k], failures = 0)

\* applyDiff keeps the account exact.
LEMMA DiffExact ==
    ASSUME TypeOK, NEW k \in Key, NEW want \in SUBSET CIDRs, NEW F \in SUBSET CIDRs,
           NEW clean \in BOOLEAN, NEW next \in BOOLEAN, Exact(accepts[k], session[k], clean),
           next => clean /\ F = {}
    PROVE  Exact(RulesAfterDiff(k, want, F), applyDiff(k, want, F), next)
<1>1. /\ session[k].AllowedCIDRs \in SUBSET CIDRs /\ session[k].pendingDeletes \in SUBSET CIDRs
      /\ \A c \in CIDRs : accepts[k][c] \in Nat
  BY DEF TypeOK, Session
<1>2. \A c \in StuckDeletes(k, want, F) :
        c \in session[k].AllowedCIDRs /\ c \notin want /\ c \in F /\ accepts[k][c] > 0
  BY <1>1 DEF StuckDeletes, ToDel, Stuck, Exact
<1>3. CASE ToDel(k, want) = {} /\ ToAdd(k, want) = {}
  <2>1. applyDiff(k, want, F) = session[k]
    BY <1>3 DEF applyDiff
  <2>2. \A c \in CIDRs : RulesAfterDiff(k, want, F)[c] = accepts[k][c]
    BY <1>3 DEF RulesAfterDiff
  <2> QED
    BY <1>1, <2>1, <2>2 DEF Exact
<1>4. CASE ~(ToDel(k, want) = {} /\ ToAdd(k, want) = {})
  <2>1. /\ applyDiff(k, want, F).AllowedCIDRs =
             (want \ (ToAdd(k, want) \cap F)) \cup StuckDeletes(k, want, F)
        /\ applyDiff(k, want, F).pendingDeletes = StuckDeletes(k, want, F)
    BY <1>4 DEF applyDiff
  <2>2. ASSUME NEW c \in want \ (ToAdd(k, want) \cap F) PROVE RulesAfterDiff(k, want, F)[c] > 0
    <3>1. CASE c \in ToAdd(k, want)
      BY <1>1, <3>1 DEF RulesAfterDiff
    <3>2. CASE c \notin ToAdd(k, want)
      <4>1. c \in session[k].AllowedCIDRs /\ c \notin ToDel(k, want) /\ c \in CIDRs
        BY <3>2 DEF ToAdd, ToDel
      <4> QED
        BY <3>2, <4>1 DEF RulesAfterDiff, Exact
    <3> QED
      BY <3>1, <3>2
  <2>3. ASSUME NEW c \in StuckDeletes(k, want, F) PROVE RulesAfterDiff(k, want, F)[c] > 0
    BY <1>1, <1>2, <2>3 DEF RulesAfterDiff, ToAdd
  <2> QED
    BY <1>2, <2>1, <2>2, <2>3 DEF Exact
<1> QED
  BY <1>3, <1>4

\* A step that leaves rules and account alone, or sets the account up afresh.
LEMMA QuietExact ==
    ASSUME IInv, AccountExact, failures' \in {failures, failures + 1},
           \/ UNCHANGED <<accepts, session>>
           \/ \A k \in Key : session'[k] = NewSession
    PROVE  AccountExact'
<1>1. failures \in Nat
  BY DEF IInv, TypeOK
<1>2. CASE UNCHANGED <<accepts, session>>
  BY <1>1, <1>2 DEF AccountExact, Exact
<1>3. CASE \A k \in Key : session'[k] = NewSession
  BY <1>3 DEF AccountExact, Exact, NewSession
<1> QED
  BY <1>2, <1>3

LEMMA ApplyPolicyExact ==
    ASSUME IInv, AccountExact, NEW K \in SUBSET tracked, NEW F \in Refusals, ApplyPolicy(K, F)
    PROVE  AccountExact'
<1> DEFINE bad == \E k \in K : F[k] # {}
<1>1. failures \in Nat /\ TypeOK
  BY DEF IInv, TypeOK
<1>2. bad \in BOOLEAN /\ failures' = IF bad THEN failures + 1 ELSE failures
  BY DEF ApplyPolicy, Fails
<1>3. ASSUME NEW k \in Key, failures' <= 1
      PROVE  Exact(accepts'[k], session'[k], failures' = 0)
  <2>1. Exact(accepts[k], session[k], failures = 0)
    BY <1>1, <1>2, <1>3 DEF AccountExact
  <2>2. CASE k \in K
    <3>1. failures' = 0 => failures = 0 /\ F[k] = {}
      BY <1>1, <1>2, <2>2
    <3>2. F[k] \in SUBSET CIDRs /\ computeAllowedCIDRs(k.CN) \in SUBSET CIDRs
      BY <1>1, AllowedType DEF Refusals
    <3>3. /\ session'[k] = applyDiff(k, computeAllowedCIDRs(k.CN), F[k])
          /\ accepts'[k] = RulesAfterDiff(k, computeAllowedCIDRs(k.CN), F[k])
      BY <2>2 DEF ApplyPolicy
    <3> QED
      BY <1>1, <2>1, <3>1, <3>2, <3>3, DiffExact
  <2>3. CASE k \notin K
    <3>1. session'[k] = session[k] /\ accepts'[k] = accepts[k]
      BY <2>3 DEF ApplyPolicy
    <3>2. failures' = 0 => failures = 0
      BY <1>1, <1>2
    <3> QED
      BY <2>1, <3>1, <3>2 DEF Exact
  <2> QED
    BY <2>2, <2>3
<1> QED
  BY <1>3 DEF AccountExact

\* Only a failure leaves a rule of a session that is gone; before the first one,
\* nothing was to be retried.
LEMMA ReconcileExact ==
    ASSUME IInv, AccountExact, NEW F \in Refusals, ReconcileApply(F)
    PROVE  AccountExact'
<1> DEFINE bad == \E k \in Key : F[k] # {}
<1>1. failures \in Nat /\ TypeOK /\ tracked \in SUBSET Key /\ snap \in SUBSET Key
  BY DEF IInv, TypeOK
<1>2. bad \in BOOLEAN /\ failures' = IF bad THEN failures + 1 ELSE failures
  BY DEF ReconcileApply, Fails
<1>3. ASSUME NEW k \in Key, failures' <= 1
      PROVE  Exact(accepts'[k], session'[k], failures' = 0)
  <2>1. Exact(accepts[k], session[k], failures = 0)
    BY <1>1, <1>2, <1>3 DEF AccountExact
  <2>2. failures' = 0 => failures = 0 /\ F[k] = {}
    BY <1>1, <1>2
  <2>3. CASE k \in snap
    <3>1. F[k] \in SUBSET CIDRs /\ computeAllowedCIDRs(k.CN) \in SUBSET CIDRs
      BY <1>1, AllowedType DEF Refusals
    <3>2. /\ session'[k] = applyDiff(k, computeAllowedCIDRs(k.CN), F[k])
          /\ accepts'[k] = RulesAfterDiff(k, computeAllowedCIDRs(k.CN), F[k])
      BY <2>3 DEF ReconcileApply
    <3> QED
      BY <1>1, <2>1, <2>2, <3>1, <3>2, DiffExact
  <2>4. CASE k \notin snap /\ k \in tracked /\ Remaining(k, F[k]) # {}
    <3>1. /\ session'[k] = [session[k] EXCEPT !.AllowedCIDRs = Remaining(k, F[k])]
          /\ accepts'[k] = RulesAfterUninstall(k, F[k])
      BY <2>4 DEF ReconcileApply
    <3>2. session[k] \in Session /\ \A c \in CIDRs : accepts[k][c] \in Nat
      BY <1>1 DEF TypeOK
    <3>3. \A c \in Remaining(k, F[k]) : c \in CIDRs /\ c \in F[k] /\ accepts[k][c] > 0
      BY <2>1, <3>2 DEF Remaining, Stuck, Exact, Session
    <3>4. F[k] # {}
      BY <2>4, <3>3
    <3>5. bad
      BY <3>4
    <3>6. failures = 0 /\ failures' = 1
      BY <1>1, <1>2, <1>3, <3>5
    <3>7. session[k].pendingDeletes = {}
      BY <2>1, <3>6 DEF Exact
    <3>8. /\ session'[k].AllowedCIDRs = Remaining(k, F[k]) /\ session'[k].pendingDeletes = {}
      BY <3>1, <3>2, <3>7 DEF Session
    <3>9. \A c \in Remaining(k, F[k]) : accepts'[k][c] > 0
      BY <3>1, <3>3 DEF RulesAfterUninstall
    <3> QED
      BY <3>8, <3>9 DEF Exact
  <2>5. CASE k \notin snap /\ ~(k \in tracked /\ Remaining(k, F[k]) # {})
    <3>1. session'[k] = NewSession
      BY <2>5 DEF ReconcileApply
    <3> QED
      BY <3>1 DEF Exact, NewSession
  <2> QED
    BY <2>3, <2>4, <2>5
<1> QED
  BY <1>3 DEF AccountExact

LEMMA NextExact == IInv /\ AccountExact /\ [Next]_vars => AccountExact'
<1> SUFFICES ASSUME IInv, AccountExact, [Next]_vars PROVE AccountExact'
  OBVIOUS
<1>1. CASE BootStep
  <2> PICK f \in BOOLEAN :
        \/ BootCreate(f) \/ BootDetach(f) \/ BootFlush(f) \/ BootDrop(f)
        \/ BootStateful(f) \/ \E checked \in BOOLEAN : BootAttach(checked, f)
    BY <1>1 DEF BootStep
  <2>1. failures' \in {failures, failures + 1}
    BY DEF BootCreate, BootDetach, BootFlush, BootDrop, BootStateful, BootAttach, Fails
  <2>2. boot # "running" /\ UNCHANGED session
    BY DEF BootCreate, BootDetach, BootFlush, BootDrop, BootStateful, BootAttach, controller
  <2>3. \A k \in Key : session'[k] = NewSession
    BY <2>2 DEF IInv, IdleUnlessRunning, Untracked
  <2> QED
    BY <2>1, <2>3, QuietExact
<1>2. CASE HandlerStep
  <2>1. CASE ReceiveKick \/ TakeBatch \/ ReconcileSnapshot \/ ReconcileSkip
    <3>1. UNCHANGED <<accepts, session>> /\ failures' \in {failures, failures + 1}
      BY <2>1 DEF ReceiveKick, TakeBatch, ReconcileSnapshot, ReconcileSkip, Fails, controller
    <3> QED
      BY <3>1, QuietExact
  <2>2. ASSUME NEW F \in Refusals, NEW cn \in CNs, HandleUserChanged(cn, F)
        PROVE  AccountExact'
    BY <2>2, ApplyPolicyExact DEF HandleUserChanged
  <2>3. ASSUME NEW F \in Refusals, HandleCommonChanged(F)
        PROVE  AccountExact'
    BY <2>3, ApplyPolicyExact DEF HandleCommonChanged
  <2>4. ASSUME NEW F \in Refusals, ReconcileApply(F)
        PROVE  AccountExact'
    BY <2>4, ReconcileExact
  <2> QED
    BY <1>2, <2>1, <2>2, <2>3, <2>4 DEF HandlerStep
<1>3. CASE Restart /\ UNCHANGED failures
  BY <1>3, QuietExact DEF Restart, NoSessions
<1>4. CASE UNCHANGED <<accepts, session, failures>>
  BY <1>4, QuietExact
<1>5. CASE PushStep \/ SelfHeal \/ (WorldStep /\ ~Crash) \/ UNCHANGED vars
  <2>1. UNCHANGED <<accepts, session, failures>>
    BY <1>5 DEF PushStep, PushStore, PushKick, SelfHeal, WorldStep, ChangeCcd, ChangeCommon,
                Connect, Disconnect, Changes, vars, controller
  <2> QED
    BY <1>4, <2>1
<1> QED
  BY <1>1, <1>2, <1>3, <1>5 DEF Next, RestartDead, WorldStep, Crash, Restart

\* Until a second event fails, what the controller takes for installed is in the
\* chain: applyDiff "records exactly which ACCEPTs went live".
THEOREM NoPhantomUntilSecondFailure == Spec => [](failures <= 1 => NoPhantomAccept)
<1>1. Init => AccountExact
  BY DEF Init, AccountExact, Exact, NoSessions, NewSession
<1>2. IInv /\ AccountExact => (failures <= 1 => NoPhantomAccept)
  BY DEF IInv, TypeOK, AccountExact, Exact, NoPhantomAccept
<1> QED
  BY <1>1, <1>2, NextExact, Inductive, PTL DEF Spec

=============================================================================
