------------------------- MODULE ServerConfigProofs -------------------------
(***************************************************************************)
(* Proofs about ServerConfig, for any number of requests in flight, any    *)
(* steps that fail and crashes anywhere.                                   *)
(*                                                                         *)
(* None of the three invariants is inductive by itself.  What a failing    *)
(* save puts back is the copy it took when it got the lock, so the proof   *)
(* needs that nobody else publishes in between, and what each step of      *)
(* apply has written so far.  What is never reverted or revived is told    *)
(* by the order in which saves got the lock: the stamps.                   *)
(***************************************************************************)
EXTENDS ServerConfig, FiniteSetTheorems, TLAPS

\* The steps of apply, under applyMu.
Applying == {"persist", "publish", "write", "rollback", "signal"}

\* What a request knows at each step.
LockRec == [pc : {"lock"}, fields : Fields, pre : Configs]
ApplyRec == [pc : Applying \cup {"sync"}, pre : BOOLEAN, current : Configs, new : Configs,
             kind : {"hard", "soft", "none"}]
SyncRec == [pc : {"sync"}, pre : BOOLEAN, new : Configs]

PutType == put \in [Reqs -> {Idle} \cup LockRec \cup ApplyRec \cup SyncRec]

\* The requests that were not stamped yet, which leaves stamps for all of them.
Waiting == {r \in Reqs : put[r].pc = "lock"}
StampsLeft == IsFiniteSet(Waiting) /\ stamps + Cardinality(Waiting) <= puts

\* Nothing is in flight while the process is down.
IdleWhenDown == ~up => \A r \in Reqs : put[r] = Idle

Stamped(r) == put[r].pc \in Applying \cup {"sync"} /\ put[r].new.stamp # 0

\* Stamps are handed out in the order in which saves get the lock, and are open until
\* the save is answered.
StampOrder ==
    /\ mem.stamp <= stamps /\ json.stamp <= stamps
    /\ \A s \in 1 .. MaxPuts : s > stamps => outcome[s] = "open"
    /\ \A r \in Reqs : put[r].pc \in Applying => put[r].new.stamp = stamps /\ stamps > 0
    /\ \A r \in Reqs : put[r].pc = "sync" =>
           put[r].new.stamp <= mem.stamp /\ put[r].new.stamp <= json.stamp
    /\ \A r \in Reqs : Stamped(r) => outcome[put[r].new.stamp] = "open"
    /\ \A r, q \in Reqs : Stamped(r) /\ Stamped(q) /\ r # q =>
           put[r].new.stamp # put[q].new.stamp

\* What a save has written before each of its steps, and what it would put back.
Written(r) ==
    /\ put[r].pc \in {"persist", "publish", "write", "rollback"} =>
           put[r].current = mem /\ mem.stamp < put[r].new.stamp
    /\ put[r].pc = "persist" =>
           json.stamp < put[r].new.stamp /\ (Stranded \/ unread = "memory" \/ json = mem)
    /\ put[r].pc \in {"publish", "write", "rollback", "signal"} => json = put[r].new
    /\ put[r].pc = "signal" => mem = put[r].new
    /\ put[r].pc \in Applying => lost \/ conf = Rendered(mem)
    /\ put[r].pc \in {"persist", "publish"} /\ put[r].kind = "none" =>
           Rendered(put[r].new) = Rendered(mem)
    /\ put[r].pc = "publish" => put[r].kind = "none"
Progress == \A r \in Reqs : Written(r)

\* What is recorded of a start that could not load the JSON is true of the copies.
Fallback ==
    /\ unread # "none" => mem = Defaults
    /\ unread = "json" => json = Defaults

\* ReportedNotReverted, also while the process is down.
ReportedKept ==
    \A s \in 1 .. MaxPuts : outcome[s] = "ok" =>
        /\ unread # "json" => s <= json.stamp
        /\ unread = "none" => s <= mem.stamp

IInv ==
    /\ TypeOK /\ PutType
    /\ StampsLeft
    /\ IdleWhenDown
    /\ StampOrder
    /\ Progress
    /\ Fallback
    /\ CopiesAgree
    /\ RefusedNeverActive
    /\ ReportedKept

-----------------------------------------------------------------------------
(* Types and stamps *)

\* What is known of a request at each step.
LEMMA PutShapes ==
    ASSUME PutType, NEW r \in Reqs
    PROVE  /\ put[r].pc \in {"idle", "lock", "sync"} \cup Applying
           /\ put[r].pc = "idle" => put[r] = Idle
           /\ put[r].pc = "lock" => put[r] \in LockRec
           /\ put[r].pc \in Applying => put[r] \in ApplyRec
           /\ put[r].pc = "sync" => put[r] \in ApplyRec \cup SyncRec
BY DEF PutType, Idle, LockRec, ApplyRec, SyncRec, Applying

\* What is rendered is a server.conf, and changes fall into three categories.
LEMMA Conversions ==
    /\ \A c \in Configs : Rendered(c) \in Confs
    /\ \A f, g \in Fields :
           /\ categorizeChanges(f, g) \in {"hard", "soft", "none"}
           /\ categorizeChanges(f, g) = "none" =>
                  f.hard = g.hard /\ f.soft = g.soft /\ f.mgmtClientAuth = g.mgmtClientAuth
BY DEF Configs, Fields, Confs, Rendered, categorizeChanges

\* A request that waits has a stamp left for it.
LEMMA StampFree ==
    ASSUME StampsLeft, TypeOK, NEW r \in Reqs, put[r].pc = "lock"
    PROVE  /\ stamps \in Nat /\ puts \in Nat /\ Cardinality(Waiting \ {r}) \in Nat
           /\ stamps + 1 \in 1 .. MaxPuts /\ stamps < puts
           /\ IsFiniteSet(Waiting \ {r})
           /\ stamps + 1 + Cardinality(Waiting \ {r}) <= puts
<1>1. r \in Waiting
  BY DEF Waiting
<1>2. /\ IsFiniteSet(Waiting \ {r})
      /\ Cardinality(Waiting \ {r}) = Cardinality(Waiting) - 1
  BY <1>1, FS_RemoveElement DEF StampsLeft
<1>3. Cardinality(Waiting) \in Nat /\ Cardinality(Waiting \ {r}) \in Nat
  BY <1>2, FS_CardinalityType DEF StampsLeft
<1> QED
  BY <1>2, <1>3, ServerConfigAssumption DEF StampsLeft, TypeOK

Typing == TypeOK /\ PutType /\ StampsLeft /\ IdleWhenDown

\* The initial state.
LEMMA InitIInv == Init => IInv
<1> SUFFICES ASSUME Init PROVE IInv
  OBVIOUS
<1>0. mem \in Configs /\ mem.stamp = 0
  <2>1. Default \in Fields
    BY DEF Default, Fields
  <2> QED
    BY <2>1, ServerConfigAssumption DEF Init, Configs, Defaults
<1>1. Idle.pc = "idle" /\ conf \in Confs
  BY <1>0, Conversions DEF Init, Idle
<1>2. TypeOK /\ PutType /\ IdleWhenDown
  <2>1. outcome \in [1 .. MaxPuts -> {"open", "ok", "failed", "stranded"}]
    BY DEF Init
  <2>2. \A r \in Reqs : put[r] = Idle /\ r # applyMu
    BY ServerConfigAssumption DEF Init
  <2>3. PutType /\ IdleWhenDown
    BY <2>2 DEF Init, PutType, IdleWhenDown
  <2>4. up \in BOOLEAN /\ loop \in BOOLEAN /\ lost \in BOOLEAN
        /\ unread \in {"none", "memory", "json"}
    BY DEF Init
  <2>5. puts \in 0 .. MaxPuts /\ stamps \in 0 .. puts
    BY ServerConfigAssumption DEF Init
  <2>6. failures \in 0 .. MaxFailures /\ crashes \in 0 .. MaxCrashes
    BY ServerConfigAssumption DEF Init
  <2>7. \A r \in Reqs : put[r].pc \in Applying <=> applyMu = r
    BY <1>1, <2>2 DEF Applying
  <2>8. json \in Configs /\ run \in Confs \cup {Down} /\ sum \in Confs
    BY <1>0, <1>1 DEF Init
  <2> QED
    BY <1>0, <1>1, <2>1, <2>3, <2>4, <2>5, <2>6, <2>7, <2>8 DEF TypeOK, Applying
<1>3. Waiting = {}
  BY <1>1 DEF Init, Waiting
<1>4. StampsLeft
  BY <1>3, FS_EmptySet DEF Init, StampsLeft
<1>5. StampOrder /\ Progress
  BY <1>0, <1>1 DEF Init, StampOrder, Progress, Written, Stamped, Applying
<1>6. Fallback /\ CopiesAgree /\ RefusedNeverActive /\ ReportedKept
  BY <1>0 DEF Init, Fallback, CopiesAgree, RefusedNeverActive, ReportedKept
<1> QED
  BY <1>2, <1>4, <1>5, <1>6 DEF IInv

\* A step of r that leaves it outside of the lock's queue keeps the others' stamps.
LEMMA WaitingKept ==
    ASSUME StampsLeft, NEW r \in Reqs, put[r].pc # "lock", put'[r].pc # "lock",
           \A q \in Reqs \ {r} : put'[q] = put[q], UNCHANGED <<stamps, puts>>
    PROVE  StampsLeft'
<1>1. Waiting' = Waiting
  BY DEF Waiting
<1> QED
  BY <1>1 DEF StampsLeft

\* An answered or finished request is idle, and its stamp keeps the type of outcome.
LEMMA AnswerType ==
    ASSUME Typing, NEW r \in Reqs, put[r].pc \in Applying,
           NEW what \in {"failed", "stranded"}, Answer(r, what),
           UNCHANGED <<up, loop, lost, run, sum, conf, mem, puts, stamps>>,
           json' \in Configs, unread' \in {"none", "memory", "json"}, failures' \in 0 .. MaxFailures, crashes' \in 0 .. MaxCrashes
    PROVE  Typing'
<1>1. /\ put' = [put EXCEPT ![r] = Idle] /\ applyMu' = "nobody" /\ applyMu = r
      /\ outcome' \in [1 .. MaxPuts -> {"open", "ok", "failed", "stranded"}]
  BY DEF Typing, TypeOK, Answer, Applying
<1>2. PutType'
  BY <1>1 DEF Typing, PutType
<1>3. \A q \in Reqs : put'[q].pc \notin Applying /\ applyMu' # q
  <2>1. \A q \in Reqs \ {r} : put[q].pc \notin Applying
    BY <1>1 DEF Typing, TypeOK, Applying
  <2> QED
    BY <1>1, <2>1, ServerConfigAssumption DEF Typing, PutType, Idle, Applying
<1>4. TypeOK'
  BY <1>1, <1>3 DEF Typing, TypeOK, Applying
<1>5. put'[r].pc = "idle" /\ put[r].pc # "lock"
  BY <1>1 DEF Typing, PutType, Idle, Applying
<1>6. StampsLeft'
  BY <1>1, <1>5, WaitingKept DEF Typing, PutType
<1>7. IdleWhenDown'
  BY <1>1 DEF Typing, IdleWhenDown, PutType
<1> QED
  BY <1>2, <1>4, <1>6, <1>7 DEF Typing

\* A save goes on with its next step.
LEMMA StepType ==
    ASSUME Typing, up, NEW r \in Reqs, put[r].pc \in Applying, NEW pc \in Applying \cup {"sync"},
           put' = [put EXCEPT ![r].pc = pc],
           applyMu' = IF pc = "sync" THEN "nobody" ELSE applyMu,
           UNCHANGED <<up, sum, loop, puts, stamps, outcome>>,
           json' \in Configs, mem' \in Configs, conf' \in Confs, lost' \in BOOLEAN,
           unread' \in {"none", "memory", "json"}, run' \in Confs \cup {Down},
           failures' \in 0 .. MaxFailures, crashes' \in 0 .. MaxCrashes
    PROVE  Typing'
<1>1. put[r] \in ApplyRec /\ applyMu = r
  BY PutShapes DEF Typing, TypeOK, Applying
<1>2. [put[r] EXCEPT !.pc = pc] \in ApplyRec /\ [put[r] EXCEPT !.pc = pc].pc = pc
  BY <1>1 DEF ApplyRec
<1>3. put' = [put EXCEPT ![r] = [put[r] EXCEPT !.pc = pc]]
  BY DEF Typing, PutType
<1>4. PutType' /\ put'[r].pc = pc /\ \A q \in Reqs \ {r} : put'[q] = put[q]
  BY <1>2, <1>3 DEF Typing, PutType
<1>5. \A q \in Reqs : put'[q].pc \in Applying <=> applyMu' = q
  <2>1. \A q \in Reqs \ {r} : put[q].pc \notin Applying
    BY <1>1 DEF Typing, TypeOK, Applying
  <2> QED
    BY <1>1, <1>4, <2>1, ServerConfigAssumption DEF Applying
<1>6. TypeOK'
  BY <1>5 DEF Typing, TypeOK, Applying
<1>7. StampsLeft'
  BY <1>4, WaitingKept DEF Typing, Applying
<1>8. IdleWhenDown'
  BY DEF IdleWhenDown
<1> QED
  BY <1>4, <1>6, <1>7, <1>8 DEF Typing

\* A step that does not touch the requests or the history keeps the types.
LEMMA OutsideType ==
    ASSUME Typing, UNCHANGED <<put, applyMu, puts, stamps, outcome, failures, crashes>>,
           UNCHANGED <<up, mem, json, conf, lost, unread, loop>>,
           run' \in Confs \cup {Down}, sum' \in Confs
    PROVE  Typing'
<1>1. TypeOK' /\ PutType' /\ IdleWhenDown'
  BY DEF Typing, TypeOK, PutType, IdleWhenDown
<1>2. Waiting' = Waiting
  BY DEF Waiting
<1> QED
  BY <1>1, <1>2 DEF Typing, StampsLeft

\* A failing step is one of a bounded number.
LEMMA FailType ==
    ASSUME Typing
    PROVE  /\ Fail => failures' \in 0 .. MaxFailures /\ crashes' \in 0 .. MaxCrashes
           /\ UNCHANGED faults => failures' \in 0 .. MaxFailures /\ crashes' \in 0 .. MaxCrashes
BY ServerConfigAssumption DEF Typing, TypeOK, Fail, faults

\* A request that arrives joins the queue for the lock.
LEMMA PutBeginType ==
    ASSUME Typing, NEW r \in Reqs, NEW f \in Fields, PutBegin(r, f)
    PROVE  Typing'
<1> DEFINE q0 == [pc |-> "lock", fields |-> f, pre |-> mem]
<1>1. q0 \in LockRec /\ q0.pc = "lock"
  BY DEF LockRec, Typing, TypeOK
<1>2. put' = [put EXCEPT ![r] = q0]
  BY DEF PutBegin
<1> HIDE DEF q0
<1>3. PutType' /\ put'[r].pc = "lock" /\ \A q \in Reqs \ {r} : put'[q] = put[q]
  BY <1>1, <1>2 DEF Typing, PutType
<1>4. put[r].pc = "idle" /\ up /\ UNCHANGED up
  BY DEF PutBegin, At
<1>5. \A q \in Reqs : put'[q].pc \in Applying <=> applyMu' = q
  <2>1. \A q \in Reqs : put[q].pc \in Applying <=> applyMu = q
    BY DEF Typing, TypeOK, Applying
  <2>2. applyMu' = applyMu
    BY DEF PutBegin
  <2> QED
    BY <1>3, <1>4, <2>1, <2>2 DEF Applying
<1>6. puts' \in 0 .. MaxPuts /\ puts' = puts + 1 /\ stamps' = stamps /\ stamps \in 0 .. puts'
  BY ServerConfigAssumption DEF PutBegin, Typing, TypeOK
<1>7. TypeOK'
  BY <1>4, <1>5, <1>6 DEF PutBegin, Typing, TypeOK, copies, openvpn, faults, Applying
<1>8. StampsLeft'
  <2>1. r \notin Waiting /\ Waiting' = Waiting \cup {r}
    BY <1>3, <1>4 DEF Waiting
  <2>2. /\ IsFiniteSet(Waiting')
        /\ Cardinality(Waiting') = Cardinality(Waiting) + 1
    BY <2>1, FS_AddElement DEF Typing, StampsLeft
  <2>3. Cardinality(Waiting) \in Nat /\ puts \in Nat /\ stamps \in Nat
    BY FS_CardinalityType, ServerConfigAssumption DEF Typing, StampsLeft, TypeOK
  <2> QED
    BY <1>6, <2>2, <2>3 DEF Typing, StampsLeft
<1> QED
  BY <1>3, <1>4, <1>7, <1>8 DEF Typing, IdleWhenDown

\* A request that gets the lock leaves the queue, with a stamp if it changes something.
LEMMA ApplyLockType ==
    ASSUME Typing, NEW r \in Reqs, ApplyLock(r)
    PROVE  Typing'
<1>1. put[r] \in LockRec /\ put[r].pc = "lock" /\ up /\ applyMu = "nobody" /\ UNCHANGED up
  BY PutShapes DEF ApplyLock, At, Typing
<1>2. /\ stamps + 1 \in 1 .. MaxPuts /\ stamps < puts
      /\ IsFiniteSet(Waiting \ {r})
      /\ stamps + 1 + Cardinality(Waiting \ {r}) <= puts
      /\ Cardinality(Waiting \ {r}) \in Nat
      /\ stamps \in Nat /\ puts \in Nat
  BY <1>1, StampFree DEF Typing
<1>3. \A q \in Reqs : put[q].pc \notin Applying
  BY <1>1, ServerConfigAssumption DEF Typing, TypeOK, Applying
<1>4. put[r].fields \in Fields /\ put[r].pre.fields.mgmtClientAuth \in BOOLEAN
  BY <1>1 DEF LockRec, Configs, Fields
<1>5. CASE Current(r).fields = put[r].fields
  <2> DEFINE q0 == [pc |-> "sync", pre |-> put[r].pre.fields.mgmtClientAuth,
                    new |-> [fields |-> put[r].fields, stamp |-> 0]]
  <2>1. put' = [put EXCEPT ![r] = q0] /\ UNCHANGED <<applyMu, stamps>>
    BY <1>5 DEF ApplyLock
  <2>2. q0 \in SyncRec /\ q0.pc = "sync"
    BY <1>4, ServerConfigAssumption DEF SyncRec, Configs
  <2> HIDE DEF q0
  <2>3. PutType' /\ put'[r].pc = "sync" /\ \A q \in Reqs \ {r} : put'[q] = put[q]
    BY <2>1, <2>2 DEF Typing, PutType
  <2>4. \A q \in Reqs : put'[q].pc \in Applying <=> applyMu' = q
    BY <1>1, <1>3, <2>1, <2>3, ServerConfigAssumption DEF Applying
  <2>5. TypeOK'
    BY <2>1, <2>4 DEF ApplyLock, Typing, TypeOK, copies, openvpn, faults, Applying
  <2>6. Waiting' = Waiting \ {r}
    BY <2>3 DEF Waiting
  <2> QED
    BY <1>1, <1>2, <2>1, <2>3, <2>5, <2>6 DEF ApplyLock, Typing, StampsLeft, IdleWhenDown
<1>6. CASE Current(r).fields # put[r].fields
  <2> DEFINE kind == categorizeChanges(Current(r).fields, put[r].fields)
             q0 == [pc |-> "persist", pre |-> put[r].pre.fields.mgmtClientAuth,
                    current |-> Current(r),
                    new |-> [fields |-> put[r].fields, stamp |-> stamps + 1],
                    kind |-> kind]
  <2>1. put' = [put EXCEPT ![r] = q0] /\ applyMu' = r /\ stamps' = stamps + 1
    BY <1>6 DEF ApplyLock
  <2>0. Current(r) \in Configs /\ Current(r).fields \in Fields
    BY DEF Current, Typing, TypeOK, Configs
  <2>2. kind \in {"hard", "soft", "none"}
    BY <2>0, <1>4, Conversions
  <2> HIDE DEF kind
  <2>3. q0 \in ApplyRec /\ q0.pc = "persist"
    BY <1>2, <1>4, <2>0, <2>2 DEF ApplyRec, Applying, Configs
  <2> HIDE DEF q0
  <2>4. PutType' /\ put'[r].pc = "persist" /\ \A q \in Reqs \ {r} : put'[q] = put[q]
    BY <2>1, <2>3 DEF Typing, PutType
  <2>5. \A q \in Reqs : put'[q].pc \in Applying <=> applyMu' = q
    BY <1>3, <2>1, <2>4 DEF Applying
  <2>6. stamps' \in 0 .. puts
    BY <1>2, <2>1
  <2>7. TypeOK'
    BY <2>5, <2>6 DEF ApplyLock, Typing, TypeOK, copies, openvpn, faults, Applying
  <2>8. Waiting' = Waiting \ {r}
    BY <2>4 DEF Waiting
  <2> QED
    BY <1>1, <1>2, <2>1, <2>4, <2>7, <2>8 DEF ApplyLock, Typing, StampsLeft, IdleWhenDown
<1> QED
  BY <1>5, <1>6

\* Every step keeps the types and the order of the stamps' use.
LEMMA TypingStep == Typing /\ [Next]_vars => Typing'
<1> SUFFICES ASSUME Typing, [Next]_vars PROVE Typing'
  OBVIOUS
<1>0. /\ mem \in Configs /\ json \in Configs /\ conf \in Confs
      /\ lost \in BOOLEAN /\ loop \in BOOLEAN /\ run \in Confs \cup {Down} /\ sum \in Confs
      /\ unread \in {"none", "memory", "json"}
  BY DEF Typing, TypeOK
<1>1. ASSUME NEW r \in Reqs, NEW f \in Fields, PutBegin(r, f) PROVE Typing'
  BY <1>1, PutBeginType
<1>2. ASSUME NEW r \in Reqs, ApplyLock(r) PROVE Typing'
  BY <1>2, ApplyLockType
<1>a. ASSUME NEW r \in Reqs, put[r].pc \in Applying
      PROVE  put[r].new \in Configs /\ put[r].current \in Configs
  BY <1>a, PutShapes DEF Typing, ApplyRec
<1>3. ASSUME NEW r \in Reqs, Persist(r) PROVE Typing'
  <2>1. up /\ put[r].pc = "persist" /\ put[r].pc \in Applying
    BY <1>3 DEF Persist, At, Applying
  <2>2. UNCHANGED <<up, mem, conf, lost, run, sum, loop, puts, stamps>>
    BY <1>3 DEF Persist, openvpn
  <2>5. Saved(r) => json' = put[r].new /\ unread' \in {"none", "memory", "json"}
    BY <1>0 DEF Saved
  <2>3. CASE Saved(r) /\ UNCHANGED <<applyMu, outcome, faults>>
             /\ put' = [put EXCEPT ![r].pc = IF put[r].kind = "none" THEN "publish" ELSE "write"]
    <3> DEFINE pc == IF put[r].kind = "none" THEN "publish" ELSE "write"
    <3>1. pc \in Applying /\ pc # "sync"
      BY DEF Applying
    <3>2. put' = [put EXCEPT ![r].pc = pc]
      BY <2>3
    <3> HIDE DEF pc
    <3> QED
      BY <1>0, <1>a, <2>1, <2>2, <2>3, <2>5, <3>1, <3>2, StepType, FailType
  <2>4. CASE Fail /\ Answer(r, "failed") /\ UNCHANGED <<json, unread>>
    BY <1>0, <2>1, <2>2, <2>4, AnswerType, FailType
  <2>6. CASE Fail /\ Answer(r, "stranded") /\ Saved(r)
    BY <1>a, <2>1, <2>2, <2>5, <2>6, AnswerType, FailType
  <2> QED
    BY <1>3, <2>3, <2>4, <2>6 DEF Persist
<1>4. ASSUME NEW r \in Reqs, PublishOnly(r) PROVE Typing'
  <2>1. up /\ put[r].pc \in Applying
    BY <1>4 DEF PublishOnly, At, Applying
  <2> QED
    BY <1>0, <1>4, <1>a, <2>1, StepType, FailType DEF PublishOnly, openvpn
<1>5. ASSUME NEW r \in Reqs, WriteConf(r) PROVE Typing'
  <2>1. up /\ put[r].pc \in Applying
    BY <1>5 DEF WriteConf, At, Applying
  <2>2. Rendered(put[r].new) \in Confs
    BY <1>a, <2>1, Conversions
  <2>3. PICK pc \in {"signal", "rollback"} : put' = [put EXCEPT ![r].pc = pc]
    BY <1>5 DEF WriteConf
  <2>4. pc \in Applying /\ pc # "sync"
    BY DEF Applying
  <2>5. mem' \in Configs /\ conf' \in Confs /\ lost' \in BOOLEAN
        /\ unread' \in {"none", "memory", "json"}
    BY <1>0, <1>5, <1>a, <2>1, <2>2 DEF WriteConf
  <2>6. failures' \in 0 .. MaxFailures /\ crashes' \in 0 .. MaxCrashes
    BY <1>5, FailType DEF WriteConf
  <2> QED
    BY <1>0, <1>5, <2>1, <2>3, <2>4, <2>5, <2>6, StepType DEF WriteConf, openvpn
<1>6. ASSUME NEW r \in Reqs, Rollback(r) PROVE Typing'
  <2>1. up /\ put[r].pc \in Applying
    BY <1>6 DEF Rollback, At, Applying
  <2>2. PICK what \in {"failed", "stranded"} : Answer(r, what)
    BY <1>6 DEF Rollback
  <2>3. json' \in Configs /\ unread' \in {"none", "memory", "json"}
    BY <1>0, <1>6, <1>a, <2>1 DEF Rollback
  <2>4. failures' \in 0 .. MaxFailures /\ crashes' \in 0 .. MaxCrashes
    BY <1>6, FailType DEF Rollback
  <2> QED
    BY <1>6, <2>1, <2>2, <2>3, <2>4, AnswerType DEF Rollback, openvpn
<1>7. ASSUME NEW r \in Reqs, Signal(r) PROVE Typing'
  <2>1. up /\ put[r].pc \in Applying
    BY <1>7 DEF Signal, At, Applying
  <2>2. run' \in Confs \cup {Down}
    BY <1>0, <1>7 DEF Signal
  <2>3. failures' \in 0 .. MaxFailures /\ crashes' \in 0 .. MaxCrashes
    BY <1>7, FailType DEF Signal
  <2> QED
    BY <1>0, <1>7, <2>1, <2>2, <2>3, StepType DEF Signal, copies
<1>8. ASSUME NEW r \in Reqs, Sync(r) PROVE Typing'
  <2>1. up /\ put[r].pc = "sync"
    BY <1>8 DEF Sync, At
  <2>2. put' = [put EXCEPT ![r] = Idle] /\ Idle.pc = "idle"
    BY <1>8 DEF Sync, Idle
  <2>3. PutType' /\ put'[r].pc = "idle" /\ \A q \in Reqs \ {r} : put'[q] = put[q]
    BY <2>2 DEF Typing, PutType
  <2>4. outcome' \in [1 .. MaxPuts -> {"open", "ok", "failed", "stranded"}]
    BY <1>8 DEF Sync, Typing, TypeOK
  <2>5. loop' \in BOOLEAN
    <3>1. put[r].new.fields.mgmtClientAuth \in BOOLEAN
      BY <2>1, PutShapes DEF Typing, ApplyRec, SyncRec, Configs, Fields
    <3> QED
      BY <1>0, <1>8, <3>1 DEF Sync
  <2>6. \A q \in Reqs : put'[q].pc \in Applying <=> applyMu' = q
    <3>1. \A q \in Reqs : put[q].pc \in Applying <=> applyMu = q
      BY DEF Typing, TypeOK, Applying
    <3>2. applyMu' = applyMu
      BY <1>8 DEF Sync
    <3> QED
      BY <2>1, <2>3, <3>1, <3>2 DEF Applying
  <2>7. TypeOK'
    BY <1>8, <2>4, <2>5, <2>6 DEF Sync, Typing, TypeOK, copies, openvpn, faults, Applying
  <2>8. StampsLeft'
    BY <1>8, <2>1, <2>3, WaitingKept DEF Sync, Typing
  <2> QED
    BY <1>8, <2>1, <2>3, <2>7, <2>8 DEF Sync, Typing, IdleWhenDown
<1>9. CASE Crash
  <2>1. \A q \in Reqs : put'[q] = Idle /\ put'[q].pc = "idle"
    BY <1>9 DEF Crash, Idle
  <2>2. PutType' /\ IdleWhenDown'
    BY <1>9, <2>1 DEF Crash, PutType, IdleWhenDown
  <2>3. crashes' \in 0 .. MaxCrashes
    BY <1>9, ServerConfigAssumption DEF Crash, Typing, TypeOK
  <2>4. TypeOK'
    BY <1>9, <2>1, <2>3, ServerConfigAssumption DEF Crash, Typing, TypeOK, copies, openvpn
  <2>5. Waiting' = {} /\ Waiting \subseteq Waiting
    BY <2>1 DEF Waiting
  <2>6. stamps <= puts /\ UNCHANGED <<stamps, puts>> /\ stamps \in Nat
    BY <1>9, ServerConfigAssumption DEF Crash, Typing, TypeOK
  <2>7. StampsLeft'
    BY <2>5, <2>6, FS_EmptySet DEF StampsLeft
  <2> QED
    BY <2>2, <2>4, <2>7 DEF Typing
<1>10. CASE Start
  <2>0. mem' \in Configs /\ unread' \in {"none", "memory", "json"}
    <3>1. Defaults \in Configs
      BY ServerConfigAssumption DEF Defaults, Default, Configs, Fields
    <3> QED
      BY <1>0, <1>10, <3>1 DEF Start
  <2>1. conf' \in Confs /\ lost' \in BOOLEAN
    BY <1>0, <1>10, <2>0, Conversions DEF Start
  <2>2. loop' \in BOOLEAN
    <3>1. mem'.fields.mgmtClientAuth \in BOOLEAN
      BY <2>0 DEF Configs, Fields
    <3> QED
      BY <1>10, <3>1 DEF Start
  <2>3. failures' \in 0 .. MaxFailures /\ crashes' \in 0 .. MaxCrashes
    BY <1>10, FailType DEF Start
  <2>4. TypeOK' /\ PutType' /\ IdleWhenDown'
    BY <1>0, <1>10, <2>0, <2>1, <2>2, <2>3
       DEF Start, Typing, TypeOK, PutType, IdleWhenDown, openvpn
  <2>5. Waiting' = Waiting
    BY <1>10 DEF Start, Waiting
  <2> QED
    BY <1>10, <2>4, <2>5 DEF Start, Typing, StampsLeft
<1>11. CASE OpenvpnStart \/ Watch
  BY <1>0, <1>11, OutsideType DEF OpenvpnStart, Watch, copies, faults
<1>12. CASE UNCHANGED vars
  BY <1>0, <1>12, OutsideType DEF vars
<1> QED
  BY <1>1, <1>2, <1>3, <1>4, <1>5, <1>6, <1>7, <1>8, <1>9, <1>10, <1>11, <1>12
     DEF Next, Step

-----------------------------------------------------------------------------
(* What a save has done, and what it may still do *)

\* Stamps are numbers.
LEMMA Numbers ==
    ASSUME Typing
    PROVE  /\ stamps \in Nat /\ mem.stamp \in Nat /\ json.stamp \in Nat /\ MaxPuts \in Nat
           /\ \A r \in Reqs : put[r].pc \in Applying \cup {"sync"} =>
                  put[r].new \in Configs /\ put[r].new.stamp \in 0 .. MaxPuts
<1>1. stamps \in Nat /\ mem.stamp \in Nat /\ json.stamp \in Nat /\ MaxPuts \in Nat
  BY ServerConfigAssumption DEF Typing, TypeOK, Configs
<1>2. ASSUME NEW r \in Reqs, put[r].pc \in Applying \cup {"sync"}
      PROVE  put[r].new \in Configs
  BY <1>2, PutShapes DEF Typing, ApplyRec, SyncRec
<1> QED
  BY <1>1, <1>2 DEF Configs

Facts == StampOrder /\ Progress /\ Fallback /\ CopiesAgree /\ RefusedNeverActive /\ ReportedKept

\* Steps that write no copy and answer nothing: a request arrives, changes nothing or is
\* done with its signal, the process stops, OpenVPN comes and goes.
LEMMA QuietStep ==
    ASSUME Typing, Facts, Typing',
           UNCHANGED <<mem, json, conf, lost, unread, stamps, outcome>>,
           \A q \in Reqs :
               \/ put'[q] = put[q]
               \/ put'[q].pc \in {"idle", "lock"}
               \/ put'[q].pc = "sync" /\ put'[q].new.stamp = 0
               \/ put[q].pc = "signal" /\ put'[q].pc = "sync" /\ put'[q].new = put[q].new,
           (up /\ applyMu = "nobody")' =>
               up /\ (applyMu = "nobody" \/ \E q \in Reqs : put[q].pc = "signal")
    PROVE  Facts'
<1>0. /\ stamps \in Nat /\ mem.stamp \in Nat /\ json.stamp \in Nat
      /\ \A q \in Reqs : put[q].pc \in Applying \cup {"sync"} => put[q].new.stamp \in Nat
  BY Numbers
<1>1. /\ (Stranded <=> Stranded')
      /\ Fallback' /\ RefusedNeverActive' /\ ReportedKept'
  BY DEF Facts, Stranded, Fallback, RefusedNeverActive, ReportedKept
<1>2. \A q \in Reqs : Stamped(q)' => Stamped(q) /\ put'[q].new = put[q].new
  BY DEF Stamped, Applying
<1>3. \A q \in Reqs : put'[q].pc \in Applying => put'[q] = put[q]
  BY DEF Applying
<1>4. ASSUME NEW q \in Reqs, put'[q].pc = "sync"
      PROVE  put'[q].new.stamp <= mem.stamp /\ put'[q].new.stamp <= json.stamp
  <2>1. CASE put'[q].new.stamp = 0
    BY <1>0, <2>1
  <2>2. CASE put[q].pc = "signal" /\ put'[q].new = put[q].new
    <3>1. json = put[q].new /\ mem = put[q].new
      BY <2>2 DEF Facts, Progress, Written
    <3> QED
      BY <1>0, <2>2, <3>1
  <2> QED
    BY <1>4, <2>1, <2>2 DEF Facts, StampOrder
<1>5. StampOrder'
  <2>1. \A q, p \in Reqs : Stamped(q)' /\ Stamped(p)' /\ q # p =>
            put'[q].new.stamp # put'[p].new.stamp
    BY <1>2 DEF Facts, StampOrder
  <2>2. \A q \in Reqs : Stamped(q)' => outcome'[put'[q].new.stamp] = "open"
    BY <1>2 DEF Facts, StampOrder
  <2> QED
    BY <1>3, <1>4, <2>1, <2>2 DEF Facts, StampOrder
<1>6. Progress'
  BY <1>1, <1>3 DEF Facts, Progress, Written, Applying
<1>7. CopiesAgree'
  <2> SUFFICES ASSUME up', applyMu' = "nobody"
               PROVE  /\ Stranded' \/ unread = "memory" \/ json = mem
                      /\ lost \/ conf = Rendered(mem)
    BY DEF CopiesAgree
  <2>1. CASE applyMu = "nobody"
    BY <1>1, <2>1 DEF Facts, CopiesAgree
  <2>2. ASSUME NEW q \in Reqs, put[q].pc = "signal"
        PROVE  json = mem /\ (lost \/ conf = Rendered(mem))
    BY <2>2 DEF Facts, Progress, Written, Applying
  <2> QED
    BY <2>1, <2>2
<1> QED
  BY <1>1, <1>5, <1>6, <1>7 DEF Facts

\* A save gets the lock: its stamp is later than everything that was written.
LEMMA LockFacts ==
    ASSUME Typing, Facts, Typing', NEW r \in Reqs, ApplyLock(r)
    PROVE  Facts'
<1>0. /\ stamps \in Nat /\ mem.stamp \in Nat /\ json.stamp \in Nat
      /\ \A q \in Reqs : put[q].pc \in Applying \cup {"sync"} => put[q].new.stamp \in Nat
  BY Numbers
<1>1. /\ put[r] \in LockRec /\ put[r].pc = "lock" /\ up /\ applyMu = "nobody"
      /\ stamps + 1 \in 1 .. MaxPuts
  BY PutShapes, StampFree DEF ApplyLock, At, Typing
<1>2. UNCHANGED <<up, mem, json, conf, lost, unread, outcome>>
  BY DEF ApplyLock, copies
<1>3. \A q \in Reqs : put[q].pc \notin Applying
  BY <1>1, ServerConfigAssumption DEF Typing, TypeOK, Applying
<1>4. CASE Current(r).fields = put[r].fields
  <2>1. /\ UNCHANGED <<applyMu, stamps>>
        /\ put'[r].pc = "sync" /\ put'[r].new.stamp = 0
        /\ \A q \in Reqs \ {r} : put'[q] = put[q]
    BY <1>4 DEF ApplyLock, Typing, PutType
  <2> QED
    BY <1>1, <1>2, <2>1, QuietStep
<1>5. CASE Current(r).fields # put[r].fields
  <2>1. /\ stamps' = stamps + 1 /\ applyMu' = r
        /\ put'[r].pc = "persist" /\ put'[r].current = mem
        /\ put'[r].new.stamp = stamps + 1 /\ put'[r].new.fields = put[r].fields
        /\ put'[r].kind = categorizeChanges(mem.fields, put[r].fields)
        /\ \A q \in Reqs \ {r} : put'[q] = put[q]
    BY <1>5 DEF ApplyLock, Typing, PutType, Current
  <2>2. mem.stamp <= stamps /\ json.stamp <= stamps /\ outcome[stamps + 1] = "open"
    BY <1>0, <1>1 DEF Facts, StampOrder
  <2>3. ASSUME NEW q \in Reqs \ {r}, put[q].pc = "sync"
        PROVE  put[q].new.stamp <= stamps
    BY <1>0, <2>2, <2>3 DEF Facts, StampOrder
  <2>4. \A q \in Reqs \ {r} : Stamped(q)' => Stamped(q) /\ put[q].pc = "sync"
    BY <1>3, <2>1 DEF Stamped
  <2>5. StampOrder'
    <3>1. mem'.stamp <= stamps' /\ json'.stamp <= stamps' /\ stamps' > 0
      BY <1>0, <1>2, <2>1, <2>2
    <3>2. \A s \in 1 .. MaxPuts : s > stamps' => outcome'[s] = "open"
      BY <1>0, <1>2, <2>1 DEF Facts, StampOrder
    <3>3. \A q \in Reqs : put'[q].pc \in Applying => put'[q].new.stamp = stamps'
      BY <1>3, <2>1
    <3>4. \A q \in Reqs : put'[q].pc = "sync" =>
              put'[q].new.stamp <= mem'.stamp /\ put'[q].new.stamp <= json'.stamp
      BY <1>2, <2>1 DEF Facts, StampOrder
    <3>5. \A q \in Reqs : Stamped(q)' => outcome'[put'[q].new.stamp] = "open"
      BY <1>2, <2>1, <2>2, <2>4 DEF Facts, StampOrder
    <3>6. \A q, p \in Reqs : Stamped(q)' /\ Stamped(p)' /\ q # p =>
              put'[q].new.stamp # put'[p].new.stamp
      BY <1>0, <2>1, <2>3, <2>4 DEF Facts, StampOrder
    <3> QED
      BY <3>1, <3>2, <3>3, <3>4, <3>5, <3>6 DEF StampOrder
  <2>6. Stranded <=> Stranded'
    BY <1>2 DEF Stranded
  <2>7. Progress'
    <3>1. ASSUME put'[r].kind = "none" PROVE Rendered(put'[r].new) = Rendered(mem')
      <4>1. mem.fields \in Fields /\ put[r].fields \in Fields
        BY <1>1 DEF LockRec, Typing, TypeOK, Configs
      <4> QED
        BY <1>2, <2>1, <3>1, <4>1, Conversions DEF Rendered
    <3>2. Written(r)'
      BY <1>0, <1>1, <1>2, <2>1, <2>2, <2>6, <3>1 DEF Written, Facts, CopiesAgree, Applying
    <3>3. \A q \in Reqs \ {r} : Written(q)'
      BY <1>3, <2>1 DEF Written, Applying
    <3> QED
      BY <3>2, <3>3 DEF Progress
  <2>8. CopiesAgree'
    BY <2>1, ServerConfigAssumption DEF CopiesAgree
  <2> QED
    BY <1>2, <2>5, <2>7, <2>8 DEF Facts, Fallback, RefusedNeverActive, ReportedKept
<1> QED
  BY <1>4, <1>5

\* While r holds the lock the others have at most their answer to give, for a stamp that
\* came before.
LEMMA OthersWait ==
    ASSUME Typing, Facts, NEW r \in Reqs, put[r].pc \in Applying
    PROVE  /\ put[r].new.stamp = stamps /\ stamps \in 1 .. MaxPuts /\ applyMu = r
           /\ applyMu # "nobody"
           /\ outcome[stamps] = "open" /\ Stamped(r)
           /\ \A q \in Reqs \ {r} : put[q].pc \notin Applying
           /\ \A q \in Reqs \ {r} : Stamped(q) =>
                  /\ put[q].pc = "sync" /\ put[q].new.stamp # stamps
                  /\ put[q].new.stamp \in 1 .. MaxPuts
                  /\ put[q].new.stamp <= mem.stamp /\ put[q].new.stamp <= json.stamp
                  /\ put[q].new.stamp <= stamps
                  /\ outcome[put[q].new.stamp] = "open"
<1>0. /\ stamps \in Nat /\ mem.stamp \in Nat /\ json.stamp \in Nat /\ MaxPuts \in Nat
      /\ \A q \in Reqs : put[q].pc \in Applying \cup {"sync"} => put[q].new.stamp \in 0 .. MaxPuts
  BY Numbers
<1>1. applyMu = r /\ applyMu # "nobody" /\ \A q \in Reqs \ {r} : put[q].pc \notin Applying
  BY ServerConfigAssumption DEF Typing, TypeOK, Applying
<1>2. put[r].new.stamp = stamps /\ stamps > 0 /\ mem.stamp <= stamps
  BY DEF Facts, StampOrder
<1>3. stamps \in 1 .. MaxPuts /\ Stamped(r)
  BY <1>0, <1>2 DEF Stamped
<1>4. outcome[stamps] = "open"
  BY <1>2, <1>3 DEF Facts, StampOrder
<1>5. ASSUME NEW q \in Reqs \ {r}, Stamped(q)
      PROVE  /\ put[q].pc = "sync" /\ put[q].new.stamp # stamps
             /\ put[q].new.stamp \in 1 .. MaxPuts
             /\ put[q].new.stamp <= mem.stamp /\ put[q].new.stamp <= json.stamp
             /\ put[q].new.stamp <= stamps
             /\ outcome[put[q].new.stamp] = "open"
  <2>1. put[q].pc = "sync" /\ put[q].new.stamp \in 1 .. MaxPuts
    BY <1>0, <1>1, <1>5 DEF Stamped
  <2> QED
    BY <1>0, <1>2, <1>3, <1>5, <2>1 DEF Facts, StampOrder
<1> QED
  BY <1>1, <1>2, <1>3, <1>4, <1>5

\* The holder of the lock goes on, with the copies in their new state.  Nothing is
\* answered.
LEMMA HolderStep ==
    ASSUME Typing, Facts, Typing', NEW r \in Reqs, put[r].pc \in Applying,
           NEW pc \in Applying \cup {"sync"},
           put' = [put EXCEPT ![r].pc = pc],
           UNCHANGED <<up, stamps, outcome>>,
           mem' \in {mem, put[r].new}, json' \in {json, put[r].new},
           Written(r)', pc = "sync" => mem' = put[r].new /\ json' = put[r].new,
           CopiesAgree', Fallback',
           unread' # "json" => unread # "json" \/ json' = put[r].new,
           unread' = "none" => unread = "none" \/ mem' = put[r].new
    PROVE  Facts'
<1>0. /\ stamps \in Nat /\ mem.stamp \in Nat /\ json.stamp \in Nat /\ MaxPuts \in Nat
      /\ \A q \in Reqs : put[q].pc \in Applying \cup {"sync"} => put[q].new.stamp \in 0 .. MaxPuts
      /\ mem.stamp <= stamps /\ json.stamp <= stamps
  BY Numbers DEF Facts, StampOrder
<1>1. /\ put[r].new.stamp = stamps /\ stamps \in 1 .. MaxPuts
      /\ outcome[stamps] = "open" /\ Stamped(r)
      /\ \A q \in Reqs \ {r} : put[q].pc \notin Applying
      /\ \A q \in Reqs \ {r} : Stamped(q) => put[q].new.stamp # stamps
  BY OthersWait
<1>2. /\ \A q \in Reqs \ {r} : put'[q] = put[q]
      /\ put'[r].pc = pc /\ put'[r].new = put[r].new
  BY PutShapes DEF Typing, PutType, ApplyRec
<1>3. \A q \in Reqs : Stamped(q)' => Stamped(q) /\ put'[q].new = put[q].new
  BY <1>1, <1>2 DEF Stamped
<1>4. mem'.stamp <= stamps /\ json'.stamp <= stamps
      /\ mem.stamp <= mem'.stamp /\ json.stamp <= json'.stamp
      /\ mem'.stamp \in Nat /\ json'.stamp \in Nat
  BY <1>0, <1>1
<1>5. StampOrder'
  <2>1. ASSUME NEW q \in Reqs, put'[q].pc = "sync"
        PROVE  put'[q].new.stamp <= mem'.stamp /\ put'[q].new.stamp <= json'.stamp
    <3>1. CASE q = r
      BY <1>0, <1>1, <1>2, <2>1, <3>1
    <3>2. CASE q # r
      <4>1. put[q].new.stamp <= mem.stamp /\ put[q].new.stamp <= json.stamp
        BY <1>2, <2>1, <3>2 DEF Facts, StampOrder
      <4>2. put[q].new.stamp \in Nat
        BY <1>0, <1>2, <2>1, <3>2
      <4> QED
        BY <1>0, <1>2, <1>4, <3>2, <4>1, <4>2
    <3> QED
      BY <3>1, <3>2
  <2>2. \A q \in Reqs : put'[q].pc \in Applying => put'[q].new.stamp = stamps /\ stamps > 0
    BY <1>0, <1>1, <1>2
  <2>3. \A q \in Reqs : Stamped(q)' => outcome'[put'[q].new.stamp] = "open"
    BY <1>3 DEF Facts, StampOrder
  <2>4. \A q, p \in Reqs : Stamped(q)' /\ Stamped(p)' /\ q # p =>
            put'[q].new.stamp # put'[p].new.stamp
    BY <1>3 DEF Facts, StampOrder
  <2> QED
    BY <1>4, <2>1, <2>2, <2>3, <2>4 DEF Facts, StampOrder
<1>6. Progress'
  <2>1. \A q \in Reqs \ {r} : Written(q)'
    BY <1>1, <1>2 DEF Written, Applying
  <2> QED
    BY <2>1 DEF Progress
<1>7. RefusedNeverActive'
  BY <1>1 DEF Facts, RefusedNeverActive
<1>8. ReportedKept'
  <2>1. \A s \in 1 .. MaxPuts : outcome[s] = "ok" => s <= stamps
    BY <1>0 DEF Facts, StampOrder
  <2> QED
    BY <1>0, <1>1, <1>4, <2>1 DEF Facts, ReportedKept
<1> QED
  BY <1>5, <1>6, <1>7, <1>8 DEF Facts

\* The holder of the lock gives up, with the JSON as it was before its save or stranded.
LEMMA RefusedStep ==
    ASSUME Typing, Facts, Typing', NEW r \in Reqs, put[r].pc \in Applying,
           NEW what \in {"failed", "stranded"}, Answer(r, what),
           UNCHANGED <<up, mem, conf, lost, stamps>>,
           mem.stamp < put[r].new.stamp, lost \/ conf = Rendered(mem),
           \/ /\ what = "failed" /\ json' = mem
              /\ unread' = IF unread = "memory" THEN "json" ELSE unread
           \/ /\ what = "failed" /\ UNCHANGED <<json, unread>>
              /\ json.stamp < put[r].new.stamp
              /\ Stranded \/ unread = "memory" \/ json = mem
           \/ what = "stranded" /\ Saved(r)
    PROVE  Facts'
<1>0. /\ stamps \in Nat /\ mem.stamp \in Nat /\ json.stamp \in Nat /\ MaxPuts \in Nat
      /\ \A q \in Reqs : put[q].pc \in Applying \cup {"sync"} => put[q].new.stamp \in 0 .. MaxPuts
      /\ mem.stamp <= stamps /\ json.stamp <= stamps
      /\ \A s \in 1 .. MaxPuts : s > stamps => outcome[s] = "open"
  BY Numbers DEF Facts, StampOrder
<1>1. /\ put[r].new.stamp = stamps /\ stamps \in 1 .. MaxPuts
      /\ outcome[stamps] = "open" /\ Stamped(r)
      /\ \A q \in Reqs \ {r} : put[q].pc \notin Applying
      /\ \A q \in Reqs \ {r} : Stamped(q) =>
             put[q].new.stamp # stamps /\ put[q].new.stamp <= mem.stamp
             /\ put[q].new.stamp <= json.stamp /\ outcome[put[q].new.stamp] = "open"
  BY OthersWait
<1>2. /\ \A q \in Reqs \ {r} : put'[q] = put[q]
      /\ put'[r].pc = "idle"
  BY DEF Answer, Typing, PutType, Idle
<1>3. /\ outcome'[stamps] = what
      /\ \A s \in 1 .. MaxPuts : s # stamps => outcome'[s] = outcome[s]
  BY <1>1 DEF Answer, Typing, TypeOK
<1>4. \A q \in Reqs : Stamped(q)' => q # r /\ Stamped(q) /\ put'[q].new = put[q].new
  BY <1>2 DEF Stamped, Applying
<1>5. json'.stamp <= stamps /\ json' \in {mem, json, put[r].new}
  BY <1>0, <1>1 DEF Saved
<1>6. StampOrder'
  <2>1. ASSUME NEW q \in Reqs, put'[q].pc = "sync"
        PROVE  put'[q].new.stamp <= mem'.stamp /\ put'[q].new.stamp <= json'.stamp
    <3>1. q # r /\ put[q].pc = "sync" /\ put'[q] = put[q]
      BY <1>2, <2>1
    <3>2. put[q].new.stamp <= mem.stamp /\ put[q].new.stamp <= json.stamp
      BY <3>1 DEF Facts, StampOrder
    <3>3. put[q].new.stamp <= stamps
      BY <1>0, <3>1, <3>2
    <3> QED
      BY <1>1, <1>5, <3>1, <3>2, <3>3
  <2>2. \A q \in Reqs : put'[q].pc \notin Applying
    BY <1>1, <1>2 DEF Applying
  <2>3. \A s \in 1 .. MaxPuts : s > stamps' => outcome'[s] = "open"
    BY <1>0, <1>3
  <2>4. \A q \in Reqs : Stamped(q)' => outcome'[put'[q].new.stamp] = "open"
    <3> SUFFICES ASSUME NEW q \in Reqs, Stamped(q)'
                 PROVE  outcome'[put'[q].new.stamp] = "open"
      OBVIOUS
    <3>1. put[q].new.stamp \in 1 .. MaxPuts
      BY <1>0, <1>4 DEF Stamped
    <3> QED
      BY <1>1, <1>3, <1>4, <3>1
  <2>5. \A q, p \in Reqs : Stamped(q)' /\ Stamped(p)' /\ q # p =>
            put'[q].new.stamp # put'[p].new.stamp
    BY <1>4 DEF Facts, StampOrder
  <2> QED
    BY <1>0, <1>5, <2>1, <2>2, <2>3, <2>4, <2>5 DEF StampOrder
<1>7. Progress'
  BY <1>1, <1>2 DEF Progress, Written, Applying
<1>8. RefusedNeverActive'
  <2>1. \A s \in 1 .. MaxPuts : outcome'[s] = "failed" /\ s # stamps => outcome[s] = "failed"
    BY <1>3
  <2>2. what = "failed" => json'.stamp < stamps
    BY <1>0, <1>1
  <2>3. what = "stranded" => json'.stamp = stamps
    BY <1>1 DEF Saved
  <2> QED
    BY <1>0, <1>1, <1>3, <1>5, <2>1, <2>2, <2>3 DEF Facts, RefusedNeverActive
<1>9. ReportedKept'
  <2>1. \A s \in 1 .. MaxPuts : outcome'[s] = "ok" => outcome[s] = "ok" /\ s <= stamps
    BY <1>0, <1>3
  <2>2. ASSUME NEW s \in 1 .. MaxPuts, outcome[s] = "ok", s <= stamps
        PROVE  /\ unread' # "json" => s <= json'.stamp
               /\ unread' = "none" => s <= mem.stamp
    <3>1. /\ unread # "json" => s <= json.stamp
          /\ unread = "none" => s <= mem.stamp
      BY <2>2 DEF Facts, ReportedKept
    <3>2. CASE what = "stranded" /\ Saved(r)
      BY <1>1, <2>2, <3>1, <3>2 DEF Saved
    <3>3. CASE json' = mem /\ unread' = IF unread = "memory" THEN "json" ELSE unread
      <4>1. unread \in {"none", "memory", "json"}
        BY DEF Typing, TypeOK
      <4> QED
        BY <3>1, <3>3, <4>1
    <3> QED
      BY <3>1, <3>2, <3>3
  <2> QED
    BY <2>1, <2>2 DEF ReportedKept
<1>10. CopiesAgree'
  <2>1. CASE what = "stranded"
    <3>1. json'.stamp = stamps
      BY <1>1, <2>1 DEF Saved
    <3> QED
      BY <1>1, <1>3, <2>1, <3>1 DEF CopiesAgree, Stranded
  <2>2. CASE json' = mem
    BY <2>2 DEF CopiesAgree
  <2>3. CASE /\ UNCHANGED <<json, unread>> /\ json.stamp < put[r].new.stamp
             /\ Stranded \/ unread = "memory" \/ json = mem
    <3>1. Stranded => Stranded'
      BY <1>0, <1>1, <1>3, <2>3 DEF Stranded
    <3> QED
      BY <2>3, <3>1 DEF CopiesAgree
  <2> QED
    BY <2>1, <2>2, <2>3
<1>11. Fallback'
  BY DEF Facts, Fallback, Saved, Typing, TypeOK
<1> QED
  BY <1>6, <1>7, <1>8, <1>9, <1>10, <1>11 DEF Facts

\* The answer of a save that went through.
LEMMA SyncFacts ==
    ASSUME Typing, Facts, Typing', NEW r \in Reqs, Sync(r)
    PROVE  Facts'
<1>0. /\ stamps \in Nat /\ mem.stamp \in Nat /\ json.stamp \in Nat /\ MaxPuts \in Nat
      /\ \A q \in Reqs : put[q].pc \in Applying \cup {"sync"} => put[q].new.stamp \in 0 .. MaxPuts
  BY Numbers
<1>1. /\ put[r].pc = "sync"
      /\ put'[r].pc = "idle" /\ \A q \in Reqs \ {r} : put'[q] = put[q]
      /\ UNCHANGED <<up, mem, json, conf, lost, unread, applyMu, stamps>>
  BY DEF Sync, At, Typing, PutType, Idle, copies
<1> DEFINE s0 == put[r].new.stamp
<1>2. s0 <= mem.stamp /\ s0 <= json.stamp /\ s0 \in 0 .. MaxPuts /\ mem.stamp <= stamps
  BY <1>0, <1>1 DEF Facts, StampOrder
<1>3. \A s \in 1 .. MaxPuts : outcome'[s] = IF s = s0 THEN "ok" ELSE outcome[s]
  BY DEF Sync, Typing, TypeOK
<1>4. \A s \in 1 .. MaxPuts : s = s0 => outcome[s] = "open"
  BY <1>0, <1>1 DEF Facts, StampOrder, Stamped
<1>5. \A q \in Reqs : Stamped(q)' =>
          /\ q # r /\ Stamped(q) /\ put'[q] = put[q]
          /\ put[q].new.stamp \in 1 .. MaxPuts /\ put[q].new.stamp # s0
  <2> SUFFICES ASSUME NEW q \in Reqs, Stamped(q)'
               PROVE  /\ q # r /\ Stamped(q) /\ put'[q] = put[q]
                      /\ put[q].new.stamp \in 1 .. MaxPuts /\ put[q].new.stamp # s0
    OBVIOUS
  <2>1. q # r /\ Stamped(q) /\ put'[q] = put[q]
    BY <1>1 DEF Stamped, Applying
  <2>2. put[q].new.stamp \in 1 .. MaxPuts
    BY <1>0, <2>1 DEF Stamped
  <2>3. s0 # 0 => Stamped(r)
    BY <1>1 DEF Stamped
  <2> QED
    BY <1>0, <2>1, <2>2, <2>3 DEF Facts, StampOrder
<1> HIDE DEF s0
<1>6. StampOrder'
  <2>1. \A s \in 1 .. MaxPuts : s > stamps' => outcome'[s] = "open"
    BY <1>0, <1>1, <1>2, <1>3 DEF Facts, StampOrder
  <2>2. \A q \in Reqs : Stamped(q)' => outcome'[put'[q].new.stamp] = "open"
    BY <1>3, <1>5 DEF Facts, StampOrder
  <2>3. \A q, p \in Reqs : Stamped(q)' /\ Stamped(p)' /\ q # p =>
            put'[q].new.stamp # put'[p].new.stamp
    BY <1>5 DEF Facts, StampOrder
  <2>4. \A q \in Reqs : put'[q].pc \in Applying => put'[q].new.stamp = stamps /\ stamps > 0
    BY <1>1 DEF Facts, StampOrder, Applying
  <2>5. \A q \in Reqs : put'[q].pc = "sync" =>
            put'[q].new.stamp <= mem.stamp /\ put'[q].new.stamp <= json.stamp
    BY <1>1 DEF Facts, StampOrder
  <2> QED
    BY <1>1, <2>1, <2>2, <2>3, <2>4, <2>5 DEF Facts, StampOrder
<1>7. Stranded <=> Stranded'
  BY <1>1, <1>3, <1>4 DEF Stranded
<1>8. Progress' /\ CopiesAgree'
  <2>1. \A q \in Reqs : Written(q)'
    BY <1>1, <1>7 DEF Facts, Progress, Written, Applying
  <2> QED
    BY <1>1, <1>7, <2>1 DEF Facts, Progress, CopiesAgree
<1>9. RefusedNeverActive' /\ ReportedKept' /\ Fallback'
  BY <1>1, <1>2, <1>3 DEF Facts, RefusedNeverActive, ReportedKept, Fallback
<1> QED
  BY <1>6, <1>8, <1>9 DEF Facts

\* Every step keeps what the saves have done in step with what was answered.
LEMMA FactsStep == Typing /\ Facts /\ Typing' /\ [Next]_vars => Facts'
<1> SUFFICES ASSUME Typing, Facts, Typing', [Next]_vars PROVE Facts'
  OBVIOUS
<1>1. ASSUME NEW r \in Reqs, NEW f \in Fields, PutBegin(r, f) PROVE Facts'
  <2>1. put'[r].pc = "lock" /\ \A q \in Reqs \ {r} : put'[q] = put[q]
    BY <1>1 DEF PutBegin, Typing, PutType
  <2> QED
    BY <1>1, <2>1, QuietStep DEF PutBegin, copies
<1>2. ASSUME NEW r \in Reqs, ApplyLock(r) PROVE Facts'
  BY <1>2, LockFacts
<1>a. ASSUME NEW r \in Reqs, put[r].pc \in Applying, NEW pc,
             put' = [put EXCEPT ![r].pc = pc]
      PROVE  /\ put'[r].pc = pc /\ put'[r].new = put[r].new
             /\ put'[r].current = put[r].current /\ put'[r].kind = put[r].kind
             /\ put[r].new.stamp = stamps /\ applyMu # "nobody"
  BY <1>a, PutShapes, OthersWait DEF Typing, PutType, ApplyRec
<1>3. ASSUME NEW r \in Reqs, Persist(r) PROVE Facts'
  <2>1. /\ put[r].pc = "persist" /\ put[r].pc \in Applying
        /\ UNCHANGED <<up, mem, conf, lost, stamps>>
    BY <1>3 DEF Persist, At, Applying
  <2>2. /\ put[r].current = mem /\ mem.stamp < put[r].new.stamp
        /\ json.stamp < put[r].new.stamp
        /\ Stranded \/ unread = "memory" \/ json = mem
        /\ lost \/ conf = Rendered(mem)
        /\ put[r].kind = "none" => Rendered(put[r].new) = Rendered(mem)
    BY <2>1 DEF Facts, Progress, Written
  <2>3. CASE /\ Saved(r) /\ UNCHANGED <<applyMu, outcome, faults>>
             /\ put' = [put EXCEPT ![r].pc = IF put[r].kind = "none" THEN "publish" ELSE "write"]
    <3> DEFINE pc == IF put[r].kind = "none" THEN "publish" ELSE "write"
    <3>1. pc \in Applying /\ pc # "sync" /\ put' = [put EXCEPT ![r].pc = pc]
          /\ pc \in {"publish", "write"} /\ (pc = "publish" => put[r].kind = "none")
      BY <2>3 DEF Applying
    <3> HIDE DEF pc
    <3>0. /\ json' = put[r].new
          /\ unread' = IF unread = "json" THEN "memory" ELSE unread
      BY <2>3 DEF Saved
    <3>2. Written(r)'
      BY <1>a, <2>1, <2>2, <2>3, <3>0, <3>1 DEF Written
    <3>3. CopiesAgree'
      BY <1>a, <2>1, <2>3, <3>1 DEF CopiesAgree
    <3>4. Fallback'
      BY <2>1, <3>0 DEF Facts, Fallback, Typing, TypeOK
    <3> QED
      BY <2>1, <2>3, <3>0, <3>1, <3>2, <3>3, <3>4, HolderStep
  <2>4. CASE Fail /\ Answer(r, "failed") /\ UNCHANGED <<json, unread>>
    BY <2>1, <2>2, <2>4, RefusedStep
  <2>5. CASE Fail /\ Answer(r, "stranded") /\ Saved(r)
    BY <2>1, <2>2, <2>5, RefusedStep
  <2> QED
    BY <1>3, <2>3, <2>4, <2>5 DEF Persist
<1>4. ASSUME NEW r \in Reqs, PublishOnly(r) PROVE Facts'
  <2>1. /\ put[r].pc = "publish" /\ put[r].pc \in Applying
        /\ UNCHANGED <<up, json, conf, lost, stamps, outcome>>
        /\ mem' = put[r].new /\ put' = [put EXCEPT ![r].pc = "sync"] /\ unread' = "none"
    BY <1>4 DEF PublishOnly, At, Applying
  <2>2. json = put[r].new /\ (lost \/ conf = Rendered(put[r].new))
    BY <2>1 DEF Facts, Progress, Written
  <2>3. put'[r].pc = "sync"
    BY <1>a, <2>1
  <2>4. Written(r)'
    BY <2>3 DEF Written, Applying
  <2>5. CopiesAgree' /\ Fallback'
    BY <2>1, <2>2 DEF CopiesAgree, Fallback
  <2> QED
    BY <2>1, <2>2, <2>4, <2>5, HolderStep
<1>5. ASSUME NEW r \in Reqs, WriteConf(r) PROVE Facts'
  <2>1. /\ put[r].pc = "write" /\ put[r].pc \in Applying
        /\ UNCHANGED <<up, json, applyMu, stamps, outcome>>
    BY <1>5 DEF WriteConf, At, Applying
  <2>2. /\ put[r].current = mem /\ mem.stamp < put[r].new.stamp
        /\ json = put[r].new /\ (lost \/ conf = Rendered(mem))
    BY <2>1 DEF Facts, Progress, Written
  <2>3. CASE /\ conf' = Rendered(put[r].new) /\ mem' = put[r].new /\ unread' = "none"
             /\ put' = [put EXCEPT ![r].pc = "signal"]
    <3>1. /\ put'[r].pc = "signal" /\ put'[r].new = put[r].new
          /\ put'[r].current = put[r].current /\ applyMu # "nobody"
      BY <1>a, <2>1, <2>3
    <3>2. Written(r)'
      BY <2>1, <2>2, <2>3, <3>1 DEF Written, Applying
    <3>3. CopiesAgree' /\ Fallback'
      BY <2>1, <2>3, <3>1 DEF CopiesAgree, Fallback
    <3>4. "signal" \in Applying
      BY DEF Applying
    <3> QED
      BY <2>1, <2>2, <2>3, <3>2, <3>3, <3>4, HolderStep
  <2>4. CASE UNCHANGED <<conf, mem, lost, unread>> /\ put' = [put EXCEPT ![r].pc = "rollback"]
    <3>1. /\ put'[r].pc = "rollback" /\ put'[r].new = put[r].new
          /\ put'[r].current = put[r].current /\ applyMu # "nobody"
      BY <1>a, <2>1, <2>4
    <3>2. Written(r)'
      BY <2>1, <2>2, <2>4, <3>1 DEF Written, Applying
    <3>3. CopiesAgree' /\ Fallback'
      BY <2>1, <2>4, <3>1 DEF Facts, CopiesAgree, Fallback
    <3>4. "rollback" \in Applying
      BY DEF Applying
    <3> QED
      BY <2>1, <2>2, <2>4, <3>2, <3>3, <3>4, HolderStep
  <2> QED
    BY <1>5, <2>3, <2>4 DEF WriteConf
<1>6. ASSUME NEW r \in Reqs, Rollback(r) PROVE Facts'
  <2>1. /\ put[r].pc = "rollback" /\ put[r].pc \in Applying
        /\ UNCHANGED <<up, mem, conf, lost, stamps>>
    BY <1>6 DEF Rollback, At, Applying
  <2>2. /\ put[r].current = mem /\ mem.stamp < put[r].new.stamp
        /\ json = put[r].new /\ (lost \/ conf = Rendered(mem))
    BY <2>1 DEF Facts, Progress, Written
  <2>3. CASE /\ json' = put[r].current /\ Answer(r, "failed")
             /\ unread' = IF unread = "memory" THEN "json" ELSE unread
    BY <2>1, <2>2, <2>3, RefusedStep
  <2>4. CASE UNCHANGED <<json, unread>> /\ Answer(r, "stranded")
    <3>1. unread # "json"
      <4>1. put[r].new.stamp = stamps /\ stamps \in 1 .. MaxPuts /\ Defaults.stamp = 0
        BY <2>1, OthersWait DEF Defaults
      <4>2. json # Defaults
        BY <2>2, <4>1
      <4> QED
        BY <4>2 DEF Facts, Fallback
    <3>2. Saved(r)
      BY <2>2, <2>4, <3>1 DEF Saved
    <3> QED
      BY <2>1, <2>2, <2>4, <3>2, RefusedStep
  <2> QED
    BY <1>6, <2>3, <2>4 DEF Rollback
<1>7. ASSUME NEW r \in Reqs, Signal(r) PROVE Facts'
  <2>1. /\ put[r].pc = "signal" /\ put[r].pc \in Applying /\ up
        /\ put' = [put EXCEPT ![r].pc = "sync"]
        /\ UNCHANGED <<up, mem, json, conf, lost, unread, stamps, outcome>>
    BY <1>7 DEF Signal, At, Applying, copies
  <2>2. /\ \A q \in Reqs \ {r} : put'[q] = put[q]
        /\ put'[r].pc = "sync" /\ put'[r].new = put[r].new
    BY <1>a, <2>1 DEF Typing, PutType
  <2> QED
    BY <2>1, <2>2, QuietStep
<1>8. ASSUME NEW r \in Reqs, Sync(r) PROVE Facts'
  BY <1>8, SyncFacts
<1>9. CASE Crash
  <2>1. \A q \in Reqs : put'[q].pc = "idle"
    BY <1>9 DEF Crash, Idle
  <2>2. ~up' /\ UNCHANGED <<mem, json, conf, lost, unread, stamps, outcome>>
    BY <1>9 DEF Crash, copies
  <2> QED
    BY <2>1, <2>2, QuietStep
<1>10. CASE Start
  <2>1. PICK loaded \in BOOLEAN :
            /\ mem' = IF loaded THEN json ELSE Defaults
            /\ unread' = IF unread = "json" THEN "json"
                         ELSE IF loaded THEN "none" ELSE "memory"
            /\ lost' \/ conf' = Rendered(mem')
    BY <1>10 DEF Start
  <2>2. UNCHANGED <<json, put, stamps, outcome>> /\ \A q \in Reqs : put[q].pc = "idle"
    BY <1>10 DEF Start, Typing, IdleWhenDown, Idle
  <2>3. Fallback' /\ CopiesAgree'
    BY <2>1, <2>2 DEF Facts, Fallback, CopiesAgree
  <2>4. stamps \in Nat /\ Defaults.stamp = 0
    BY Numbers DEF Defaults
  <2>5. StampOrder' /\ Progress'
    BY <2>1, <2>2, <2>4 DEF Facts, StampOrder, Progress, Written, Stamped, Applying
  <2>6. RefusedNeverActive' /\ ReportedKept'
    BY <2>1, <2>2, <2>4 DEF Facts, RefusedNeverActive, ReportedKept
  <2> QED
    BY <2>3, <2>5, <2>6 DEF Facts
<1>11. CASE OpenvpnStart \/ Watch
  BY <1>11, QuietStep DEF OpenvpnStart, Watch, copies
<1>12. CASE UNCHANGED vars
  BY <1>12, QuietStep DEF vars
<1> QED
  BY <1>1, <1>2, <1>3, <1>4, <1>5, <1>6, <1>7, <1>8, <1>9, <1>10, <1>11, <1>12
     DEF Next, Step

\* It holds in every reachable state.
LEMMA Inductive == Spec => []IInv
<1>1. IInv <=> Typing /\ Facts
  BY DEF IInv, Typing, Facts
<1>2. IInv /\ [Next]_vars => IInv'
  BY <1>1, TypingStep, FactsStep DEF IInv, Typing, Facts
<1> QED
  BY InitIInv, <1>2, PTL DEF Spec

-----------------------------------------------------------------------------
(* What follows *)

\* Only the holder of applyMu is inside apply, and every save gets a stamp of its own,
\* for any number of requests in flight.
THEOREM TypeCorrect == Spec => []TypeOK
BY Inductive, PTL DEF IInv

\* Memory, JSON and server.conf agree whenever no save is under way, whatever write or
\* signal failed and wherever the process crashed (apply, its roll back, the start),
\* except after the failures that the code only logs: a save that could not be taken
\* back, a JSON that the start could not load, a server.conf that it could not write.
THEOREM CopiesInStep == Spec => []CopiesAgree
BY Inductive, PTL DEF IInv

\* A configuration that was refused and taken back is never loaded, not by a restart
\* and not by the roll back of a later save (apply, Load).
THEOREM RefusedIsGone == Spec => []RefusedNeverActive
BY Inductive, PTL DEF IInv

\* A configuration that was reported as saved is only replaced by a later one, in memory
\* and on disk (apply under applyMu).  A start that could not load the JSON takes it
\* from memory, and only the roll back of a save after such a start takes it from disk.
THEOREM ReportedIsKept == Spec => []ReportedNotReverted
<1>1. IInv => ReportedNotReverted
  BY DEF IInv, Typing, TypeOK, Configs, ReportedKept, ReportedNotReverted
<1> QED
  BY <1>1, Inductive, PTL
=============================================================================
