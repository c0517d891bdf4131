---------------------------- MODULE TrafficProofs ----------------------------
(***************************************************************************)
(* What Traffic proves for every set of sessions and of callers, and for   *)
(* every bound: the flag of setState lets one poll through at a time, and  *)
(* no byte of a session is counted twice.                                  *)
(***************************************************************************)
EXTENDS Traffic, TLAPS

-----------------------------------------------------------------------------
(* The inductive invariant.                                                 *)

Past(p) == poll[p].pc \in {"lock", "next", "save"}     \* the counters were read

\* A poll works through the sessions it read, one at a time.
PollShape ==
    \A p \in Pollers :
        /\ poll[p].now \cap poll[p].todo = {}
        /\ poll[p].now \cup poll[p].todo \subseteq poll[p].clients
        /\ poll[p].clients \subseteq connected \cup ended
        /\ poll[p].pc # "save" => poll[p].now = {}
        /\ ~Past(p) => poll[p].clients = {}
        /\ \A s, t \in poll[p].now : s = t

\* OpenVPN's counters only grow, so that what was read is a lower bound.
Measured == \A p \in Pollers : Past(p) => \A s \in Sessions : poll[p].counter[s] <= bytes[s]

\* A value that is remembered was read from a session that exists, earlier than what
\* the poll under way read; the poll lists the session unless it ended.
Remembered(values) ==
    \A s \in Sessions : values[s] # Unknown =>
        /\ s \in connected \cup ended
        /\ values[s] <= bytes[s]
        /\ \A p \in Pollers : Past(p) =>
               /\ values[s] <= poll[p].counter[s]
               /\ s \in poll[p].clients \cup ended

\* What was added is covered by the value remembered; where none is, nothing was added
\* or the session is over and no poll will come to it.
Covered(values) ==
    \A s \in Sessions : (\A p \in Pollers : s \notin poll[p].now) =>
        IF values[s] = Unknown
        THEN \/ traffic_monthly[s] = 0
             \/ s \in ended /\ \A p \in Pollers : s \notin poll[p].todo
        ELSE traffic_monthly[s] <= values[s]

\* Between the two writes, the counter of the poll covers what was added.
CoveredByPoll ==
    \A p \in Pollers : \A s \in poll[p].now : traffic_monthly[s] <= poll[p].counter[s]

IInv ==
    /\ TypeOK
    /\ PollShape
    /\ Measured
    /\ Remembered(session)
    /\ Remembered(session_state)
    /\ ~torn => /\ Covered(session)
                /\ Covered(session_state)
                /\ CoveredByPoll
    /\ NeverOvercounted
-----------------------------------------------------------------------------
(* Types, and the steps of a poll field by field.                           *)

PollType == [pc : {"idle", "read", "lock", "next", "save"},
             clients : SUBSET Sessions, todo : SUBSET Sessions,
             now : SUBSET Sessions, counter : [Sessions -> 0 .. Unknown]]

\* A caller that is not polling holds a poll of the right type, with nothing in it.
LEMMA IdleTyped ==
    /\ Idle \in PollType /\ Idle.pc = "idle" /\ Idle.clients = {} /\ Idle.todo = {}
    /\ Idle.now = {} /\ Unknown \in Nat /\ None \in [Sessions -> 0 .. Unknown]
    /\ \A s \in Sessions : None[s] = Unknown
  BY TrafficAssumption DEF Idle, PollType, None, Unknown

\* The flag of setState: while one caller polls, every other caller is idle.
LEMMA Alone ==
    ASSUME TypeOK, NEW p \in Pollers, poll[p].pc # "idle"
    PROVE  setStateInFlight /\ \A o \in Pollers \ {p} : poll[o] = Idle
  BY IdleTyped DEF TypeOK

\* What a step does to the polls: p's poll becomes q, the others stay.
Becomes(p, q) ==
    /\ poll' \in [Pollers -> PollType]
    /\ poll'[p] = q
    /\ \A o \in Pollers \ {p} : poll'[o] = poll[o]

\* An assignment to one caller's poll.
LEMMA PollSet ==
    ASSUME TypeOK, NEW p \in Pollers, NEW q \in PollType, poll' = [poll EXCEPT ![p] = q]
    PROVE  Becomes(p, q)
  BY DEF TypeOK, PollType, Becomes

\* The fields of a poll are what TypeOK says of them.
LEMMA PollFields ==
    ASSUME TypeOK, NEW p \in Pollers
    PROVE  /\ poll[p] \in PollType
           /\ poll[p].pc \in {"idle", "read", "lock", "next", "save"}
           /\ poll[p].clients \subseteq Sessions /\ poll[p].todo \subseteq Sessions
           /\ poll[p].now \subseteq Sessions
           /\ poll[p].counter \in [Sessions -> 0 .. Unknown]
           /\ \A s \in Sessions : poll[p].counter[s] \in 0 .. Unknown
  BY DEF TypeOK, PollType

\* setState with the flag down: p begins, nobody else polls.
LEMMA SetStateShape ==
    ASSUME TypeOK, NEW p \in Pollers, SetState(p)
    PROVE  /\ \A o \in Pollers : poll[o] = Idle
           /\ Becomes(p, [Idle EXCEPT !.pc = "read"])
           /\ [Idle EXCEPT !.pc = "read"] # Idle
  <1>1. \A o \in Pollers : poll[o] = Idle
    BY DEF TypeOK, SetState
  <1>2. poll' = [poll EXCEPT ![p] = [Idle EXCEPT !.pc = "read"]]
    BY <1>1 DEF SetState
  <1>3. [Idle EXCEPT !.pc = "read"] \in PollType
    BY IdleTyped DEF PollType
  <1>4. [Idle EXCEPT !.pc = "read"] # Idle
    BY DEF Idle
  <1> QED BY <1>1, <1>2, <1>3, <1>4, PollSet

\* The listing of the clients.
LEMMA ReadShape ==
    ASSUME TypeOK, NEW p \in Pollers, ReadClients(p)
    PROVE  Becomes(p, [pc |-> "lock", clients |-> connected, counter |-> bytes,
                       todo |-> connected, now |-> {}])
  <1> DEFINE q == [pc |-> "lock", clients |-> connected, counter |-> bytes,
                   todo |-> connected, now |-> {}]
  <1>1. bytes \in [Sessions -> 0 .. Unknown]
    BY TrafficAssumption DEF TypeOK, Unknown
  <1>2. q \in PollType
    BY <1>1 DEF TypeOK, PollType
  <1>3. poll' = [poll EXCEPT ![p] = q]
    BY DEF ReadClients
  <1> HIDE DEF q
  <1>4. Becomes(p, q) BY <1>2, <1>3, PollSet
  <1> QED BY <1>4 DEF q

\* mu is taken.
LEMMA LockShape ==
    ASSUME TypeOK, NEW p \in Pollers, Lock(p)
    PROVE  Becomes(p, [poll[p] EXCEPT !.pc = "next"])
  <1>1. [poll[p] EXCEPT !.pc = "next"] \in PollType
    BY PollFields DEF PollType
  <1>2. poll' = [poll EXCEPT ![p] = [poll[p] EXCEPT !.pc = "next"]]
    BY DEF Lock, TypeOK
  <1> QED BY <1>1, <1>2, PollSet

\* One session moves from the list to the one being added.
LEMMA AddShape ==
    ASSUME TypeOK, NEW p \in Pollers, NEW s \in Sessions, AddMonthly(p, s)
    PROVE  Becomes(p, [poll[p] EXCEPT !.pc = "save", !.todo = poll[p].todo \ {s}, !.now = {s}])
  <1> DEFINE q == [poll[p] EXCEPT !.pc = "save", !.todo = poll[p].todo \ {s}, !.now = {s}]
  <1>1. q \in PollType
    BY PollFields DEF PollType
  <1>2. poll' = [poll EXCEPT ![p] = q]
    BY DEF AddMonthly, TypeOK
  <1> HIDE DEF q
  <1>3. Becomes(p, q) BY <1>1, <1>2, PollSet
  <1> QED BY <1>3 DEF q

\* The session is saved; the poll goes on to the next.
LEMMA SaveShape ==
    ASSUME TypeOK, NEW p \in Pollers, SaveSession(p)
    PROVE  Becomes(p, [poll[p] EXCEPT !.pc = "next", !.now = {}])
  <1>1. [poll[p] EXCEPT !.pc = "next", !.now = {}] \in PollType
    BY PollFields DEF PollType
  <1>2. poll' = [poll EXCEPT ![p] = [poll[p] EXCEPT !.pc = "next", !.now = {}]]
    BY DEF SaveSession, TypeOK
  <1> QED BY <1>1, <1>2, PollSet

\* A poll that failed or is done.
LEMMA DoneShape ==
    ASSUME TypeOK, NEW p \in Pollers, ReadFails(p) \/ Forget(p)
    PROVE  Becomes(p, Idle)
  BY IdleTyped, PollSet DEF ReadFails, Forget

\* The values that are kept are values.
LEMMA KeptTyped ==
    ASSUME NEW p \in Pollers, NEW values \in [Sessions -> 0 .. Unknown]
    PROVE  /\ Kept(p, values) \in [Sessions -> 0 .. Unknown]
           /\ \A s \in Sessions :
                 Kept(p, values)[s] = IF s \in poll[p].clients THEN values[s] ELSE Unknown
  BY TrafficAssumption DEF Kept, Unknown

\* The growth of a counter is a number.
LEMMA GrowthNat ==
    ASSUME TypeOK, NEW s \in Sessions, NEW c \in 0 .. Unknown
    PROVE  Growth(s, c) \in Nat
  BY TrafficAssumption DEF TypeOK, Growth, Unknown
-----------------------------------------------------------------------------
(* Type correctness, and the flag.                                          *)

Plain ==
    /\ connected \subseteq Sessions /\ ended \subseteq Sessions \ connected
    /\ bytes \in [Sessions -> 0 .. MaxBytes]
    /\ traffic_monthly \in [Sessions -> Nat]
    /\ session_state \in [Sessions -> 0 .. Unknown] /\ session \in [Sessions -> 0 .. Unknown]
    /\ failures \in 0 .. MaxFailures /\ crashes \in 0 .. MaxCrashes
    /\ torn \in BOOLEAN /\ dropped \in BOOLEAN

Flag ==
    /\ poll \in [Pollers -> PollType]
    /\ setStateInFlight <=> \E p \in Pollers : poll[p] # Idle
    /\ \A p, o \in Pollers : poll[p] # Idle /\ poll[o] # Idle => p = o

\* TypeOK in two parts, in this state ...
LEMMA TypeParts == TypeOK <=> Plain /\ Flag
  BY DEF TypeOK, Plain, Flag, PollType

\* ... and in the next one.
LEMMA TypePartsNext == TypeOK' <=> Plain' /\ Flag'
  BY DEF TypeOK, Plain, Flag, PollType, Idle, None, Unknown

\* A step of the poll that is under way keeps the flag; the last one clears it.
LEMMA FlagStays ==
    ASSUME TypeOK, NEW p \in Pollers, poll[p].pc # "idle", NEW q, q # Idle,
           Becomes(p, q), setStateInFlight' = setStateInFlight
    PROVE  Flag'
  <1>1. setStateInFlight /\ \A o \in Pollers \ {p} : poll[o] = Idle
    BY Alone
  <1>2. \A o \in Pollers \ {p} : poll'[o] = Idle
    BY <1>1 DEF Becomes
  <1>3. poll'[p] # Idle /\ poll' \in [Pollers -> PollType]
    BY DEF Becomes
  <1> QED BY <1>1, <1>2, <1>3 DEF Flag, Idle, None, Unknown, PollType

\* The step that ends the poll clears the flag, and no caller is polling.
LEMMA FlagClears ==
    ASSUME TypeOK, NEW p \in Pollers, poll[p].pc # "idle",
           Becomes(p, Idle), setStateInFlight' = FALSE
    PROVE  Flag'
  <1>1. \A o \in Pollers : poll'[o] = Idle
    BY Alone DEF Becomes
  <1>2. poll' \in [Pollers -> PollType]
    BY DEF Becomes
  <1> QED BY <1>1, <1>2 DEF Flag, Idle, None, Unknown, PollType

\* Every step keeps the types.
LEMMA TypeStep == TypeOK /\ [Next]_vars => TypeOK'
  <1> SUFFICES ASSUME TypeOK, [Next]_vars PROVE Plain' /\ Flag'
    BY TypePartsNext
  <1>0. Plain /\ Flag BY TypeParts
  <1>n. \A c \in 0 .. MaxBytes : c \in 0 .. Unknown
    BY TrafficAssumption DEF Unknown
  <1>1. ASSUME NEW s \in Sessions, Connect(s) \/ Transfer(s) \/ Disconnect(s)
        PROVE  Plain' /\ Flag'
    <2>0. poll' = poll /\ setStateInFlight' = setStateInFlight
      BY <1>1 DEF Connect, Transfer, Disconnect
    <2>1. Flag'
      BY <1>0, <2>0 DEF Flag, Idle, None, Unknown, PollType
    <2>2. CASE Connect(s) BY <1>0, <2>1, <2>2 DEF Plain, Connect, tables, Unknown
    <2>3. CASE Transfer(s)
      BY <1>0, <2>1, <2>3, TrafficAssumption DEF Plain, Transfer, tables, Unknown
    <2>4. CASE Disconnect(s) BY <1>0, <2>1, <2>4 DEF Plain, Disconnect, tables, Unknown
    <2> QED BY <1>1, <2>2, <2>3, <2>4
  <1>2. ASSUME NEW p \in Pollers, SetState(p) PROVE Plain' /\ Flag'
    <2>1. Plain' BY <1>0, <1>2 DEF Plain, SetState, tables, openvpn, Unknown
    <2>2. setStateInFlight' = TRUE BY <1>2 DEF SetState
    <2>3. poll'[p] # Idle /\ \A o \in Pollers \ {p} : poll'[o] = Idle
      BY <1>2, SetStateShape DEF Becomes
    <2>4. poll' \in [Pollers -> PollType]
      BY <1>2, SetStateShape DEF Becomes
    <2>5. Flag' BY <2>2, <2>3, <2>4 DEF Flag, Idle, None, Unknown, PollType
    <2> QED BY <2>1, <2>5
  <1>3. ASSUME NEW p \in Pollers, ReadClients(p) PROVE Plain' /\ Flag'
    <2>1. Plain' BY <1>0, <1>3 DEF Plain, ReadClients, tables, openvpn, Unknown
    <2>2. [pc |-> "lock", clients |-> connected, counter |-> bytes,
           todo |-> connected, now |-> {}] # Idle
      BY DEF Idle
    <2>3. poll[p].pc # "idle" /\ setStateInFlight' = setStateInFlight
      BY <1>3 DEF ReadClients
    <2> QED BY <1>3, <2>1, <2>2, <2>3, ReadShape, FlagStays
  <1>4. ASSUME NEW p \in Pollers, ReadFails(p) PROVE Plain' /\ Flag'
    <2>1. Plain'
      BY <1>0, <1>4, TrafficAssumption DEF Plain, ReadFails, Fault, tables, openvpn, Unknown
    <2>2. poll[p].pc # "idle" /\ setStateInFlight' = FALSE
      BY <1>4 DEF ReadFails
    <2> QED BY <1>4, <2>1, <2>2, DoneShape, FlagClears
  <1>5. ASSUME NEW p \in Pollers, Lock(p) PROVE Plain' /\ Flag'
    <2>1. Plain' BY <1>0, <1>5 DEF Plain, Lock, tables, openvpn, Unknown
    <2>2. [poll[p] EXCEPT !.pc = "next"] # Idle
      BY PollFields DEF Idle, PollType
    <2>3. poll[p].pc # "idle" /\ setStateInFlight' = setStateInFlight
      BY <1>5 DEF Lock
    <2> QED BY <1>5, <2>1, <2>2, <2>3, LockShape, FlagStays
  <1>6. ASSUME NEW p \in Pollers, NEW s \in Sessions, AddMonthly(p, s) PROVE Plain' /\ Flag'
    <2>1. Growth(s, poll[p].counter[s]) \in Nat
      BY GrowthNat, PollFields
    <2>2. traffic_monthly' \in [Sessions -> Nat]
      BY <1>0, <1>6, <2>1 DEF Plain, AddMonthly
    <2>a. failures' \in 0 .. MaxFailures
      BY <1>0, <1>6, TrafficAssumption DEF Plain, AddMonthly, Fault
    <2>b. dropped' \in BOOLEAN
      BY <1>0, <1>6, Zenon DEF Plain, AddMonthly
    <2>3. Plain'
      BY <1>0, <1>6, <2>2, <2>a, <2>b DEF Plain, AddMonthly, openvpn, Unknown
    <2>4. [poll[p] EXCEPT !.pc = "save", !.todo = poll[p].todo \ {s}, !.now = {s}] # Idle
      BY PollFields DEF Idle, PollType
    <2>5. poll[p].pc # "idle" /\ setStateInFlight' = setStateInFlight
      BY <1>6 DEF AddMonthly
    <2> QED BY <1>6, <2>3, <2>4, <2>5, AddShape, FlagStays
  <1>7. ASSUME NEW p \in Pollers, SaveSession(p) PROVE Plain' /\ Flag'
    <2>1. PICK s \in poll[p].now :
            /\ session' = [session EXCEPT ![s] = poll[p].counter[s]]
            /\ \/ /\ session_state' = [session_state EXCEPT ![s] = poll[p].counter[s]]
                  /\ UNCHANGED <<failures, torn>>
               \/ Fault /\ torn' = TRUE /\ UNCHANGED session_state
      BY <1>7 DEF SaveSession
    <2>2. poll[p].counter[s] \in 0 .. Unknown /\ s \in Sessions
      BY <2>1, PollFields
    <2>3. session' \in [Sessions -> 0 .. Unknown] /\ session_state' \in [Sessions -> 0 .. Unknown]
      BY <1>0, <2>1, <2>2 DEF Plain
    <2>4. failures' \in 0 .. MaxFailures
      BY <1>0, <2>1, TrafficAssumption DEF Plain, Fault
    <2>a. torn' \in BOOLEAN
      BY <1>0, <2>1, Zenon DEF Plain
    <2>5. Plain'
      BY <1>0, <1>7, <2>3, <2>4, <2>a DEF Plain, SaveSession, openvpn, Unknown
    <2>6. [poll[p] EXCEPT !.pc = "next", !.now = {}] # Idle
      BY PollFields DEF Idle, PollType
    <2>7. poll[p].pc # "idle" /\ setStateInFlight' = setStateInFlight
      BY <1>7 DEF SaveSession
    <2> QED BY <1>7, <2>5, <2>6, <2>7, SaveShape, FlagStays
  <1>8. ASSUME NEW p \in Pollers, Forget(p) PROVE Plain' /\ Flag'
    <2>1. session' \in [Sessions -> 0 .. Unknown] /\ session_state' \in [Sessions -> 0 .. Unknown]
      BY <1>0, <1>8, KeptTyped DEF Plain, Forget
    <2>2. failures' \in 0 .. MaxFailures
      BY <1>0, <1>8, TrafficAssumption DEF Plain, Forget, Fault
    <2>3. Plain'
      BY <1>0, <1>8, <2>1, <2>2 DEF Plain, Forget, openvpn, Unknown
    <2>4. poll[p].pc # "idle" /\ setStateInFlight' = FALSE
      BY <1>8 DEF Forget
    <2> QED BY <1>8, <2>3, <2>4, DoneShape, FlagClears
  <1>9. CASE Restart
    <2>1. session' \in [Sessions -> 0 .. Unknown]
      BY <1>0, <1>9, IdleTyped DEF Plain, Restart
    <2>2. failures' \in 0 .. MaxFailures /\ crashes' \in 0 .. MaxCrashes
      BY <1>0, <1>9, TrafficAssumption DEF Plain, Restart, Fault
    <2>3. torn' \in BOOLEAN BY <1>9 DEF Restart
    <2>4. Plain'
      BY <1>0, <1>9, <2>1, <2>2, <2>3 DEF Plain, Restart, openvpn, tables, Unknown
    <2>5. poll' \in [Pollers -> PollType] /\ \A p \in Pollers : poll'[p] = Idle
      BY <1>9, IdleTyped DEF Restart
    <2>6. Flag'
      BY <1>9, <2>5 DEF Flag, Restart, Idle, None, Unknown, PollType
    <2> QED BY <2>4, <2>6
  <1>10. CASE UNCHANGED vars
    BY <1>0, <1>10 DEF vars, Plain, Flag, Idle, None, Unknown, PollType
  <1> QED BY <1>1, <1>2, <1>3, <1>4, <1>5, <1>6, <1>7, <1>8, <1>9, <1>10 DEF Next, Step

\* The initial values have their types.
LEMMA TypeCorrectInit == Init => TypeOK
  <1> SUFFICES ASSUME Init PROVE Plain /\ Flag BY TypeParts
  <1>1. Flag BY IdleTyped DEF Init, Flag
  <1>2. session \in [Sessions -> 0 .. Unknown] /\ session_state \in [Sessions -> 0 .. Unknown]
    BY IdleTyped DEF Init
  <1>3. failures \in 0 .. MaxFailures /\ crashes \in 0 .. MaxCrashes
        /\ bytes \in [Sessions -> 0 .. MaxBytes]
    BY TrafficAssumption DEF Init
  <1>4. torn \in BOOLEAN /\ dropped \in BOOLEAN BY DEF Init
  <1>5. traffic_monthly \in [Sessions -> Nat] BY DEF Init
  <1>6. connected \subseteq Sessions /\ ended \subseteq Sessions \ connected BY DEF Init
  <1> QED BY <1>1, <1>2, <1>3, <1>4, <1>5, <1>6 DEF Plain

\* The values the variables range over hold in every behaviour, and the flag lets one
\* caller of setState through at a time (app.go, setStateInFlight).
THEOREM TypeCorrect == Spec => []TypeOK
  BY TypeCorrectInit, TypeStep, PTL DEF Spec
-----------------------------------------------------------------------------
(* The accounting, step by step.                                            *)

\* Steps of OpenVPN: sessions come and go, counters grow, nothing else changes.
LEMMA OpenVPNStep ==
    ASSUME IInv, TypeOK', NEW s \in Sessions, Connect(s) \/ Transfer(s) \/ Disconnect(s)
    PROVE  IInv'
  <1>0. TypeOK BY DEF IInv
  <1>1. /\ poll' = poll /\ session' = session /\ session_state' = session_state
        /\ traffic_monthly' = traffic_monthly /\ torn' = torn
    BY DEF Connect, Transfer, Disconnect, tables
  <1>2. connected \cup ended \subseteq (connected \cup ended)' /\ ended \subseteq ended'
    BY DEF Connect, Transfer, Disconnect
  <1>3. \A t \in Sessions : bytes[t] \in Nat /\ bytes'[t] \in Nat /\ bytes[t] <= bytes'[t]
    BY <1>0 DEF Connect, Transfer, Disconnect, TypeOK
  <1>4. /\ \A t \in Sessions : /\ session[t] \in Nat /\ session_state[t] \in Nat
                              /\ traffic_monthly[t] \in Nat
        /\ \A p \in Pollers, t \in Sessions : poll[p].counter[t] \in Nat
    BY <1>0, PollFields, IdleTyped DEF TypeOK
  <1>5. PollShape' BY <1>1, <1>2 DEF IInv, PollShape, Past
  <1>6. Measured' BY <1>1, <1>3, <1>4 DEF IInv, Measured, Past
  <1>7. Remembered(session)'
    BY <1>1, <1>2, <1>3, <1>4 DEF IInv, Remembered, Past, Unknown
  <1>8. Remembered(session_state)'
    BY <1>1, <1>2, <1>3, <1>4 DEF IInv, Remembered, Past, Unknown
  <1>9. ASSUME ~torn' PROVE Covered(session)' /\ Covered(session_state)' /\ CoveredByPoll'
    BY <1>1, <1>2, <1>9 DEF IInv, Covered, CoveredByPoll, Unknown
  <1>10. NeverOvercounted'
    BY <1>1, <1>3, <1>4 DEF IInv, NeverOvercounted
  <1> QED BY <1>5, <1>6, <1>7, <1>8, <1>9, <1>10 DEF IInv

\* What the poll q read is no older than what is remembered.
Ahead(q) ==
    \A s \in Sessions :
        /\ q.counter[s] <= bytes[s]
        /\ session[s] # Unknown => session[s] <= q.counter[s] /\ s \in q.clients \cup ended
        /\ session_state[s] # Unknown =>
               session_state[s] <= q.counter[s] /\ s \in q.clients \cup ended

\* The tables, the memory and OpenVPN stay as they are, and p's poll becomes q, in which
\* no session is being added: beginning, listing, locking and giving up.
LEMMA QuietStep ==
    ASSUME IInv, TypeOK', NEW p \in Pollers, NEW q, Becomes(p, q),
           \A o \in Pollers \ {p} : poll[o] = Idle,
           poll[p].now = {}, q.now = {}, q.todo \subseteq q.clients,
           q.clients \subseteq connected \cup ended,
           q.todo \subseteq connected \cup poll[p].todo,
           q.pc \in {"lock", "next"} \/ (q.clients = {} /\ q.pc \in {"idle", "read"}),
           q.pc \in {"lock", "next"} => Ahead(q),
           UNCHANGED <<openvpn, tables, session, torn>>
    PROVE  IInv'
  <1>1. poll'[p] = q /\ \A o \in Pollers \ {p} : poll'[o] = Idle
    BY DEF Becomes
  <1>2. UNCHANGED <<connected, ended, bytes, traffic_monthly, session_state, session, torn>>
    BY DEF openvpn, tables
  <1>3. \A o \in Pollers \ {p} : ~Past(o)' /\ poll'[o].clients = {} /\ poll'[o].todo = {}
                              /\ poll'[o].now = {} /\ poll'[o].pc = "idle"
    BY <1>1, IdleTyped DEF Past
  <1>4. Past(p)' <=> q.pc \in {"lock", "next"}
    BY <1>1 DEF Past
  <1>5. \A o \in Pollers : poll[o].now = {} /\ poll'[o].now = {}
    BY <1>1, IdleTyped
  <1>6. PollShape'
    BY <1>1, <1>2, <1>3, <1>4 DEF PollShape
  <1>7. Measured'
    BY <1>1, <1>2, <1>3, <1>4 DEF Measured, Ahead
  <1>8. Remembered(session)'
    BY <1>1, <1>2, <1>3, <1>4 DEF IInv, Remembered, Ahead, Unknown
  <1>9. Remembered(session_state)'
    BY <1>1, <1>2, <1>3, <1>4 DEF IInv, Remembered, Ahead, Unknown
  <1>10. \A s \in ended : (\A o \in Pollers : s \notin poll[o].todo) =>
                          \A o \in Pollers : s \notin poll'[o].todo
    BY <1>1, <1>3 DEF IInv, TypeOK
  <1>11. ASSUME ~torn' PROVE Covered(session)' /\ Covered(session_state)' /\ CoveredByPoll'
    <2>1. Covered(session)'
      BY <1>2, <1>5, <1>10, <1>11 DEF IInv, Covered, Unknown
    <2>2. Covered(session_state)'
      BY <1>2, <1>5, <1>10, <1>11 DEF IInv, Covered, Unknown
    <2>3. CoveredByPoll' BY <1>5 DEF CoveredByPoll
    <2> QED BY <2>1, <2>2, <2>3
  <1>12. NeverOvercounted' BY <1>2 DEF IInv, NeverOvercounted
  <1> QED BY <1>6, <1>7, <1>8, <1>9, <1>11, <1>12 DEF IInv

\* A poll begins.
LEMMA SetStateStep == ASSUME IInv, TypeOK', NEW p \in Pollers, SetState(p) PROVE IInv'
  <1> DEFINE q == [Idle EXCEPT !.pc = "read"]
  <1>0. TypeOK BY DEF IInv
  <1>1. (\A o \in Pollers : poll[o] = Idle) /\ Becomes(p, q)
    BY <1>0, SetStateShape
  <1>2. q.now = {} /\ q.todo = {} /\ q.clients = {} /\ q.pc = "read"
    BY DEF Idle
  <1>3. UNCHANGED <<openvpn, tables, session, torn>> BY DEF SetState
  <1>4. poll[p].now = {} BY <1>1, IdleTyped
  <1> HIDE DEF q
  <1> QED BY <1>1, <1>2, <1>3, <1>4, QuietStep

\* The counters are read: they are what OpenVPN has now, and nothing newer is remembered.
LEMMA ReadStep == ASSUME IInv, TypeOK', NEW p \in Pollers, ReadClients(p) PROVE IInv'
  <1> DEFINE q == [pc |-> "lock", clients |-> connected, counter |-> bytes,
                   todo |-> connected, now |-> {}]
  <1>0. TypeOK /\ poll[p].pc = "read" BY DEF IInv, ReadClients
  <1>1. (\A o \in Pollers \ {p} : poll[o] = Idle) /\ Becomes(p, q)
    BY <1>0, Alone, ReadShape
  <1>2. q.now = {} /\ q.todo = connected /\ q.clients = connected /\ q.pc = "lock"
        /\ q.counter = bytes
    OBVIOUS
  <1>3. UNCHANGED <<openvpn, tables, session, torn>> BY DEF ReadClients
  <1>4. poll[p].now = {} BY <1>0 DEF IInv, PollShape
  <1>5. \A s \in Sessions :
            /\ bytes[s] <= bytes[s]
            /\ session[s] # Unknown => session[s] <= bytes[s] /\ s \in connected \cup ended
            /\ session_state[s] # Unknown =>
                   session_state[s] <= bytes[s] /\ s \in connected \cup ended
    BY <1>0 DEF IInv, Remembered, TypeOK
  <1> HIDE DEF q
  <1>6. Ahead(q) BY <1>2, <1>5 DEF Ahead
  <1>7. /\ q.now = {} /\ q.todo \subseteq q.clients /\ q.clients \subseteq connected \cup ended
        /\ q.todo \subseteq connected \cup poll[p].todo
        /\ q.pc \in {"lock", "next"}
    BY <1>2, <1>4
  <1> QED BY <1>1, <1>3, <1>4, <1>6, <1>7, QuietStep

\* The lock of update is taken.
LEMMA LockStep == ASSUME IInv, TypeOK', NEW p \in Pollers, Lock(p) PROVE IInv'
  <1> DEFINE q == [poll[p] EXCEPT !.pc = "next"]
  <1>0. TypeOK /\ poll[p].pc = "lock" BY DEF IInv, Lock
  <1>1. (\A o \in Pollers \ {p} : poll[o] = Idle) /\ Becomes(p, q)
    BY <1>0, Alone, LockShape
  <1>2. /\ q.now = poll[p].now /\ q.todo = poll[p].todo /\ q.clients = poll[p].clients
        /\ q.pc = "next" /\ q.counter = poll[p].counter
    BY <1>0, PollFields DEF PollType
  <1>3. UNCHANGED <<openvpn, tables, session, torn>> BY DEF Lock
  <1>4. /\ poll[p].now = {} /\ poll[p].todo \subseteq poll[p].clients
        /\ poll[p].clients \subseteq connected \cup ended
    BY <1>0 DEF IInv, PollShape
  <1>5. \A s \in Sessions :
            /\ poll[p].counter[s] <= bytes[s]
            /\ session[s] # Unknown =>
                   session[s] <= poll[p].counter[s] /\ s \in poll[p].clients \cup ended
            /\ session_state[s] # Unknown =>
                   session_state[s] <= poll[p].counter[s] /\ s \in poll[p].clients \cup ended
    BY <1>0 DEF IInv, Remembered, Measured, Past
  <1> HIDE DEF q
  <1>6. Ahead(q) BY <1>2, <1>5 DEF Ahead
  <1>7. /\ q.now = {} /\ q.todo \subseteq q.clients /\ q.clients \subseteq connected \cup ended
        /\ q.todo \subseteq connected \cup poll[p].todo
        /\ q.pc \in {"lock", "next"}
    BY <1>2, <1>4
  <1> QED BY <1>1, <1>3, <1>4, <1>6, <1>7, QuietStep

\* A console that cannot be read ends the poll.
LEMMA ReadFailsStep == ASSUME IInv, TypeOK', NEW p \in Pollers, ReadFails(p) PROVE IInv'
  <1>0. TypeOK /\ poll[p].pc = "read" BY DEF IInv, ReadFails
  <1>1. (\A o \in Pollers \ {p} : poll[o] = Idle) /\ Becomes(p, Idle)
    BY <1>0, Alone, DoneShape
  <1>2. UNCHANGED <<openvpn, tables, session, torn>> BY DEF ReadFails
  <1>3. poll[p].now = {} BY <1>0 DEF IInv, PollShape
  <1> QED BY <1>1, <1>2, <1>3, IdleTyped, QuietStep

\* The growth is added to the monthly row: the counter covers the new sum, because what
\* is remembered covered the old one and is no larger than the counter.
LEMMA AddStep ==
    ASSUME IInv, TypeOK', NEW p \in Pollers, NEW s \in Sessions, AddMonthly(p, s)
    PROVE  IInv'
  <1> DEFINE q == [poll[p] EXCEPT !.pc = "save", !.todo = poll[p].todo \ {s}, !.now = {s}]
             c == poll[p].counter[s]
  <1>0. TypeOK /\ poll[p].pc = "next" /\ s \in poll[p].todo BY DEF IInv, AddMonthly
  <1>1. (\A o \in Pollers \ {p} : poll[o] = Idle) /\ Becomes(p, q)
    BY <1>0, Alone, AddShape
  <1>2. /\ q.now = {s} /\ q.todo = poll[p].todo \ {s} /\ q.clients = poll[p].clients
        /\ q.pc = "save" /\ q.counter = poll[p].counter
    BY <1>0, PollFields DEF PollType
  <1> HIDE DEF q
  <1>3. UNCHANGED <<connected, ended, bytes, session_state, session, torn>>
    BY DEF AddMonthly, openvpn
  <1>4. /\ poll'[p] = q
        /\ \A o \in Pollers \ {p} : ~Past(o)' /\ poll'[o].clients = {} /\ poll'[o].todo = {}
                              /\ poll'[o].now = {} /\ poll'[o].pc = "idle"
    BY <1>1, IdleTyped DEF Past, Becomes
  <1>5. Past(p) /\ Past(p)' BY <1>0, <1>2, <1>4 DEF Past
  <1>6. PollShape'
    BY <1>0, <1>2, <1>3, <1>4, <1>5 DEF IInv, PollShape
  <1>7. Measured'
    BY <1>2, <1>3, <1>4, <1>5 DEF IInv, Measured
  <1>8. Remembered(session)' /\ Remembered(session_state)'
    BY <1>2, <1>3, <1>4, <1>5 DEF IInv, Remembered, Unknown
  <1>9. \A o \in Pollers : poll[o].now = {}
    BY <1>0, <1>1, IdleTyped DEF IInv, PollShape
  <1>10. \A t \in Sessions \ {s} : traffic_monthly'[t] = traffic_monthly[t]
    BY <1>0 DEF AddMonthly, TypeOK
  <1>11. \A o \in Pollers : poll'[o].todo \subseteq poll[o].todo
    BY <1>2, <1>4
  <1>12. \A t \in Sessions \ {s} : \A o \in Pollers : t \notin poll'[o].now
    BY <1>2, <1>4
  <1>13. s \in poll'[p].now BY <1>2, <1>4
  <1>14. ASSUME ~torn' PROVE traffic_monthly'[s] <= c
    <2>1. /\ session[s] \in Nat /\ c \in Nat /\ traffic_monthly[s] \in Nat
          /\ traffic_monthly \in [Sessions -> Nat]
      BY <1>0, PollFields, IdleTyped DEF TypeOK
    <2>2. session[s] = Unknown => traffic_monthly[s] = 0
      BY <1>0, <1>3, <1>9, <1>14 DEF IInv, Covered
    <2>3. session[s] # Unknown => traffic_monthly[s] <= session[s] /\ session[s] <= c
      BY <1>3, <1>5, <1>9, <1>14 DEF IInv, Covered, Remembered
    <2>4. CASE traffic_monthly' = [traffic_monthly EXCEPT ![s] = @ + Growth(s, c)]
      <3>1. traffic_monthly'[s] = traffic_monthly[s] + Growth(s, c)
        BY <2>1, <2>4
      <3> HIDE DEF c
      <3>2. CASE session[s] = Unknown
        BY <2>1, <2>2, <3>1, <3>2 DEF Growth
      <3>3. CASE session[s] # Unknown
        BY <2>1, <2>3, <3>1, <3>3 DEF Growth
      <3> QED BY <3>2, <3>3
    <2>5. CASE traffic_monthly' = traffic_monthly
      <3> HIDE DEF c
      <3> QED BY <2>1, <2>2, <2>3, <2>5
    <2> QED BY <2>4, <2>5 DEF AddMonthly
  <1>15. ASSUME ~torn' PROVE Covered(session)' /\ Covered(session_state)' /\ CoveredByPoll'
    <2>1. Covered(session)'
      BY <1>3, <1>9, <1>10, <1>11, <1>12, <1>13, <1>15 DEF IInv, Covered, Unknown
    <2>2. Covered(session_state)'
      BY <1>3, <1>9, <1>10, <1>11, <1>12, <1>13, <1>15 DEF IInv, Covered, Unknown
    <2>3. CoveredByPoll'
      BY <1>2, <1>4, <1>14, <1>15 DEF CoveredByPoll
    <2> QED BY <2>1, <2>2, <2>3
  <1>16. NeverOvercounted'
    <2> SUFFICES ASSUME ~torn', NEW t \in Sessions PROVE traffic_monthly'[t] <= bytes'[t]
      BY DEF NeverOvercounted
    <2>1. CASE t # s
      BY <1>3, <1>10, <2>1 DEF IInv, NeverOvercounted
    <2>2. CASE t = s
      <3>1. traffic_monthly'[s] \in Nat /\ c \in Nat /\ bytes[s] \in Nat
        BY <1>0, PollFields, IdleTyped DEF TypeOK
      <3>2. c <= bytes[s] BY <1>5 DEF IInv, Measured
      <3> HIDE DEF c
      <3> QED BY <1>3, <1>14, <2>2, <3>1, <3>2
    <2> QED BY <2>1, <2>2
  <1> QED BY <1>6, <1>7, <1>8, <1>15, <1>16 DEF IInv

\* The counter becomes the value remembered, which covers what was added.
LEMMA SaveStep == ASSUME IInv, TypeOK', NEW p \in Pollers, SaveSession(p) PROVE IInv'
  <1> DEFINE q == [poll[p] EXCEPT !.pc = "next", !.now = {}]
  <1>0. TypeOK /\ poll[p].pc = "save" BY DEF IInv, SaveSession
  <1>1. (\A o \in Pollers \ {p} : poll[o] = Idle) /\ Becomes(p, q)
    BY <1>0, Alone, SaveShape
  <1>2. /\ q.now = {} /\ q.todo = poll[p].todo /\ q.clients = poll[p].clients
        /\ q.pc = "next" /\ q.counter = poll[p].counter
    BY <1>0, PollFields DEF PollType
  <1> HIDE DEF q
  <1>3. UNCHANGED <<connected, ended, bytes, traffic_monthly>>
    BY DEF SaveSession, openvpn
  <1>4. /\ poll'[p] = q
        /\ \A o \in Pollers \ {p} : ~Past(o)' /\ poll'[o].clients = {} /\ poll'[o].todo = {}
                              /\ poll'[o].now = {} /\ poll'[o].pc = "idle"
    BY <1>1, IdleTyped DEF Past, Becomes
  <1>5. Past(p) /\ Past(p)' BY <1>0, <1>2, <1>4 DEF Past
  <1>6. PICK s \in poll[p].now :
            /\ session' = [session EXCEPT ![s] = poll[p].counter[s]]
            /\ \/ /\ session_state' = [session_state EXCEPT ![s] = poll[p].counter[s]]
                  /\ torn' = torn
               \/ torn' = TRUE /\ session_state' = session_state
    BY DEF SaveSession
  <1>7. s \in Sessions /\ s \in connected \cup ended /\ poll[p].now = {s}
        /\ s \in poll[p].clients
    BY <1>0, <1>6, PollFields DEF IInv, PollShape
  <1>8. /\ session'[s] = poll[p].counter[s]
        /\ \A t \in Sessions \ {s} : session'[t] = session[t]
    BY <1>0, <1>6, <1>7 DEF TypeOK
  <1>9. /\ session_state'[s] = session_state[s] \/ session_state'[s] = poll[p].counter[s]
        /\ \A t \in Sessions \ {s} : session_state'[t] = session_state[t]
    BY <1>0, <1>6, <1>7 DEF TypeOK
  <1>10. \A t \in Sessions : poll[p].counter[t] \in Nat /\ poll[p].counter[t] <= bytes[t]
                            /\ poll[p].counter[t] <= poll[p].counter[t]
    BY <1>0, <1>5, PollFields, IdleTyped DEF IInv, Measured
  <1>11. PollShape'
    BY <1>0, <1>2, <1>3, <1>4, <1>5 DEF IInv, PollShape
  <1>12. Measured'
    BY <1>2, <1>3, <1>4, <1>5 DEF IInv, Measured
  <1>13. Remembered(session)'
    <2> SUFFICES ASSUME NEW t \in Sessions, session'[t] # Unknown
                 PROVE  /\ t \in connected \cup ended
                        /\ session'[t] <= bytes[t]
                        /\ session'[t] <= poll[p].counter[t]
                        /\ t \in poll[p].clients \cup ended
      BY <1>2, <1>3, <1>4 DEF Remembered, Unknown
    <2>1. CASE t = s BY <1>7, <1>8, <1>10, <2>1
    <2>2. CASE t # s BY <1>5, <1>8, <2>2 DEF IInv, Remembered
    <2> QED BY <2>1, <2>2
  <1>14. Remembered(session_state)'
    <2> SUFFICES ASSUME NEW t \in Sessions, session_state'[t] # Unknown
                 PROVE  /\ t \in connected \cup ended
                        /\ session_state'[t] <= bytes[t]
                        /\ session_state'[t] <= poll[p].counter[t]
                        /\ t \in poll[p].clients \cup ended
      BY <1>2, <1>3, <1>4 DEF Remembered, Unknown
    <2>1. CASE t = s /\ session_state'[t] = poll[p].counter[t]
      BY <1>7, <1>10, <2>1
    <2>2. CASE session_state'[t] = session_state[t]
      BY <1>5, <2>2 DEF IInv, Remembered
    <2> QED BY <1>9, <2>1, <2>2
  <1>15. \A o \in Pollers : poll'[o].now = {} /\ poll'[o].todo = poll[o].todo
    BY <1>1, <1>2, <1>4, IdleTyped
  <1>16. \A t \in Sessions \ {s} : \A o \in Pollers : t \notin poll[o].now
    BY <1>1, <1>7, IdleTyped
  <1>17. ASSUME ~torn' PROVE Covered(session)' /\ Covered(session_state)' /\ CoveredByPoll'
    <2>1. ~torn /\ session_state'[s] = poll[p].counter[s]
      BY <1>0, <1>6, <1>7, <1>17 DEF TypeOK
    <2>2. traffic_monthly[s] <= poll[p].counter[s]
      BY <1>7, <2>1 DEF IInv, CoveredByPoll
    <2>3. poll[p].counter[s] # Unknown
      <3>1. poll[p].counter[s] <= MaxBytes /\ MaxBytes \in Nat
        BY <1>0, <1>7, <1>10, TrafficAssumption DEF TypeOK
      <3> QED BY <1>7, <1>10, <3>1 DEF Unknown
    <2>4. Covered(session)'
      BY <1>3, <1>8, <1>15, <1>16, <2>1, <2>2, <2>3 DEF IInv, Covered, Unknown
    <2>5. Covered(session_state)'
      BY <1>3, <1>9, <1>15, <1>16, <2>1, <2>2, <2>3 DEF IInv, Covered, Unknown
    <2>6. CoveredByPoll' BY <1>15 DEF CoveredByPoll
    <2> QED BY <2>4, <2>5, <2>6
  <1>18. torn => torn' BY <1>6
  <1>19. NeverOvercounted' BY <1>3, <1>18 DEF IInv, NeverOvercounted
  <1> QED BY <1>11, <1>12, <1>13, <1>14, <1>17, <1>19 DEF IInv

\* A session that the poll did not list and that was remembered is over: forgetting it
\* cannot make its bytes count again.
LEMMA ForgetStep == ASSUME IInv, TypeOK', NEW p \in Pollers, Forget(p) PROVE IInv'
  <1>0. TypeOK /\ poll[p].pc = "next" /\ poll[p].todo = {} BY DEF IInv, Forget
  <1>1. (\A o \in Pollers \ {p} : poll[o] = Idle) /\ Becomes(p, Idle)
    BY <1>0, Alone, DoneShape
  <1>2. UNCHANGED <<connected, ended, bytes, traffic_monthly, torn>>
    BY DEF Forget, openvpn
  <1>3. \A o \in Pollers : /\ ~Past(o)' /\ poll'[o].clients = {} /\ poll'[o].todo = {}
                          /\ poll'[o].now = {} /\ poll'[o].pc = "idle"
    BY <1>1, IdleTyped DEF Past, Becomes
  <1>4. Past(p) BY <1>0 DEF Past
  <1>5. \A o \in Pollers : poll[o].now = {} /\ poll[o].todo = {}
    BY <1>0, <1>1, IdleTyped DEF IInv, PollShape
  <1>6. PollShape' BY <1>3 DEF PollShape
  <1>7. Measured' BY <1>3 DEF Measured
  <1>8. \A t \in Sessions :
            \/ session'[t] = session[t]
            \/ session'[t] = Unknown /\ t \notin poll[p].clients
    BY <1>0, KeptTyped DEF Forget, TypeOK
  <1>9. \A t \in Sessions :
            \/ session_state'[t] = session_state[t]
            \/ session_state'[t] = Unknown /\ t \notin poll[p].clients
    BY <1>0, KeptTyped DEF Forget, TypeOK
  <1>10. Remembered(session)'
    BY <1>2, <1>3, <1>8 DEF IInv, Remembered, Unknown
  <1>11. Remembered(session_state)'
    BY <1>2, <1>3, <1>9 DEF IInv, Remembered, Unknown
  <1>12. ASSUME ~torn' PROVE Covered(session)' /\ Covered(session_state)' /\ CoveredByPoll'
    <2>1. Covered(session)'
      <3> SUFFICES ASSUME NEW t \in Sessions
                   PROVE  IF session'[t] = Unknown THEN traffic_monthly[t] = 0 \/ t \in ended
                          ELSE traffic_monthly[t] <= session'[t]
        BY <1>2, <1>3 DEF Covered, Unknown
      <3>1. CASE session'[t] = session[t]
        BY <1>2, <1>5, <1>12, <3>1 DEF IInv, Covered
      <3>2. CASE session'[t] = Unknown /\ session[t] # Unknown /\ t \notin poll[p].clients
        BY <1>4, <3>2 DEF IInv, Remembered
      <3> QED BY <1>8, <3>1, <3>2
    <2>2. Covered(session_state)'
      <3> SUFFICES ASSUME NEW t \in Sessions
                   PROVE  IF session_state'[t] = Unknown
                          THEN traffic_monthly[t] = 0 \/ t \in ended
                          ELSE traffic_monthly[t] <= session_state'[t]
        BY <1>2, <1>3 DEF Covered, Unknown
      <3>1. CASE session_state'[t] = session_state[t]
        BY <1>2, <1>5, <1>12, <3>1 DEF IInv, Covered
      <3>2. CASE session_state'[t] = Unknown /\ session_state[t] # Unknown
                 /\ t \notin poll[p].clients
        BY <1>4, <3>2 DEF IInv, Remembered
      <3> QED BY <1>9, <3>1, <3>2
    <2>3. CoveredByPoll' BY <1>3 DEF CoveredByPoll
    <2> QED BY <2>1, <2>2, <2>3
  <1>13. NeverOvercounted' BY <1>2 DEF IInv, NeverOvercounted
  <1> QED BY <1>6, <1>7, <1>10, <1>11, <1>12, <1>13 DEF IInv

\* After a restart memory is what the table held, which covers what was added unless
\* the restart fell between the two writes or the query failed.
LEMMA RestartStep == ASSUME IInv, TypeOK', Restart PROVE IInv'
  <1>0. TypeOK BY DEF IInv
  <1>1. UNCHANGED <<connected, ended, bytes, traffic_monthly, session_state>>
    BY DEF Restart, openvpn, tables
  <1>2. \A o \in Pollers : /\ ~Past(o)' /\ poll'[o].clients = {} /\ poll'[o].todo = {}
                          /\ poll'[o].now = {} /\ poll'[o].pc = "idle"
    BY IdleTyped DEF Past, Restart
  <1>3. PollShape' /\ Measured' BY <1>2 DEF PollShape, Measured
  <1>4. \A t \in Sessions : session'[t] = session_state[t] \/ session'[t] = Unknown
    BY IdleTyped DEF Restart
  <1>5. Remembered(session)'
    BY <1>1, <1>2, <1>4 DEF IInv, Remembered, Unknown
  <1>6. Remembered(session_state)'
    BY <1>1, <1>2 DEF IInv, Remembered, Unknown
  <1>7. ASSUME ~torn'
        PROVE  ~torn /\ session' = session_state /\ \A p \in Pollers : poll[p].pc # "save"
    BY <1>7 DEF Restart
  <1>8. ASSUME ~torn' PROVE Covered(session)' /\ Covered(session_state)' /\ CoveredByPoll'
    <2>1. \A o \in Pollers : poll[o].now = {}
      BY <1>7, <1>8 DEF IInv, PollShape
    <2>2. Covered(session_state)'
      BY <1>1, <1>2, <1>7, <1>8, <2>1 DEF IInv, Covered, Unknown
    <2>3. Covered(session)'
      BY <1>1, <1>2, <1>7, <1>8, <2>1 DEF IInv, Covered, Unknown
    <2>4. CoveredByPoll' BY <1>2 DEF CoveredByPoll
    <2> QED BY <2>2, <2>3, <2>4
  <1>9. NeverOvercounted' BY <1>1, <1>7 DEF IInv, NeverOvercounted
  <1> QED BY <1>3, <1>5, <1>6, <1>8, <1>9 DEF IInv
-----------------------------------------------------------------------------
\* Every step keeps the invariant.
LEMMA Inductive == IInv /\ [Next]_vars => IInv'
  <1> SUFFICES ASSUME IInv, [Next]_vars PROVE IInv'
    OBVIOUS
  <1>0. TypeOK' BY TypeStep DEF IInv
  <1>1. ASSUME NEW s \in Sessions, Connect(s) \/ Transfer(s) \/ Disconnect(s) PROVE IInv'
    BY <1>0, <1>1, OpenVPNStep
  <1>2. ASSUME NEW p \in Pollers, SetState(p) PROVE IInv' BY <1>0, <1>2, SetStateStep
  <1>3. ASSUME NEW p \in Pollers, ReadClients(p) PROVE IInv' BY <1>0, <1>3, ReadStep
  <1>4. ASSUME NEW p \in Pollers, ReadFails(p) PROVE IInv' BY <1>0, <1>4, ReadFailsStep
  <1>5. ASSUME NEW p \in Pollers, Lock(p) PROVE IInv' BY <1>0, <1>5, LockStep
  <1>6. ASSUME NEW p \in Pollers, NEW s \in Sessions, AddMonthly(p, s) PROVE IInv'
    BY <1>0, <1>6, AddStep
  <1>7. ASSUME NEW p \in Pollers, SaveSession(p) PROVE IInv' BY <1>0, <1>7, SaveStep
  <1>8. ASSUME NEW p \in Pollers, Forget(p) PROVE IInv' BY <1>0, <1>8, ForgetStep
  <1>9. CASE Restart BY <1>0, <1>9, RestartStep
  <1>10. CASE UNCHANGED vars
    BY <1>10, <1>0 DEF vars, IInv, PollShape, Measured, Remembered, Covered, CoveredByPoll,
                       NeverOvercounted, Past, Unknown
  <1> QED BY <1>1, <1>2, <1>3, <1>4, <1>5, <1>6, <1>7, <1>8, <1>9, <1>10 DEF Next, Step

\* Nothing is connected, added or remembered at first.
LEMMA Initially == Init => IInv
  <1> SUFFICES ASSUME Init PROVE IInv
    OBVIOUS
  <1>1. TypeOK
    BY TypeCorrectInit
  <1> QED
    BY <1>1, IdleTyped DEF Init, IInv, PollShape, Measured, Remembered, Covered, CoveredByPoll,
                      NeverOvercounted, Past

\* No byte is counted twice (traffic.go, update), for every number of sessions, callers,
\* bytes, failing steps and restarts.
THEOREM CountedAtMostOnce == Spec => []NeverOvercounted
  <1>1. IInv => NeverOvercounted BY DEF IInv
  <1> QED BY <1>1, Initially, Inductive, PTL DEF Spec
=============================================================================
