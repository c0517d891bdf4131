------------------------------- MODULE Traffic -------------------------------
(***************************************************************************)
(* Traffic accounting (traffic.go) and the poll that feeds it (setState,   *)
(* app.go).  OpenVPN counts the bytes of each session from zero; a poll    *)
(* reads the counters and adds to the monthly row what they have grown by  *)
(* since the previous poll.  The previous values are kept in memory and,   *)
(* for a restart, in the table session_state.                              *)
(*                                                                         *)
(* The monthly row and session_state are two writes, either of which can   *)
(* fail or be cut off by a crash.  setState is called by a ticker and by   *)
(* handlers; a flag lets one of them through.                              *)
(*                                                                         *)
(* One counter stands for the received and the sent bytes.  The monthly    *)
(* row of a user is the sum over the user's sessions; it is kept here per  *)
(* session, and without the month.                                         *)
(***************************************************************************)
EXTENDS Naturals

CONSTANTS
    Sessions,      \* (user, connected since, real address): sessionID
    Pollers,       \* callers of setState
    MaxBytes,      \* bound on the bytes of a session
    MaxFailures,   \* bound on polls, queries and writes that fail
    MaxCrashes     \* bound on crashes

ASSUME TrafficAssumption == MaxBytes \in Nat /\ MaxFailures \in Nat /\ MaxCrashes \in Nat

VARIABLES
    connected,         \* the sessions that OpenVPN lists
    ended,             \* those it listed before
    bytes,             \* OpenVPN's counter of each session
    traffic_monthly,   \* what was added for each session
    session_state,     \* the counters at the previous poll, in the database
    session,           \* the same in memory
    setStateInFlight,  \* the flag
    poll,              \* the poll of each caller
    failures, crashes,
    torn,              \* history: session_state misses what was added
    dropped            \* history: an addition was lost

vars == <<connected, ended, bytes, traffic_monthly, session_state, session, setStateInFlight,
          poll, failures, crashes, torn, dropped>>
openvpn == <<connected, ended, bytes>>
tables == <<traffic_monthly, session_state>>

Unknown == MaxBytes + 1      \* no previous value
None == [s \in Sessions |-> Unknown]
Idle == [pc |-> "idle", clients |-> {}, counter |-> None, todo |-> {}, now |-> {}]

Init ==
    /\ connected = {} /\ ended = {}
    /\ bytes = [s \in Sessions |-> 0]
    /\ traffic_monthly = [s \in Sessions |-> 0]
    /\ session_state = None /\ session = None
    /\ setStateInFlight = FALSE
    /\ poll = [p \in Pollers |-> Idle]
    /\ failures = 0 /\ crashes = 0
    /\ torn = FALSE /\ dropped = FALSE

Fault == failures < MaxFailures /\ failures' = failures + 1
-----------------------------------------------------------------------------
(* OpenVPN (external) *)

Connect(s) ==
    /\ s \notin connected \cup ended
    /\ connected' = connected \cup {s}
    /\ UNCHANGED <<ended, bytes, tables, session, setStateInFlight, poll, failures, crashes,
                   torn, dropped>>

Transfer(s) ==
    /\ s \in connected /\ bytes[s] < MaxBytes
    /\ bytes' = [bytes EXCEPT ![s] = @ + 1]
    /\ UNCHANGED <<connected, ended, tables, session, setStateInFlight, poll, failures, crashes,
                   torn, dropped>>

Disconnect(s) ==
    /\ s \in connected
    /\ connected' = connected \ {s}
    /\ ended' = ended \cup {s}
    /\ UNCHANGED <<bytes, tables, session, setStateInFlight, poll, failures, crashes, torn,
                   dropped>>
-----------------------------------------------------------------------------
(* setState and update *)

\* Mutant: every caller polls.
SetStateAlways(p) ==
    /\ poll[p].pc = "idle"
    /\ setStateInFlight' = TRUE
    /\ poll' = [poll EXCEPT ![p].pc = "read"]
    /\ UNCHANGED <<openvpn, tables, session, failures, crashes, torn, dropped>>

\* A caller that finds another one under way skips its turn.
SetState(p) ==
    /\ poll[p].pc = "idle"
    /\ ~setStateInFlight
    /\ setStateInFlight' = TRUE
    /\ poll' = [poll EXCEPT ![p].pc = "read"]
    /\ UNCHANGED <<openvpn, tables, session, failures, crashes, torn, dropped>>

ReadClients(p) ==
    /\ poll[p].pc = "read"
    /\ poll' = [poll EXCEPT ![p] = [pc |-> "lock", clients |-> connected, counter |-> bytes,
                                    todo |-> connected, now |-> {}]]
    /\ UNCHANGED <<openvpn, tables, session, setStateInFlight, failures, crashes, torn, dropped>>

\* A management console is out of reach: nothing is applied.
ReadFails(p) ==
    /\ poll[p].pc = "read" /\ Fault
    /\ poll' = [poll EXCEPT ![p] = Idle]
    /\ setStateInFlight' = FALSE
    /\ UNCHANGED <<openvpn, tables, session, crashes, torn, dropped>>

\* update holds mu to its end.
Lock(p) ==
    /\ poll[p].pc = "lock"
    /\ \A o \in Pollers : poll[o].pc \notin {"next", "save"}
    /\ poll' = [poll EXCEPT ![p].pc = "next"]
    /\ UNCHANGED <<openvpn, tables, session, setStateInFlight, failures, crashes, torn, dropped>>

\* Mutant: only the first sight of a session counts.
GrowthOnce(s, counter) == IF session[s] = Unknown THEN counter ELSE 0

Growth(s, counter) ==
    IF session[s] = Unknown THEN counter
    ELSE IF counter > session[s] THEN counter - session[s] ELSE 0

\* The growth is added to the monthly row.
AddMonthly(p, s) ==
    /\ poll[p].pc = "next" /\ s \in poll[p].todo
    /\ \/ /\ traffic_monthly' = [traffic_monthly EXCEPT ![s] = @ + Growth(s, poll[p].counter[s])]
          /\ UNCHANGED <<failures, dropped>>
       \/ Fault /\ dropped' = TRUE /\ UNCHANGED traffic_monthly
    /\ poll' = [poll EXCEPT ![p].pc = "save", ![p].todo = @ \ {s}, ![p].now = {s}]
    /\ UNCHANGED <<openvpn, session_state, session, setStateInFlight, crashes, torn>>

\* The counter becomes the previous one, in memory and in the database.
SaveSession(p) ==
    /\ poll[p].pc = "save"
    /\ \E s \in poll[p].now :
          /\ session' = [session EXCEPT ![s] = poll[p].counter[s]]
          /\ \/ /\ session_state' = [session_state EXCEPT ![s] = poll[p].counter[s]]
                /\ UNCHANGED <<failures, torn>>
             \/ Fault /\ torn' = TRUE /\ UNCHANGED session_state
    /\ poll' = [poll EXCEPT ![p].pc = "next", ![p].now = {}]
    /\ UNCHANGED <<openvpn, traffic_monthly, setStateInFlight, crashes, dropped>>

Kept(p, values) == [s \in Sessions |-> IF s \in poll[p].clients THEN values[s] ELSE Unknown]

\* Mutant: the flag is not cleared.
ForgetHeld(p) ==
    /\ poll[p].pc = "next" /\ poll[p].todo = {}
    /\ session' = Kept(p, session)
    /\ session_state' = Kept(p, session_state)
    /\ poll' = [poll EXCEPT ![p] = Idle]
    /\ UNCHANGED <<openvpn, traffic_monthly, setStateInFlight, failures, crashes, torn, dropped>>

\* Sessions that the poll did not list are forgotten; setState is done.
Forget(p) ==
    /\ poll[p].pc = "next" /\ poll[p].todo = {}
    /\ session' = Kept(p, session)
    /\ \/ session_state' = Kept(p, session_state) /\ UNCHANGED failures
       \/ UNCHANGED session_state /\ Fault
    /\ poll' = [poll EXCEPT ![p] = Idle]
    /\ setStateInFlight' = FALSE
    /\ UNCHANGED <<openvpn, traffic_monthly, crashes, torn, dropped>>

\* The process dies and comes back: loadSessions, after which memory holds what the
\* database held, or nothing when the query fails.
Restart ==
    /\ crashes < MaxCrashes
    /\ crashes' = crashes + 1
    /\ \/ /\ session' = session_state
          /\ torn' = (torn \/ \E p \in Pollers : poll[p].pc = "save")
          /\ UNCHANGED failures
       \/ session' = None /\ torn' = TRUE /\ Fault
    /\ setStateInFlight' = FALSE
    /\ poll' = [p \in Pollers |-> Idle]
    /\ UNCHANGED <<openvpn, tables, dropped>>

Step(p) ==
    \/ ReadClients(p) \/ ReadFails(p) \/ Lock(p) \/ SaveSession(p) \/ Forget(p)
    \/ \E s \in Sessions : AddMonthly(p, s)

Next ==
    \/ \E s \in Sessions : Connect(s) \/ Transfer(s) \/ Disconnect(s)
    \/ \E p \in Pollers : SetState(p) \/ Step(p)
    \/ Restart

Spec == Init /\ [][Next]_vars

\* A poll that has begun comes to its end (the console has a deadline), and the ticker
\* keeps calling setState.
FairSpec ==
    /\ Spec
    /\ \A p \in Pollers : WF_vars(Step(p))
    /\ WF_vars(\E p \in Pollers : SetState(p))
-----------------------------------------------------------------------------
(* The values the variables range over; the flag is set exactly while a poll *)
(* is under way, and one at most is.                                         *)
TypeOK ==
    /\ connected \subseteq Sessions /\ ended \subseteq Sessions \ connected
    /\ bytes \in [Sessions -> 0 .. MaxBytes]
    /\ traffic_monthly \in [Sessions -> Nat]
    /\ {session_state, session} \subseteq [Sessions -> 0 .. Unknown]
    /\ poll \in [Pollers -> [pc : {"idle", "read", "lock", "next", "save"},
                             clients : SUBSET Sessions, todo : SUBSET Sessions,
                             now : SUBSET Sessions, counter : [Sessions -> 0 .. Unknown]]]
    /\ setStateInFlight <=> \E p \in Pollers : poll[p] # Idle
    /\ \A p, o \in Pollers : poll[p] # Idle /\ poll[o] # Idle => p = o
    /\ failures \in 0 .. MaxFailures /\ crashes \in 0 .. MaxCrashes
    /\ torn \in BOOLEAN /\ dropped \in BOOLEAN

(* No byte is counted twice, through reconnects, overlapping calls and       *)
(* restarts, unless session_state missed an addition: by a write or a query  *)
(* that failed, or a crash between the two writes.                           *)
NeverOvercounted == ~torn => \A s \in Sessions : traffic_monthly[s] <= bytes[s]

(* The traffic of a session that stays connected is counted in the end,      *)
(* whatever polls failed and however often the process was restarted, unless *)
(* an addition was lost in a failed write.                                   *)
CountedInTheEnd ==
    <>[](~dropped => \A s \in connected : traffic_monthly[s] >= bytes[s])
=============================================================================
