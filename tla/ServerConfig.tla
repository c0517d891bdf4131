---------------------------- MODULE ServerConfig ----------------------------
(***************************************************************************)
(* The server configuration editor (server_config.go).  The configuration  *)
(* has three copies: the store in memory, the JSON on disk, and the        *)
(* server.conf that is rendered from it; OpenVPN runs in a container of    *)
(* its own on whatever server.conf held when it started or was last told   *)
(* to read it again.                                                       *)
(*                                                                         *)
(* serverConfigHandler reads the switch of the client authentication loop, *)
(* then apply() runs under applyMu: it compares, persists the JSON, writes *)
(* server.conf, publishes the new configuration and signals OpenVPN;       *)
(* after it the handler starts or stops the loop.  Every one of these      *)
(* steps can fail, and the process can crash between any two.  A start     *)
(* that cannot load the JSON goes on with the defaults.                    *)
(*                                                                         *)
(* A configuration is reduced to one field of each category of             *)
(* categorizeChanges: hard (with a value that passes the validator but     *)
(* that OpenVPN does not start with), soft, metadata that is not rendered, *)
(* and the loop's switch, which is hard too.  Every saved configuration    *)
(* carries the number of its request (the code: UpdatedAt, UpdatedBy).     *)
(***************************************************************************)
EXTENDS Naturals

CONSTANTS
    Reqs,          \* requests that can be in flight at the same time
    MaxPuts,       \* bound on the requests
    MaxFailures,   \* bound on writes, signals and starts that fail
    MaxCrashes     \* bound on crashes

ASSUME ServerConfigAssumption ==
    /\ MaxPuts \in Nat /\ MaxFailures \in Nat /\ MaxCrashes \in Nat
    /\ "nobody" \notin Reqs

VARIABLES
    up,            \* the process is running
    mem,           \* serverConfigStore.cfg
    json,          \* _server_config.json
    conf,          \* server.conf
    lost,          \* server.conf could not be written at the last start
    unread,        \* history: which copies hold the defaults in the place of what
                   \* was saved, since a start could not load the JSON
    run,           \* what OpenVPN runs on, or Down
    sum,           \* the server.conf whose checksum the container remembers
    loop,          \* the client authentication loop is on
    applyMu,       \* the request in apply(), or "nobody"
    put,           \* the requests in flight
    puts,          \* how many requests were made
    stamps,        \* how many of them apply() began to save
    outcome,       \* history: what was answered for each of them
    failures, crashes

vars == <<up, mem, json, conf, lost, unread, run, sum, loop, applyMu, put, puts, stamps, outcome,
          failures, crashes>>
copies == <<mem, json, conf, lost, unread>>
openvpn == <<run, sum>>
faults == <<failures, crashes>>

Fields == [hard : {"a", "bad"}, soft : {"a", "b"}, meta : {"a", "b"},
           mgmtClientAuth : BOOLEAN]
Default == [hard |-> "a", soft |-> "a", meta |-> "a", mgmtClientAuth |-> FALSE]
Configs == [fields : Fields, stamp : 0 .. MaxPuts]
Defaults == [fields |-> Default, stamp |-> 0]          \* defaultServerConfig
Confs == [hard : {"a", "bad"}, soft : {"a", "b"}, mgmtClientAuth : BOOLEAN]
Down == [down |-> TRUE]

\* renderServerConfig
Rendered(c) == [hard |-> c.fields.hard, soft |-> c.fields.soft,
                mgmtClientAuth |-> c.fields.mgmtClientAuth]
Startable(f) == f.hard # "bad"

categorizeChanges(old, new) ==
    IF old.hard # new.hard \/ old.mgmtClientAuth # new.mgmtClientAuth THEN "hard"
    ELSE IF old.soft # new.soft THEN "soft" ELSE "none"

Idle == [pc |-> "idle"]

Init ==
    /\ up = TRUE
    /\ mem = Defaults
    /\ json = mem
    /\ conf = Rendered(mem)
    /\ lost = FALSE
    /\ unread = "none"
    /\ run = conf
    /\ sum = conf
    /\ loop = FALSE
    /\ applyMu = "nobody"
    /\ put = [r \in Reqs |-> Idle]
    /\ puts = 0 /\ stamps = 0
    /\ outcome = [s \in 1 .. MaxPuts |-> "open"]
    /\ failures = 0 /\ crashes = 0

Fail == failures < MaxFailures /\ failures' = failures + 1 /\ UNCHANGED crashes
At(r, l) == up /\ put[r].pc = l

Answer(r, what) ==
    /\ outcome' = [outcome EXCEPT ![put[r].new.stamp] = what]
    /\ applyMu' = "nobody"
    /\ put' = [put EXCEPT ![r] = Idle]
-----------------------------------------------------------------------------
\* serverConfigHandler: the new configuration is decoded and the switch is read.
PutBegin(r, f) ==
    /\ At(r, "idle")
    /\ puts < MaxPuts
    /\ puts' = puts + 1
    /\ put' = [put EXCEPT ![r] = [pc |-> "lock", fields |-> f,
                                  pre |-> mem]]
    /\ UNCHANGED <<up, copies, openvpn, loop, applyMu, stamps, outcome, faults>>

\* Mutant: apply works on the copy that was read before the lock.
CurrentEarly(r) == put[r].pre
Current(r) == mem

\* apply: the lock is taken and the change is compared with what is in memory.
\* A save that changes nothing leaves apply at once.
ApplyLock(r) ==
    /\ At(r, "lock") /\ applyMu = "nobody"
    /\ IF Current(r).fields = put[r].fields
       THEN /\ put' = [put EXCEPT ![r] =
                   [pc |-> "sync", pre |-> put[r].pre.fields.mgmtClientAuth,
                    new |-> [fields |-> put[r].fields, stamp |-> 0]]]
            /\ UNCHANGED <<applyMu, stamps>>
       ELSE /\ stamps' = stamps + 1
            /\ applyMu' = r
            /\ put' = [put EXCEPT ![r] =
                   [pc |-> "persist", pre |-> put[r].pre.fields.mgmtClientAuth,
                    current |-> Current(r),
                    new |-> [fields |-> put[r].fields, stamp |-> stamps + 1],
                    kind |-> categorizeChanges(Current(r).fields, put[r].fields)]]
    /\ UNCHANGED <<up, copies, openvpn, loop, puts, outcome, faults>>

\* m.persist(newCfg) took effect: the JSON holds no defaults any more.
Saved(r) ==
    /\ json' = put[r].new
    /\ unread' = IF unread = "json" THEN "memory" ELSE unread

\* The JSON is the commit point; without it nothing else is touched.  An update of
\* the Kubernetes secret may fail after it took effect; nothing is taken back then.
Persist(r) ==
    /\ At(r, "persist")
    /\ \/ /\ Saved(r)
          /\ put' = [put EXCEPT ![r].pc = IF put[r].kind = "none" THEN "publish" ELSE "write"]
          /\ UNCHANGED <<applyMu, outcome, faults>>
       \/ Fail /\ Answer(r, "failed") /\ UNCHANGED <<json, unread>>
       \/ Fail /\ Answer(r, "stranded") /\ Saved(r)
    /\ UNCHANGED <<up, mem, conf, lost, openvpn, loop, puts, stamps>>

\* A metadata change is published, and that is all.
PublishOnly(r) ==
    /\ At(r, "publish")
    /\ mem' = put[r].new
    /\ unread' = "none"
    /\ applyMu' = "nobody"
    /\ put' = [put EXCEPT ![r].pc = "sync"]
    /\ UNCHANGED <<up, json, conf, lost, openvpn, loop, puts, stamps, outcome, faults>>

\* Mutant: a server.conf that was not written is taken for written.
WriteConfUnchecked(r) ==
    /\ At(r, "write")
    /\ \/ conf' = Rendered(put[r].new) /\ UNCHANGED faults
       \/ Fail /\ UNCHANGED conf
    /\ mem' = put[r].new
    /\ lost' = FALSE /\ unread' = "none"
    /\ put' = [put EXCEPT ![r].pc = "signal"]
    /\ UNCHANGED <<up, json, openvpn, loop, applyMu, puts, stamps, outcome>>

\* server.conf is written, then the configuration is published.
WriteConf(r) ==
    /\ At(r, "write")
    /\ \/ /\ conf' = Rendered(put[r].new)
          /\ mem' = put[r].new
          /\ lost' = FALSE /\ unread' = "none"
          /\ put' = [put EXCEPT ![r].pc = "signal"]
          /\ UNCHANGED faults
       \/ /\ Fail
          /\ put' = [put EXCEPT ![r].pc = "rollback"]
          /\ UNCHANGED <<conf, mem, lost, unread>>
    /\ UNCHANGED <<up, json, openvpn, loop, applyMu, puts, stamps, outcome>>

\* Mutant: the JSON of a configuration that was refused stays.
RollbackNothing(r) ==
    /\ At(r, "rollback")
    /\ Answer(r, "failed")
    /\ UNCHANGED <<up, copies, openvpn, loop, puts, stamps, faults>>

\* The JSON gets what is in memory, which after a start that could not load it are
\* the defaults; a failure of that is only logged, and the answer is the same (the
\* history keeps the two apart).
Rollback(r) ==
    /\ At(r, "rollback")
    /\ \/ /\ json' = put[r].current
          /\ unread' = IF unread = "memory" THEN "json" ELSE unread
          /\ Answer(r, "failed")
          /\ UNCHANGED faults
       \/ Fail /\ Answer(r, "stranded") /\ UNCHANGED <<json, unread>>
    /\ UNCHANGED <<up, mem, conf, lost, openvpn, loop, puts, stamps>>

\* SIGHUP makes OpenVPN read server.conf again, SIGTERM ends it; both are best-effort.
Signal(r) ==
    /\ At(r, "signal")
    /\ \/ /\ run' = IF put[r].kind = "hard" \/ run = Down \/ ~Startable(conf) THEN Down
                    ELSE conf
          /\ UNCHANGED faults
       \/ Fail /\ UNCHANGED run
    /\ applyMu' = "nobody"
    /\ put' = [put EXCEPT ![r].pc = "sync"]
    /\ UNCHANGED <<up, copies, sum, loop, puts, stamps, outcome>>

\* The loop is started or stopped when the switch differs from what was read first.
Sync(r) ==
    /\ At(r, "sync")
    /\ LET on == put[r].new.fields.mgmtClientAuth
       IN  loop' = IF put[r].pre # on THEN on ELSE loop
    /\ outcome' = [s \in DOMAIN outcome |->
                       IF s = put[r].new.stamp THEN "ok" ELSE outcome[s]]
    /\ put' = [put EXCEPT ![r] = Idle]
    /\ UNCHANGED <<up, copies, openvpn, applyMu, puts, stamps, faults>>
-----------------------------------------------------------------------------
\* The process stops (hardReloadSelfExit stops it after a hard change, too).
Crash ==
    /\ up
    /\ crashes < MaxCrashes
    /\ crashes' = crashes + 1
    /\ up' = FALSE
    /\ applyMu' = "nobody"
    /\ put' = [r \in Reqs |-> Idle]
    /\ loop' = FALSE
    /\ UNCHANGED <<copies, openvpn, puts, stamps, outcome, failures>>

\* main: the JSON is loaded and server.conf is rendered from it.  Neither a JSON that
\* cannot be loaded or decoded nor a failed write of server.conf stops the start: it
\* goes on with the defaults, which it renders too, or with the server.conf there is.
Start ==
    /\ ~up
    /\ up' = TRUE
    /\ \E loaded, rendered \in BOOLEAN :
           /\ IF loaded /\ rendered THEN UNCHANGED faults ELSE Fail
           /\ mem' = IF loaded THEN json ELSE Defaults
           /\ unread' = IF unread = "json" THEN "json"
                        ELSE IF loaded THEN "none" ELSE "memory"
           /\ conf' = IF rendered THEN Rendered(mem') ELSE conf
           /\ lost' = ~rendered
    /\ loop' = mem'.fields.mgmtClientAuth
    /\ UNCHANGED <<json, openvpn, applyMu, put, puts, stamps, outcome>>

\* Mutant: the checksum is taken once and for all.
OpenvpnStartOldSum ==
    /\ run = Down
    /\ Startable(conf)
    /\ run' = conf
    /\ UNCHANGED <<up, copies, sum, loop, applyMu, put, puts, stamps, outcome, faults>>

\* The openvpn container takes the checksum of server.conf and runs openvpn on
\* it; with a configuration that openvpn refuses it comes up again and again.
OpenvpnStart ==
    /\ run = Down
    /\ Startable(conf)
    /\ run' = conf
    /\ sum' = conf
    /\ UNCHANGED <<up, copies, loop, applyMu, put, puts, stamps, outcome, faults>>

\* The container's watcher ends openvpn when the checksum has changed.
Watch ==
    /\ run # Down
    /\ conf # sum
    /\ run' = Down
    /\ UNCHANGED <<up, copies, sum, loop, applyMu, put, puts, stamps, outcome, faults>>

Step(r) ==
    \/ ApplyLock(r) \/ Persist(r) \/ PublishOnly(r) \/ WriteConf(r) \/ Rollback(r)
    \/ Signal(r) \/ Sync(r)

Next ==
    \/ \E r \in Reqs : Step(r) \/ \E f \in Fields : PutBegin(r, f)
    \/ Crash \/ Start \/ OpenvpnStart \/ Watch

Spec == Init /\ [][Next]_vars

\* Handlers run on, a stopped process is started again, and the container runtime
\* and the watcher are there (Helm chart).  Nobody has to send a request.
FairSpec ==
    /\ Spec
    /\ \A r \in Reqs : WF_vars(Step(r))
    /\ WF_vars(Start) /\ WF_vars(OpenvpnStart) /\ WF_vars(Watch)
-----------------------------------------------------------------------------
\* The values the variables range over; only the holder of applyMu is inside apply.
TypeOK ==
    /\ up \in BOOLEAN /\ loop \in BOOLEAN /\ lost \in BOOLEAN
    /\ unread \in {"none", "memory", "json"}
    /\ mem \in Configs /\ json \in Configs /\ conf \in Confs
    /\ run \in Confs \cup {Down} /\ sum \in Confs
    /\ puts \in 0 .. MaxPuts /\ stamps \in 0 .. puts
    /\ outcome \in [1 .. MaxPuts -> {"open", "ok", "failed", "stranded"}]
    /\ failures \in 0 .. MaxFailures /\ crashes \in 0 .. MaxCrashes
    /\ \A r \in Reqs :
           put[r].pc \in {"persist", "publish", "write", "rollback", "signal"}
               <=> applyMu = r

(* The JSON holds a configuration that was refused and was not taken back:  *)
(* the write of server.conf and the roll back failed both, or the update of *)
(* the Kubernetes secret took effect and was reported as failed.            *)
Stranded == \E s \in 1 .. MaxPuts : s = json.stamp /\ outcome[s] = "stranded"

(* Commit-then-respond: whenever no apply is under way, memory, the JSON    *)
(* and server.conf hold the same configuration, whatever save failed and    *)
(* wherever the process crashed.  The code gives up in three cases: the     *)
(* JSON is stranded; the start could not load it and nothing was saved      *)
(* since; or server.conf could not be written at the start.                 *)
CopiesAgree ==
    up /\ applyMu = "nobody" =>
        /\ Stranded \/ unread = "memory" \/ json = mem
        /\ lost \/ conf = Rendered(mem)

(* A configuration that was answered with an error never takes effect, not  *)
(* even by a later restart (audit F26), unless its JSON was stranded.       *)
RefusedNeverActive ==
    \A s \in 1 .. MaxPuts : outcome[s] = "failed" => s \notin {mem.stamp, json.stamp}

(* A configuration that was reported as saved is only ever replaced by a    *)
(* later one: neither the rollback of another request nor a restart that    *)
(* can load the JSON reverts it.  A restart that cannot load it runs on the *)
(* defaults, but the JSON still has the configuration, for the next start:  *)
(* only the roll back of a save that was made on these defaults, and        *)
(* failed, overwrites it.                                                   *)
ReportedNotReverted ==
    \A s \in 1 .. MaxPuts : outcome[s] = "ok" =>
        /\ unread # "json" => json.stamp >= s
        /\ up /\ unread = "none" => mem.stamp >= s

(* server_config.go: the JSON is persisted first "so a restart can't        *)
(* silently revert what the API reported as success".  A restart that       *)
(* cannot load the JSON does (README, "Where the code falls short").        *)
RestartKeepsReported ==
    \A s \in 1 .. MaxPuts : outcome[s] = "ok" /\ up => mem.stamp >= s

(* Once requests stop, OpenVPN ends up running, last started on the         *)
(* server.conf that is on disk, whether or not a signal reached it; when    *)
(* nothing failed it runs on exactly that file.  Only a file that openvpn   *)
(* cannot start with is excepted.                                           *)
EndsUpRunning ==
    <>[](Startable(conf) =>
            /\ run # Down /\ sum = conf
            /\ failures + crashes = 0 => run = conf)

(* README.md: "If the new config is invalid (openvpn fails to start within  *)
(* 15s), ovpn-admin automatically rolls back to the previous version".  So  *)
(* OpenVPN, once down, is started again.  It is not (README of this         *)
(* project, "Where the code falls short").                                  *)
RolledBack == (run = Down) ~> (run # Down)
=============================================================================
