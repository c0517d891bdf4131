------------------------------ MODULE CcdRoutes ------------------------------
(***************************************************************************)
(* Client config files (ccd.go), the common routes that are pushed to      *)
(* every client (common_routes.go) and the global full-tunnel switch of    *)
(* server_config.go, which all end up in the file ccd/<cn>.                *)
(*                                                                         *)
(* The file is the only copy of a user's own settings: every writer parses *)
(* the file back, changes its part and renders the whole file again.       *)
(* Render and Parse are those two conversions.  Writers hold ccdMu, except *)
(* userCreate, which seeds the file of a new user without it, and          *)
(* userDelete, which removes the file without it.  A change of the common  *)
(* routes or of the switch is committed first and rendered into the files  *)
(* by a goroutine of its own later.  The files are those of the filesystem *)
(* store; KubernetesStore has the client config of the other one.          *)
(*                                                                         *)
(* A route is an address (a host or a network; masks and descriptions are  *)
(* left out) or a domain with the addresses it resolved to.  Of a list of  *)
(* routes only this order matters: whether an address stands after the     *)
(* domain routes (late).  The VPN network does not change.                 *)
(***************************************************************************)
EXTENDS Naturals, FiniteSets

CONSTANTS
    Users,
    Addrs,         \* addresses that can be routed
    Domains,
    Zone,          \* Zone[d]: the addresses the DNS can answer for d
    Nets,          \* subnets that can be excluded from the full tunnel
    DefaultNets,   \* the ones a server without a saved configuration excludes
    Statics,       \* static client addresses
    Ids,           \* identities of common routes, never used twice
    Savers,        \* requests PUT /api/server-config
    Faulty,        \* whether the process crashes and writes fail half-way
    MaxOps         \* bound on requests, passes over the files and faults

ASSUME CcdRoutesAssumption ==
    /\ Zone \in [Domains -> SUBSET Addrs]
    /\ DefaultNets \subseteq Nets
    /\ Faulty \in BOOLEAN
    /\ MaxOps \in Nat
    /\ "dynamic" \notin Statics

VARIABLES
    common,        \* commonRoutesStore.cfg
    routes,        \* the common routes on disk
    used,          \* identities that were handed out
    glob,          \* RedirectGateway and RedirectGatewayExclusions of the server
    switch,        \* the same on disk
    saving,        \* per saver: what it read before apply, or Idle
    file,          \* ccd/<cn>
    status,        \* index.txt: absent, active or revoked
    listed,        \* OvpnAdmin.clients: users listed as Active
    making,        \* userCreate in flight: the common routes it read, or Idle
    crit,          \* what the holder of ccdMu is doing
    renders,       \* goroutines on their way into rerenderAllCcds
    job,           \* the scheduler's DNS answers that are not applied yet, or Idle
    intent,        \* history: what each user's file was last asked to hold
    spoiled,       \* history: users whose file met an unprotected write
    ops

vars == <<common, routes, used, glob, switch, saving, file, status, listed, making,
          crit, renders, job, intent, spoiled, ops>>
\* What is on disk besides the files.
disk == <<routes, switch>>

Idle == [idle |-> TRUE]
Empty == [x \in {} |-> x]
DefaultSwitch == [redirect |-> FALSE, excl |-> DefaultNets]
Unread == {"unread"}          \* a render that has not read the common routes yet

\* struct Ccd of a user nobody configured yet.
Fresh == [client |-> "dynamic", redirect |-> FALSE, excl |-> {}, ips |-> {},
          late |-> {}, doms |-> Empty]
Holders(c, a) == {d \in DOMAIN c.doms : a \in c.doms[d]}

\* What an edit that leaves c in the file asks for.
Asked(c, ips) == [client |-> c.client, redirect |-> c.redirect, excl |-> c.excl,
                  ips |-> ips, doms |-> DOMAIN c.doms]
-----------------------------------------------------------------------------
(* The two conversions.                                                     *)

\* mergePushRoutes: one line per address; its comment starts with the first source.
mergePushRoutes(c, com) ==
    [a \in c.ips \cup com \cup UNION {c.doms[d] : d \in DOMAIN c.doms} |->
        CASE a \in c.ips \ c.late -> [first |-> "ip", doms |-> {}]
          [] a \notin c.ips \ c.late /\ Holders(c, a) # {} ->
                [first |-> "domain", doms |-> Holders(c, a)]
          [] a \in c.late /\ Holders(c, a) = {} -> [first |-> "ip", doms |-> {}]
          [] OTHER -> [first |-> "common", doms |-> {}]]

\* mergeExclusions: globals first; a duplicate keeps the marker of the first.
mergeExclusions(g, c) ==
    [n \in g.excl \cup c.excl |-> IF n \in g.excl THEN "global" ELSE "user"]

\* Mutant: the personal choice is taken after the global one was put over it.
UserRedirectForced(c, g) == c.redirect \/ g.redirect

\* The personal choice is taken before the global one is put over it.
UserRedirect(c, g) == c.redirect

\* modifyCcd and the template: the file for c, the common routes and the switch.
Render(c, com, g) ==
    [client |-> c.client,
     push   |-> c.redirect \/ g.redirect,
     excl   |-> IF c.redirect \/ g.redirect THEN mergeExclusions(g, c) ELSE Empty,
     lines  |-> mergePushRoutes(c, com),
     own    |-> UserRedirect(c, g),
     decl   |-> DOMAIN c.doms]

NoFile == [client |-> "dynamic", push |-> FALSE, excl |-> Empty, lines |-> Empty,
           own |-> FALSE, decl |-> {}]

\* parseCcd: what is the user's own in the file.
Parse(f) ==
    [client   |-> f.client,
     redirect |-> f.own,
     excl     |-> {n \in DOMAIN f.excl : f.excl[n] = "user"},
     ips      |-> {a \in DOMAIN f.lines : f.lines[a].first = "ip"},
     late     |-> {},
     doms     |-> [d \in f.decl |-> {a \in DOMAIN f.lines : d \in f.lines[a].doms}]]

\* The addresses that survive the round trip as routes of their own.
Surviving(c) == {a \in c.ips : a \notin c.late \/ Holders(c, a) = {}}

\* Mutant: only the files of active users count.
StaticIsFreeAmongActive(u, s) ==
    \A v \in Users \ {u} : status[v] = "active" => file[v].client # s

\* checkStaticAddressIsFree: every file counts, whoever it belongs to.
StaticIsFree(u, s) == \A v \in Users \ {u} : file[v].client # s
validateCcd(u, c) == c.client = "dynamic" \/ StaticIsFree(u, c.client)

\* expandCommonRoutes: the addresses the common routes push.
expandCommonRoutes(cfg) ==
    UNION {IF cfg[i].kind = "ip" THEN {cfg[i].addr} ELSE cfg[i].ips : i \in DOMAIN cfg}

\* domainResolver: an answer, or an error.
Answers(d) == (SUBSET Zone[d]) \ {{}}
-----------------------------------------------------------------------------
\* The users whose file the holder of ccdMu has read or is about to rewrite.
InWrite ==
    IF crit = Idle THEN {} ELSE IF crit.op = "edit" THEN {crit.user} ELSE crit.todo

\* Users whose file userCreate is about to seed, for which ccdMu protects nothing.
InSeed == {u \in Users : making[u] # Idle}

Spend == ops < MaxOps /\ ops' = ops + 1

Entries == [kind : {"ip"}, addr : Addrs]
           \cup [kind : {"domain"}, domain : Domains, ips : SUBSET Addrs]

Init ==
    /\ common = Empty /\ routes = Empty
    /\ used = {}
    /\ glob = DefaultSwitch /\ switch = DefaultSwitch
    /\ saving = [w \in Savers |-> Idle]
    /\ status \in [Users -> {"absent", "active"}]
    /\ file = [u \in Users |->
                   IF status[u] = "active" THEN Render(Fresh, {}, glob) ELSE NoFile]
    /\ listed = {u \in Users : status[u] = "active"}
    /\ making = [u \in Users |-> Idle]
    /\ crit = Idle
    /\ renders = {}
    /\ job = Idle
    /\ intent = [u \in Users |-> Asked(Fresh, {})]
    /\ spoiled = {}
    /\ ops = 0
-----------------------------------------------------------------------------
(* Common routes: update() mutates a copy, persists it and publishes it     *)
(* under the store's lock; a failed persist changes nothing.                *)

Commit(cfg) ==
    /\ routes' = cfg /\ common' = cfg
    /\ renders' = renders \cup {expandCommonRoutes(cfg)}
    /\ Spend
    /\ UNCHANGED <<glob, switch, saving, file, status, listed, making, crit, intent, spoiled>>

\* isDuplicateCommonRoute
SameRoute(e, f) ==
    \/ e.kind = "ip" /\ f.kind = "ip" /\ e.addr = f.addr
    \/ e.kind = "domain" /\ f.kind = "domain" /\ e.domain = f.domain

\* resolveDomainForStore: a failed resolution leaves no addresses.
Resolved(e) ==
    IF e.kind = "ip" THEN {e}
    ELSE {[e EXCEPT !.ips = x] : x \in Answers(e.domain) \cup {{}}}

Drafts == [kind : {"ip"}, addr : Addrs]
          \cup [kind : {"domain"}, domain : Domains, ips : {{}}]

\* handleCreateCommonRoute, and a line of commonRoutesImportHandler.
CreateCommonRoute ==
    \E i \in Ids \ used, d \in Drafts : \E e \in Resolved(d) :
        /\ \A j \in DOMAIN common : ~SameRoute(common[j], e)
        /\ used' = used \cup {i}
        /\ Commit([j \in DOMAIN common \cup {i} |-> IF j = i THEN e ELSE common[j]])
        /\ UNCHANGED job

\* handleUpdateCommonRoute: the answer is kept when the domain stays the same.
UpdateCommonRoute ==
    \E i \in DOMAIN common, d \in Drafts :
        LET kept == common[i].kind = "domain" /\ d.kind = "domain"
                    /\ common[i].domain = d.domain
        IN  /\ \A j \in DOMAIN common \ {i} : ~SameRoute(common[j], d)
            /\ \E e \in IF kept THEN {common[i]} ELSE Resolved(d) :
                   Commit([common EXCEPT ![i] = e])
            /\ UNCHANGED <<used, job>>

\* handleDeleteCommonRoute
DeleteCommonRoute ==
    \E i \in DOMAIN common :
        /\ Commit([j \in DOMAIN common \ {i} |-> common[j]])
        /\ UNCHANGED <<used, job>>

DomainRoutes == {i \in DOMAIN common : common[i].kind = "domain"}

\* commonRoutesRefreshHandler resolves under the store's lock; a failed
\* resolution keeps the addresses.
RefreshCommonRoutes ==
    \E new \in [DomainRoutes -> SUBSET Addrs] :
        /\ \A i \in DomainRoutes : new[i] \in Answers(common[i].domain) \cup {common[i].ips}
        /\ \E i \in DomainRoutes : new[i] # common[i].ips
        /\ Commit([i \in DOMAIN common |->
                IF i \in DomainRoutes THEN [common[i] EXCEPT !.ips = new[i]] ELSE common[i]])
        /\ UNCHANGED <<used, job>>

\* refreshCommonRoutesOnce resolves without the lock what it read under it ...
SchedulerResolve ==
    /\ job = Idle
    /\ \E R \in SUBSET DomainRoutes : \E ans \in [R -> SUBSET Addrs] :
           /\ R # {}
           /\ \A i \in R : ans[i] \in Answers(common[i].domain)
           /\ job' = [i \in R |-> [domain |-> common[i].domain, ips |-> ans[i]]]
    /\ UNCHANGED <<disk, common, used, glob, saving, file, status, listed, making, crit,
                   renders, intent, spoiled, ops>>

\* Mutant: the route is found by its identity alone.
ApplicableById(i) == i \in DOMAIN job /\ common[i].kind = "domain"

\* ... and applies it to the routes that still exist and still name that domain.
Applicable(i) ==
    i \in DOMAIN job /\ common[i].kind = "domain" /\ common[i].domain = job[i].domain

\* Mutant: the whole configuration is replaced by the one that was resolved.
RefreshedFromCopy ==
    [i \in DOMAIN common \cup DOMAIN job |->
        IF i \in DOMAIN job
        THEN [kind |-> "domain", domain |-> job[i].domain, ips |-> job[i].ips]
        ELSE common[i]]

Refreshed ==
    [i \in DOMAIN common |->
        IF Applicable(i) THEN [common[i] EXCEPT !.ips = job[i].ips] ELSE common[i]]

SchedulerApply ==
    /\ job # Idle
    /\ job' = Idle
    /\ common' = Refreshed
    /\ IF common' # common
       THEN routes' = common' /\ renders' = renders \cup {expandCommonRoutes(common')}
       ELSE UNCHANGED <<routes, renders>>
    /\ UNCHANGED <<used, glob, switch, saving, file, status, listed, making, crit,
                   intent, spoiled, ops>>
-----------------------------------------------------------------------------
(* The switch: serverConfigHandler compares what it wrote with what it read *)
(* before apply() and, when they differ, starts a goroutine that reads the  *)
(* common routes itself.                                                    *)

SaveRead(w) ==
    /\ saving[w] = Idle
    /\ Spend
    /\ saving' = [saving EXCEPT ![w] = glob]
    /\ UNCHANGED <<disk, common, used, glob, file, status, listed, making, crit, renders,
                   job, intent, spoiled>>

SaveApply(w) ==
    /\ saving[w] # Idle
    /\ \E g \in [redirect : BOOLEAN, excl : SUBSET Nets] :
           /\ glob' = g /\ switch' = g
           /\ renders' = IF g # saving[w] THEN renders \cup {Unread} ELSE renders
    /\ saving' = [saving EXCEPT ![w] = Idle]
    /\ UNCHANGED <<common, routes, used, file, status, listed, making, crit, job,
                   intent, spoiled, ops>>

RenderRead ==
    /\ Unread \in renders
    /\ renders' = (renders \ {Unread}) \cup {expandCommonRoutes(common)}
    /\ UNCHANGED <<disk, common, used, glob, saving, file, status, listed, making, crit,
                   job, intent, spoiled, ops>>
-----------------------------------------------------------------------------
(* Passes over all files, under ccdMu from the first user to the last.      *)

\* rerenderAllCcds takes the lock and the list of active users.
RenderBegin ==
    /\ crit = Idle
    /\ \E com \in renders \ {Unread} :
           /\ renders' = renders \ {com}
           /\ crit' = [op |-> "render", com |-> com, todo |-> listed]
    /\ spoiled' = spoiled \cup (listed \cap InSeed)
    /\ UNCHANGED <<disk, common, used, glob, saving, file, status, listed, making, job,
                   intent, ops>>

\* refreshAllUserDomains takes the lock, then the common routes and the list.
DomainsBegin ==
    /\ crit = Idle
    /\ crit' = [op |-> "domains", com |-> expandCommonRoutes(common), todo |-> listed]
    /\ \E u \in listed : file[u].decl # {}
    /\ Spend
    /\ spoiled' = spoiled \cup (listed \cap InSeed)
    /\ UNCHANGED <<disk, common, used, glob, saving, file, status, listed, making, renders,
                   job, intent>>

\* modifyCcd for one user of the pass: validated, rendered and written.
PassWrite(u, c) ==
    file' = IF validateCcd(u, c) THEN [file EXCEPT ![u] = Render(c, crit.com, glob)]
            ELSE file

RenderUser(u) ==
    /\ crit # Idle /\ crit.op = "render" /\ u \in crit.todo
    /\ PassWrite(u, Parse(file[u]))
    /\ crit' = [crit EXCEPT !.todo = @ \ {u}]
    /\ UNCHANGED <<disk, common, used, glob, saving, status, listed, making, renders, job,
                   intent, spoiled, ops>>

\* A domain whose resolution fails keeps its addresses; an unchanged file is left.
DomainsUser(u) ==
    LET c == Parse(file[u]) IN
    /\ crit # Idle /\ crit.op = "domains" /\ u \in crit.todo
    /\ \E new \in [DOMAIN c.doms -> SUBSET Addrs] :
           /\ \A d \in DOMAIN new : new[d] \in Answers(d) \cup {c.doms[d]}
           /\ IF new = c.doms THEN UNCHANGED file
              ELSE PassWrite(u, [c EXCEPT !.doms = new])
    /\ crit' = [crit EXCEPT !.todo = @ \ {u}]
    /\ UNCHANGED <<disk, common, used, glob, saving, status, listed, making, renders, job,
                   intent, spoiled, ops>>

\* The users are kicked and the lock is released.
PassEnd ==
    /\ crit # Idle /\ crit.op # "edit" /\ crit.todo = {}
    /\ crit' = Idle
    /\ UNCHANGED <<disk, common, used, glob, saving, file, status, listed, making, renders,
                   job, intent, spoiled, ops>>
-----------------------------------------------------------------------------
(* The handlers that edit one file: locked, the file is read and changed    *)
(* (domains are resolved meanwhile); then the common routes are read and    *)
(* the file is written.                                                     *)

Unlocked == crit = Idle /\ ops < MaxOps

EditBegin(u, c, want) ==
    /\ crit = Idle
    /\ Spend
    /\ crit' = [op |-> "edit", user |-> u, ccd |-> c, want |-> want]
    /\ spoiled' = spoiled \cup ({u} \cap InSeed)
    /\ UNCHANGED <<disk, common, used, glob, saving, file, status, listed, making, renders,
                   job, intent>>

\* userApplyCcdHandler replaces everything; known domains keep their addresses.
ApplyCcd(u) ==
    LET old == Parse(file[u])
        Answer(d) == IF d \in DOMAIN old.doms /\ old.doms[d] # {}
                     THEN {old.doms[d]} ELSE Answers(d) \cup {{}}
    IN  /\ Unlocked
        /\ status[u] # "absent"
        /\ \E client \in Statics \cup {"dynamic"}, redirect \in BOOLEAN,
              excl \in SUBSET Nets, ips \in SUBSET Addrs, D \in SUBSET Domains :
           \E late \in SUBSET ips, doms \in [D -> SUBSET Addrs] :
              LET c == [client |-> client, redirect |-> redirect, excl |-> excl,
                        ips |-> ips, late |-> late, doms |-> doms]
              IN  /\ \A d \in D : doms[d] \in Answer(d)
                  /\ EditBegin(u, c, Asked(c, Surviving(c)))

\* Which of the addresses appended to old stand after a domain: all, when old has one;
\* else those the request names after one of its own.
LateSets(old, ips, doms) ==
    {late \in SUBSET ips : /\ DOMAIN old.doms # {} => late = ips
                           /\ DOMAIN old.doms \cup DOMAIN doms = {} => late = {}}

\* userAddCcdRouteHandler and userCcdImportHandler append what is not there yet.
AddCcdRoutes(u) ==
    LET old == Parse(file[u]) IN
    /\ Unlocked
    /\ \E ips \in SUBSET (Addrs \ old.ips),
       doms \in UNION {[D -> SUBSET Addrs] : D \in SUBSET (Domains \ DOMAIN old.doms)} :
        /\ ips # {} \/ DOMAIN doms # {}
        /\ \A d \in DOMAIN doms : doms[d] \in Answers(d) \cup {{}}
        /\ \E late \in LateSets(old, ips, doms) :
             LET c == [old EXCEPT !.ips = @ \cup ips, !.late = late,
                                  !.doms = [d \in DOMAIN old.doms \cup DOMAIN doms |->
                                      IF d \in DOMAIN doms THEN doms[d] ELSE old.doms[d]]]
             IN  EditBegin(u, c, [intent[u] EXCEPT !.ips = @ \cup (ips \cap Surviving(c)),
                                                   !.doms = @ \cup DOMAIN doms])

\* userRemoveCcdRouteHandler
RemoveCcdRoutes(u) ==
    LET old == Parse(file[u]) IN
    /\ Unlocked
    /\ \E ips \in SUBSET old.ips, ds \in SUBSET DOMAIN old.doms :
        /\ ips # {} \/ ds # {}
        /\ EditBegin(u, [old EXCEPT !.ips = @ \ ips,
                                    !.doms = [d \in DOMAIN old.doms \ ds |-> old.doms[d]]],
                     [intent[u] EXCEPT !.ips = @ \ ips, !.doms = @ \ ds])

\* userCcdRefreshHandler writes only when an answer changed.
RefreshCcd(u) ==
    LET old == Parse(file[u]) IN
    /\ Unlocked
    /\ \E new \in [DOMAIN old.doms -> SUBSET Addrs] :
        /\ \A d \in DOMAIN new : new[d] \in Answers(d) \cup {old.doms[d]}
        /\ new # old.doms
        /\ EditBegin(u, [old EXCEPT !.doms = new], intent[u])

\* The end of the handler: refused and unchanged, or written.
EditEnd ==
    /\ crit # Idle /\ crit.op = "edit"
    /\ LET u == crit.user IN
       IF validateCcd(u, crit.ccd)
       THEN /\ file' = [file EXCEPT
                    ![u] = Render(crit.ccd, expandCommonRoutes(common), glob)]
            /\ intent' = [intent EXCEPT ![u] = crit.want]
       ELSE UNCHANGED <<file, intent>>
    /\ crit' = Idle
    /\ UNCHANGED <<disk, common, used, glob, saving, status, listed, making, renders, job,
                   spoiled, ops>>
-----------------------------------------------------------------------------
(* Users come and go.                                                       *)

\* userCreate: the certificate is built and the common routes are read ...
CreateUser(u) ==
    /\ status[u] = "absent"
    /\ \A v \in Users : making[v] = Idle                 \* createUserMutex
    /\ Spend
    /\ status' = [status EXCEPT ![u] = "active"]
    /\ making' = [making EXCEPT ![u] = [com |-> expandCommonRoutes(common)]]
    /\ spoiled' = spoiled \cup ({u} \cap InWrite)
    /\ UNCHANGED <<disk, common, used, glob, saving, file, listed, crit, renders, job, intent>>

\* ... the file is written without ccdMu, whatever was left of an earlier user; it is
\* the new user's own unless a writer has read what was left ...
SeedCcd(u) ==
    /\ making[u] # Idle /\ "com" \in DOMAIN making[u]
    /\ file' = [file EXCEPT ![u] = Render(Fresh, making[u].com, glob)]
    /\ intent' = [intent EXCEPT ![u] = Asked(Fresh, {})]
    /\ making' = [making EXCEPT ![u] = [seeded |-> TRUE]]
    /\ spoiled' = spoiled \ ({u} \ InWrite)
    /\ UNCHANGED <<disk, common, used, glob, saving, status, listed, crit, renders, job, ops>>

\* ... and the list of clients is read again.
CreateEnd(u) ==
    /\ making[u] = [seeded |-> TRUE]
    /\ making' = [making EXCEPT ![u] = Idle]
    /\ listed' = {v \in Users : status[v] = "active"}
    /\ UNCHANGED <<disk, common, used, glob, saving, file, status, crit, renders, job,
                   intent, spoiled, ops>>

\* userRevoke and userUnrevoke: the file stays as it is.
ChangeStatus(u) ==
    /\ Spend
    /\ \/ status[u] = "active" /\ status' = [status EXCEPT ![u] = "revoked"]
       \/ status[u] = "revoked" /\ status' = [status EXCEPT ![u] = "active"]
    /\ listed' = {v \in Users : status'[v] = "active"}
    /\ UNCHANGED <<disk, common, used, glob, saving, file, making, crit, renders, job,
                   intent, spoiled>>

\* userDelete and DeleteClient, without ccdMu: the certificate is revoked, its line in
\* index.txt renamed (a failure leaves the user revoked) and the file removed with the
\* user.  The file stays when its removal fails, which is only logged, and when a pass
\* that has read it writes it again; an edit under way writes what it holds in EditEnd.
\* A failure after the removal returns before the list is read again.
DeleteUser(u) ==
    /\ status[u] # "absent"
    /\ Spend
    /\ \E s \in {"absent"} \cup (IF Faulty THEN {"revoked"} ELSE {}) :
           status' = [status EXCEPT ![u] = s]
    /\ intent' = [intent EXCEPT ![u] = Asked(Fresh, {})]
    /\ \/ file' = [file EXCEPT ![u] = NoFile] /\ UNCHANGED spoiled
       \/ /\ Faulty \/ (u \in InWrite /\ crit.op # "edit")
          /\ spoiled' = spoiled \cup {u} /\ UNCHANGED file
    /\ \/ listed' = {v \in Users : status'[v] = "active"}
       \/ Faulty /\ UNCHANGED listed
    /\ UNCHANGED <<disk, common, used, glob, saving, making, crit, renders, job>>
-----------------------------------------------------------------------------
(* Faults.  SaveCcd truncates the file before it writes it.                 *)

WriteFails(u) ==
    /\ Faulty /\ u \in InWrite
    /\ Spend
    /\ file' = [file EXCEPT ![u] = NoFile]
    /\ spoiled' = spoiled \cup {u}
    /\ crit' = IF crit.op = "edit" THEN Idle ELSE [crit EXCEPT !.todo = @ \ {u}]
    /\ UNCHANGED <<disk, common, used, glob, saving, status, listed, making, renders, job,
                   intent>>

\* The process stops and starts again; the goroutines are gone.  A start that cannot
\* load the common routes or the server configuration goes on without them.
Crash ==
    /\ Faulty
    /\ Spend
    /\ common' \in {routes, Empty}
    /\ glob' \in {switch, DefaultSwitch}
    /\ saving' = [w \in Savers |-> Idle]
    /\ making' = [u \in Users |-> Idle]
    /\ spoiled' = spoiled \cup InSeed
    /\ crit' = Idle
    /\ renders' = {}
    /\ job' = Idle
    /\ listed' = {u \in Users : status[u] = "active"}
    /\ UNCHANGED <<disk, used, file, status, intent>>

CommonNext ==
    \/ CreateCommonRoute \/ UpdateCommonRoute \/ DeleteCommonRoute
    \/ RefreshCommonRoutes \/ SchedulerResolve \/ SchedulerApply

Next ==
    \/ CommonNext
    \/ \E w \in Savers : SaveRead(w) \/ SaveApply(w)
    \/ RenderRead \/ RenderBegin \/ DomainsBegin \/ PassEnd \/ EditEnd \/ Crash
    \/ \E u \in Users :
           \/ RenderUser(u) \/ DomainsUser(u)
           \/ ApplyCcd(u) \/ AddCcdRoutes(u) \/ RemoveCcdRoutes(u) \/ RefreshCcd(u)
           \/ CreateUser(u) \/ SeedCcd(u) \/ CreateEnd(u) \/ ChangeStatus(u)
           \/ DeleteUser(u) \/ WriteFails(u)

Spec == Init /\ [][Next]_vars
-----------------------------------------------------------------------------
Files == [client : Statics \cup {"dynamic"}, push : BOOLEAN,
          excl : UNION {[N -> {"global", "user"}] : N \in SUBSET Nets},
          lines : UNION {[A -> [first : {"ip", "domain", "common"},
                                doms : SUBSET Domains]] : A \in SUBSET Addrs},
          own : BOOLEAN, decl : SUBSET Domains]

\* The values the variables range over; a line that starts with a domain names one.
TypeOK ==
    /\ DOMAIN common \cup DOMAIN routes \subseteq used /\ used \subseteq Ids
    /\ \A i \in DOMAIN common : common[i] \in Entries
    /\ \A i \in DOMAIN routes : routes[i] \in Entries
    /\ {glob, switch} \subseteq [redirect : BOOLEAN, excl : SUBSET Nets]
    /\ file \in [Users -> Files]
    /\ \A u \in Users : \A a \in DOMAIN file[u].lines :
           (file[u].lines[a].first = "domain") <=> (file[u].lines[a].doms # {})
    /\ status \in [Users -> {"absent", "active", "revoked"}]
    /\ listed \subseteq Users
    /\ renders \subseteq (SUBSET Addrs) \cup {Unread}
    /\ crit # Idle => crit.op \in {"edit", "render", "domains"}
    /\ spoiled \subseteq Users
    /\ ops \in 0 .. MaxOps

(* A user's own settings live nowhere but in the rendered file.  Whatever   *)
(* the common routes, the global switch, the DNS and the passes over all    *)
(* files do, parseCcd gives back the static address, the personal           *)
(* full-tunnel choice, the routes and the domains (those without an answer  *)
(* too) that the last successful edit asked for.  The settings of a user    *)
(* who was deleted are gone ("CCD must die with the user"), and a new user  *)
(* of that name starts without them.                                        *)
PersonalKept ==
    \A u \in Users \ spoiled :
        LET c == Parse(file[u]) IN
        [intent[u] EXCEPT !.excl = {}] = [Asked(c, c.ips) EXCEPT !.excl = {}]

(* No two files hand out one static address (checkStaticAddressIsFree): a   *)
(* revoked user, who can come back, keeps theirs; the address of a deleted  *)
(* one is free for another, whatever writer of the old file is under way.   *)
StaticUnique ==
    \A u, v \in Users :
        u # v /\ file[u].client # "dynamic" => file[u].client # file[v].client

(* A DNS answer only ever ends up at the domain it was given for, although  *)
(* the scheduler resolves without the lock while routes are edited.         *)
AnswersBelong ==
    /\ \A i \in DOMAIN common :
           common[i].kind = "domain" => common[i].ips \subseteq Zone[common[i].domain]
    /\ \A u \in Users : \A d \in file[u].decl : Parse(file[u]).doms[d] \subseteq Zone[d]

(* A common route that was deleted from the saved list never comes back,    *)
(* neither there nor in memory, although the scheduler still holds an       *)
(* answer for it and a start may have gone on without the list.             *)
DeletedStaysDeleted ==
    [][\A i \in used : i \notin DOMAIN routes =>
           i \notin DOMAIN routes' \cup DOMAIN common']_vars

(* app.go: the source of an exclusion is written with it "so the            *)
(* operator-side state survives a re-read".  A user with full tunnel keeps  *)
(* the exclusions of their own, unless they were global once (README,       *)
(* "Where the code falls short").                                           *)
ExclusionsKept ==
    \A u \in Users \ spoiled :
        intent[u].redirect => Parse(file[u]).excl = intent[u].excl

(* README: the common routes are "applied to every active user".  When no   *)
(* request, goroutine or pass is under way, the file of an active user      *)
(* pushes the common routes in force.  The seed of a new user breaks it     *)
(* (README, "Where the code falls short").                                  *)
CommonRoutesApplied ==
    (renders = {} /\ crit = Idle /\ \A u \in Users : making[u] = Idle) =>
        \A u \in Users \ spoiled : status[u] = "active" =>
            expandCommonRoutes(common) \subseteq DOMAIN file[u].lines
=============================================================================
