--------------------------- MODULE CcdRoutesProofs ---------------------------
(***************************************************************************)
(* What CcdRoutes proves for every set of users, addresses, domains and    *)
(* static addresses, every DNS and every bound: the file of a user is a    *)
(* faithful home of the settings that exist nowhere else, static addresses *)
(* are handed out once, DNS answers stay with their domain and deleted     *)
(* common routes stay deleted.                                             *)
(*                                                                         *)
(* The core is RoundTrip: what parseCcd gives back of a file that was      *)
(* rendered.                                                               *)
(***************************************************************************)
EXTENDS CcdRoutes, TLAPS

-----------------------------------------------------------------------------
(* The inductive invariant.                                                 *)

\* What a history entry of an edit holds.
Wanted == [client : Statics \cup {"dynamic"}, redirect : BOOLEAN, excl : SUBSET Nets,
           ips : SUBSET Addrs, doms : SUBSET Domains]

\* Settings as a handler has them in hand: every answer belongs to its domain.
IsCcd(c) ==
    /\ c.client \in Statics \cup {"dynamic"} /\ c.redirect \in BOOLEAN
    /\ c.excl \subseteq Nets /\ c.ips \subseteq Addrs /\ c.late \subseteq c.ips
    /\ DOMAIN c.doms \subseteq Domains
    /\ \A d \in DOMAIN c.doms : c.doms[d] \subseteq Zone[d]

\* A file as some writer left it.
IsFile(f) ==
    /\ f.client \in Statics \cup {"dynamic"} /\ f.own \in BOOLEAN
    /\ DOMAIN f.excl \subseteq Nets /\ DOMAIN f.lines \subseteq Addrs
    /\ f.decl \subseteq Domains
    /\ \A a \in DOMAIN f.lines : \A d \in f.lines[a].doms : d \in f.decl => a \in Zone[d]

\* w is what an edit that leaves c asks for, exclusions aside.
AsksFor(w, c) ==
    /\ w.client = c.client /\ w.redirect = c.redirect
    /\ w.ips = Surviving(c) /\ w.doms = DOMAIN c.doms

FilesOK == file = [u \in Users |-> file[u]] /\ \A u \in Users : IsFile(file[u])

\* A common route whose addresses belong to its domain.
IsRoute(e) == e \in Entries /\ (e.kind = "domain" => e.ips \subseteq Zone[e.domain])

IsConfig(cfg) ==
    cfg = [i \in DOMAIN cfg |-> cfg[i]] /\ \A i \in DOMAIN cfg : IsRoute(cfg[i])

\* What is in memory is what is on disk, or less after a start that could not load it.
RoutesOK == IsConfig(common) /\ IsConfig(routes) /\ DOMAIN common \subseteq DOMAIN routes

Switches == [redirect : BOOLEAN, excl : SUBSET Nets]
GlobOK == glob \in Switches /\ switch \in Switches

CarriedOK ==
    /\ renders \subseteq (SUBSET Addrs) \cup {Unread}
    /\ making = [u \in Users |-> making[u]]
    /\ \A u \in Users : "com" \in DOMAIN making[u] => making[u].com \subseteq Addrs
    /\ listed \subseteq Users
    /\ job # Idle => \A i \in DOMAIN job : job[i].ips \subseteq Zone[job[i].domain]

\* The holder of ccdMu: an edit asks for what it is about to write, unless the file met
\* an unprotected write.
EditOK ==
    /\ crit.user \in Users /\ IsCcd(crit.ccd) /\ crit.want \in Wanted
    /\ crit.user \notin spoiled => AsksFor(crit.want, crit.ccd)

CritOK ==
    \/ crit = Idle
    \/ crit.op = "edit" /\ EditOK
    \/ crit \in [op : {"render", "domains"}, com : SUBSET Addrs, todo : SUBSET Users]

\* What the writers share, the files and the holder of ccdMu.
SharedOK == RoutesOK /\ GlobOK /\ CarriedOK
StoreOK == FilesOK /\ intent \in [Users -> Wanted] /\ PersonalKept /\ StaticUnique

IInv == SharedOK /\ StoreOK /\ CritOK
-----------------------------------------------------------------------------
(* The two conversions.                                                     *)

\* mergePushRoutes: a line is the user's own route exactly when the address is, and not
\* one that stands after a domain that resolved to it; a line names only domains that
\* resolved to its address.
LEMMA LinesOf ==
    ASSUME NEW c, NEW com, IsCcd(c), com \subseteq Addrs
    PROVE  LET m == mergePushRoutes(c, com) IN
           /\ DOMAIN m = c.ips \cup com \cup UNION {c.doms[d] : d \in DOMAIN c.doms}
           /\ DOMAIN m \subseteq Addrs
           /\ \A a \in DOMAIN m : (m[a].first = "ip") <=> (a \in Surviving(c))
           /\ \A a \in DOMAIN m : \A d \in m[a].doms : d \in DOMAIN c.doms /\ a \in c.doms[d]
  <1> DEFINE A == c.ips \cup com \cup UNION {c.doms[d] : d \in DOMAIN c.doms}
             m == mergePushRoutes(c, com)
  <1>1. m = [a \in A |->
                CASE a \in c.ips \ c.late -> [first |-> "ip", doms |-> {}]
                  [] a \notin c.ips \ c.late /\ Holders(c, a) # {} ->
                        [first |-> "domain", doms |-> Holders(c, a)]
                  [] a \in c.late /\ Holders(c, a) = {} -> [first |-> "ip", doms |-> {}]
                  [] OTHER -> [first |-> "common", doms |-> {}]]
    BY DEF mergePushRoutes
  <1>2. DOMAIN m = A
    BY <1>1
  <1>3. \A a \in A :
            m[a] = IF a \in c.ips \ c.late THEN [first |-> "ip", doms |-> {}]
                   ELSE IF Holders(c, a) # {} THEN [first |-> "domain", doms |-> Holders(c, a)]
                   ELSE IF a \in c.late THEN [first |-> "ip", doms |-> {}]
                   ELSE [first |-> "common", doms |-> {}]
    BY <1>1
  <1>4. \A d \in DOMAIN c.doms : c.doms[d] \subseteq Addrs
    BY CcdRoutesAssumption DEF IsCcd
  <1>5. A \subseteq Addrs
    BY <1>4 DEF IsCcd
  <1> HIDE DEF m, A
  <1>6. ASSUME NEW a \in A
        PROVE  /\ (m[a].first = "ip") <=> (a \in Surviving(c))
               /\ \A d \in m[a].doms : d \in DOMAIN c.doms /\ a \in c.doms[d]
    <2>1. CASE a \in c.ips \ c.late
      <3>1. m[a] = [first |-> "ip", doms |-> {}] BY <1>3, <2>1
      <3> QED BY <2>1, <3>1 DEF Surviving
    <2>2. CASE a \notin c.ips \ c.late /\ Holders(c, a) # {}
      <3>1. m[a] = [first |-> "domain", doms |-> Holders(c, a)] BY <1>3, <2>2
      <3>2. a \notin Surviving(c) BY <2>2 DEF Surviving
      <3> QED BY <3>1, <3>2 DEF Holders
    <2>3. CASE a \in c.late /\ Holders(c, a) = {}
      <3>1. m[a] = [first |-> "ip", doms |-> {}] BY <1>3, <2>3
      <3>2. a \in Surviving(c) BY <2>3 DEF Surviving, IsCcd
      <3> QED BY <3>1, <3>2
    <2>4. CASE a \notin c.ips /\ Holders(c, a) = {}
      <3>1. a \notin c.late BY <2>4 DEF IsCcd
      <3>2. m[a] = [first |-> "common", doms |-> {}] BY <1>3, <2>4, <3>1
      <3> QED BY <2>4, <3>2 DEF Surviving
    <2> QED BY <2>1, <2>2, <2>3, <2>4
  <1>7. /\ DOMAIN m = A /\ DOMAIN m \subseteq Addrs
        /\ \A a \in DOMAIN m : (m[a].first = "ip") <=> (a \in Surviving(c))
        /\ \A a \in DOMAIN m : \A d \in m[a].doms : d \in DOMAIN c.doms /\ a \in c.doms[d]
    BY <1>2, <1>5, <1>6
  <1> QED BY <1>7 DEF m, A

\* Render gives a file, and parseCcd gives back of it the user's own settings: the static
\* address, the choice of full tunnel, the routes and the domains, with answers that were
\* there before.
LEMMA RoundTrip ==
    ASSUME NEW c, NEW com, NEW g, IsCcd(c), com \subseteq Addrs, g.excl \subseteq Nets
    PROVE  /\ IsFile(Render(c, com, g))
           /\ Render(c, com, g).client = c.client
           /\ Parse(Render(c, com, g)).client = c.client
           /\ Parse(Render(c, com, g)).redirect = c.redirect
           /\ Parse(Render(c, com, g)).ips = Surviving(c)
           /\ DOMAIN Parse(Render(c, com, g)).doms = DOMAIN c.doms
  <1> DEFINE m == mergePushRoutes(c, com)
             e == IF c.redirect \/ g.redirect THEN mergeExclusions(g, c) ELSE Empty
             f == Render(c, com, g)
  <1>1. /\ DOMAIN m = c.ips \cup com \cup UNION {c.doms[d] : d \in DOMAIN c.doms}
        /\ DOMAIN m \subseteq Addrs
        /\ \A a \in DOMAIN m : (m[a].first = "ip") <=> (a \in Surviving(c))
        /\ \A a \in DOMAIN m : \A d \in m[a].doms : d \in DOMAIN c.doms /\ a \in c.doms[d]
    BY LinesOf
  <1>2. DOMAIN e \subseteq Nets
    BY DEF mergeExclusions, Empty, IsCcd
  <1> HIDE DEF m, e
  <1>3. f = [client |-> c.client, push |-> c.redirect \/ g.redirect, excl |-> e, lines |-> m,
             own |-> c.redirect, decl |-> DOMAIN c.doms]
    BY DEF Render, UserRedirect, m, e
  <1> HIDE DEF f
  <1>4. /\ f.client = c.client /\ f.excl = e /\ f.lines = m /\ f.own = c.redirect
        /\ f.decl = DOMAIN c.doms
    BY <1>3
  <1>5. IsFile(f)
    <2>1. /\ f.client \in Statics \cup {"dynamic"} /\ f.own \in BOOLEAN
          /\ f.decl \subseteq Domains
      BY <1>4 DEF IsCcd
    <2>2. DOMAIN f.excl \subseteq Nets /\ DOMAIN f.lines \subseteq Addrs
      BY <1>1, <1>2, <1>4
    <2>3. \A a \in DOMAIN f.lines : \A d \in f.lines[a].doms : d \in f.decl => a \in Zone[d]
      BY <1>1, <1>4 DEF IsCcd
    <2> QED BY <2>1, <2>2, <2>3 DEF IsFile
  <1>6. Surviving(c) \subseteq DOMAIN m BY <1>1 DEF Surviving
  <1>7. Parse(f).ips = {a \in DOMAIN m : m[a].first = "ip"} BY <1>4 DEF Parse
  <1>8. Parse(f).ips = Surviving(c) BY <1>1, <1>6, <1>7
  <1>9. /\ Parse(f).client = c.client /\ Parse(f).redirect = c.redirect
        /\ DOMAIN Parse(f).doms = DOMAIN c.doms
    BY <1>4 DEF Parse
  <1> QED BY <1>4, <1>5, <1>8, <1>9 DEF f

\* What parseCcd gives is fit to be rendered again; all its routes survive that.
LEMMA ParsedIsCcd ==
    ASSUME NEW f, IsFile(f)
    PROVE  /\ IsCcd(Parse(f)) /\ Parse(f).late = {} /\ Surviving(Parse(f)) = Parse(f).ips
           /\ Parse(f).client = f.client /\ Parse(f).redirect = f.own
           /\ DOMAIN Parse(f).doms = f.decl
           /\ \A d \in f.decl : Parse(f).doms[d] = {a \in DOMAIN f.lines : d \in f.lines[a].doms}
  <1> DEFINE c == Parse(f)
  <1>1. /\ c.client = f.client /\ c.redirect = f.own /\ c.late = {}
        /\ c.excl = {n \in DOMAIN f.excl : f.excl[n] = "user"}
        /\ c.ips = {a \in DOMAIN f.lines : f.lines[a].first = "ip"}
        /\ c.doms = [d \in f.decl |-> {a \in DOMAIN f.lines : d \in f.lines[a].doms}]
    BY DEF Parse
  <1> HIDE DEF c
  <1>2. /\ DOMAIN c.doms = f.decl
        /\ \A d \in f.decl : c.doms[d] = {a \in DOMAIN f.lines : d \in f.lines[a].doms}
    BY <1>1
  <1>3. \A d \in f.decl : c.doms[d] \subseteq Zone[d]
    BY <1>2 DEF IsFile
  <1>4. c.excl \subseteq Nets /\ c.ips \subseteq Addrs /\ c.late \subseteq c.ips
    BY <1>1 DEF IsFile
  <1>5. c.client \in Statics \cup {"dynamic"} /\ c.redirect \in BOOLEAN /\ f.decl \subseteq Domains
    BY <1>1 DEF IsFile
  <1>6. IsCcd(c) BY <1>2, <1>3, <1>4, <1>5 DEF IsCcd
  <1>7. Surviving(c) = c.ips BY <1>1 DEF Surviving
  <1> QED BY <1>1, <1>2, <1>6, <1>7 DEF c
-----------------------------------------------------------------------------
(* The handlers that edit one file.                                         *)

\* An edit of u's file begins, with settings that are well formed and asked for.
Begins(u) ==
    \E c, want :
        /\ EditBegin(u, c, want)
        /\ IsCcd(c) /\ want \in Wanted
        /\ u \notin spoiled => AsksFor(want, c)

\* What an edit asks for is a history entry.
LEMMA AskedIsWanted ==
    ASSUME NEW c, IsCcd(c)
    PROVE  Asked(c, Surviving(c)) \in Wanted /\ AsksFor(Asked(c, Surviving(c)), c)
  <1>1. Surviving(c) \subseteq Addrs BY DEF Surviving, IsCcd
  <1> QED BY <1>1 DEF Asked, Wanted, AsksFor, IsCcd

\* PersonalKept for one user, field by field.
LEMMA KeptFields ==
    ASSUME NEW f, IsFile(f), NEW w \in Wanted
    PROVE  ([w EXCEPT !.excl = {}] = [Asked(Parse(f), Parse(f).ips) EXCEPT !.excl = {}])
              <=> AsksFor(w, Parse(f))
  <1> DEFINE c == Parse(f)
  <1>1. Surviving(c) = c.ips /\ IsCcd(c) BY ParsedIsCcd
  <1> HIDE DEF c
  <1>2. [Asked(c, c.ips) EXCEPT !.excl = {}] =
            [client |-> c.client, redirect |-> c.redirect, excl |-> {}, ips |-> c.ips,
             doms |-> DOMAIN c.doms]
    BY DEF Asked
  <1>3. [w EXCEPT !.excl = {}] =
            [client |-> w.client, redirect |-> w.redirect, excl |-> {}, ips |-> w.ips,
             doms |-> w.doms]
    BY DEF Wanted
  <1>4. ([w EXCEPT !.excl = {}] = [Asked(c, c.ips) EXCEPT !.excl = {}]) <=> AsksFor(w, c)
    BY <1>1, <1>2, <1>3 DEF AsksFor
  <1> QED BY <1>4 DEF c

\* userApplyCcdHandler: everything is replaced by what the request says.
LEMMA ApplyBegins ==
    ASSUME IInv, NEW u \in Users, ApplyCcd(u)
    PROVE  Begins(u)
  <1> DEFINE old == Parse(file[u])
             Answer(d) == IF d \in DOMAIN old.doms /\ old.doms[d] # {}
                          THEN {old.doms[d]} ELSE Answers(d) \cup {{}}
  <1>1. IsCcd(old) BY ParsedIsCcd DEF IInv, StoreOK, FilesOK
  <1>2. \E client \in Statics \cup {"dynamic"}, redirect \in BOOLEAN,
           excl \in SUBSET Nets, ips \in SUBSET Addrs, D \in SUBSET Domains :
           \E late \in SUBSET ips, doms \in [D -> SUBSET Addrs] :
              LET c == [client |-> client, redirect |-> redirect, excl |-> excl,
                        ips |-> ips, late |-> late, doms |-> doms]
              IN  /\ \A d \in D : doms[d] \in Answer(d)
                  /\ EditBegin(u, c, Asked(c, Surviving(c)))
    BY Zenon DEF ApplyCcd
  <1> HIDE DEF Answer, old
  <1>3. PICK client \in Statics \cup {"dynamic"}, redirect \in BOOLEAN,
             excl \in SUBSET Nets, ips \in SUBSET Addrs, D \in SUBSET Domains :
             \E late \in SUBSET ips, doms \in [D -> SUBSET Addrs] :
              LET c == [client |-> client, redirect |-> redirect, excl |-> excl,
                        ips |-> ips, late |-> late, doms |-> doms]
              IN  /\ \A d \in D : doms[d] \in Answer(d)
                  /\ EditBegin(u, c, Asked(c, Surviving(c)))
    BY <1>2, Zenon
  <1>a. PICK late \in SUBSET ips, doms \in [D -> SUBSET Addrs] :
              LET c == [client |-> client, redirect |-> redirect, excl |-> excl,
                        ips |-> ips, late |-> late, doms |-> doms]
              IN  /\ \A d \in D : doms[d] \in Answer(d)
                  /\ EditBegin(u, c, Asked(c, Surviving(c)))
    BY <1>3, Zenon
  <1> DEFINE c == [client |-> client, redirect |-> redirect, excl |-> excl,
                   ips |-> ips, late |-> late, doms |-> doms]
  <1>4. \A d \in D : doms[d] \subseteq Zone[d]
    BY <1>1, <1>a DEF IsCcd, Answers, Answer
  <1>5. IsCcd(c)
    BY <1>4 DEF IsCcd
  <1>6. EditBegin(u, c, Asked(c, Surviving(c))) BY <1>a
  <1> HIDE DEF c
  <1>7. Asked(c, Surviving(c)) \in Wanted /\ AsksFor(Asked(c, Surviving(c)), c)
    BY <1>5, AskedIsWanted
  <1> QED BY <1>5, <1>6, <1>7 DEF Begins

\* What is known of the file and of the history entry of u when its edit begins.
LEMMA BeforeEdit ==
    ASSUME IInv, NEW u \in Users
    PROVE  /\ IsFile(file[u]) /\ IsCcd(Parse(file[u])) /\ Parse(file[u]).late = {}
           /\ intent[u] \in Wanted
           /\ u \notin spoiled => AsksFor(intent[u], Parse(file[u]))
           /\ Surviving(Parse(file[u])) = Parse(file[u]).ips
  <1>1. IsFile(file[u]) /\ intent[u] \in Wanted BY DEF IInv, StoreOK, FilesOK
  <1>2. u \notin spoiled =>
           [intent[u] EXCEPT !.excl = {}]
             = [Asked(Parse(file[u]), Parse(file[u]).ips) EXCEPT !.excl = {}]
    BY DEF IInv, StoreOK, PersonalKept
  <1> QED BY <1>1, <1>2, KeptFields, ParsedIsCcd

\* userAddCcdRouteHandler and userCcdImportHandler: an address that stands after a domain
\* which resolved to it does not survive as a route of its own.
LEMMA AddBegins ==
    ASSUME IInv, NEW u \in Users, AddCcdRoutes(u)
    PROVE  Begins(u)
  <1> DEFINE old == Parse(file[u])
             New(ips, doms, late) ==
                [old EXCEPT !.ips = @ \cup ips, !.late = late,
                            !.doms = [d \in DOMAIN old.doms \cup DOMAIN doms |->
                                IF d \in DOMAIN doms THEN doms[d] ELSE old.doms[d]]]
             Want(ips, doms, late) ==
                [intent[u] EXCEPT !.ips = @ \cup (ips \cap Surviving(New(ips, doms, late))),
                                  !.doms = @ \cup DOMAIN doms]
  <1>a. PICK ips \in SUBSET (Addrs \ old.ips),
             doms \in UNION {[D -> SUBSET Addrs] : D \in SUBSET (Domains \ DOMAIN old.doms)} :
            /\ \A d \in DOMAIN doms : doms[d] \in Answers(d) \cup {{}}
            /\ \E late \in LateSets(old, ips, doms) :
                   EditBegin(u, New(ips, doms, late), Want(ips, doms, late))
    BY DEF AddCcdRoutes
  <1>b. PICK late \in LateSets(old, ips, doms) :
            EditBegin(u, New(ips, doms, late), Want(ips, doms, late))
    BY <1>a
  <1>1. /\ \A d \in DOMAIN doms : doms[d] \in Answers(d) \cup {{}}
        /\ EditBegin(u, New(ips, doms, late), Want(ips, doms, late))
        /\ late \subseteq ips
    BY <1>a, <1>b DEF LateSets
  <1>2. DOMAIN doms \subseteq Domains \ DOMAIN old.doms
    OBVIOUS
  <1> DEFINE ds == [d \in DOMAIN old.doms \cup DOMAIN doms |->
                        IF d \in DOMAIN doms THEN doms[d] ELSE old.doms[d]]
             c == New(ips, doms, late)
             w == Want(ips, doms, late)
  <1>3. /\ c.client = old.client /\ c.redirect = old.redirect /\ c.excl = old.excl
        /\ c.ips = old.ips \cup ips /\ c.doms = ds
        /\ c.late = late
    BY DEF Parse
  <1>4. /\ IsCcd(old) /\ intent[u] \in Wanted
        /\ u \notin spoiled => AsksFor(intent[u], old)
        /\ Surviving(old) = old.ips
    BY BeforeEdit
  <1>5. EditBegin(u, c, w) BY <1>1
  <1>6. w = [intent[u] EXCEPT !.ips = intent[u].ips \cup (ips \cap Surviving(c)),
                              !.doms = intent[u].doms \cup DOMAIN doms]
    OBVIOUS
  <1>d. DOMAIN ds = DOMAIN old.doms \cup DOMAIN doms OBVIOUS
  <1>e. \A d \in DOMAIN ds : ds[d] \subseteq Zone[d]
    BY <1>1, <1>4 DEF IsCcd, Answers
  <1> HIDE DEF c, w, old, ds
  <1>7. IsCcd(c)
    BY <1>1, <1>2, <1>3, <1>4, <1>d, <1>e DEF IsCcd
  <1>8. ips \cap Surviving(c) \subseteq Addrs BY <1>1
  <1>9. /\ w \in Wanted /\ w.client = intent[u].client /\ w.redirect = intent[u].redirect
        /\ w.ips = intent[u].ips \cup (ips \cap Surviving(c))
        /\ w.doms = intent[u].doms \cup DOMAIN doms
    BY <1>2, <1>4, <1>6, <1>8 DEF Wanted
  <1>10. Surviving(c) = old.ips \cup (ips \cap Surviving(c))
    BY <1>1, <1>3 DEF Surviving
  <1>11. u \notin spoiled => AsksFor(w, c)
    BY <1>3, <1>4, <1>9, <1>10, <1>d DEF AsksFor
  <1> QED BY <1>5, <1>7, <1>9, <1>11 DEF Begins

\* userRemoveCcdRouteHandler
LEMMA RemoveBegins ==
    ASSUME IInv, NEW u \in Users, RemoveCcdRoutes(u)
    PROVE  Begins(u)
  <1> DEFINE old == Parse(file[u])
             New(ips, ds) == [old EXCEPT !.ips = @ \ ips,
                                 !.doms = [d \in DOMAIN old.doms \ ds |-> old.doms[d]]]
             Want(ips, ds) == [intent[u] EXCEPT !.ips = @ \ ips, !.doms = @ \ ds]
  <1>1. PICK ips \in SUBSET old.ips, ds \in SUBSET DOMAIN old.doms :
            EditBegin(u, New(ips, ds), Want(ips, ds))
    BY DEF RemoveCcdRoutes
  <1> DEFINE c == New(ips, ds)
             w == Want(ips, ds)
  <1>2. /\ c.client = old.client /\ c.redirect = old.redirect /\ c.excl = old.excl
        /\ c.ips = old.ips \ ips /\ c.late = {}
        /\ c.doms = [d \in DOMAIN old.doms \ ds |-> old.doms[d]]
    BY DEF Parse
  <1>3. /\ IsCcd(old) /\ intent[u] \in Wanted
        /\ u \notin spoiled => AsksFor(intent[u], old)
        /\ Surviving(old) = old.ips
    BY BeforeEdit
  <1>4. EditBegin(u, c, w) BY <1>1
  <1>5. w = [intent[u] EXCEPT !.ips = intent[u].ips \ ips, !.doms = intent[u].doms \ ds]
    OBVIOUS
  <1> HIDE DEF c, w, old
  <1>6. DOMAIN c.doms = DOMAIN old.doms \ ds /\ \A d \in DOMAIN c.doms : c.doms[d] = old.doms[d]
    BY <1>2
  <1>7. IsCcd(c) BY <1>2, <1>3, <1>6 DEF IsCcd
  <1>8. /\ w \in Wanted /\ w.client = intent[u].client /\ w.redirect = intent[u].redirect
        /\ w.ips = intent[u].ips \ ips /\ w.doms = intent[u].doms \ ds
    BY <1>3, <1>5 DEF Wanted
  <1>9. Surviving(c) = old.ips \ ips BY <1>2 DEF Surviving
  <1>10. u \notin spoiled => AsksFor(w, c)
    BY <1>2, <1>3, <1>6, <1>8, <1>9 DEF AsksFor
  <1> QED BY <1>4, <1>7, <1>8, <1>10 DEF Begins

\* Settings with new answers for the same domains ask for what the old ones did.
LEMMA NewAnswers ==
    ASSUME NEW f, IsFile(f), NEW new \in [DOMAIN Parse(f).doms -> SUBSET Addrs],
           \A d \in DOMAIN new : new[d] \in Answers(d) \cup {Parse(f).doms[d]}
    PROVE  /\ IsCcd([Parse(f) EXCEPT !.doms = new])
           /\ [Parse(f) EXCEPT !.doms = new].client = f.client
           /\ \A w : AsksFor(w, Parse(f)) => AsksFor(w, [Parse(f) EXCEPT !.doms = new])
  <1> DEFINE old == Parse(f)
             c == [old EXCEPT !.doms = new]
  <1>1. /\ c.client = old.client /\ c.redirect = old.redirect /\ c.excl = old.excl
        /\ c.ips = old.ips /\ c.late = {} /\ c.doms = new
    BY DEF Parse
  <1>2. IsCcd(old) /\ Surviving(old) = old.ips /\ old.client = f.client
    BY ParsedIsCcd
  <1> HIDE DEF old, c
  <1>3. DOMAIN new = DOMAIN old.doms BY DEF old
  <1>4. \A d \in DOMAIN new : new[d] \subseteq Zone[d]
    BY <1>2, <1>3 DEF IsCcd, Answers, old
  <1>5. IsCcd(c) BY <1>1, <1>2, <1>3, <1>4 DEF IsCcd
  <1>6. Surviving(c) = c.ips BY <1>1 DEF Surviving
  <1>7. \A w : AsksFor(w, old) => AsksFor(w, c)
    BY <1>1, <1>2, <1>3, <1>6 DEF AsksFor
  <1> QED BY <1>1, <1>2, <1>5, <1>7 DEF old, c

\* userCcdRefreshHandler
LEMMA RefreshBegins ==
    ASSUME IInv, NEW u \in Users, RefreshCcd(u)
    PROVE  Begins(u)
  <1> DEFINE old == Parse(file[u])
  <1>1. PICK new \in [DOMAIN old.doms -> SUBSET Addrs] :
            /\ \A d \in DOMAIN new : new[d] \in Answers(d) \cup {old.doms[d]}
            /\ EditBegin(u, [old EXCEPT !.doms = new], intent[u])
    BY DEF RefreshCcd
  <1>2. IsFile(file[u]) /\ intent[u] \in Wanted
        /\ (u \notin spoiled => AsksFor(intent[u], old))
    BY BeforeEdit
  <1>3. /\ IsCcd([old EXCEPT !.doms = new])
        /\ \A w : AsksFor(w, old) => AsksFor(w, [old EXCEPT !.doms = new])
    BY <1>1, <1>2, NewAnswers
  <1> QED BY <1>1, <1>2, <1>3 DEF Begins

\* Every handler that edits a file begins so.
LEMMA EditsBegin ==
    ASSUME IInv, NEW u \in Users,
           ApplyCcd(u) \/ AddCcdRoutes(u) \/ RemoveCcdRoutes(u) \/ RefreshCcd(u)
    PROVE  Begins(u)
  BY ApplyBegins, AddBegins, RemoveBegins, RefreshBegins
-----------------------------------------------------------------------------
(* The common routes, the switch and what goroutines carry.                 *)

\* A record of Entries by its kind.
LEMMA EntryFields ==
    ASSUME NEW e \in Entries
    PROVE  \/ e.kind = "ip" /\ e.addr \in Addrs
           \/ e.kind = "domain" /\ e.domain \in Domains /\ e.ips \subseteq Addrs
              /\ e = [kind |-> "domain", domain |-> e.domain, ips |-> e.ips]
  BY DEF Entries

\* A domain route with other answers of its domain.
LEMMA Answered ==
    ASSUME NEW e \in Entries, e.kind = "domain", NEW x, x \subseteq Zone[e.domain]
    PROVE  IsRoute([e EXCEPT !.ips = x])
  <1>1. e.domain \in Domains /\ e = [kind |-> "domain", domain |-> e.domain, ips |-> e.ips]
    BY EntryFields
  <1>2. [e EXCEPT !.ips = x] = [kind |-> "domain", domain |-> e.domain, ips |-> x]
    BY <1>1
  <1>3. x \subseteq Addrs BY <1>1, CcdRoutesAssumption
  <1>4. [kind |-> "domain", domain |-> e.domain, ips |-> x] \in Entries
    BY <1>1, <1>3 DEF Entries
  <1> QED BY <1>2, <1>4 DEF IsRoute

\* resolveDomainForStore gives a route.
LEMMA ResolvedIsRoute ==
    ASSUME NEW d \in Drafts, NEW e \in Resolved(d)
    PROVE  IsRoute(e)
  <1>1. d \in Entries BY DEF Drafts, Entries
  <1>2. CASE d.kind = "ip"
    BY <1>1, <1>2 DEF Resolved, IsRoute
  <1>3. CASE d.kind # "ip"
    <2>1. d.kind = "domain" BY <1>1, <1>3, EntryFields
    <2>2. PICK x \in Answers(d.domain) \cup {{}} : e = [d EXCEPT !.ips = x]
      BY <1>3 DEF Resolved
    <2>3. x \subseteq Zone[d.domain] BY <2>2 DEF Answers
    <2> QED BY <1>1, <2>1, <2>2, <2>3, Answered
  <1> QED BY <1>2, <1>3

\* expandCommonRoutes gives addresses.
LEMMA Expanded ==
    ASSUME NEW cfg, IsConfig(cfg)
    PROVE  expandCommonRoutes(cfg) \subseteq Addrs
  <1>1. \A i \in DOMAIN cfg :
            (IF cfg[i].kind = "ip" THEN {cfg[i].addr} ELSE cfg[i].ips) \subseteq Addrs
    BY EntryFields DEF IsConfig, IsRoute
  <1> QED BY <1>1 DEF expandCommonRoutes

\* update() publishes a configuration and starts a goroutine that carries its addresses.
LEMMA CommitOK ==
    ASSUME SharedOK, NEW cfg, IsConfig(cfg), Commit(cfg), job' = job
    PROVE  SharedOK'
  <1>1. /\ common' = cfg /\ routes' = cfg /\ UNCHANGED <<glob, switch, making, listed>>
        /\ renders' = renders \cup {expandCommonRoutes(cfg)}
    BY DEF Commit
  <1>2. RoutesOK' BY <1>1 DEF RoutesOK, IsConfig, IsRoute, Entries
  <1>3. renders' \subseteq (SUBSET Addrs) \cup {Unread}
    BY <1>1, Expanded DEF SharedOK, CarriedOK
  <1>4. CarriedOK' BY <1>1, <1>3 DEF SharedOK, CarriedOK, Unread, Idle
  <1> QED BY <1>1, <1>2, <1>4 DEF SharedOK, GlobOK, Switches

\* Every step keeps the common routes, the switch and what goroutines carry well formed:
\* an answer that was resolved without the lock is applied where it belongs.
LEMMA SharedStep == IInv /\ [Next]_vars => SharedOK'
  <1> SUFFICES ASSUME IInv, [Next]_vars PROVE SharedOK'
    OBVIOUS
  <1>0. SharedOK /\ RoutesOK /\ IsConfig(common) /\ GlobOK /\ CarriedOK
    BY DEF IInv, SharedOK, RoutesOK
  <1>1. CASE CreateCommonRoute
    <2>1. PICK i \in Ids \ used, d \in Drafts : \E e \in Resolved(d) :
            /\ Commit([j \in DOMAIN common \cup {i} |-> IF j = i THEN e ELSE common[j]])
            /\ job' = job
      BY <1>1 DEF CreateCommonRoute
    <2>2. PICK e \in Resolved(d) :
            /\ Commit([j \in DOMAIN common \cup {i} |-> IF j = i THEN e ELSE common[j]])
            /\ job' = job
      BY <2>1
    <2>3. IsRoute(e) BY <2>2, ResolvedIsRoute
    <2> DEFINE cfg == [j \in DOMAIN common \cup {i} |-> IF j = i THEN e ELSE common[j]]
    <2>4. IsConfig(cfg) BY <1>0, <2>3 DEF IsConfig
    <2> HIDE DEF cfg
    <2>5. Commit(cfg) BY <2>2 DEF cfg
    <2> QED BY <2>2, <2>4, <2>5, <1>0, CommitOK
  <1>2. CASE UpdateCommonRoute
    <2>a. PICK i \in DOMAIN common, d \in Drafts : \E e :
            /\ e = common[i] \/ e \in Resolved(d)
            /\ Commit([common EXCEPT ![i] = e])
            /\ job' = job
      BY <1>2 DEF UpdateCommonRoute
    <2>1. PICK e : /\ e = common[i] \/ e \in Resolved(d)
                   /\ Commit([common EXCEPT ![i] = e])
                   /\ job' = job
      BY <2>a
    <2>2. IsRoute(e) BY <1>0, <2>1, ResolvedIsRoute DEF IsConfig
    <2> DEFINE cfg == [common EXCEPT ![i] = e]
    <2>3. IsConfig(cfg) BY <1>0, <2>1, <2>2 DEF IsConfig
    <2> HIDE DEF cfg
    <2>4. Commit(cfg) BY <2>1 DEF cfg
    <2> QED BY <2>1, <2>3, <2>4, <1>0, CommitOK
  <1>3. CASE DeleteCommonRoute
    <2>1. PICK i \in DOMAIN common :
            Commit([j \in DOMAIN common \ {i} |-> common[j]]) /\ job' = job
      BY <1>3 DEF DeleteCommonRoute
    <2> DEFINE cfg == [j \in DOMAIN common \ {i} |-> common[j]]
    <2>2. IsConfig(cfg) BY <1>0 DEF IsConfig
    <2> HIDE DEF cfg
    <2>3. Commit(cfg) BY <2>1 DEF cfg
    <2> QED BY <2>1, <2>2, <2>3, <1>0, CommitOK
  <1>4. CASE RefreshCommonRoutes
    <2>1. PICK new \in [DomainRoutes -> SUBSET Addrs] :
            /\ \A i \in DomainRoutes : new[i] \in Answers(common[i].domain) \cup {common[i].ips}
            /\ Commit([i \in DOMAIN common |->
                 IF i \in DomainRoutes THEN [common[i] EXCEPT !.ips = new[i]] ELSE common[i]])
            /\ job' = job
      BY <1>4 DEF RefreshCommonRoutes
    <2> DEFINE cfg == [i \in DOMAIN common |->
                 IF i \in DomainRoutes THEN [common[i] EXCEPT !.ips = new[i]] ELSE common[i]]
    <2>2. ASSUME NEW i \in DOMAIN common PROVE IsRoute(cfg[i])
      <3>1. CASE i \in DomainRoutes
        <4>1. common[i].kind = "domain" /\ common[i] \in Entries
              /\ common[i].ips \subseteq Zone[common[i].domain]
          BY <1>0, <3>1 DEF DomainRoutes, IsConfig, IsRoute
        <4>2. new[i] \subseteq Zone[common[i].domain]
          BY <2>1, <3>1, <4>1 DEF Answers
        <4> QED BY <3>1, <4>1, <4>2, Answered
      <3>2. CASE i \notin DomainRoutes BY <1>0, <3>2 DEF IsConfig
      <3> QED BY <3>1, <3>2
    <2>3. DOMAIN cfg = DOMAIN common /\ cfg = [i \in DOMAIN cfg |-> cfg[i]] OBVIOUS
    <2> HIDE DEF cfg
    <2>4. IsConfig(cfg) BY <2>2, <2>3 DEF IsConfig
    <2>5. Commit(cfg) BY <2>1 DEF cfg
    <2> QED BY <2>1, <2>4, <2>5, <1>0, CommitOK
  <1>5. CASE SchedulerResolve
    <2>1. UNCHANGED <<common, routes, glob, switch, renders, making, listed>>
      BY <1>5 DEF SchedulerResolve, disk
    <2>a. PICK R \in SUBSET DomainRoutes : \E ans \in [R -> SUBSET Addrs] :
            /\ \A i \in R : ans[i] \in Answers(common[i].domain)
            /\ job' = [i \in R |-> [domain |-> common[i].domain, ips |-> ans[i]]]
      BY <1>5 DEF SchedulerResolve
    <2>2. PICK ans \in [R -> SUBSET Addrs] :
            /\ \A i \in R : ans[i] \in Answers(common[i].domain)
            /\ job' = [i \in R |-> [domain |-> common[i].domain, ips |-> ans[i]]]
      BY <2>a
    <2>3. \A i \in DOMAIN job' : job'[i].ips \subseteq Zone[job'[i].domain]
      BY <2>2 DEF Answers
    <2>4. CarriedOK' BY <1>0, <2>1, <2>3 DEF CarriedOK, Unread, Idle
    <2> QED BY <1>0, <2>1, <2>4
      DEF SharedOK, RoutesOK, IsConfig, IsRoute, Entries, GlobOK, Switches
  <1>6. CASE SchedulerApply
    <2>1. /\ job # Idle /\ job' = Idle /\ common' = Refreshed /\ glob' = glob
          /\ UNCHANGED <<switch, making, listed>>
          /\ routes' = common' \/ (routes' = routes /\ common' = common)
          /\ renders' \subseteq renders \cup {expandCommonRoutes(common')}
      BY <1>6 DEF SchedulerApply
    <2>2. ASSUME NEW i \in DOMAIN common PROVE IsRoute(Refreshed[i])
      <3>1. CASE Applicable(i)
        <4>1. common[i] \in Entries /\ common[i].kind = "domain"
          BY <1>0, <3>1 DEF Applicable, IsConfig, IsRoute
        <4>2. job[i].ips \subseteq Zone[common[i].domain]
          BY <1>0, <2>1, <3>1 DEF Applicable, CarriedOK
        <4>3. Refreshed[i] = [common[i] EXCEPT !.ips = job[i].ips]
          BY <3>1 DEF Refreshed
        <4> QED BY <4>1, <4>2, <4>3, Answered
      <3>2. CASE ~Applicable(i) BY <1>0, <3>2 DEF Refreshed, IsConfig
      <3> QED BY <3>1, <3>2
    <2>3. DOMAIN Refreshed = DOMAIN common /\ Refreshed = [i \in DOMAIN Refreshed |-> Refreshed[i]]
      BY DEF Refreshed
    <2>4. IsConfig(Refreshed) BY <2>2, <2>3 DEF IsConfig
    <2>5. IsConfig(common') BY <2>1, <2>4
    <2>6. renders' \subseteq (SUBSET Addrs) \cup {Unread}
      BY <1>0, <2>1, <2>5, Expanded DEF CarriedOK
    <2>7. CarriedOK' BY <1>0, <2>1, <2>6 DEF CarriedOK, Unread, Idle
    <2>8. RoutesOK' BY <1>0, <2>1, <2>5 DEF RoutesOK, IsConfig, IsRoute, Entries
    <2> QED BY <1>0, <2>1, <2>7, <2>8 DEF SharedOK, GlobOK, Switches
  <1>7. ASSUME NEW w \in Savers, SaveRead(w) PROVE SharedOK'
    BY <1>0, <1>7 DEF SaveRead, disk, SharedOK, RoutesOK, IsConfig, IsRoute, Entries, GlobOK,
                      Switches, CarriedOK, Unread, Idle
  <1>8. ASSUME NEW w \in Savers, SaveApply(w) PROVE SharedOK'
    <2>1. UNCHANGED <<common, routes, making, job, listed>> BY <1>8 DEF SaveApply
    <2>2. glob' \in Switches /\ switch' \in Switches /\ renders' \subseteq renders \cup {Unread}
      BY <1>8 DEF SaveApply, Switches
    <2>3. CarriedOK' BY <1>0, <2>1, <2>2 DEF CarriedOK, Unread, Idle
    <2> QED BY <1>0, <2>1, <2>2, <2>3
      DEF SharedOK, RoutesOK, IsConfig, IsRoute, Entries, GlobOK, Switches
  <1>9. CASE RenderRead
    <2>1. UNCHANGED <<common, routes, glob, switch, making, job, listed>>
      BY <1>9 DEF RenderRead, disk
    <2>2. renders' \subseteq renders \cup {expandCommonRoutes(common)}
      BY <1>9 DEF RenderRead
    <2>3. renders' \subseteq (SUBSET Addrs) \cup {Unread}
      BY <1>0, <2>2, Expanded DEF CarriedOK
    <2>4. CarriedOK' BY <1>0, <2>1, <2>3 DEF CarriedOK, Unread, Idle
    <2> QED BY <1>0, <2>1, <2>4
      DEF SharedOK, RoutesOK, IsConfig, IsRoute, Entries, GlobOK, Switches
  <1>10. ASSUME NEW u \in Users, CreateUser(u) PROVE SharedOK'
    <2>1. UNCHANGED <<common, routes, glob, switch, renders, job, listed>>
      BY <1>10 DEF CreateUser, disk
    <2>2. making' = [making EXCEPT ![u] = [com |-> expandCommonRoutes(common)]]
      BY <1>10 DEF CreateUser
    <2>3. expandCommonRoutes(common) \subseteq Addrs BY <1>0, Expanded
    <2>4. /\ making' = [v \in Users |-> making'[v]]
          /\ making'[u] = [com |-> expandCommonRoutes(common)]
          /\ \A v \in Users \ {u} : making'[v] = making[v]
      BY <1>0, <2>2 DEF CarriedOK
    <2>5. \A v \in Users : "com" \in DOMAIN making'[v] => making'[v].com \subseteq Addrs
      BY <1>0, <2>3, <2>4 DEF CarriedOK
    <2>6. CarriedOK' BY <1>0, <2>1, <2>4, <2>5 DEF CarriedOK, Unread, Idle
    <2> QED BY <1>0, <2>1, <2>6
      DEF SharedOK, RoutesOK, IsConfig, IsRoute, Entries, GlobOK, Switches
  <1>11. ASSUME NEW u \in Users, SeedCcd(u) \/ CreateEnd(u) PROVE SharedOK'
    <2>1. UNCHANGED <<common, routes, glob, switch, renders, job>>
      BY <1>11 DEF SeedCcd, CreateEnd, disk
    <2>a. listed' \subseteq Users
      BY <1>0, <1>11 DEF SeedCcd, CreateEnd, CarriedOK
    <2>2. PICK x \in {Idle, [seeded |-> TRUE]} : making' = [making EXCEPT ![u] = x]
      BY <1>11 DEF SeedCcd, CreateEnd
    <2>3. "com" \notin DOMAIN x BY <2>2 DEF Idle
    <2>4. /\ making' = [v \in Users |-> making'[v]]
          /\ making'[u] = x
          /\ \A v \in Users \ {u} : making'[v] = making[v]
      BY <1>0, <2>2 DEF CarriedOK
    <2>5. CarriedOK' BY <1>0, <2>1, <2>3, <2>4, <2>a DEF CarriedOK, Unread, Idle
    <2> QED BY <1>0, <2>1, <2>5
      DEF SharedOK, RoutesOK, IsConfig, IsRoute, Entries, GlobOK, Switches
  <1>12. CASE Crash
    <2>1. /\ UNCHANGED <<routes, switch>> /\ common' \in {routes, Empty}
          /\ glob' \in {switch, DefaultSwitch}
      BY <1>12 DEF Crash, disk
    <2>b. RoutesOK' BY <1>0, <2>1 DEF RoutesOK, IsConfig, IsRoute, Entries, Empty
    <2>c. DefaultSwitch \in Switches
      BY CcdRoutesAssumption DEF Switches, DefaultSwitch
    <2>d. glob' \in Switches /\ switch' \in Switches BY <1>0, <2>1, <2>c DEF GlobOK
    <2>e. GlobOK' BY <2>d DEF GlobOK, Switches
    <2>2. job' = Idle /\ renders' = {} /\ making' = [u \in Users |-> Idle] BY <1>12 DEF Crash
    <2>3. \A u \in Users : "com" \notin DOMAIN making'[u] BY <2>2 DEF Idle
    <2>a. listed' \subseteq Users BY <1>12 DEF Crash
    <2>4. CarriedOK' BY <2>2, <2>3, <2>a DEF CarriedOK, Unread, Idle
    <2> QED BY <2>4, <2>b, <2>e DEF SharedOK
  <1>13. ASSUME UNCHANGED <<common, routes, glob, switch, making, job>>,
                renders' \subseteq renders, listed' \subseteq Users
         PROVE  SharedOK'
    BY <1>0, <1>13 DEF SharedOK, RoutesOK, IsConfig, IsRoute, Entries, GlobOK, Switches,
                       CarriedOK, Unread, Idle
  <1>14. CASE RenderBegin \/ DomainsBegin \/ PassEnd \/ EditEnd
    BY <1>0, <1>13, <1>14 DEF CarriedOK, RenderBegin, DomainsBegin, PassEnd, EditEnd, disk
  <1>15. ASSUME NEW u \in Users, NEW c, NEW want, EditBegin(u, c, want) PROVE SharedOK'
    BY <1>0, <1>13, <1>15 DEF CarriedOK, EditBegin, disk
  <1>16. ASSUME NEW u \in Users,
                ApplyCcd(u) \/ AddCcdRoutes(u) \/ RemoveCcdRoutes(u) \/ RefreshCcd(u)
         PROVE  SharedOK'
    <2>1. \E c, want : EditBegin(u, c, want)
      BY <1>16, EditsBegin DEF Begins
    <2> QED BY <1>15, <2>1
  <1>17. ASSUME NEW u \in Users,
                \/ RenderUser(u) \/ DomainsUser(u) \/ ChangeStatus(u) \/ DeleteUser(u)
                \/ WriteFails(u)
         PROVE  SharedOK'
    BY <1>0, <1>13, <1>17 DEF CarriedOK, RenderUser, DomainsUser, ChangeStatus, DeleteUser,
                                WriteFails, disk
  <1>18. CASE UNCHANGED vars BY <1>0, <1>13, <1>18 DEF CarriedOK, vars
  <1> QED BY <1>1, <1>2, <1>3, <1>4, <1>5, <1>6, <1>7, <1>8, <1>9, <1>10, <1>11, <1>12, <1>14,
             <1>16, <1>17, <1>18 DEF Next, CommonNext
-----------------------------------------------------------------------------
(* The files and the holder of ccdMu.                                       *)

\* A step that writes no file.
LEMMA StoreFrame ==
    ASSUME StoreOK, file' = file, intent' = intent, spoiled \subseteq spoiled'
    PROVE  StoreOK'
  <1>1. FilesOK' BY DEF StoreOK, FilesOK, IsFile
  <1>2. PersonalKept' BY DEF StoreOK, PersonalKept, Parse, Asked
  <1>3. StaticUnique' BY DEF StoreOK, StaticUnique
  <1> QED BY <1>1, <1>2, <1>3 DEF StoreOK, Wanted

\* A step that writes the file f for u: its static address is u's already or is free, and
\* parseCcd gives back what w asks for.
LEMMA StoreWrite ==
    ASSUME StoreOK, NEW u \in Users, NEW f, NEW w \in Wanted,
           file' = [file EXCEPT ![u] = f], intent' = [intent EXCEPT ![u] = w],
           spoiled \subseteq spoiled' \cup {u}, IsFile(f),
           f.client = file[u].client \/ f.client = "dynamic" \/ StaticIsFree(u, f.client),
           u \in spoiled' \/ AsksFor(w, Parse(f))
    PROVE  StoreOK'
  <1>1. /\ file'[u] = f /\ intent'[u] = w /\ intent' \in [Users -> Wanted]
        /\ \A v \in Users \ {u} : file'[v] = file[v] /\ intent'[v] = intent[v]
        /\ file' = [v \in Users |-> file'[v]]
    BY DEF StoreOK, FilesOK
  <1>2. \A v \in Users : IsFile(file'[v])
    BY <1>1 DEF StoreOK, FilesOK
  <1>3. FilesOK' BY <1>1, <1>2 DEF FilesOK, IsFile
  <1>4. PersonalKept'
    <2> SUFFICES ASSUME NEW v \in Users, v \notin spoiled'
                 PROVE  [intent'[v] EXCEPT !.excl = {}]
                          = [Asked(Parse(file'[v]), Parse(file'[v]).ips) EXCEPT !.excl = {}]
      BY DEF PersonalKept, Parse, Asked
    <2>1. CASE v = u BY <1>1, <2>1, KeptFields
    <2>2. CASE v # u BY <1>1, <2>2 DEF StoreOK, PersonalKept
    <2> QED BY <2>1, <2>2
  <1>5. StaticUnique'
    <2> SUFFICES ASSUME NEW v \in Users, NEW x \in Users, v # x, file'[v].client # "dynamic"
                 PROVE  file'[v].client # file'[x].client
      BY DEF StaticUnique
    <2>1. CASE v # u /\ x # u BY <1>1, <2>1 DEF StoreOK, StaticUnique
    <2>2. CASE v = u BY <1>1, <2>2 DEF StoreOK, StaticUnique, StaticIsFree
    <2>3. CASE x = u BY <1>1, <2>3 DEF StoreOK, StaticUnique, StaticIsFree
    <2> QED BY <2>1, <2>2, <2>3
  <1> QED BY <1>1, <1>3, <1>4, <1>5 DEF StoreOK, Wanted

\* A step that leaves the holder of ccdMu alone.
LEMMA CritFrame ==
    ASSUME CritOK, crit' = crit, spoiled \subseteq spoiled'
    PROVE  CritOK'
  BY DEF CritOK, EditOK, IsCcd, Wanted, AsksFor, Surviving, Holders, Idle

\* The holder of ccdMu is done, or is in a pass over the files.
LEMMA CritPass ==
    ASSUME crit' = Idle
           \/ crit' \in [op : {"render", "domains"}, com : SUBSET Addrs, todo : SUBSET Users]
    PROVE  CritOK'
  BY DEF CritOK, Idle

\* A pass goes on to the next user.
LEMMA PassOn ==
    ASSUME CritOK, crit # Idle, crit.op # "edit", NEW u, crit' = [crit EXCEPT !.todo = @ \ {u}]
    PROVE  /\ crit \in [op : {"render", "domains"}, com : SUBSET Addrs, todo : SUBSET Users]
           /\ crit.com \subseteq Addrs
           /\ CritOK'
  <1>1. crit \in [op : {"render", "domains"}, com : SUBSET Addrs, todo : SUBSET Users]
    BY DEF CritOK
  <1>2. crit' \in [op : {"render", "domains"}, com : SUBSET Addrs, todo : SUBSET Users]
    BY <1>1
  <1> QED BY <1>1, <1>2, CritPass

\* The settings of a user nobody configured, and a file that was cut off.
LEMMA FreshIsCcd == IsCcd(Fresh) /\ Surviving(Fresh) = {} /\ IsFile(NoFile)
  <1>1. IsCcd(Fresh) /\ Surviving(Fresh) = {}
    BY DEF Fresh, IsCcd, Surviving, Empty
  <1>2. IsFile(NoFile) BY DEF NoFile, IsFile, Empty
  <1> QED BY <1>1, <1>2

\* modifyCcd in a pass: the file is rendered again from settings that u asked for.
LEMMA PassStep ==
    ASSUME IInv, NEW u \in Users, NEW c, PassWrite(u, c), UNCHANGED <<intent, spoiled>>,
           IsCcd(c), c.client = file[u].client, crit.com \subseteq Addrs,
           u \notin spoiled => AsksFor(intent[u], c)
    PROVE  StoreOK'
  <1> DEFINE f == Render(c, crit.com, glob)
  <1>0. StoreOK /\ glob.excl \subseteq Nets BY DEF IInv, SharedOK, RoutesOK, GlobOK, Switches
  <1>1. CASE ~validateCcd(u, c)
    BY <1>0, <1>1, StoreFrame DEF PassWrite
  <1>2. CASE validateCcd(u, c)
    <2>1. /\ IsFile(f) /\ f.client = c.client /\ Parse(f).client = c.client
          /\ Parse(f).redirect = c.redirect /\ Parse(f).ips = Surviving(c)
          /\ DOMAIN Parse(f).doms = DOMAIN c.doms
      BY <1>0, RoundTrip
    <2>2. file' = [file EXCEPT ![u] = f] BY <1>2 DEF PassWrite
    <2> HIDE DEF f
    <2>3. Surviving(Parse(f)) = Parse(f).ips BY <2>1, ParsedIsCcd
    <2>4. u \notin spoiled => AsksFor(intent[u], Parse(f))
      BY <2>1, <2>3 DEF AsksFor
    <2>5. intent[u] \in Wanted /\ intent' = [intent EXCEPT ![u] = intent[u]]
      BY <1>0 DEF StoreOK
    <2>6. spoiled' = spoiled OBVIOUS
    <2> QED BY <1>0, <2>1, <2>2, <2>4, <2>5, <2>6, StoreWrite
  <1> QED BY <1>1, <1>2

\* The end of an edit: refused, or written as it was asked for.
LEMMA EditEndStep == ASSUME IInv, EditEnd PROVE StoreOK' /\ CritOK'
  <1>0. StoreOK /\ glob.excl \subseteq Nets /\ IsConfig(common)
    BY DEF IInv, SharedOK, RoutesOK, GlobOK, Switches
  <1>1. EditOK BY DEF IInv, EditEnd, CritOK
  <1>2. CritOK' BY CritPass DEF EditEnd
  <1>3. spoiled' = spoiled BY DEF EditEnd
  <1> DEFINE u == crit.user
             c == crit.ccd
             f == Render(c, expandCommonRoutes(common), glob)
  <1>4. CASE ~validateCcd(u, c)
    BY <1>0, <1>2, <1>3, <1>4, StoreFrame DEF EditEnd
  <1>5. CASE validateCcd(u, c)
    <2>1. expandCommonRoutes(common) \subseteq Addrs BY <1>0, Expanded
    <2>2. IsCcd(c) /\ u \in Users /\ crit.want \in Wanted
          /\ (u \notin spoiled => AsksFor(crit.want, c))
      BY <1>1 DEF EditOK
    <2>3. /\ IsFile(f) /\ f.client = c.client /\ Parse(f).client = c.client
          /\ Parse(f).redirect = c.redirect /\ Parse(f).ips = Surviving(c)
          /\ DOMAIN Parse(f).doms = DOMAIN c.doms
      BY <1>0, <2>1, <2>2, RoundTrip
    <2>4. file' = [file EXCEPT ![u] = f] /\ intent' = [intent EXCEPT ![u] = crit.want]
      BY <1>5 DEF EditEnd
    <2>5. c.client = "dynamic" \/ StaticIsFree(u, c.client)
      BY <1>5 DEF validateCcd
    <2> HIDE DEF f, c, u
    <2>6. Surviving(Parse(f)) = Parse(f).ips BY <2>3, ParsedIsCcd
    <2>7. u \notin spoiled => AsksFor(crit.want, Parse(f))
      BY <2>2, <2>3, <2>6 DEF AsksFor
    <2> QED BY <1>0, <1>2, <1>3, <2>2, <2>3, <2>4, <2>5, <2>7, StoreWrite
  <1> QED BY <1>4, <1>5

\* userCreate seeds the file of a new user, whatever was left of an earlier one.
LEMMA SeedStep == ASSUME IInv, NEW u \in Users, SeedCcd(u) PROVE StoreOK' /\ CritOK'
  <1> DEFINE f == Render(Fresh, making[u].com, glob)
             w == Asked(Fresh, {})
  <1>0. StoreOK /\ glob.excl \subseteq Nets /\ making[u].com \subseteq Addrs /\ CritOK
    BY DEF IInv, SharedOK, GlobOK, Switches, CarriedOK, SeedCcd
  <1>1. /\ file' = [file EXCEPT ![u] = f] /\ intent' = [intent EXCEPT ![u] = w]
        /\ spoiled' = spoiled \ ({u} \ InWrite) /\ crit' = crit
    BY DEF SeedCcd
  <1>2. /\ IsFile(f) /\ f.client = Fresh.client /\ Parse(f).client = Fresh.client
        /\ Parse(f).redirect = Fresh.redirect /\ Parse(f).ips = Surviving(Fresh)
        /\ DOMAIN Parse(f).doms = DOMAIN Fresh.doms
    BY <1>0, FreshIsCcd, RoundTrip
  <1>3. w \in Wanted /\ AsksFor(w, Fresh) BY AskedIsWanted, FreshIsCcd
  <1>4. Fresh.client = "dynamic" BY DEF Fresh
  <1> HIDE DEF f, w
  <1>5. Surviving(Parse(f)) = Parse(f).ips BY <1>2, ParsedIsCcd
  <1>6. AsksFor(w, Parse(f)) BY <1>2, <1>3, <1>5 DEF AsksFor
  <1>7. StoreOK' BY <1>0, <1>1, <1>2, <1>3, <1>4, <1>6, StoreWrite
  <1>8. CASE crit.op = "edit" /\ EditOK /\ crit # Idle
    <2>1. crit.user \notin spoiled' => crit.user \notin spoiled BY <1>1, <1>8 DEF InWrite
    <2> QED
      BY <1>1, <1>7, <1>8, <2>1
      DEF CritOK, EditOK, IsCcd, Wanted, AsksFor, Surviving, Holders
  <1>9. CASE ~(crit.op = "edit" /\ EditOK /\ crit # Idle)
    BY <1>0, <1>1, <1>7, <1>9, CritPass DEF CritOK
  <1> QED BY <1>8, <1>9

\* userDelete: the file is gone with what it was asked to hold, or nothing is claimed of
\* that user from then on.
LEMMA DeleteStep == ASSUME IInv, NEW u \in Users, DeleteUser(u) PROVE StoreOK' /\ CritOK'
  <1> DEFINE w == Asked(Fresh, {})
  <1>0. StoreOK /\ CritOK BY DEF IInv
  <1>1. intent' = [intent EXCEPT ![u] = w] /\ crit' = crit /\ spoiled \subseteq spoiled'
    BY DEF DeleteUser
  <1>2. w \in Wanted BY AskedIsWanted, FreshIsCcd
  <1>3. AsksFor(w, Parse(NoFile))
    BY DEF AsksFor, Asked, Fresh, NoFile, Parse, Surviving, Empty
  <1>4. \/ file' = [file EXCEPT ![u] = NoFile]
        \/ u \in spoiled' /\ file' = file
    BY DEF DeleteUser
  <1> HIDE DEF w
  <1>5. CASE file' = [file EXCEPT ![u] = NoFile]
    <2>1. IsFile(NoFile) /\ NoFile.client = "dynamic" BY FreshIsCcd DEF NoFile
    <2> QED BY <1>0, <1>1, <1>2, <1>3, <1>5, <2>1, StoreWrite, CritFrame
  <1>6. CASE u \in spoiled' /\ file' = file
    <2>1. file' = [file EXCEPT ![u] = file[u]] /\ IsFile(file[u])
      BY <1>0, <1>6 DEF StoreOK, FilesOK
    <2> QED BY <1>0, <1>1, <1>2, <1>6, <2>1, StoreWrite, CritFrame
  <1> QED BY <1>4, <1>5, <1>6

\* A write that was cut off: nothing is claimed of that user from then on.
LEMMA WriteFailsStep == ASSUME IInv, NEW u \in Users, WriteFails(u) PROVE StoreOK' /\ CritOK'
  <1>0. StoreOK /\ CritOK BY DEF IInv
  <1>1. /\ file' = [file EXCEPT ![u] = NoFile] /\ spoiled' = spoiled \cup {u}
        /\ intent' = intent /\ u \in InWrite
        /\ crit' = IF crit.op = "edit" THEN Idle ELSE [crit EXCEPT !.todo = @ \ {u}]
    BY DEF WriteFails
  <1>2. crit # Idle BY <1>1 DEF InWrite
  <1>3. intent[u] \in Wanted /\ intent' = [intent EXCEPT ![u] = intent[u]]
    BY <1>0, <1>1 DEF StoreOK
  <1>4. IsFile(NoFile) /\ NoFile.client = "dynamic" BY FreshIsCcd DEF NoFile
  <1>5. StoreOK' BY <1>0, <1>1, <1>3, <1>4, StoreWrite
  <1>6. CASE crit.op = "edit" BY <1>1, <1>5, <1>6, CritPass
  <1>7. CASE crit.op # "edit" BY <1>0, <1>1, <1>2, <1>5, <1>7, PassOn
  <1> QED BY <1>6, <1>7

\* rerenderAllCcds comes to u.
LEMMA RenderUserStep == ASSUME IInv, NEW u \in Users, RenderUser(u) PROVE StoreOK' /\ CritOK'
  <1>0. CritOK BY DEF IInv
  <1>1. /\ crit # Idle /\ crit.op # "edit" /\ PassWrite(u, Parse(file[u]))
        /\ crit' = [crit EXCEPT !.todo = @ \ {u}] /\ UNCHANGED <<intent, spoiled>>
    BY DEF RenderUser
  <1>2. CritOK' /\ crit.com \subseteq Addrs BY <1>0, <1>1, PassOn
  <1>3. /\ IsCcd(Parse(file[u])) /\ Parse(file[u]).client = file[u].client
        /\ u \notin spoiled => AsksFor(intent[u], Parse(file[u]))
    BY BeforeEdit, ParsedIsCcd
  <1> QED BY <1>1, <1>2, <1>3, PassStep

\* refreshAllUserDomains comes to u.
LEMMA DomainsUserStep == ASSUME IInv, NEW u \in Users, DomainsUser(u) PROVE StoreOK' /\ CritOK'
  <1>0. CritOK /\ StoreOK BY DEF IInv
  <1>1. /\ crit # Idle /\ crit.op # "edit"
        /\ crit' = [crit EXCEPT !.todo = @ \ {u}] /\ UNCHANGED <<intent, spoiled>>
    BY DEF DomainsUser
  <1>2. CritOK' /\ crit.com \subseteq Addrs BY <1>0, <1>1, PassOn
  <1> DEFINE old == Parse(file[u])
  <1>3. PICK new \in [DOMAIN old.doms -> SUBSET Addrs] :
            /\ \A d \in DOMAIN new : new[d] \in Answers(d) \cup {old.doms[d]}
            /\ file' = file \/ PassWrite(u, [old EXCEPT !.doms = new])
    BY DEF DomainsUser
  <1>4. CASE file' = file BY <1>0, <1>1, <1>2, <1>4, StoreFrame
  <1>5. CASE PassWrite(u, [old EXCEPT !.doms = new])
    <2> DEFINE c == [old EXCEPT !.doms = new]
    <2>1. IsFile(file[u]) /\ (u \notin spoiled => AsksFor(intent[u], old)) BY BeforeEdit
    <2>2. /\ IsCcd(c) /\ c.client = file[u].client
          /\ \A w : AsksFor(w, old) => AsksFor(w, c)
      BY <1>3, <2>1, NewAnswers
    <2>3. PassWrite(u, c) BY <1>5
    <2> HIDE DEF c
    <2>4. u \notin spoiled => AsksFor(intent[u], c) BY <2>1, <2>2
    <2> QED BY <1>1, <1>2, <2>2, <2>3, <2>4, PassStep
  <1> QED BY <1>3, <1>4, <1>5

\* An edit begins.
LEMMA BeginStep == ASSUME IInv, NEW u \in Users, Begins(u) PROVE StoreOK' /\ CritOK'
  <1>1. PICK c, want : /\ EditBegin(u, c, want)
                       /\ IsCcd(c) /\ want \in Wanted
                       /\ u \notin spoiled => AsksFor(want, c)
    BY DEF Begins
  <1>2. /\ crit' = [op |-> "edit", user |-> u, ccd |-> c, want |-> want]
        /\ spoiled \subseteq spoiled' /\ UNCHANGED <<file, intent>>
    BY <1>1 DEF EditBegin
  <1>3. StoreOK' BY <1>2, StoreFrame DEF IInv
  <1>4. /\ crit'.op = "edit" /\ crit'.user = u /\ crit'.ccd = c /\ crit'.want = want
    BY <1>2
  <1>6. EditOK'
    BY <1>1, <1>2, <1>4 DEF EditOK, IsCcd, Wanted, AsksFor, Surviving, Holders
  <1> QED BY <1>3, <1>4, <1>6 DEF CritOK

\* Every step keeps the files and what the holder of ccdMu is about to write.
LEMMA StoreStep == IInv /\ [Next]_vars => StoreOK' /\ CritOK'
  <1> SUFFICES ASSUME IInv, [Next]_vars PROVE StoreOK' /\ CritOK'
    OBVIOUS
  <1>0. StoreOK /\ CritOK /\ listed \subseteq Users /\ renders \subseteq (SUBSET Addrs) \cup {Unread}
        /\ IsConfig(common)
    BY DEF IInv, SharedOK, RoutesOK, CarriedOK
  <1>1. ASSUME UNCHANGED <<file, intent, crit>>, spoiled \subseteq spoiled'
        PROVE  StoreOK' /\ CritOK'
    BY <1>0, <1>1, StoreFrame, CritFrame
  <1>2. CASE CommonNext
    <2>1. ASSUME NEW cfg, Commit(cfg) PROVE UNCHANGED <<file, intent, crit, spoiled>>
      BY <2>1 DEF Commit
    <2>2. CASE CreateCommonRoute \/ UpdateCommonRoute \/ DeleteCommonRoute \/ RefreshCommonRoutes
      <3>1. \E cfg : Commit(cfg)
        BY <2>2, Zenon DEF CreateCommonRoute, UpdateCommonRoute, DeleteCommonRoute,
                          RefreshCommonRoutes
      <3> QED BY <1>1, <2>1, <3>1
    <2>3. CASE SchedulerResolve \/ SchedulerApply
      BY <1>1, <2>3 DEF SchedulerResolve, SchedulerApply
    <2> QED BY <1>2, <2>2, <2>3 DEF CommonNext
  <1>3. ASSUME NEW w \in Savers, SaveRead(w) \/ SaveApply(w) PROVE StoreOK' /\ CritOK'
    BY <1>1, <1>3 DEF SaveRead, SaveApply
  <1>4. CASE RenderRead BY <1>1, <1>4 DEF RenderRead
  <1>5. CASE RenderBegin \/ DomainsBegin
    <2>1. UNCHANGED <<file, intent>> /\ spoiled \subseteq spoiled'
      BY <1>5 DEF RenderBegin, DomainsBegin
    <2>2. expandCommonRoutes(common) \subseteq Addrs BY <1>0, Expanded
    <2>3. crit' \in [op : {"render", "domains"}, com : SUBSET Addrs, todo : SUBSET Users]
      BY <1>0, <1>5, <2>2 DEF RenderBegin, DomainsBegin
    <2> QED BY <1>0, <2>1, <2>3, StoreFrame, CritPass
  <1>6. CASE PassEnd \/ Crash
    <2>1. UNCHANGED <<file, intent>> /\ spoiled \subseteq spoiled' /\ crit' = Idle
      BY <1>6 DEF PassEnd, Crash
    <2> QED BY <1>0, <2>1, StoreFrame, CritPass
  <1>7. CASE EditEnd BY <1>7, EditEndStep
  <1>8. ASSUME NEW u \in Users, RenderUser(u) PROVE StoreOK' /\ CritOK'
    BY <1>8, RenderUserStep
  <1>9. ASSUME NEW u \in Users, DomainsUser(u) PROVE StoreOK' /\ CritOK'
    BY <1>9, DomainsUserStep
  <1>10. ASSUME NEW u \in Users,
                ApplyCcd(u) \/ AddCcdRoutes(u) \/ RemoveCcdRoutes(u) \/ RefreshCcd(u)
         PROVE  StoreOK' /\ CritOK'
    BY <1>10, EditsBegin, BeginStep
  <1>11. ASSUME NEW u \in Users, CreateUser(u) \/ CreateEnd(u) \/ ChangeStatus(u)
         PROVE  StoreOK' /\ CritOK'
    BY <1>1, <1>11 DEF CreateUser, CreateEnd, ChangeStatus
  <1>12. ASSUME NEW u \in Users, SeedCcd(u) PROVE StoreOK' /\ CritOK'
    BY <1>12, SeedStep
  <1>13. ASSUME NEW u \in Users, WriteFails(u) PROVE StoreOK' /\ CritOK'
    BY <1>13, WriteFailsStep
  <1>14. CASE UNCHANGED vars BY <1>1, <1>14 DEF vars
  <1>15. ASSUME NEW u \in Users, DeleteUser(u) PROVE StoreOK' /\ CritOK'
    BY <1>15, DeleteStep
  <1> QED BY <1>2, <1>3, <1>4, <1>5, <1>6, <1>7, <1>8, <1>9, <1>10, <1>11, <1>12, <1>13, <1>14,
             <1>15 DEF Next
-----------------------------------------------------------------------------
\* At first every active user has the file of a new user, the others have none.
LEMMA Initially == Init => IInv
  <1> SUFFICES ASSUME Init PROVE IInv
    OBVIOUS
  <1> DEFINE f == Render(Fresh, {}, glob)
             w == Asked(Fresh, {})
  <1>1. SharedOK
    <2>1. RoutesOK BY DEF Init, RoutesOK, IsConfig, Empty
    <2>2. GlobOK BY CcdRoutesAssumption DEF Init, GlobOK, Switches, DefaultSwitch
    <2>3. \A u \in Users : "com" \notin DOMAIN making[u] BY DEF Init, Idle
    <2>4. making = [u \in Users |-> making[u]] BY DEF Init
    <2>5. CarriedOK BY <2>3, <2>4 DEF Init, CarriedOK
    <2> QED BY <2>1, <2>2, <2>5 DEF SharedOK
  <1>2. /\ IsFile(f) /\ f.client = Fresh.client /\ Parse(f).client = Fresh.client
        /\ Parse(f).redirect = Fresh.redirect /\ Parse(f).ips = Surviving(Fresh)
        /\ DOMAIN Parse(f).doms = DOMAIN Fresh.doms
    BY <1>1, FreshIsCcd, RoundTrip DEF SharedOK, GlobOK, Switches
  <1>3. w \in Wanted /\ AsksFor(w, Fresh) BY AskedIsWanted, FreshIsCcd
  <1>4. AsksFor(w, Parse(NoFile))
    BY DEF AsksFor, Asked, Fresh, NoFile, Parse, Surviving, Empty
  <1>5. Fresh.client = "dynamic" /\ NoFile.client = "dynamic" BY DEF Fresh, NoFile
  <1>6. /\ file = [u \in Users |-> file[u]] /\ \A u \in Users : file[u] \in {f, NoFile}
        /\ intent = [u \in Users |-> w]
    BY DEF Init
  <1> HIDE DEF f, w
  <1>7. Surviving(Parse(f)) = Parse(f).ips BY <1>2, ParsedIsCcd
  <1>8. AsksFor(w, Parse(f)) BY <1>2, <1>3, <1>7 DEF AsksFor
  <1>9. FilesOK BY <1>2, <1>6, FreshIsCcd DEF FilesOK
  <1>10. PersonalKept
    BY <1>3, <1>4, <1>6, <1>8, <1>9, KeptFields DEF PersonalKept, FilesOK
  <1>11. StaticUnique BY <1>2, <1>5, <1>6 DEF StaticUnique
  <1>12. CritOK BY DEF Init, CritOK
  <1> QED BY <1>1, <1>3, <1>6, <1>9, <1>10, <1>11, <1>12 DEF IInv, StoreOK

\* The invariant holds in every behaviour.
LEMMA Always == Spec => []IInv
  <1>1. IInv /\ [Next]_vars => IInv' BY SharedStep, StoreStep DEF IInv
  <1> QED BY <1>1, Initially, PTL DEF Spec

\* parseCcd gives back what the last successful edit asked for (ccd.go), for every set of
\* users, routes and domains, whatever common routes, switches, passes, seeds, revocations
\* and crashes happen; a deleted user's settings are gone (DeleteClient).  Nothing is claimed
\* of a file whose write was cut off or unprotected, or whose removal was lost, until a new
\* user of that name is seeded.
THEOREM SettingsKept == Spec => []PersonalKept
  <1>1. IInv => PersonalKept BY DEF IInv, StoreOK
  <1> QED BY <1>1, Always, PTL

\* No two files hand out one static address (checkStaticAddressIsFree), including the files
\* of revoked users and those a lost removal left; the address of a file that was removed
\* may go to another user.
THEOREM StaticHandedOutOnce == Spec => []StaticUnique
  <1>1. IInv => StaticUnique BY DEF IInv, StoreOK
  <1> QED BY <1>1, Always, PTL

\* A DNS answer stays with the domain it was given for (refreshCommonRoutesOnce,
\* mergePushRoutes, parseCcd), for every DNS.
THEOREM AnswersStayHome == Spec => []AnswersBelong
  <1>1. IInv => AnswersBelong
    <2> SUFFICES ASSUME IInv PROVE AnswersBelong
      OBVIOUS
    <2>1. \A i \in DOMAIN common :
            common[i].kind = "domain" => common[i].ips \subseteq Zone[common[i].domain]
      BY DEF IInv, SharedOK, RoutesOK, IsConfig, IsRoute
    <2>2. ASSUME NEW u \in Users, NEW d \in file[u].decl
          PROVE  Parse(file[u]).doms[d] \subseteq Zone[d]
      <3>1. IsFile(file[u]) BY DEF IInv, StoreOK, FilesOK
      <3> QED BY <3>1, ParsedIsCcd DEF IsCcd
    <2> QED BY <2>1, <2>2 DEF AnswersBelong
  <1> QED BY <1>1, Always, PTL

\* A deleted common route never comes back (commonRoutesStore.update): no step, not even the
\* one that applies an answer for it or a start, puts an identity into the list or its file
\* that was handed out before and is not in the file.
THEOREM DeletedForGood == Spec => DeletedStaysDeleted
  <1>1. ASSUME IInv, [Next]_vars, NEW i \in used, i \notin DOMAIN routes
        PROVE  i \notin DOMAIN routes' \cup DOMAIN common'
    <2>0. i \notin DOMAIN common BY <1>1 DEF IInv, SharedOK, RoutesOK
    <2>1. CASE UNCHANGED <<common, routes>> BY <1>1, <2>0, <2>1
    <2>2. CASE CreateCommonRoute
      <3>1. PICK j \in Ids \ used : \E e :
              /\ routes' = common'
              /\ common' = [k \in DOMAIN common \cup {j} |-> IF k = j THEN e ELSE common[k]]
        BY <2>2 DEF CreateCommonRoute, Commit
      <3> QED BY <1>1, <2>0, <3>1
    <2>3. CASE UpdateCommonRoute
      <3>1. PICK j \in DOMAIN common : \E e :
                routes' = common' /\ common' = [common EXCEPT ![j] = e]
        BY <2>3 DEF UpdateCommonRoute, Commit
      <3> QED BY <1>1, <2>0, <3>1
    <2>4. CASE DeleteCommonRoute BY <1>1, <2>0, <2>4 DEF DeleteCommonRoute, Commit
    <2>5. CASE RefreshCommonRoutes BY <1>1, <2>0, <2>5 DEF RefreshCommonRoutes, Commit
    <2>6. CASE SchedulerApply BY <1>1, <2>0, <2>6 DEF SchedulerApply, Refreshed
    <2>7. ASSUME NEW u \in Users,
                 ApplyCcd(u) \/ AddCcdRoutes(u) \/ RemoveCcdRoutes(u) \/ RefreshCcd(u)
          PROVE  UNCHANGED <<common, routes>>
      BY <1>1, <2>7, EditsBegin DEF Begins, EditBegin, disk
    <2>8. ASSUME NEW u \in Users,
                 \/ RenderUser(u) \/ DomainsUser(u) \/ CreateUser(u) \/ SeedCcd(u)
                 \/ CreateEnd(u) \/ ChangeStatus(u) \/ DeleteUser(u) \/ WriteFails(u)
          PROVE  UNCHANGED <<common, routes>>
      BY <2>8 DEF RenderUser, DomainsUser, CreateUser, SeedCcd, CreateEnd, ChangeStatus,
                  DeleteUser, WriteFails, disk
    <2>9. ASSUME NEW w \in Savers, SaveRead(w) \/ SaveApply(w)
          PROVE  UNCHANGED <<common, routes>>
      BY <2>9 DEF SaveRead, SaveApply, disk
    <2>10. ASSUME \/ SchedulerResolve \/ RenderRead \/ RenderBegin \/ DomainsBegin \/ PassEnd
                  \/ EditEnd \/ UNCHANGED vars
           PROVE  UNCHANGED <<common, routes>>
      BY <2>10 DEF SchedulerResolve, RenderRead, RenderBegin, DomainsBegin, PassEnd, EditEnd,
                   vars, disk
    <2>11. CASE Crash BY <1>1, <2>0, <2>11 DEF Crash, disk, Empty
    <2> QED BY <1>1, <2>1, <2>2, <2>3, <2>4, <2>5, <2>6, <2>7, <2>8, <2>9, <2>10,
               <2>11 DEF Next, CommonNext
  <1>2. IInv /\ [Next]_vars =>
            [\A i \in used : i \notin DOMAIN routes =>
                 i \notin DOMAIN routes' \cup DOMAIN common']_vars
    BY <1>1
  <1> QED BY <1>2, Always, PTL DEF Spec, DeletedStaysDeleted
=============================================================================
