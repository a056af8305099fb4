---------------------------------- MODULE Certs ----------------------------------
(***************************************************************************)
(* Custom domains and their certificates (internal/server/certs.go,        *)
(* domains.go, store/domains.go, sync.go) under the builtin provider: one  *)
(* goroutine issues certificates, one job of its queue after another, and  *)
(* sweeps once a day for domains that want one; requests add, delete and   *)
(* retry domains and sync the app, whose Ingress serves TLS for the hosts  *)
(* that are issued.  A sync does nothing for an ejected app, or when the   *)
(* latest deployment is not live; a deploy applies the Ingress as well.    *)
(*                                                                         *)
(* The domains are of one app.  A job carries the row as it was when it    *)
(* was queued and writes by id; SQLite gives a new row the id after the    *)
(* highest, which a deleted row may have had.                              *)
(***************************************************************************)
EXTENDS Naturals, FiniteSets, SequencesExt

CONSTANTS
    Hosts,        \* host names
    Wild,         \* those validated over DNS-01
    MaxDomainId,  \* bound: ids of domains
    QueueSize,    \* capacity of the queue, 64 in the code
    MaxAsks,      \* bound: requests, deploys, and times a certificate nears its expiry
    CertFaults,   \* what may go wrong, each once: a subset of CertFaultKinds
    MaxCertFaults \* bound: how many of them in all

\* acme: an order.  store: a statement.  kube: applying an object.
CertFaultKinds == {"acme", "store", "kube", "crash"}

DomainIds == 1 .. MaxDomainId

ASSUME CertAssumption ==
    /\ IsFiniteSet(Hosts) /\ Wild \subseteq Hosts /\ "" \notin Hosts
    /\ MaxDomainId \in Nat \ {0} /\ QueueSize \in Nat \ {0} /\ MaxAsks \in Nat
    /\ CertFaults \subseteq CertFaultKinds /\ MaxCertFaults \in Nat

VARIABLES
    domain,    \* domains: the row of each id
    secret,    \* the TLS Secret of each host: none, fresh, or due for renewal
    tls,       \* the hosts that the Ingress of the app serves TLS for
    release,   \* the latest deployment and its driver
    ejected,   \* apps.ejected
    queue,     \* jobs
    issuer,    \* the goroutine of certManager.Run
    client,    \* the goroutine of a request
    pendingHosts, \* in the memory of the manager
    challenge, \* the hosts of the Ingress luncur-acme
    outdated,  \* history: the last sync was skipped, or applied what was no longer so
    astray,    \* history: hosts whose row took what was meant for another
    asks       \* requests and faults so far

certVars == <<domain, secret, tls, release, ejected, queue, issuer, client,
              pendingHosts, challenge, outdated, astray, asks>>
appVars  == <<release, ejected>>

\* until: cert_expires_at, none, far, or near enough for a renewal.
Domain    == [host : Hosts, status : {"none", "pending", "issued", "failed"},
              until : {"none", "fresh", "due"}]
NoDomain  == [host |-> "", status |-> "none", until |-> "none"]
\* ejected: of the copy of the app's row.
CertJob   == [id : DomainIds, row : Domain, ejected : BOOLEAN]
NoCertJob == [id |-> 1, row |-> NoDomain, ejected |-> FALSE]

IssuerPCs == {"sweep", "wait", "pending", "challenge", "order", "secret", "issued",
              "sync", "render", "apply", "fail", "clear"}
ClientPCs == {"idle", "sync", "render", "apply", "kick"}
Release   == [status : {"none", "deploying", "live", "failed"},
              pc : {"idle", "render", "apply", "settle"}, tls : SUBSET Hosts]

\* shown: the challenge Ingress was applied, and will be again when the job ends.
NoIssue  == [pc |-> "wait", job |-> NoCertJob, shown |-> FALSE, tls |-> {}]
NoClient == [pc |-> "idle", job |-> NoCertJob, kick |-> FALSE, tls |-> {}]

CertInit ==
    /\ domain = [i \in DomainIds |-> NoDomain]
    /\ secret = [h \in Hosts |-> "none"]
    /\ tls = {} /\ queue = <<>> /\ ejected = FALSE
    /\ \E s \in {"none", "live"} : release = [status |-> s, pc |-> "idle", tls |-> {}]
    /\ issuer = [NoIssue EXCEPT !.pc = "sweep"] /\ client = NoClient
    /\ pendingHosts = {} /\ challenge = {}
    /\ outdated = FALSE /\ astray = {}
    /\ asks = [n |-> 0, faults |-> {}]

--------------------------------

Used   == {i \in DomainIds : domain[i] # NoDomain}
NextOf == Max(Used \cup {0}) + 1

Broken(k) == /\ k \in CertFaults \ asks.faults /\ Cardinality(asks.faults) < MaxCertFaults
             /\ asks' = [asks EXCEPT !.faults = @ \cup {k}]

\* renderApp: TLS for the domains that are issued.
Rendered == {domain[i].host : i \in {i \in Used : domain[i].status = "issued"}}

\* A host that is issued is not among those that are, or will be, served.
Behind(served) == ~ (Rendered \subseteq served)

\* Mutant: the queue grows.
KickedAlways(q, job) == Append(q, job)

\* Kick: dropped when the queue is full.
Kicked(q, job) == IF Len(q) < QueueSize THEN Append(q, job) ELSE q

\* SetDomainCert of the job at hand: by id, without a look at the row.
SetCert(status, until) ==
    LET i == issuer.job.id
    IN  /\ domain' = IF i \in Used
                     THEN [domain EXCEPT ![i].status = status, ![i].until = until] ELSE domain
        /\ astray' = IF i \in Used /\ domain[i].host # issuer.job.row.host
                     THEN astray \cup {domain[i].host} ELSE astray

At(pc) == issuer' = [issuer EXCEPT !.pc = pc]

--------------------------------
(***************************************************************************)
(* certManager: sweep and issue.                                           *)
(***************************************************************************)

\* Mutant: a domain whose issue was cut off is left to itself.
WantsCertNew(d) == d.status = "none" \/ (d.status = "issued" /\ d.until = "due")

WantsCert(d) == d.status \in {"none", "pending"} \/ (d.status = "issued" /\ d.until = "due")

\* When the process starts, and once a day when the queue is empty.
Sweeps ==
    /\ issuer.pc \in {"sweep", "wait"}
    /\ issuer.pc = "wait" => queue = <<>> /\ \E i \in Used : WantsCert(domain[i])
    /\ LET Kick(q, i) == Kicked(q, [id |-> i, row |-> domain[i], ejected |-> ejected])
       IN  queue' = FoldLeft(LAMBDA q, i : IF i \in Used /\ WantsCert(domain[i]) THEN Kick(q, i) ELSE q,
                             queue, [i \in DomainIds |-> i])
    /\ At("wait")
    /\ UNCHANGED <<appVars, domain, secret, tls, client, pendingHosts, challenge, outdated,
                   astray, asks>>

Takes ==
    /\ issuer.pc = "wait" /\ queue # <<>>
    /\ issuer' = [NoIssue EXCEPT !.pc = "pending", !.job = Head(queue)]
    /\ queue' = Tail(queue)
    /\ UNCHANGED <<appVars, domain, secret, tls, client, pendingHosts, challenge, outdated,
                   astray, asks>>

MarksPending ==
    /\ issuer.pc = "pending"
    /\ \/ /\ SetCert("pending", issuer.job.row.until)
          /\ At(IF issuer.job.row.host \in Wild THEN "order" ELSE "challenge") /\ UNCHANGED asks
       \/ Broken("store") /\ At("fail") /\ UNCHANGED <<domain, astray>>
    /\ UNCHANGED <<appVars, secret, tls, queue, client, pendingHosts, challenge, outdated>>

\* setChallengeHost: what the manager remembers becomes the Ingress, or is remembered only.
ShowsChallenge ==
    /\ issuer.pc = "challenge"
    /\ pendingHosts' = pendingHosts \cup {issuer.job.row.host}
    /\ \/ /\ challenge' = pendingHosts'
          /\ issuer' = [issuer EXCEPT !.pc = "order", !.shown = TRUE] /\ UNCHANGED asks
       \/ Broken("kube") /\ At("fail") /\ UNCHANGED challenge
    /\ UNCHANGED <<appVars, domain, secret, tls, queue, client, outdated, astray>>

\* Issuer.Issue.
Orders ==
    /\ issuer.pc = "order"
    /\ \/ At("secret") /\ UNCHANGED asks
       \/ Broken("acme") /\ At("fail")
    /\ UNCHANGED <<appVars, domain, secret, tls, queue, client, pendingHosts, challenge,
                   outdated, astray>>

StoresSecret ==
    /\ issuer.pc = "secret"
    /\ \/ /\ secret' = [secret EXCEPT ![issuer.job.row.host] = "fresh"]
          /\ At("issued") /\ UNCHANGED asks
       \/ Broken("kube") /\ At("fail") /\ UNCHANGED secret
    /\ UNCHANGED <<appVars, domain, tls, queue, client, pendingHosts, challenge, outdated,
                   astray>>

MarksIssued ==
    /\ issuer.pc = "issued"
    /\ \/ SetCert("issued", "fresh") /\ At("sync") /\ UNCHANGED asks
       \/ Broken("store") /\ At("fail") /\ UNCHANGED <<domain, astray>>
    /\ UNCHANGED <<appVars, secret, tls, queue, client, pendingHosts, challenge, outdated>>

\* syncApp: the copy of the app, and its latest deployment.
IssuerSyncs ==
    /\ issuer.pc = "sync"
    /\ IF release.status = "live" /\ ~ issuer.job.ejected
       THEN At("render") /\ UNCHANGED outdated
       ELSE At("clear") /\ outdated' = Behind(tls)
    /\ UNCHANGED <<appVars, domain, secret, tls, queue, client, pendingHosts, challenge,
                   astray, asks>>

IssuerRenders ==
    /\ issuer.pc = "render"
    /\ issuer' = [issuer EXCEPT !.pc = "apply", !.tls = Rendered]
    /\ UNCHANGED <<appVars, domain, secret, tls, queue, client, pendingHosts, challenge,
                   outdated, astray, asks>>

IssuerApplies ==
    /\ issuer.pc = "apply"
    /\ At("clear")
    /\ \/ tls' = issuer.tls /\ outdated' = Behind(issuer.tls) /\ UNCHANGED asks
       \/ Broken("kube") /\ outdated' = Behind(tls) /\ UNCHANGED tls
    /\ UNCHANGED <<appVars, domain, secret, queue, client, pendingHosts, challenge, astray>>

\* fail: the row says so, unless that fails too.
MarksFailed ==
    /\ issuer.pc = "fail"
    /\ At("clear")
    /\ \/ SetCert("failed", "none") /\ UNCHANGED asks
       \/ Broken("store") /\ UNCHANGED <<domain, astray>>
    /\ UNCHANGED <<appVars, secret, tls, queue, client, pendingHosts, challenge, outdated>>

\* The deferred setChallengeHost; a failure is logged.
ClearsChallenge ==
    /\ issuer.pc = "clear"
    /\ issuer' = NoIssue
    /\ pendingHosts' = IF issuer.shown THEN pendingHosts \ {issuer.job.row.host} ELSE pendingHosts
    /\ \/ challenge' = (IF issuer.shown THEN pendingHosts' ELSE challenge) /\ UNCHANGED asks
       \/ issuer.shown /\ Broken("kube") /\ UNCHANGED challenge
    /\ UNCHANGED <<appVars, domain, secret, tls, queue, client, outdated, astray>>

IssuerStep ==
    \/ Sweeps \/ Takes \/ MarksPending \/ ShowsChallenge \/ Orders \/ StoresSecret
    \/ MarksIssued \/ IssuerSyncs \/ IssuerRenders \/ IssuerApplies \/ MarksFailed \/ ClearsChallenge

--------------------------------
(***************************************************************************)
(* addDomain, handleDeleteDomain, retryDomain, and any other sync: all     *)
(* refuse an ejected app.  ejectApp, handleAdoptApp.                       *)
(***************************************************************************)

AskOnce == asks.n < MaxAsks /\ asks' = [asks EXCEPT !.n = @ + 1]
Ask     == client.pc = "idle" /\ ~ ejected /\ AskOnce

\* AddDomain; UNIQUE (hostname).
AddsDomain(h) ==
    /\ Ask /\ NextOf \in DomainIds
    /\ \A i \in Used : domain[i].host # h
    /\ LET row == [NoDomain EXCEPT !.host = h]
       IN  /\ domain' = [domain EXCEPT ![NextOf] = row]
           /\ client' = [NoClient EXCEPT !.pc = "sync", !.kick = TRUE,
                             !.job = [id |-> NextOf, row |-> row, ejected |-> FALSE]]
    /\ UNCHANGED <<appVars, secret, tls, queue, issuer, pendingHosts, challenge, outdated,
                   astray>>

DeletesDomain(i) ==
    /\ Ask /\ i \in Used
    /\ domain' = [domain EXCEPT ![i] = NoDomain]
    /\ client' = [NoClient EXCEPT !.pc = "sync"]
    /\ UNCHANGED <<appVars, secret, tls, queue, issuer, pendingHosts, challenge, outdated,
                   astray>>

\* The row is found, and reset by its id.
RetriesDomain(i) ==
    /\ Ask /\ i \in Used
    /\ client' = [NoClient EXCEPT !.pc = "kick",
                      !.job = [id |-> i, row |-> [domain[i] EXCEPT !.status = "none"],
                               ejected |-> FALSE]]
    /\ domain' = [domain EXCEPT ![i].status = "none", ![i].until = "none"]
    /\ UNCHANGED <<appVars, secret, tls, queue, issuer, pendingHosts, challenge, outdated,
                   astray>>

OtherSync ==
    /\ Ask
    /\ client' = [NoClient EXCEPT !.pc = "sync"]
    /\ UNCHANGED <<appVars, domain, secret, tls, queue, issuer, pendingHosts, challenge,
                   outdated, astray>>

\* What was applied stays.
Ejects ==
    /\ Ask /\ ejected' = TRUE
    /\ UNCHANGED <<domain, secret, tls, release, queue, issuer, client, pendingHosts,
                   challenge, outdated, astray>>

Adopts ==
    /\ client.pc = "idle" /\ ejected /\ AskOnce /\ ejected' = FALSE
    /\ client' = [NoClient EXCEPT !.pc = "sync"]
    /\ UNCHANGED <<domain, secret, tls, release, queue, issuer, pendingHosts, challenge,
                   outdated, astray>>

\* syncIfLive, syncApp: the copy of the app is not ejected.
ClientSyncs ==
    /\ client.pc = "sync"
    /\ IF release.status = "live"
       THEN client' = [client EXCEPT !.pc = "render"] /\ UNCHANGED outdated
       ELSE /\ client' = IF client.kick THEN [client EXCEPT !.pc = "kick"] ELSE NoClient
            /\ outdated' = Behind(tls)
    /\ UNCHANGED <<appVars, domain, secret, tls, queue, issuer, pendingHosts, challenge,
                   astray, asks>>

ClientRenders ==
    /\ client.pc = "render"
    /\ client' = [client EXCEPT !.pc = "apply", !.tls = Rendered]
    /\ UNCHANGED <<appVars, domain, secret, tls, queue, issuer, pendingHosts, challenge,
                   outdated, astray, asks>>

ClientApplies ==
    /\ client.pc = "apply"
    /\ client' = IF client.kick THEN [client EXCEPT !.pc = "kick"] ELSE NoClient
    /\ \/ tls' = client.tls /\ outdated' = Behind(client.tls) /\ UNCHANGED asks
       \/ Broken("kube") /\ outdated' = Behind(tls) /\ UNCHANGED tls
    /\ UNCHANGED <<appVars, domain, secret, queue, issuer, pendingHosts, challenge, astray>>

ClientKicks ==
    /\ client.pc = "kick"
    /\ queue' = Kicked(queue, client.job)
    /\ client' = NoClient
    /\ UNCHANGED <<appVars, domain, secret, tls, issuer, pendingHosts, challenge, outdated,
                   astray, asks>>

--------------------------------
(***************************************************************************)
(* finishDeploy, as far as the Ingress goes.  The page and a pipeline      *)
(* deploy an ejected app too.                                              *)
(***************************************************************************)

Released(status, pc, hosts) == release' = [status |-> status, pc |-> pc, tls |-> hosts]

DeployAsked ==
    /\ release.pc = "idle" /\ AskOnce
    /\ Released("deploying", "render", {})
    /\ UNCHANGED <<domain, secret, tls, ejected, queue, issuer, client, pendingHosts,
                   challenge, outdated, astray>>

\* The build or the render may fail.
DeployRenders ==
    /\ release.pc = "render"
    /\ Released("deploying", "apply", Rendered) \/ Released("failed", "idle", {})
    /\ UNCHANGED <<domain, secret, tls, ejected, queue, issuer, client, pendingHosts,
                   challenge, outdated, astray, asks>>

DeployApplies ==
    /\ release.pc = "apply"
    /\ \/ /\ tls' = release.tls /\ outdated' = Behind(release.tls)
          /\ Released("deploying", "settle", {}) /\ UNCHANGED asks
       \/ Broken("kube") /\ Released("failed", "idle", {}) /\ UNCHANGED <<tls, outdated>>
    /\ UNCHANGED <<domain, secret, ejected, queue, issuer, client, pendingHosts, challenge,
                   astray>>

\* The gate.
DeploySettles ==
    /\ release.pc = "settle"
    /\ Released("live", "idle", {}) \/ Released("failed", "idle", {})
    /\ UNCHANGED <<domain, secret, tls, ejected, queue, issuer, client, pendingHosts,
                   challenge, outdated, astray, asks>>

--------------------------------

\* Two months pass: every certificate is within 30 days of its expiry.
CertsAge ==
    /\ asks.n < MaxAsks /\ asks' = [asks EXCEPT !.n = @ + 1]
    /\ \E h \in Hosts : secret[h] = "fresh"
    /\ issuer.pc = "wait" /\ client.pc = "idle"
    /\ secret' = [h \in Hosts |-> IF secret[h] = "fresh" THEN "due" ELSE secret[h]]
    /\ domain' = [i \in DomainIds |-> IF domain[i].until = "fresh"
                                      THEN [domain[i] EXCEPT !.until = "due"] ELSE domain[i]]
    /\ UNCHANGED <<appVars, tls, queue, issuer, client, pendingHosts, challenge, outdated,
                   astray>>

CertCrash ==
    /\ Broken("crash")
    /\ issuer' = [NoIssue EXCEPT !.pc = "sweep"] /\ client' = NoClient
    /\ queue' = <<>> /\ pendingHosts' = {}
    /\ outdated' = IF issuer.pc \in {"sync", "render", "apply"} THEN Behind(tls) ELSE outdated
    /\ IF release.pc = "idle" THEN UNCHANGED release ELSE Released("deploying", "render", {})
    /\ UNCHANGED <<domain, secret, tls, ejected, challenge, astray>>

CertNext ==
    \/ IssuerStep
    \/ \E h \in Hosts : AddsDomain(h)
    \/ \E i \in DomainIds : DeletesDomain(i) \/ RetriesDomain(i)
    \/ OtherSync \/ Ejects \/ Adopts \/ ClientSyncs \/ ClientRenders \/ ClientApplies \/ ClientKicks
    \/ DeployAsked \/ DeployRenders \/ DeployApplies \/ DeploySettles
    \/ CertsAge \/ CertCrash

CertSpec == CertInit /\ [][CertNext]_certVars

\* The issuer is a goroutine of the server, whose ticker does not stop.
CertFairness == WF_certVars(IssuerStep)

CertSpecFair == CertSpec /\ CertFairness

--------------------------------
(***************************************************************************)
(* Properties. What makes the certificates right: a domain gets one, and   *)
(* what is said to be issued is there and served.                          *)
(***************************************************************************)

\* Every variable has the shape its comment gives (certs.go, store/domains.go).
CertTypeOK ==
    /\ domain \in [DomainIds -> Domain \cup {NoDomain}]
    /\ secret \in [Hosts -> {"none", "fresh", "due"}]
    /\ tls \subseteq Hosts /\ Len(queue) <= QueueSize
    /\ \A k \in DOMAIN queue : queue[k] \in CertJob
    /\ issuer.pc \in IssuerPCs /\ client.pc \in ClientPCs
    /\ pendingHosts \subseteq Hosts /\ challenge \subseteq Hosts
    /\ release \in Release /\ ejected \in BOOLEAN
    /\ outdated \in BOOLEAN /\ astray \subseteq Hosts

\* A domain that is issued has its Secret and is served with it once the syncs are
\* through, also when it was deleted and added again, retried, or renewed in between,
\* and whatever deploys ended how, unless the last sync or deploy applied what it had
\* rendered before, or the sync was skipped (the copy of the app was ejected, the latest
\* deployment not live: nothing syncs when that deploy ends), failed or was cut off, or
\* the row took the outcome of another domain (issue, syncApp, addDomain, finishDeploy).
IssuedIsServed ==
    issuer.pc = "wait" /\ client.pc = "idle" /\ ~outdated =>
        \A i \in Used : domain[i].status = "issued" /\ domain[i].host \notin astray =>
            secret[domain[i].host] # "none" /\ domain[i].host \in tls

\* No domain waits for ever: over a full queue, a crash and failures, each is
\* issued or says that it failed (sweep, Kick).
DomainsSettle ==
    \A i \in DomainIds : []<>(domain[i].status \in {"issued", "failed"} \/ domain[i] = NoDomain)

\* What is issued is served, and whatever is asked is answered (certWorker, syncApp).
DomainsServed == []IssuedIsServed /\ DomainsSettle

\* Certificates are "renewed within 30 days of expiry".
Renewed ==
    \A i \in DomainIds : \A h \in Hosts : []<>~(domain[i].host = h /\ secret[h] = "due")

================================
