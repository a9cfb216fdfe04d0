---------------------------- MODULE HealthCheck ----------------------------
(***************************************************************************)
(* The backends of upstreams: how they are discovered (pingap-discovery),  *)
(* checked (pingap-health) and reported.  Every interval the health check  *)
(* task (pingap-upstream/src/upstream.rs) refreshes the backends of the    *)
(* upstreams whose update frequency is due, probes those whose check       *)
(* frequency is due, one spawned job per upstream, and on some of the runs *)
(* compares which upstreams have no ready backend with the list of the     *)
(* last time and notifies the differences.  Hot reloads replace, drop and  *)
(* add upstreams while jobs run.                                           *)
(***************************************************************************)
EXTENDS Integers, Sequences, FiniteSets, Functions

CONSTANTS
  Conf,          \* Conf[u]: discovery, addrs, tls, update (update_frequency in whole
                 \* seconds) and query (of the health check URL, None without one)
  Setup,         \* sets of upstreams that are configured together
  Interval,      \* interval of the task in seconds
  Cycle,         \* a multiple of 10 and of the period of every frequency
  MaxReloads,    \* bound of the reloads that add or replace an upstream
  None

\* HealthCheckConf::try_from: what the query says, or the default; without a URL
\* pingora's TCP check, for which one probe decides
Param(q, name, default) == IF name \in DOMAIN q THEN q[name] ELSE default
HealthCheckConf(u) ==
  LET q == Conf[u].query
  IN IF q = None THEN [frequency |-> 10, success |-> 1, failure |-> 1]
     ELSE [frequency |-> Param(q, "check_frequency", 10),
           success |-> Param(q, "success", 1), failure |-> Param(q, "failure", 2)]

\* number of runs a frequency stands for: rounded up
Period(f) == f \div Interval + (IF f % Interval # 0 THEN 1 ELSE 0)

ASSUME HealthAssumption ==
  /\ Interval >= 10 /\ Cycle \in Nat \ {0} /\ Cycle % 10 = 0 /\ MaxReloads \in Nat
  /\ \A S \in Setup : S \subseteq DOMAIN Conf
  /\ \A u \in DOMAIN Conf : Conf[u].addrs \in Seq(Range(Conf[u].addrs))
  /\ \A u \in DOMAIN Conf :
       \A f \in {Conf[u].update, HealthCheckConf(u).frequency} :
         f \in Nat /\ (Period(f) # 0 => Cycle % Period(f) = 0)

VARIABLES
  setup,     \* the upstreams of this run
  upMap,     \* the names in UPSTREAM_MAP
  answers,   \* External: addresses that answer probes
  health,    \* the backends of an upstream and pingora's health of them: ok, and the
             \* number of probes in turn that said otherwise
  count,     \* check_count: 0 at first, then 1..Cycle in turn
  pc,        \* "idle" or "checking"
  jobs,      \* upstreams whose job runs on the object that is in the map
  unhealthy, \* self.unhealthy_upstreams
  reloads,   \* what is left of MaxReloads
  told,      \* history: what was last notified of an upstream
  partial    \* history: upstreams in whose last discovery a lookup failed

vars == <<setup, upMap, answers, health, count, pc, jobs, unhealthy, reloads, told, partial>>
reportVars == <<unhealthy, told>>

-----------------------------------------------------------------------------
(* Discovery.  An address is a host with its port; a host has one IP.        *)

\* UpstreamConf::guess_discovery
GuessDiscovery(u) ==
  IF Conf[u].discovery # None THEN Conf[u].discovery
  ELSE IF \E i \in DOMAIN Conf[u].addrs : Conf[u].addrs[i].isName THEN "dns" ELSE "static"

\* format_addrs: the port of an address without one is that of the scheme
Port(u, i) ==
  IF Conf[u].addrs[i].port # None THEN Conf[u].addrs[i].port
  ELSE IF Conf[u].tls THEN 443 ELSE 80
\* Docker: a label without a port has that of its container (0)
DockerPort(u, i) == IF Conf[u].addrs[i].port # None THEN Conf[u].addrs[i].port ELSE 0
Addr(u, i) ==
  <<Conf[u].addrs[i].host, IF GuessDiscovery(u) = "docker" THEN DockerPort(u, i) ELSE Port(u, i)>>
Configured(u) == {Addr(u, i) : i \in DOMAIN Conf[u].addrs}

Transparent(S) == {u \in S : GuessDiscovery(u) = "transparent"}
Checked(S) == S \ Transparent(S)

\* MUTANT: the lookups are paired with the hosts in the order in which they end
DnsAnyOrder(u, found) ==
  {<<Conf[u].addrs[i].host, Port(u, Cardinality({j \in found : j >= i}))>> : i \in found}
\* Dns::run_discover: the results of the lookups that succeed, one after the other, are
\* paired with the hosts by position
Dns(u, found) ==
  {<<Conf[u].addrs[i].host, Port(u, Cardinality({j \in found : j <= i}))>> : i \in found}

\* what discover may return: the backends, or None for an error, and whether a lookup
\* failed.  External: which lookups succeed and which containers run
Discovered(u) ==
  LET all == DOMAIN Conf[u].addrs
  IN CASE GuessDiscovery(u) = "dns" ->
            {[to |-> IF found = {} THEN None ELSE Dns(u, found), failed |-> found # all] :
               found \in SUBSET all}
       [] GuessDiscovery(u) = "docker" ->
            {[to |-> {Addr(u, i) : i \in found}, failed |-> FALSE] : found \in SUBSET all}
              \cup {[to |-> None, failed |-> FALSE]}
       [] OTHER -> {[to |-> Configured(u), failed |-> FALSE]}

\* LoadBalancer::update: backends that stay keep their health, new ones are ready, and
\* an error changes nothing
Updated(h, to) ==
  IF to = None THEN h
  ELSE [b \in to |-> IF b \in DOMAIN h THEN h[b] ELSE [ok |-> TRUE, run |-> 0]]

\* run_health_check: so many probes in turn change the health of a backend
Observed(u, b, h) ==
  LET ok == b \in answers
      threshold == IF ok THEN HealthCheckConf(u).success ELSE HealthCheckConf(u).failure
  IN IF h.ok = ok THEN [h EXCEPT !.run = 0]
     ELSE IF h.run + 1 >= threshold THEN [ok |-> ok, run |-> 0] ELSE [h EXCEPT !.run = @ + 1]
Probed(u, h) == [b \in DOMAIN h |-> Observed(u, b, h[b])]

\* new_load_balancer: static backends are known at once, and count as ready
New(u) ==
  IF GuessDiscovery(u) = "static" THEN Updated(<<>>, Configured(u)) ELSE <<>>

Init ==
  /\ setup \in Setup
  /\ upMap = setup
  /\ answers \in SUBSET UNION {Configured(u) : u \in Checked(setup)}
  /\ health = [u \in setup |-> New(u)]
  /\ count = 0 /\ pc = "idle" /\ jobs = {}
  /\ unhealthy = {} /\ partial = {}
  /\ reloads = MaxReloads
  /\ told = [u \in setup |-> "nothing"]

-----------------------------------------------------------------------------
\* check_frequency_matched; a period of zero divides by zero, and the job panics
Matched(f) == Period(f) # 0 /\ count % Period(f) = 0

\* MUTANT: transparent upstreams, which have no backends to check, get a job as well
StartRunAll ==
  /\ pc = "idle"
  /\ pc' = "checking"
  /\ jobs' = upMap
  /\ UNCHANGED <<setup, upMap, answers, health, count, reloads, reportVars, partial>>
\* run takes the upstreams of this moment and spawns a job for each of them
StartRun ==
  /\ pc = "idle"
  /\ pc' = "checking"
  /\ jobs' = Checked(upMap)
  /\ UNCHANGED <<setup, upMap, answers, health, count, reloads, reportVars, partial>>

UpdateDue(u) == count = 0 \/ (Conf[u].update > 0 /\ Matched(Conf[u].update))

\* MUTANT: a check never takes a backend out
CheckNothing(u, h) == h
Check(u, h) == IF Matched(HealthCheckConf(u).frequency) THEN Probed(u, h) ELSE h

\* the job of one upstream: the backends first, then, if it is due, the check
Job(u) ==
  /\ pc = "checking" /\ u \in jobs
  /\ jobs' = jobs \ {u}
  /\ \/ /\ UpdateDue(u)
        /\ \E d \in Discovered(u) :
             /\ health' = [health EXCEPT ![u] = Check(u, Updated(@, d.to))]
             /\ partial' = IF d.to = None THEN partial
                           ELSE IF d.failed THEN partial \cup {u} ELSE partial \ {u}
     \/ /\ ~UpdateDue(u)
        /\ health' = [health EXCEPT ![u] = Check(u, @)]
        /\ UNCHANGED partial
  /\ UNCHANGED <<setup, upMap, answers, count, pc, reloads, reportVars>>

\* get_upstream_healthy_status: no ready backend, of a transparent upstream never one
NoneHealthy == {u \in upMap : \A b \in DOMAIN health[u] : ~health[u][b].ok}

\* how a run ends, whatever it reports
EndRun ==
  /\ pc = "checking" /\ jobs = {}
  /\ pc' = "idle"
  /\ count' = IF count = Cycle THEN 1 ELSE count + 1
  /\ UNCHANGED <<setup, upMap, answers, health, jobs, reloads, partial>>

\* MUTANT: every upstream that is not on the new list is announced as recovered
TellAll ==
  told' = [u \in setup |->
             IF u \in NoneHealthy \ unhealthy THEN "unhealthy"
             ELSE IF u \notin NoneHealthy THEN "healthy" ELSE told[u]]
\* the notifications of a report
Tell ==
  told' = [u \in setup |->
             IF u \in NoneHealthy \ unhealthy THEN "unhealthy"
             ELSE IF u \in (upMap \ NoneHealthy) \cap unhealthy THEN "healthy"
             ELSE told[u]]

\* MUTANT: nothing is reported when no upstream is unhealthy
ReportSome ==
  /\ EndRun
  /\ IF count % 10 = 1 /\ NoneHealthy # {} THEN unhealthy' = NoneHealthy /\ Tell
     ELSE UNCHANGED reportVars
\* all jobs have been joined; every tenth run reports, and the count goes on
Report ==
  /\ EndRun
  /\ IF count % 10 = 1 THEN unhealthy' = NoneHealthy /\ Tell ELSE UNCHANGED reportVars

-----------------------------------------------------------------------------
\* External: a backend stops or starts to answer
Flip ==
  /\ \E b \in UNION {Configured(u) : u \in Checked(setup)} :
       answers' = IF b \in answers THEN answers \ {b} ELSE answers \cup {b}
  /\ UNCHANGED <<setup, upMap, health, count, pc, jobs, reloads, reportVars, partial>>

\* a hot reload drops u
Drop(u) ==
  /\ u \in upMap
  /\ upMap' = upMap \ {u} /\ jobs' = jobs \ {u}
  /\ health' = [health EXCEPT ![u] = <<>>] /\ partial' = partial \ {u}
  /\ UNCHANGED <<setup, answers, count, pc, reloads, reportVars>>

\* try_update_upstreams adds or replaces u: a new object, updated and, unless that
\* fails, checked before it is in the map; a job that is still running works on the
\* old object
Replace(u) ==
  /\ reloads > 0
  /\ reloads' = reloads - 1
  /\ upMap' = upMap \cup {u} /\ jobs' = jobs \ {u}
  /\ IF u \in Transparent(setup) THEN UNCHANGED <<health, partial>>
     ELSE \E d \in Discovered(u) :
            /\ health' = [health EXCEPT ![u] = IF d.to = None THEN New(u)
                                               ELSE Probed(u, Updated(New(u), d.to))]
            /\ partial' = IF d.to # None /\ d.failed THEN partial \cup {u} ELSE partial \ {u}
  /\ UNCHANGED <<setup, answers, count, pc, reportVars>>

-----------------------------------------------------------------------------
Run == StartRun \/ (\E u \in setup : Job(u)) \/ Report
Next == Run \/ Flip \/ \E u \in setup : Drop(u) \/ Replace(u)
Spec == Init /\ [][Next]_vars
\* the interval ticks and the runtime polls the jobs
FairSpec == Spec /\ WF_vars(Run)

-----------------------------------------------------------------------------
\* Names, counters and lists have their types.
TypeOK ==
  /\ setup \in Setup /\ upMap \subseteq setup /\ jobs \subseteq Checked(upMap)
  /\ DOMAIN health = setup
  /\ \A u \in setup : \A b \in DOMAIN health[u] : health[u][b] \in [ok : BOOLEAN, run : Nat]
  /\ count \in 0..Cycle /\ pc \in {"idle", "checking"} /\ reloads \in 0..MaxReloads
  /\ unhealthy \subseteq setup /\ partial \subseteq setup
  /\ told \in [setup -> {"nothing", "unhealthy", "healthy"}]

\* Whatever was found, lost and found again before, requests go to the ports that are
\* configured for their hosts: a backend has another port only since a discovery in
\* which the lookup of one of the hosts failed (the results are paired with the hosts
\* by position), and only until the next one in which none does.
BackendsAsConfigured == \A u \in setup \ partial : DOMAIN health[u] \subseteq Configured(u)

\* "Upstream healthy" is only ever sent after "Upstream unhealthy", and of an upstream
\* that has a ready backend.
RecoveryFollowsFailure ==
  [][\A u \in setup : told'[u] = "healthy" /\ told[u] # "healthy" =>
        told[u] = "unhealthy" /\ u \in unhealthy /\ \E b \in DOMAIN health[u] : health[u][b].ok]_vars

BackendsStay(u) == <>[][(u \in upMap /\ DOMAIN health'[u] = DOMAIN health[u])]_vars

\* An upstream whose backends stay and do not answer, or that has none, is announced and
\* stays on the list, although its check runs less often than the report, several probes
\* are needed and it is discovered anew and replaced meanwhile; not if its check frequency
\* is below a second, for which the job panics.  That the backends stay is needed: with
\* one lookup failing and then the other, every report may find a backend that is new and
\* so counts as ready, when more probes are needed than there are runs between two
\* discoveries.
FailureReported ==
  \A u \in UNION Setup :
    Period(HealthCheckConf(u).frequency) # 0 =>
      (<>[](u \in upMap /\ DOMAIN health[u] \cap answers = {}) /\ BackendsStay(u) =>
         <>[](u \in unhealthy))

\* An upstream with a backend that stays and answers leaves the list.
RecoveryReported ==
  \A u \in UNION Setup :
    Period(HealthCheckConf(u).frequency) # 0 /\ u \notin Transparent({u}) =>
      \A b \in Configured(u) :
        <>[](u \in upMap /\ b \in answers /\ b \in DOMAIN health[u]) => <>[](u \notin unhealthy)
=============================================================================
