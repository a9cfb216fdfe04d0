------------------------- MODULE HealthCheckProofs -------------------------
(* What the health check task says and what it finds, for any upstreams,     *)
(* configurations, intervals and reloads.                                    *)
EXTENDS HealthCheck, FiniteSetTheorems, TLAPS

\* The notifications are a log of self.unhealthy_upstreams: whoever is on the list was
\* last announced as unhealthy.  (Dropped upstreams leave the list without a word.)
ListAnnounced == \A u \in unhealthy : told[u] = "unhealthy"
IInv ==
  /\ upMap \subseteq setup /\ unhealthy \subseteq setup
  /\ DOMAIN told = setup
  /\ ListAnnounced

\* Every action but the report leaves the list and the notifications alone and does not
\* add an unknown upstream to the map.
LEMMA OtherSteps ==
  ASSUME IInv, Next, ~Report
  PROVE  UNCHANGED <<setup, reportVars>> /\ upMap' \subseteq setup
<1> USE DEF IInv, reportVars
<1>1. CASE StartRun
  BY <1>1 DEF StartRun
<1>2. ASSUME NEW u \in setup, Job(u) PROVE UNCHANGED <<setup, reportVars>> /\ upMap' \subseteq setup
  BY <1>2 DEF Job
<1>3. CASE Flip
  BY <1>3 DEF Flip
<1>4. ASSUME NEW u \in setup, Drop(u) PROVE UNCHANGED <<setup, reportVars>> /\ upMap' \subseteq setup
  BY <1>4 DEF Drop
<1>5. ASSUME NEW u \in setup, Replace(u) PROVE UNCHANGED <<setup, reportVars>> /\ upMap' \subseteq setup
  BY <1>5 DEF Replace
<1> QED
  BY <1>1, <1>2, <1>3, <1>4, <1>5 DEF Next, Run

\* A report stores NoneHealthy and tells the difference, or leaves both alone.
LEMMA ReportSteps ==
  ASSUME IInv, Report
  PROVE  /\ setup' = setup /\ upMap' = upMap
         /\ \/ UNCHANGED reportVars
            \/ unhealthy' = NoneHealthy /\ Tell
BY DEF Report, EndRun

\* The list and what was told of it agree after every step of the task and every reload.
LEMMA ListStep == IInv /\ [Next]_vars => IInv'
<1> SUFFICES ASSUME IInv, [Next]_vars PROVE IInv'
  OBVIOUS
<1> USE DEF IInv, ListAnnounced
<1>1. CASE UNCHANGED vars
  BY <1>1 DEF vars
<1>2. CASE Next /\ ~Report
  BY <1>2, OtherSteps DEF reportVars
<1>3. CASE Report
  <2>1. CASE UNCHANGED reportVars
    BY <1>3, <2>1, ReportSteps DEF reportVars
  <2>2. CASE unhealthy' = NoneHealthy /\ Tell
    <3>1. NoneHealthy \subseteq upMap
      BY DEF NoneHealthy
    <3>2. \A u \in NoneHealthy : told'[u] = "unhealthy"
      BY <2>2, <3>1 DEF Tell
    <3> QED
      BY <1>3, <2>2, <3>1, <3>2, ReportSteps DEF Tell
  <2> QED
    BY <1>3, <2>1, <2>2, ReportSteps
<1> QED
  BY <1>1, <1>2, <1>3

\* The invariant of the notifications holds in every behaviour of the task.
THEOREM ListInvariance == Spec => []IInv
<1>1. Init => IInv
  BY DEF Init, IInv, ListAnnounced
<1> QED
  BY <1>1, ListStep, PTL DEF Spec

\* "Upstream healthy" is only ever sent after "Upstream unhealthy" and of an upstream
\* with a ready backend, for any upstreams, intervals and reloads.
THEOREM RecoveryOrder == Spec => RecoveryFollowsFailure
<1> DEFINE Step ==
      \A u \in setup : told'[u] = "healthy" /\ told[u] # "healthy" =>
        told[u] = "unhealthy" /\ u \in unhealthy /\ \E b \in DOMAIN health[u] : health[u][b].ok
<1>1. IInv /\ [Next]_vars => [Step]_vars
  <2> SUFFICES ASSUME IInv, Next PROVE Step
    OBVIOUS
  <2>1. CASE ~Report
    BY <2>1, OtherSteps DEF reportVars
  <2>2. CASE Report
    <3>1. CASE UNCHANGED reportVars
      BY <3>1 DEF reportVars
    <3>2. CASE Tell
      <4> SUFFICES ASSUME NEW u \in setup, told'[u] = "healthy", told[u] # "healthy"
                   PROVE  /\ told[u] = "unhealthy" /\ u \in unhealthy
                          /\ \E b \in DOMAIN health[u] : health[u][b].ok
        OBVIOUS
      <4>1. u \in (upMap \ NoneHealthy) \cap unhealthy
        BY <3>2 DEF Tell
      <4> QED
        BY <4>1 DEF IInv, ListAnnounced, NoneHealthy
    <3> QED
      BY <2>2, <3>1, <3>2, ReportSteps
  <2> QED
    BY <2>1, <2>2
<1> QED
  BY <1>1, ListInvariance, PTL DEF Spec, RecoveryFollowsFailure

-----------------------------------------------------------------------------
(* Types and discovery.                                                      *)

\* A new backend is ready, one that stays keeps its health.
LEMMA UpdatedType ==
  ASSUME NEW h, NEW to, \A b \in DOMAIN h : h[b] \in [ok : BOOLEAN, run : Nat]
  PROVE  \A b \in DOMAIN Updated(h, to) : Updated(h, to)[b] \in [ok : BOOLEAN, run : Nat]
<1>1. CASE to = None
  BY <1>1 DEF Updated
<1>2. CASE to # None
  BY <1>2 DEF Updated
<1> QED
  BY <1>1, <1>2

\* A probe changes the health of the backends and not which they are.
LEMMA ProbedType ==
  ASSUME NEW u, NEW h, \A b \in DOMAIN h : h[b] \in [ok : BOOLEAN, run : Nat]
  PROVE  /\ DOMAIN Probed(u, h) = DOMAIN h
         /\ \A b \in DOMAIN h : Probed(u, h)[b] \in [ok : BOOLEAN, run : Nat]
<1>1. ASSUME NEW b, NEW r \in [ok : BOOLEAN, run : Nat]
      PROVE  Observed(u, b, r) \in [ok : BOOLEAN, run : Nat]
  <2>1. (b \in answers) \in BOOLEAN
    OBVIOUS
  <2>2. [r EXCEPT !.run = 0] \in [ok : BOOLEAN, run : Nat]
    OBVIOUS
  <2>3. [r EXCEPT !.run = @ + 1] \in [ok : BOOLEAN, run : Nat]
    OBVIOUS
  <2>4. [ok |-> b \in answers, run |-> 0] \in [ok : BOOLEAN, run : Nat]
    BY <2>1
  <2> QED
    BY <2>2, <2>3, <2>4 DEF Observed
<1> QED
  BY <1>1 DEF Probed

\* Likewise for the check, whether it is due or not.
LEMMA CheckType ==
  ASSUME NEW u, NEW h, \A b \in DOMAIN h : h[b] \in [ok : BOOLEAN, run : Nat]
  PROVE  /\ DOMAIN Check(u, h) = DOMAIN h
         /\ \A b \in DOMAIN h : Check(u, h)[b] \in [ok : BOOLEAN, run : Nat]
BY ProbedType DEF Check

\* A new object has the static backends, and they are ready.
LEMMA NewType ==
  ASSUME NEW u
  PROVE  /\ DOMAIN New(u) \subseteq Configured(u)
         /\ \A b \in DOMAIN New(u) : New(u)[b] \in [ok : BOOLEAN, run : Nat]
<1>1. DOMAIN <<>> = {}
  OBVIOUS
<1>2. CASE GuessDiscovery(u) = "static"
  <2>1. CASE Configured(u) = None
    BY <1>1, <1>2, <2>1 DEF New, Updated
  <2>2. CASE Configured(u) # None
    BY <1>1, <1>2, <2>2 DEF New, Updated
  <2> QED
    BY <2>1, <2>2
<1>3. CASE GuessDiscovery(u) # "static"
  BY <1>1, <1>3 DEF New
<1> QED
  BY <1>2, <1>3

\* When every lookup succeeds the results are paired with their own hosts.
LEMMA DnsAll ==
  ASSUME NEW u \in DOMAIN Conf, GuessDiscovery(u) = "dns"
  PROVE  Dns(u, DOMAIN Conf[u].addrs) = Configured(u)
<1> DEFINE n == Len(Conf[u].addrs)
<1>1. n \in Nat /\ DOMAIN Conf[u].addrs = 1..n
  BY HealthAssumption
<1> HIDE DEF n
<1>2. ASSUME NEW i \in 1..n PROVE Cardinality({j \in 1..n : j <= i}) = i
  <2>1. {j \in 1..n : j <= i} = 1..i
    BY <1>1
  <2>2. i \in Int /\ i >= 1
    BY <1>1
  <2>3. Cardinality(1..i) = i
    BY <2>2, FS_Interval
  <2> QED
    BY <2>1, <2>3
<1>3. \A i \in 1..n : Addr(u, i) = <<Conf[u].addrs[i].host, Port(u, Cardinality({j \in 1..n : j <= i}))>>
  BY <1>2 DEF Addr
<1> QED
  BY <1>1, <1>3 DEF Dns, Configured

\* A discovery in which no lookup failed finds configured addresses only.
LEMMA DiscoveredConfigured ==
  ASSUME NEW u \in DOMAIN Conf, NEW d \in Discovered(u), ~d.failed, d.to # None
  PROVE  d.to \subseteq Configured(u)
<1>1. CASE GuessDiscovery(u) = "dns"
  <2>1. PICK found \in SUBSET DOMAIN Conf[u].addrs :
          d = [to |-> IF found = {} THEN None ELSE Dns(u, found),
               failed |-> found # DOMAIN Conf[u].addrs]
    BY <1>1 DEF Discovered
  <2>2. found = DOMAIN Conf[u].addrs /\ d.to = Dns(u, found)
    BY <2>1
  <2> QED
    BY <1>1, <2>2, DnsAll
<1>2. CASE GuessDiscovery(u) = "docker"
  <2>1. PICK found \in SUBSET DOMAIN Conf[u].addrs : d = [to |-> {Addr(u, i) : i \in found}, failed |-> FALSE]
    BY <1>2 DEF Discovered
  <2> QED
    BY <2>1 DEF Configured
<1>3. CASE GuessDiscovery(u) \notin {"dns", "docker"}
  BY <1>3 DEF Discovered
<1> QED
  BY <1>1, <1>2, <1>3

\* What the job of an upstream or its replacement makes of its backends.
Backends(u, h, p) ==
  /\ \A b \in DOMAIN h : h[b] \in [ok : BOOLEAN, run : Nat]
  /\ p \/ DOMAIN h \subseteq Configured(u)
TypeInv == TypeOK /\ BackendsAsConfigured

\* The backends of an upstream after a discovery, and its history.
LEMMA UpdatedBackends ==
  ASSUME NEW u \in DOMAIN Conf, NEW h, NEW d \in Discovered(u), NEW p \in BOOLEAN,
         Backends(u, h, p)
  PROVE  Backends(u, Updated(h, d.to), IF d.to = None THEN p ELSE d.failed)
<1>1. \A b \in DOMAIN Updated(h, d.to) : Updated(h, d.to)[b] \in [ok : BOOLEAN, run : Nat]
  BY UpdatedType DEF Backends
<1>2. CASE d.to = None
  BY <1>2 DEF Updated, Backends
<1>3. CASE d.to # None
  <2>1. DOMAIN Updated(h, d.to) = d.to
    BY <1>3 DEF Updated
  <2> QED
    BY <1>1, <1>3, <2>1, DiscoveredConfigured DEF Backends
<1> QED
  BY <1>2, <1>3

\* The backends of the one upstream whose job ends keep their types and are configured.
LEMMA JobBackends ==
  ASSUME TypeInv, NEW u \in setup, Job(u)
  PROVE  /\ DOMAIN health' = setup /\ partial' \subseteq setup
         /\ \A v \in setup \ {u} : health'[v] = health[v] /\ (v \in partial' <=> v \in partial)
         /\ Backends(u, health'[u], u \in partial')
<1>0. u \in DOMAIN Conf /\ Backends(u, health[u], u \in partial) /\ DOMAIN health = setup
  BY HealthAssumption DEF TypeInv, TypeOK, BackendsAsConfigured, Backends
<1>1. CASE ~UpdateDue(u)
  <2>1. health' = [health EXCEPT ![u] = Check(u, health[u])] /\ partial' = partial
    BY <1>1 DEF Job
  <2>2. Backends(u, Check(u, health[u]), u \in partial)
    BY <1>0, CheckType DEF Backends
  <2> QED
    BY <1>0, <2>1, <2>2 DEF TypeInv, TypeOK
<1>2. CASE UpdateDue(u)
  <2>1. PICK d \in Discovered(u) :
          /\ health' = [health EXCEPT ![u] = Check(u, Updated(health[u], d.to))]
          /\ partial' = IF d.to = None THEN partial
                        ELSE IF d.failed THEN partial \cup {u} ELSE partial \ {u}
    BY <1>2 DEF Job
  <2>2. Backends(u, Updated(health[u], d.to), IF d.to = None THEN u \in partial ELSE d.failed)
    <3>1. CASE d.to = None
      BY <1>0, <3>1 DEF Updated
    <3>2. CASE d.to # None
      <4>1. Backends(u, health[u], TRUE)
        BY <1>0 DEF Backends
      <4>2. Backends(u, Updated(health[u], d.to), IF d.to = None THEN TRUE ELSE d.failed)
        BY <1>0, <4>1, UpdatedBackends
      <4> QED
        BY <3>2, <4>2
    <3> QED
      BY <3>1, <3>2
  <2> DEFINE h == Updated(health[u], d.to)
             p == IF d.to = None THEN u \in partial ELSE d.failed
  <2>3. Backends(u, Check(u, Updated(health[u], d.to)), IF d.to = None THEN u \in partial ELSE d.failed)
    <3>1. Backends(u, h, p)
      BY <2>2
    <3> HIDE DEF h, p
    <3>2. Backends(u, Check(u, h), p)
      BY <3>1, CheckType DEF Backends
    <3> QED
      BY <3>2 DEF h, p
  <2>4. /\ \A v \in setup \ {u} : v \in partial' <=> v \in partial
        /\ partial' \subseteq setup
        /\ (IF d.to = None THEN u \in partial ELSE d.failed) => u \in partial'
    BY <2>1 DEF TypeInv, TypeOK
  <2>5. Backends(u, Check(u, Updated(health[u], d.to)), u \in partial')
    BY <2>3, <2>4 DEF Backends
  <2> QED
    BY <1>0, <2>1, <2>4, <2>5
<1> QED
  BY <1>1, <1>2

\* So do those of the one that is replaced.
LEMMA ReplaceBackends ==
  ASSUME TypeInv, NEW u \in setup, Replace(u)
  PROVE  /\ DOMAIN health' = setup /\ partial' \subseteq setup
         /\ \A v \in setup \ {u} : health'[v] = health[v] /\ (v \in partial' <=> v \in partial)
         /\ Backends(u, health'[u], u \in partial')
<1>0. /\ u \in DOMAIN Conf /\ Backends(u, health[u], u \in partial) /\ DOMAIN health = setup
      /\ Backends(u, New(u), FALSE)
  BY HealthAssumption, NewType DEF TypeInv, TypeOK, BackendsAsConfigured, Backends
<1>1. CASE u \in Transparent(setup)
  BY <1>0, <1>1 DEF Replace, TypeInv, TypeOK
<1>2. CASE u \notin Transparent(setup)
  <2>1. PICK d \in Discovered(u) :
          /\ health' = [health EXCEPT ![u] = IF d.to = None THEN New(u)
                                             ELSE Probed(u, Updated(New(u), d.to))]
          /\ partial' = IF d.to # None /\ d.failed THEN partial \cup {u} ELSE partial \ {u}
    BY <1>2 DEF Replace
  <2>2. Backends(u, Updated(New(u), d.to), IF d.to = None THEN FALSE ELSE d.failed)
    BY <1>0, UpdatedBackends
  <2>3. Backends(u, Probed(u, Updated(New(u), d.to)), IF d.to = None THEN FALSE ELSE d.failed)
    BY <2>2, ProbedType DEF Backends
  <2>4. /\ \A v \in setup \ {u} : v \in partial' <=> v \in partial
        /\ partial' \subseteq setup
        /\ d.to # None /\ d.failed => u \in partial'
    BY <2>1 DEF TypeInv, TypeOK
  <2>5. health'[u] = IF d.to = None THEN New(u) ELSE Probed(u, Updated(New(u), d.to))
    BY <1>0, <2>1
  <2>6. Backends(u, health'[u], u \in partial')
    <3>1. CASE d.to = None
      BY <1>0, <2>5, <3>1 DEF Backends
    <3>2. CASE d.to # None
      BY <2>3, <2>4, <2>5, <3>2 DEF Backends
    <3> QED
      BY <3>1, <3>2
  <2> QED
    BY <1>0, <2>1, <2>4, <2>6
<1> QED
  BY <1>1, <1>2

\* Names, counters and lists keep their types, and backends are the configured ones.
LEMMA TypeInvStep == TypeInv /\ [Next]_vars => TypeInv'
<1> SUFFICES ASSUME TypeInv, [Next]_vars PROVE TypeInv'
  OBVIOUS
<1>0. Cycle \in Nat \ {0} /\ MaxReloads \in Nat
  BY HealthAssumption
<1>1. CASE UNCHANGED vars
  BY <1>1 DEF vars, TypeInv, TypeOK, BackendsAsConfigured, Checked, Transparent
<1>2. CASE StartRun
  BY <1>2 DEF StartRun, reportVars, TypeInv, TypeOK, BackendsAsConfigured, Checked, Transparent
<1>3. ASSUME NEW u \in setup, Job(u) \/ Replace(u) PROVE TypeInv'
  <2>1. /\ DOMAIN health' = setup /\ partial' \subseteq setup
        /\ \A v \in setup \ {u} : health'[v] = health[v] /\ (v \in partial' <=> v \in partial)
        /\ Backends(u, health'[u], u \in partial')
    BY <1>3, JobBackends, ReplaceBackends
  <2>2. /\ UNCHANGED <<setup, count, pc, reportVars>>
        /\ upMap \subseteq upMap' /\ upMap' \subseteq setup /\ jobs' \subseteq jobs
        /\ reloads' \in 0..MaxReloads
    BY <1>0, <1>3 DEF Job, Replace, TypeInv, TypeOK
  <2>3. jobs' \subseteq Checked(upMap')
    BY <2>2 DEF Checked, Transparent, TypeInv, TypeOK
  <2>4. \A v \in setup : /\ \A b \in DOMAIN health'[v] : health'[v][b] \in [ok : BOOLEAN, run : Nat]
                         /\ v \in partial' \/ DOMAIN health'[v] \subseteq Configured(v)
    BY <2>1 DEF Backends, TypeInv, TypeOK, BackendsAsConfigured
  <2>5. TypeOK'
    BY <2>1, <2>2, <2>3, <2>4 DEF TypeInv, TypeOK, reportVars, Checked, Transparent
  <2>6. BackendsAsConfigured'
    BY <2>2, <2>4 DEF BackendsAsConfigured
  <2> QED
    BY <2>5, <2>6 DEF TypeInv
<1>4. CASE Report
  <2>1. /\ UNCHANGED <<setup, upMap, answers, health, jobs, reloads, partial>>
        /\ pc' = "idle" /\ count' = IF count = Cycle THEN 1 ELSE count + 1
    BY <1>4 DEF Report, EndRun
  <2>2. count' \in 0..Cycle
    BY <1>0, <2>1 DEF TypeInv, TypeOK
  <2>3. NoneHealthy \subseteq setup
    BY DEF NoneHealthy, TypeInv, TypeOK
  <2>4. unhealthy' \subseteq setup
    BY <1>4, <2>3 DEF Report, reportVars, TypeInv, TypeOK
  <2>5. told' \in [setup -> {"nothing", "unhealthy", "healthy"}]
    BY <1>4 DEF Report, reportVars, Tell, TypeInv, TypeOK
  <2> QED
    BY <2>1, <2>2, <2>4, <2>5 DEF TypeInv, TypeOK, BackendsAsConfigured, Checked, Transparent
<1>5. CASE Flip
  BY <1>5 DEF Flip, reportVars, TypeInv, TypeOK, BackendsAsConfigured, Checked, Transparent
<1>6. ASSUME NEW u \in setup, Drop(u) PROVE TypeInv'
  <2>1. /\ UNCHANGED <<setup, count, pc, reloads, reportVars>>
        /\ upMap' = upMap \ {u} /\ jobs' = jobs \ {u} /\ partial' = partial \ {u}
        /\ health' = [health EXCEPT ![u] = <<>>]
    BY <1>6 DEF Drop
  <2>2. DOMAIN health' = setup /\ DOMAIN health'[u] = {} /\ \A v \in setup \ {u} : health'[v] = health[v]
    BY <2>1 DEF TypeInv, TypeOK
  <2>3. jobs' \subseteq Checked(upMap')
    BY <2>1 DEF Checked, Transparent, TypeInv, TypeOK
  <2>4. TypeOK'
    BY <2>1, <2>2, <2>3 DEF TypeInv, TypeOK, reportVars, Checked, Transparent
  <2>5. BackendsAsConfigured'
    BY <2>1, <2>2 DEF BackendsAsConfigured, TypeInv
  <2> QED
    BY <2>4, <2>5 DEF TypeInv
<1> QED
  BY <1>1, <1>2, <1>3, <1>4, <1>5, <1>6 DEF Next, Run

\* Types and discovered backends, for any upstreams, answers of the name service and of
\* Docker, reloads and runs of the task.
LEMMA TypeInvariance == Spec => []TypeInv
<1>1. Init => TypeInv
  <2> SUFFICES ASSUME Init PROVE TypeInv
    OBVIOUS
  <2>1. health = [u \in setup |-> New(u)]
    BY DEF Init
  <2>2. \A u \in setup : /\ DOMAIN health[u] \subseteq Configured(u)
                         /\ \A b \in DOMAIN health[u] : health[u][b] \in [ok : BOOLEAN, run : Nat]
    BY <2>1, NewType
  <2> QED
    BY <2>1, <2>2, HealthAssumption DEF Init, TypeInv, TypeOK, BackendsAsConfigured, Checked, Transparent
<1> QED
  BY <1>1, TypeInvStep, PTL DEF Spec

\* Names, counters and lists have their types for any upstreams and configurations.
THEOREM HealthTypes == Spec => []TypeOK
<1>1. TypeInv => TypeOK
  BY DEF TypeInv
<1> QED
  BY <1>1, TypeInvariance, PTL

\* Requests go to the ports that are configured for their hosts unless a lookup failed in
\* the last discovery, for any hosts and ports.
THEOREM PortsAsConfigured == Spec => []BackendsAsConfigured
<1>1. TypeInv => BackendsAsConfigured
  BY DEF TypeInv
<1> QED
  BY <1>1, TypeInvariance, PTL
=============================================================================
