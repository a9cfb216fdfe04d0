------------------------- MODULE ConfigReloadProofs -------------------------
(* What a running process serves while its configuration is edited, reloaded,  *)
(* restarted and renewed, for any configurations and any number of edits.      *)
EXTENDS ConfigReload, FunctionTheorems, FiniteSetTheorems, TLAPS

\* Everything that passes validate can also be built.
NoneBroken == BrokenUp = {} /\ BrokenLoc = {} /\ BrokenPlugin = {}

\* diff_and_update_config is applying the sections.
Reloading == pc \in {"upstream", "location", "plugin", "certificate", "server", "commit"}

\* The configuration of the storage stays valid unless it is written by hand, a renewal
\* is counted, and --autoreload never waits for a restart.
Control ==
  /\ mode.hand \/ Valid(stored)
  /\ acme # "idle" => renewals > 0
  /\ mode.hotOnly => hotOnly
  /\ pc = "sleep" => ~hotOnly
  /\ running \/ pc \in {"start", "idle"}

\* While no renewal has set it, the current configuration is a valid one; it is the base
\* of the reload that is under way, and what is reloaded is valid.
Bases ==
  renewals = 0 /\ running =>
    /\ Valid(current)
    /\ pc \notin {"start", "idle"} => Valid(new)
    /\ Reloading => base = current

\* The core settings and the certificate of the process are those of the current
\* configuration, until the reload has applied the new certificate.
CoreServed ==
  renewals = 0 /\ running =>
    /\ live.core = current.core
    /\ live.cert = IF pc \in {"server", "commit"} /\ ~new.cert.acme THEN new.cert ELSE current.cert
    /\ pc = "sleep" => new.core # live.core \/ (new.cert.acme /\ new.cert # live.cert)

\* Each section of the process is that of the current configuration until the reload has
\* got to it, and that of the new one afterwards.
Served ==
  renewals = 0 /\ running =>
    /\ live.up = IF Reloading /\ pc # "upstream" THEN new.up ELSE current.up
    /\ live.loc = IF Reloading /\ pc \notin {"upstream", "location"} THEN new.loc ELSE current.loc
    /\ live.plugin = IF pc \in {"certificate", "server", "commit"} THEN new.plugin ELSE current.plugin
    /\ IsReordering(live.order, IF pc = "commit" THEN new.list ELSE current.list)

IInv ==
  TypeOK /\ Control /\ Bases /\ CoreServed /\ (NoneBroken => Served)

-----------------------------------------------------------------------------
(* The sort of the locations of a server.                                    *)

\* Locations with their weights, which are u16 in the code.
Weighed(locs) == \A l \in locs : l.weight \in Nat

\* Every name has a weight.
LEMMA WeightType ==
  ASSUME NEW locs, Weighed(locs), NEW n
  PROVE  Weight(n, locs) \in Nat
BY DEF Weight, Weighed

\* The items that come before item i in the result, and i itself.
UpTo(items, locs, i) ==
  {j \in DOMAIN items : \/ Weight(items[j], locs) > Weight(items[i], locs)
                        \/ Weight(items[j], locs) = Weight(items[i], locs) /\ j <= i}

\* No two items have the same place, and the places are those of the list.
LEMMA RankInjective ==
  ASSUME NEW S, NEW items \in Seq(S), NEW locs, Weighed(locs)
  PROVE  [i \in DOMAIN items |-> Rank(items, locs, i)] \in Injection(DOMAIN items, DOMAIN items)
<1> DEFINE w(i) == Weight(items[i], locs)
           r == [i \in DOMAIN items |-> Rank(items, locs, i)]
           n == Len(items)
<1>1. n \in Nat /\ DOMAIN items = 1..n
  OBVIOUS
<1>2. \A i : Rank(items, locs, i) = Cardinality(UpTo(items, locs, i))
  BY DEF Rank, UpTo
<1>3. IsFiniteSet(1..n) /\ Cardinality(1..n) = n
  BY <1>1, FS_Interval
<1>4. \A i \in 1..n : w(i) \in Nat
  BY WeightType
<1> HIDE DEF w, n
<1>5. \A i, j \in 1..n : j \in UpTo(items, locs, i) <=> w(j) > w(i) \/ (w(j) = w(i) /\ j <= i)
  BY <1>1 DEF UpTo, w
<1>6. \A i \in 1..n : UpTo(items, locs, i) \subseteq 1..n
  BY <1>1 DEF UpTo
<1>7. ASSUME NEW i \in 1..n
      PROVE  /\ IsFiniteSet(UpTo(items, locs, i)) /\ i \in UpTo(items, locs, i)
             /\ Cardinality(UpTo(items, locs, i)) \in 1..n
  <2>1. i \in UpTo(items, locs, i)
    BY <1>1, <1>4, <1>5
  <2>2. /\ IsFiniteSet(UpTo(items, locs, i))
        /\ Cardinality(UpTo(items, locs, i)) <= n
    BY <1>3, <1>6, FS_Subset
  <2>3. Cardinality(UpTo(items, locs, i)) \in Nat /\ Cardinality(UpTo(items, locs, i)) # 0
    BY <2>1, <2>2, FS_CardinalityType, FS_EmptySet
  <2> QED
    BY <1>1, <2>1, <2>2, <2>3
<1>8. ASSUME NEW i \in 1..n, NEW k \in 1..n, w(i) > w(k) \/ (w(i) = w(k) /\ i < k)
      PROVE  Rank(items, locs, i) # Rank(items, locs, k)
  <2>1. UpTo(items, locs, i) \subseteq UpTo(items, locs, k)
    BY <1>1, <1>4, <1>5, <1>6, <1>8
  <2>2. k \notin UpTo(items, locs, i)
    BY <1>1, <1>4, <1>5, <1>8
  <2>3. Cardinality(UpTo(items, locs, k)) # Cardinality(UpTo(items, locs, i))
    BY <1>7, <2>1, <2>2, FS_Subset
  <2> QED
    BY <1>2, <2>3
<1>9. \A i, k \in 1..n : i # k => Rank(items, locs, i) # Rank(items, locs, k)
  <2> SUFFICES ASSUME NEW i \in 1..n, NEW k \in 1..n, i # k
               PROVE  Rank(items, locs, i) # Rank(items, locs, k)
    OBVIOUS
  <2>1. \/ w(i) > w(k) \/ (w(i) = w(k) /\ i < k)
        \/ w(k) > w(i) \/ (w(k) = w(i) /\ k < i)
    BY <1>1, <1>4
  <2> QED
    BY <1>8, <2>1
<1>10. r \in [1..n -> 1..n]
  BY <1>1, <1>2, <1>7
<1>11. \A i, k \in 1..n : r[i] = r[k] => i = k
  BY <1>1, <1>9
<1> QED
  BY <1>1, <1>10, <1>11, Fun_IsInj

\* Every place is taken.
LEMMA RankSurjective ==
  ASSUME NEW S, NEW items \in Seq(S), NEW locs, Weighed(locs), NEW k \in DOMAIN items
  PROVE  \E i \in DOMAIN items : Rank(items, locs, i) = k
<1> DEFINE r == [i \in DOMAIN items |-> Rank(items, locs, i)]
<1>1. IsFiniteSet(DOMAIN items)
  BY FS_Interval
<1>2. r \in Surjection(DOMAIN items, DOMAIN items)
  BY <1>1, RankInjective, FS_Injection
<1>3. \A t \in DOMAIN items : \E i \in DOMAIN items : r[i] = t
  BY <1>2, Fun_SurjectionProperties
<1> QED
  BY <1>3

\* try_init_server_locations loses no location, doubles none and invents none, however
\* many have the same weight or the same name.
LEMMA SortReorders ==
  ASSUME NEW S, NEW items \in Seq(S), NEW locs, Weighed(locs)
  PROVE  /\ IsReordering(SortByWeight(items, locs), items)
         /\ SortByWeight(items, locs) \in [DOMAIN items -> Range(items)]
<1> DEFINE D == DOMAIN items
           r == [i \in D |-> Rank(items, locs, i)]
           at(k) == CHOOSE i \in D : Rank(items, locs, i) = k
           q == [k \in D |-> at(k)]
           s == SortByWeight(items, locs)
<1>1. IsFiniteSet(D)
  BY FS_Interval
<1>2. \A k \in D : at(k) \in D /\ r[at(k)] = k
  BY RankSurjective
<1>3. \A i \in D : r[i] \in D /\ \A k \in D : r[i] = r[k] => i = k
  <2>1. r \in Injection(D, D)
    BY RankInjective
  <2> HIDE DEF r, D
  <2>2. r \in [D -> D] /\ \A i, k \in D : r[i] = r[k] => i = k
    BY <2>1, Fun_InjectionProperties
  <2> QED
    BY <2>2
<1>4. \A i \in D : q[r[i]] = i
  BY <1>2, <1>3
<1>5. DOMAIN s = D /\ \A k \in D : s[k] = items[q[k]]
  BY DEF SortByWeight
<1>6. s \in [D -> Range(items)]
  BY <1>2, <1>5 DEF SortByWeight, Range
<1> HIDE DEF at, s, r
<1>7. ASSUME NEW x
      PROVE  Cardinality({i \in D : s[i] = x}) = Cardinality({i \in D : items[i] = x})
  <2> DEFINE A == {i \in D : s[i] = x}
             B == {i \in D : items[i] = x}
             f == [k \in A |-> q[k]]
  <2>1. f \in [A -> B]
    BY <1>2, <1>5
  <2>2. \A k, l \in A : f[k] = f[l] => k = l
    BY <1>2
  <2>3. \A i \in B : r[i] \in A /\ f[r[i]] = i
    BY <1>3, <1>4, <1>5
  <2>4. f \in Bijection(A, B)
    <3> HIDE DEF f, A, B
    <3> QED
      BY <2>1, <2>2, <2>3, Fun_IsBij
  <2>5. IsFiniteSet(A)
    BY <1>1, FS_Subset
  <2>6. ExistsBijection(A, B)
    BY <2>4 DEF ExistsBijection
  <2> HIDE DEF A, B
  <2>7. Cardinality(B) = Cardinality(A)
    BY <2>5, <2>6, FS_Bijection
  <2> QED
    BY <2>7 DEF A, B
<1> QED
  BY <1>5, <1>6, <1>7 DEF IsReordering, s

\* A list is a reordering of itself.
LEMMA ReorderingRefl == \A s : IsReordering(s, s)
BY DEF IsReordering

-----------------------------------------------------------------------------
(* Types.                                                                    *)

\* The configurations that can be stored in the mode of the process.
Confs == ConfOf([mode.section EXCEPT !.cert = Cert(mode)])

\* A configuration has a value of the mode in each section.
LEMMA ConfsDef ==
  ASSUME mode \in Mode
  PROVE  /\ Confs = [up : mode.section.up, loc : mode.section.loc,
                      plugin : mode.section.plugin, cert : Cert(mode),
                      list : mode.section.list, core : mode.section.core]
         /\ mode.section.cert \subseteq Cert(mode)
         /\ ConfOf(mode.section) \subseteq Confs
<1>1. DOMAIN mode.section = Section
  BY ReloadAssumption
<1> DEFINE sec == [mode.section EXCEPT !.cert = Cert(mode)]
<1>2. /\ sec.up = mode.section.up /\ sec.loc = mode.section.loc
      /\ sec.plugin = mode.section.plugin /\ sec.cert = Cert(mode)
      /\ sec.list = mode.section.list /\ sec.core = mode.section.core
  BY <1>1 DEF Section
<1>3. mode.section.cert \subseteq Cert(mode)
  BY DEF Cert
<1> QED
  BY <1>2, <1>3 DEF Confs, ConfOf

\* The sections of a configuration.
LEMMA ConfParts ==
  ASSUME mode \in Mode, NEW c \in Confs
  PROVE  /\ c = [up |-> c.up, loc |-> c.loc, plugin |-> c.plugin, cert |-> c.cert,
                 list |-> c.list, core |-> c.core]
         /\ c.up \in mode.section.up /\ c.loc \in mode.section.loc
         /\ c.plugin \in mode.section.plugin /\ c.cert \in Cert(mode)
         /\ c.list \in mode.section.list /\ c.core \in mode.section.core
<1>1. c \in [up : mode.section.up, loc : mode.section.loc,
             plugin : mode.section.plugin, cert : Cert(mode),
             list : mode.section.list, core : mode.section.core]
  BY ConfsDef
<1> QED
  BY <1>1

\* Values of the sections make a configuration.
LEMMA ConfMade ==
  ASSUME mode \in Mode, NEW u \in mode.section.up, NEW l \in mode.section.loc,
         NEW p \in mode.section.plugin, NEW c \in Cert(mode),
         NEW s \in mode.section.list, NEW k \in mode.section.core
  PROVE  [up |-> u, loc |-> l, plugin |-> p, cert |-> c, list |-> s, core |-> k] \in Confs
<1>1. [up |-> u, loc |-> l, plugin |-> p, cert |-> c, list |-> s, core |-> k]
        \in [up : mode.section.up, loc : mode.section.loc,
             plugin : mode.section.plugin, cert : Cert(mode),
             list : mode.section.list, core : mode.section.core]
  OBVIOUS
<1> QED
  BY <1>1, ConfsDef

\* What is deployed from a configuration is what a process can serve.
LEMMA DeployType ==
  ASSUME mode \in Mode, NEW c \in Confs
  PROVE  /\ Deploy(c) \in Live(mode.section)
         /\ IsReordering(Deploy(c).order, c.list)
<1>1. /\ c.up \in mode.section.up /\ c.loc \in mode.section.loc
      /\ c.plugin \in mode.section.plugin /\ c.cert \in Cert(mode)
      /\ c.list \in mode.section.list /\ c.core \in mode.section.core
  BY ConfParts
<1>2. Weighed(c.loc) /\ c.list \in Seq(Range(c.list))
  BY <1>1, ReloadAssumption DEF Weighed
<1>3. /\ IsReordering(SortByWeight(c.list, c.loc), c.list)
      /\ SortByWeight(c.list, c.loc) \in [DOMAIN c.list -> Range(c.list)]
  BY <1>2, SortReorders
<1> QED
  BY <1>1, <1>3 DEF Deploy, Live

\* A certificate with another version is one that ACME may write.
LEMMA CertVersion ==
  ASSUME mode \in Mode, NEW c \in Cert(mode), NEW v \in 0..mode.renewals
  PROVE  [c EXCEPT !.ver = v] \in Cert(mode)
<1>1. CASE c \in mode.section.cert
  BY <1>1 DEF Cert
<1>2. CASE c \notin mode.section.cert
  <2>1. PICK d \in mode.section.cert, u \in 0..mode.renewals : c = [d EXCEPT !.ver = u]
    BY <1>2 DEF Cert
  <2>2. [c EXCEPT !.ver = v] = [d EXCEPT !.ver = v]
    BY <2>1
  <2> QED
    BY <2>2 DEF Cert
<1> QED
  BY <1>1, <1>2

\* The unit of AutoRestart.count is positive.
LEMMA UnitPositive ==
  ASSUME mode \in Mode
  PROVE  RestartUnit \in Nat \ {0}
<1>1. mode.interval \in Nat \ {0}
  BY ReloadAssumption
<1> QED
  BY <1>1 DEF RestartUnit

\* An edit of a section leaves a configuration in the storage.
LEMMA EditType ==
  ASSUME mode \in Mode, NEW c \in Confs, NEW s \in mode.edit, NEW v \in mode.section[s]
  PROVE  [c EXCEPT ![s] = v] \in Confs
<1>1. s \in Section
  BY ReloadAssumption
<1> QED
  <2> DEFINE d == [c EXCEPT ![s] = v]
  <2>1. /\ d.up = IF s = "up" THEN v ELSE c.up
        /\ d.loc = IF s = "loc" THEN v ELSE c.loc
        /\ d.plugin = IF s = "plugin" THEN v ELSE c.plugin
        /\ d.cert = IF s = "cert" THEN v ELSE c.cert
        /\ d.list = IF s = "list" THEN v ELSE c.list
        /\ d.core = IF s = "core" THEN v ELSE c.core
        /\ d = [up |-> d.up, loc |-> d.loc, plugin |-> d.plugin, cert |-> d.cert,
                list |-> d.list, core |-> d.core]
    BY <1>1, ConfParts DEF Section
  <2>2. /\ d.up \in mode.section.up /\ d.loc \in mode.section.loc
        /\ d.plugin \in mode.section.plugin /\ d.cert \in Cert(mode)
        /\ d.list \in mode.section.list /\ d.core \in mode.section.core
    BY <2>1, ConfParts, ConfsDef
  <2> HIDE DEF d
  <2>3. d \in Confs
    BY <2>1, <2>2, ConfMade
  <2> QED
    BY <2>3 DEF d

\* So does a renewed certificate.
LEMMA CertMade ==
  ASSUME mode \in Mode, NEW c \in Confs, NEW v \in Cert(mode)
  PROVE  [c EXCEPT !.cert = v] \in Confs
<1>1. c = [up |-> c.up, loc |-> c.loc, plugin |-> c.plugin, cert |-> c.cert,
           list |-> c.list, core |-> c.core]
  BY ConfParts
<1>2. [c EXCEPT !.cert = v] = [up |-> c.up, loc |-> c.loc, plugin |-> c.plugin, cert |-> v,
                               list |-> c.list, core |-> c.core]
  BY <1>1
<1> QED
  BY <1>2, ConfParts, ConfMade

\* What the hot reload makes current, section by section.
LEMMA HotReloadIs ==
  ASSUME mode \in Mode, base \in Confs
  PROVE  HotReloadConfig = [up |-> new.up, loc |-> new.loc, plugin |-> new.plugin,
                            cert |-> IF new.cert.acme THEN base.cert ELSE new.cert,
                            list |-> new.list, core |-> base.core]
<1>1. \E u, l, p, c, s, k :
        base = [up |-> u, loc |-> l, plugin |-> p, cert |-> c, list |-> s, core |-> k]
  BY ConfParts
<1>2. PICK u, l, p, c, s, k :
        base = [up |-> u, loc |-> l, plugin |-> p, cert |-> c, list |-> s, core |-> k]
  BY <1>1
<1> DEFINE d == IF new.cert.acme THEN c ELSE new.cert
<1>3. base.cert = c /\ base.core = k
  BY <1>2
<1>4. HotReloadConfig = [base EXCEPT !.up = new.up, !.loc = new.loc, !.plugin = new.plugin,
                                     !.list = new.list, !.cert = d]
  BY <1>3 DEF HotReloadConfig
<1> HIDE DEF d
<1>5. HotReloadConfig = [up |-> new.up, loc |-> new.loc, plugin |-> new.plugin,
                         cert |-> d, list |-> new.list, core |-> k]
  BY <1>2, <1>4
<1> QED
  BY <1>3, <1>5 DEF d

\* What the hot reload makes current is a configuration.
LEMMA HotReloadType ==
  ASSUME mode \in Mode, base \in Confs, new \in Confs
  PROVE  HotReloadConfig \in Confs
<1>1. HotReloadConfig = [up |-> new.up, loc |-> new.loc, plugin |-> new.plugin,
                         cert |-> IF new.cert.acme THEN base.cert ELSE new.cert,
                         list |-> new.list, core |-> base.core]
  BY HotReloadIs
<1>2. (IF new.cert.acme THEN base.cert ELSE new.cert) \in Cert(mode)
  BY ConfParts
<1> QED
  BY <1>1, <1>2, ConfParts, ConfMade

\* The mode, and what follows from it, never changes.
LEMMA SameMode ==
  ASSUME [Next]_vars
  PROVE  /\ mode' = mode /\ Confs' = Confs /\ RestartUnit' = RestartUnit
         /\ Live(mode.section)' = Live(mode.section)
<1>1. mode' = mode
  BY DEF Next, vars, Edit, Tick, AutoRestartRun, Observe, ObserveFails, ObserverTick,
         ObserverUpdated, LoadConfig,
         Update, Diff, Reload, ReloadUpstreams, ReloadLocations, ReloadPlugins,
         ReloadCertificates, ReloadServerLocations, Commit, WakeAndRestart, RestartNow,
         AdminRestart, AcmeStep, AcmeLoad, Renew, AcmeSave, AcmeSaveFails, AcmeSetCurrent,
         AcmeApply, boundVars
<1> QED
  BY <1>1 DEF Confs, ConfOf, Cert, Live, RestartUnit

\* The configurations keep their types.
LEMMA ConfStep ==
  ASSUME TypeOK, [Next]_vars
  PROVE  {stored, current, new, base, acmeConf}' \subseteq Confs
<1>0. mode \in Mode /\ {stored, current, new, base, acmeConf} \subseteq Confs
  BY DEF TypeOK, Confs
<1> SUFFICES stored' \in Confs /\ current' \in Confs /\ new' \in Confs /\ base' \in Confs
             /\ acmeConf' \in Confs
  OBVIOUS
<1>1. CASE UNCHANGED vars
  BY <1>0, <1>1 DEF vars
<1>2. CASE Edit
  <2>1. UNCHANGED <<current, new, base, acmeConf>>
    BY <1>2 DEF Edit, updaterVars, acmeVars
  <2>2. PICK s \in mode.edit : \E v \in mode.section[s] : stored' = [stored EXCEPT ![s] = v]
    BY <1>2 DEF Edit
  <2>3. PICK v \in mode.section[s] : stored' = [stored EXCEPT ![s] = v]
    BY <2>2
  <2>4. [stored EXCEPT ![s] = v] \in Confs
    BY <1>0, EditType
  <2> QED
    BY <1>0, <2>1, <2>3, <2>4
<1>3. CASE Tick \/ ObserverUpdated
  BY <1>0, <1>3
  DEF Tick, AutoRestartRun, Observe, ObserveFails, ObserverTick, ObserverUpdated,
      LoadConfig, updaterVars, acmeVars
<1>4. CASE Diff
  BY <1>0, <1>4 DEF Diff, acmeVars
<1>5. CASE ReloadUpstreams \/ ReloadLocations \/ ReloadPlugins \/ ReloadCertificates
           \/ ReloadServerLocations
  BY <1>0, <1>5 DEF Reload, ReloadUpstreams, ReloadLocations, ReloadPlugins,
                    ReloadCertificates, ReloadServerLocations, acmeVars
<1>6. CASE Commit
  BY <1>0, <1>6, HotReloadType DEF Commit, acmeVars
<1>7. CASE WakeAndRestart \/ AdminRestart
  BY <1>0, <1>7 DEF WakeAndRestart, AdminRestart, RestartNow
<1>8. CASE AcmeLoad
  <2>1. renewals' \in 0..mode.renewals
    BY <1>0, <1>8, ReloadAssumption DEF AcmeLoad, TypeOK
  <2>2. stored.cert \in Cert(mode)
    BY <1>0, ConfParts
  <2>3. [stored.cert EXCEPT !.ver = renewals'] \in Cert(mode)
    BY <1>0, <2>1, <2>2, CertVersion
  <2>4. [stored EXCEPT !.cert.ver = renewals'] \in Confs
    BY <1>0, <2>3, CertMade
  <2> QED
    BY <1>0, <1>8, <2>4 DEF AcmeLoad, AcmeStep, updaterVars
<1>9. CASE AcmeSave
  <2>1. [stored EXCEPT !.cert = acmeConf.cert] \in Confs
    BY <1>0, ConfParts, CertMade
  <2> QED
    BY <1>0, <1>9, <2>1 DEF AcmeSave, AcmeStep, updaterVars
<1>10. CASE AcmeSaveFails \/ AcmeSetCurrent \/ AcmeApply
  BY <1>0, <1>10 DEF AcmeSaveFails, AcmeSetCurrent, AcmeApply, AcmeStep, updaterVars
<1> QED
  BY <1>1, <1>2, <1>3, <1>4, <1>5, <1>6, <1>7, <1>8, <1>9, <1>10 DEF Next, Update, Renew

\* What the process serves keeps its type.
LEMMA LiveStep ==
  ASSUME TypeOK, [Next]_vars
  PROVE  live' \in Live(mode.section)
<1>0. /\ mode \in Mode /\ stored \in Confs /\ new \in Confs /\ acmeConf \in Confs
      /\ live \in Live(mode.section)
  BY DEF TypeOK, Confs
<1>1. /\ new.up \in mode.section.up /\ new.loc \in mode.section.loc
      /\ new.plugin \in mode.section.plugin /\ new.cert \in Cert(mode)
      /\ acmeConf.cert \in Cert(mode)
  BY <1>0, ConfParts
<1>2. CASE UNCHANGED live
  BY <1>0, <1>2
<1>3. CASE ReloadUpstreams
  BY <1>0, <1>1, <1>3 DEF ReloadUpstreams, Live
<1>4. CASE ReloadLocations
  BY <1>0, <1>1, <1>4 DEF ReloadLocations, Live
<1>5. CASE ReloadPlugins
  BY <1>0, <1>1, <1>5 DEF ReloadPlugins, Live
<1>6. CASE ReloadCertificates
  BY <1>0, <1>1, <1>6 DEF ReloadCertificates, Live
<1>7. CASE ReloadServerLocations
  <2>1. SortByWeight(new.list, new.loc) \in UNION {[DOMAIN l -> Range(l)] : l \in mode.section.list}
    BY <1>0, DeployType DEF Deploy, Live
  <2> QED
    BY <1>0, <1>7, <2>1 DEF ReloadServerLocations, Live
<1>8. CASE WakeAndRestart \/ AdminRestart
  BY <1>0, <1>8, DeployType DEF WakeAndRestart, AdminRestart, RestartNow
<1>9. CASE AcmeApply
  BY <1>0, <1>1, <1>9 DEF AcmeApply, Live
<1> QED
  BY <1>2, <1>3, <1>4, <1>5, <1>6, <1>7, <1>8, <1>9
  DEF Next, vars, Edit, Tick, AutoRestartRun, Observe, ObserveFails, ObserverTick,
      ObserverUpdated, LoadConfig,
      Update, Diff, Commit, Renew, AcmeLoad, AcmeSave, AcmeSaveFails, AcmeSetCurrent

\* The control state of the services and of the renewal.
ControlType ==
  /\ pc \in {"start", "idle", "diff", "upstream", "location", "plugin", "certificate",
             "server", "commit", "sleep"}
  /\ {hotOnly, event, service, running} \subseteq BOOLEAN
  /\ count \in 0..RestartUnit
  /\ acme \in {"idle", "save", "set", "apply"}
  /\ edits \in 0..MaxEdits /\ renewals \in 0..mode.renewals
  /\ adminRestarts \in 0..mode.restarts

\* The control state keeps its type; the counters stay within their bounds.
LEMMA ControlTypeStep ==
  ASSUME TypeOK, [Next]_vars
  PROVE  ControlType'
<1>0. ControlType /\ mode \in Mode
  BY DEF TypeOK, ControlType
<1>1. /\ mode' = mode /\ RestartUnit' = RestartUnit /\ RestartUnit \in Nat \ {0}
      /\ mode.hotOnly \in BOOLEAN /\ mode.restarts \in Nat /\ mode.renewals \in Nat
      /\ MaxEdits \in Nat
  BY <1>0, SameMode, UnitPositive, ReloadAssumption
<1> USE DEF ControlType
<1>2. CASE UNCHANGED vars
  BY <1>0, <1>1, <1>2 DEF vars
<1>3. CASE Edit
  <2>1. event' \in BOOLEAN
    BY <1>0, <1>3 DEF Edit, Notify
  <2> QED
    BY <1>0, <1>1, <1>3, <2>1 DEF Edit, updaterVars, acmeVars, processVars
<1>4. CASE AutoRestartRun
  <2>1. /\ UNCHANGED <<event, service, running, acme, edits, renewals, adminRestarts>>
        /\ count' = IF count = RestartUnit THEN 1 ELSE count + 1
        /\ pc' \in {"diff", pc}
    BY <1>4 DEF AutoRestartRun, LoadConfig, updaterVars, acmeVars, processVars, boundVars
  <2>2. hotOnly' \in BOOLEAN
    BY <1>0, <1>4 DEF AutoRestartRun, LoadConfig, updaterVars
  <2>3. count' \in 0..RestartUnit
    BY <1>0, <1>1, <2>1
  <2>4. {hotOnly, event, service, running}' \subseteq BOOLEAN
    BY <1>0, <2>1, <2>2
  <2> QED
    BY <1>0, <1>1, <2>1, <2>3, <2>4
<1>5. CASE ObserverTick \/ ObserverUpdated
  <2>1. /\ UNCHANGED <<count, service, running, acme, edits, renewals, adminRestarts>>
        /\ pc' \in {"diff", pc} /\ event' \in {event, FALSE}
    BY <1>5 DEF ObserverTick, ObserverUpdated, LoadConfig, updaterVars, acmeVars, processVars,
                boundVars
  <2>2. hotOnly' \in {hotOnly, mode.hotOnly, TRUE}
    BY <1>5 DEF ObserverTick, ObserverUpdated, LoadConfig, updaterVars
  <2>3. {hotOnly, event, service, running}' \subseteq BOOLEAN
    BY <1>0, <1>1, <2>1, <2>2
  <2> QED
    BY <1>0, <1>1, <2>1, <2>3
<1>13. CASE Observe
  BY <1>0, <1>1, <1>13 DEF Observe, acmeVars, processVars, boundVars
<1>14. CASE ObserveFails
  BY <1>0, <1>1, <1>14 DEF ObserveFails, updaterVars, acmeVars, boundVars
<1>6. CASE Diff
  BY <1>0, <1>1, <1>6 DEF Diff, acmeVars, processVars, boundVars
<1>7. CASE ReloadUpstreams \/ ReloadLocations \/ ReloadPlugins \/ ReloadCertificates
           \/ ReloadServerLocations
  BY <1>0, <1>1, <1>7 DEF Reload, ReloadUpstreams, ReloadLocations, ReloadPlugins,
                    ReloadCertificates, ReloadServerLocations, acmeVars, processVars, boundVars
<1>8. CASE Commit
  BY <1>0, <1>1, <1>8 DEF Commit, acmeVars, processVars, boundVars
<1>9. CASE WakeAndRestart \/ AdminRestart
  <2>1. /\ UNCHANGED <<hotOnly, renewals, edits>> /\ pc' \in {"start", "idle"} /\ acme' = "idle"
        /\ event' = FALSE /\ count' \in {0, count}
    BY <1>9 DEF WakeAndRestart, AdminRestart, RestartNow, First
  <2>2. running' \in BOOLEAN /\ service' \in {service, ~mode.hotOnly}
    BY <1>9 DEF WakeAndRestart, AdminRestart, RestartNow, Starts, Valid
  <2>3. adminRestarts' \in 0..mode.restarts
    BY <1>0, <1>1, <1>9 DEF WakeAndRestart, AdminRestart
  <2>4. {hotOnly, event, service, running}' \subseteq BOOLEAN
    BY <1>0, <1>1, <2>1, <2>2
  <2> QED
    BY <1>0, <1>1, <2>1, <2>3, <2>4
<1>10. CASE AcmeLoad
  BY <1>0, <1>1, <1>10 DEF AcmeLoad, AcmeStep, updaterVars, processVars, boundVars
<1>11. CASE AcmeSave
  <2>1. event' \in BOOLEAN
    BY <1>0, <1>11 DEF AcmeSave, Notify
  <2> QED
    BY <1>0, <1>1, <1>11, <2>1 DEF AcmeSave, AcmeStep, updaterVars, processVars, boundVars
<1>12. CASE AcmeSaveFails \/ AcmeSetCurrent \/ AcmeApply
  BY <1>0, <1>1, <1>12 DEF AcmeSaveFails, AcmeSetCurrent, AcmeApply, AcmeStep, updaterVars,
                           processVars, boundVars
<1> QED
  BY <1>2, <1>3, <1>4, <1>5, <1>6, <1>7, <1>8, <1>9, <1>10, <1>11, <1>12, <1>13, <1>14
  DEF Next, Tick, Update, Renew

\* The configurations, the maps and the control state keep their types.
LEMMA TypeStep ==
  ASSUME TypeOK, [Next]_vars
  PROVE  TypeOK'
BY SameMode, ConfStep, LiveStep, ControlTypeStep DEF TypeOK, ControlType, Confs

-----------------------------------------------------------------------------
(* Control.                                                                  *)

\* The storage stays valid, renewals are counted, --autoreload never waits.
LEMMA ControlStep ==
  ASSUME TypeOK, Control, [Next]_vars
  PROVE  Control'
<1>0. mode' = mode /\ mode \in Mode /\ renewals \in Nat /\ stored \in Confs
  BY SameMode, ReloadAssumption DEF TypeOK, Confs
<1> USE DEF Control
<1>1. CASE UNCHANGED vars
  BY <1>1 DEF vars, Valid
<1>2. CASE Edit
  BY <1>0, <1>2 DEF Edit, updaterVars, acmeVars, processVars, Valid
<1>3. CASE Tick \/ ObserverUpdated
  <2>1. UNCHANGED <<stored, acme, renewals, running>> /\ running /\ pc' \in {"diff", "start", "idle"}
    BY <1>3 DEF Tick, AutoRestartRun, Observe, ObserveFails, ObserverTick, ObserverUpdated,
                LoadConfig, updaterVars,
                acmeVars, processVars
  <2>2. mode.hotOnly => hotOnly'
    BY <1>3 DEF Tick, AutoRestartRun, Observe, ObserveFails, ObserverTick, ObserverUpdated,
                LoadConfig, updaterVars
  <2> QED
    BY <1>0, <2>1, <2>2 DEF Valid
<1>4. CASE Diff
  BY <1>0, <1>4 DEF Diff, acmeVars, processVars, Valid
<1>5. CASE ReloadUpstreams \/ ReloadLocations \/ ReloadPlugins \/ ReloadCertificates
           \/ ReloadServerLocations
  BY <1>0, <1>5 DEF Reload, ReloadUpstreams, ReloadLocations, ReloadPlugins,
                    ReloadCertificates, ReloadServerLocations, acmeVars, processVars, Valid
<1>6. CASE Commit
  BY <1>0, <1>6 DEF Commit, acmeVars, processVars, Valid
<1>7. CASE WakeAndRestart \/ AdminRestart
  BY <1>0, <1>7 DEF WakeAndRestart, AdminRestart, RestartNow, First, Valid
<1>8. CASE AcmeLoad
  BY <1>0, <1>8 DEF AcmeLoad, AcmeStep, updaterVars, processVars, Valid
<1>9. CASE AcmeSave
  <2>1. stored' = [stored EXCEPT !.cert = acmeConf.cert]
    BY <1>9 DEF AcmeSave
  <2>2. stored'.up = stored.up /\ stored'.loc = stored.loc /\ stored'.list = stored.list
    BY <1>0, <2>1, ConfParts
  <2> QED
    BY <1>0, <1>9, <2>2 DEF AcmeSave, AcmeStep, updaterVars, processVars, Valid
<1>10. CASE AcmeSaveFails \/ AcmeSetCurrent \/ AcmeApply
  BY <1>0, <1>10 DEF AcmeSaveFails, AcmeSetCurrent, AcmeApply, AcmeStep, updaterVars, processVars, Valid
<1> QED
  BY <1>1, <1>2, <1>3, <1>4, <1>5, <1>6, <1>7, <1>8, <1>9, <1>10 DEF Next, Update, Renew

\* A process that runs without renewals so far has no renewal under way, and was running
\* without renewals before the step.
LEMMA NoRenewal ==
  ASSUME TypeOK, Control, [Next]_vars, renewals' = 0, running'
  PROVE  /\ renewals = 0 /\ running /\ acme = "idle"
         /\ ~AcmeLoad /\ ~Renew
<1>0. renewals \in Nat
  BY ReloadAssumption DEF TypeOK
<1>1. renewals' \in {renewals, renewals + 1} /\ (AcmeLoad => renewals' = renewals + 1)
  BY DEF Next, vars, Edit, Tick, AutoRestartRun, Observe, ObserveFails, ObserverTick,
         ObserverUpdated, LoadConfig,
         Update, Diff, Reload, ReloadUpstreams, ReloadLocations, ReloadPlugins,
         ReloadCertificates, ReloadServerLocations, Commit, WakeAndRestart, RestartNow,
         AdminRestart, AcmeStep, AcmeLoad, Renew, AcmeSave, AcmeSaveFails, AcmeSetCurrent,
         AcmeApply, acmeVars
<1>2. renewals = 0 /\ acme = "idle" /\ ~AcmeLoad
  BY <1>0, <1>1 DEF Control
<1>3. ~Renew
  BY <1>2 DEF Renew, AcmeSave, AcmeSaveFails, AcmeSetCurrent, AcmeApply, AcmeStep
<1>4. running
  BY <1>2, <1>3
  DEF Next, vars, Edit, Tick, AutoRestartRun, Observe, ObserveFails, ObserverTick,
      ObserverUpdated, LoadConfig,
      Update, Diff, Reload, ReloadUpstreams, ReloadLocations, ReloadPlugins,
      ReloadCertificates, ReloadServerLocations, Commit, WakeAndRestart, RestartNow,
      AdminRestart, processVars
<1> QED
  BY <1>2, <1>3, <1>4

\* What the hot reload makes current takes its upstreams, locations, plugins and server
\* locations from the new configuration, its core settings from the current one.
LEMMA HotReloadParts ==
  ASSUME TypeOK
  PROVE  /\ HotReloadConfig.up = new.up /\ HotReloadConfig.loc = new.loc
         /\ HotReloadConfig.plugin = new.plugin /\ HotReloadConfig.list = new.list
         /\ HotReloadConfig.core = base.core
         /\ HotReloadConfig.cert = IF new.cert.acme THEN base.cert ELSE new.cert
         /\ HotReloadConfig = new \/ new.core # base.core \/ (new.cert.acme /\ new.cert # base.cert)
<1>1. mode \in Mode /\ new \in Confs /\ base \in Confs
  BY DEF TypeOK, Confs
<1>3. new = [up |-> new.up, loc |-> new.loc, plugin |-> new.plugin, cert |-> new.cert,
             list |-> new.list, core |-> new.core]
  BY <1>1, ConfParts
<1>4. HotReloadConfig = [up |-> new.up, loc |-> new.loc, plugin |-> new.plugin,
                         cert |-> IF new.cert.acme THEN base.cert ELSE new.cert,
                         list |-> new.list, core |-> base.core]
  BY <1>1, HotReloadIs
<1>5. ASSUME new.core = base.core, ~new.cert.acme \/ new.cert = base.cert
      PROVE  HotReloadConfig = new
  <2>1. (IF new.cert.acme THEN base.cert ELSE new.cert) = new.cert
    BY <1>5
  <2> QED
    BY <1>3, <1>4, <1>5, <2>1
<1> QED
  BY <1>4, <1>5

\* The reload under way starts from the current configuration.
LEMMA BasesStep ==
  ASSUME TypeOK, Control, Bases, [Next]_vars
  PROVE  Bases'
<1> SUFFICES ASSUME renewals' = 0, running'
             PROVE  /\ Valid(current)' /\ (pc' \notin {"start", "idle"} => Valid(new)')
                    /\ Reloading' => base' = current'
  BY DEF Bases
<1>0. renewals = 0 /\ running /\ ~AcmeLoad /\ ~Renew
  BY NoRenewal
<1>1. Valid(current) /\ (pc \notin {"start", "idle"} => Valid(new)) /\ (Reloading => base = current)
  BY <1>0 DEF Bases
<1> USE DEF Reloading
<1>2. CASE UNCHANGED vars
  BY <1>1, <1>2 DEF vars, Valid
<1>3. CASE Edit
  BY <1>1, <1>3 DEF Edit, updaterVars, Valid
<1>4. CASE Tick \/ ObserverUpdated
  BY <1>1, <1>4 DEF Tick, AutoRestartRun, Observe, ObserveFails, ObserverTick,
                    ObserverUpdated, LoadConfig,
                    updaterVars, Valid
<1>5. CASE Diff
  BY <1>1, <1>5 DEF Diff, Valid
<1>6. CASE ReloadUpstreams \/ ReloadLocations \/ ReloadPlugins \/ ReloadCertificates
           \/ ReloadServerLocations
  BY <1>1, <1>6 DEF Reload, ReloadUpstreams, ReloadLocations, ReloadPlugins,
                    ReloadCertificates, ReloadServerLocations, Valid
<1>7. CASE Commit
  <2>1. Valid(HotReloadConfig)
    BY <1>1, <1>7, HotReloadParts DEF Commit, Valid
  <2>2. current' \in {current, HotReloadConfig} /\ pc' \in {"idle", "sleep"} /\ new' = new /\ pc = "commit"
    BY <1>7 DEF Commit
  <2> QED
    BY <1>1, <2>1, <2>2 DEF Valid
<1>8. CASE WakeAndRestart \/ AdminRestart
  BY <1>8 DEF WakeAndRestart, AdminRestart, RestartNow, First, Starts, Valid
<1> QED
  BY <1>0, <1>2, <1>3, <1>4, <1>5, <1>6, <1>7, <1>8 DEF Next, Update

-----------------------------------------------------------------------------
(* What the process serves.                                                  *)

\* The parts of what a process serves after one of them is replaced.
LEMMA LiveParts ==
  ASSUME TypeOK, NEW v
  PROVE  /\ LET n == [live EXCEPT !.up = v]
            IN /\ n.up = v /\ n.loc = live.loc /\ n.plugin = live.plugin /\ n.cert = live.cert
               /\ n.order = live.order /\ n.core = live.core
         /\ LET n == [live EXCEPT !.loc = v]
            IN /\ n.up = live.up /\ n.loc = v /\ n.plugin = live.plugin /\ n.cert = live.cert
               /\ n.order = live.order /\ n.core = live.core
         /\ LET n == [live EXCEPT !.plugin = v]
            IN /\ n.up = live.up /\ n.loc = live.loc /\ n.plugin = v /\ n.cert = live.cert
               /\ n.order = live.order /\ n.core = live.core
         /\ LET n == [live EXCEPT !.cert = v]
            IN /\ n.up = live.up /\ n.loc = live.loc /\ n.plugin = live.plugin /\ n.cert = v
               /\ n.order = live.order /\ n.core = live.core
         /\ LET n == [live EXCEPT !.order = v]
            IN /\ n.up = live.up /\ n.loc = live.loc /\ n.plugin = live.plugin
               /\ n.cert = live.cert /\ n.order = v /\ n.core = live.core
BY DEF TypeOK, Live

\* The core settings and the certificate follow the current configuration.
LEMMA CoreStep ==
  ASSUME TypeOK, Control, Bases, CoreServed, [Next]_vars
  PROVE  CoreServed'
<1> SUFFICES ASSUME renewals' = 0, running'
             PROVE  /\ live'.core = current'.core
                    /\ live'.cert = IF pc' \in {"server", "commit"} /\ ~new'.cert.acme
                                    THEN new'.cert ELSE current'.cert
                    /\ pc' = "sleep" => new'.core # live'.core \/ (new'.cert.acme /\ new'.cert # live'.cert)
  BY DEF CoreServed
<1>0. renewals = 0 /\ running /\ ~AcmeLoad /\ ~Renew
  BY NoRenewal
<1>1. /\ live.core = current.core
      /\ live.cert = IF pc \in {"server", "commit"} /\ ~new.cert.acme THEN new.cert ELSE current.cert
      /\ pc = "sleep" => new.core # live.core \/ (new.cert.acme /\ new.cert # live.cert)
      /\ Reloading => base = current
  BY <1>0 DEF CoreServed, Bases
<1>2. CASE UNCHANGED vars
  BY <1>1, <1>2 DEF vars
<1>3. CASE Edit
  BY <1>1, <1>3 DEF Edit, updaterVars
<1>4. CASE Tick \/ ObserverUpdated
  BY <1>1, <1>4 DEF Tick, AutoRestartRun, Observe, ObserveFails, ObserverTick,
                    ObserverUpdated, LoadConfig,
                    updaterVars
<1>5. CASE Diff
  BY <1>1, <1>5 DEF Diff
<1>6. CASE ReloadUpstreams \/ ReloadLocations \/ ReloadPlugins
  <2>1. /\ UNCHANGED <<current, new>> /\ pc \notin {"server", "commit"}
        /\ pc' \notin {"server", "commit", "sleep"}
    BY <1>6 DEF ReloadUpstreams, ReloadLocations, ReloadPlugins, Reload
  <2>2. \/ live' = live \/ live' = [live EXCEPT !.up = new.up]
        \/ live' = [live EXCEPT !.loc = new.loc]
        \/ live' = [live EXCEPT !.plugin = new.plugin \ BrokenPlugin]
    BY <1>6 DEF ReloadUpstreams, ReloadLocations, ReloadPlugins
  <2>3. live'.core = live.core /\ live'.cert = live.cert
    <3>1. CASE live' = [live EXCEPT !.up = new.up]
      BY <3>1, LiveParts
    <3>2. CASE live' = [live EXCEPT !.loc = new.loc]
      BY <3>2, LiveParts
    <3>3. CASE live' = [live EXCEPT !.plugin = new.plugin \ BrokenPlugin]
      BY <3>3, LiveParts
    <3> QED
      BY <2>2, <3>1, <3>2, <3>3
  <2> QED
    BY <1>1, <2>1, <2>3
<1>7. CASE ReloadCertificates
  <2>1. /\ UNCHANGED <<current, new>> /\ pc = "certificate" /\ pc' = "server"
        /\ live' = IF new.cert # base.cert /\ ~new.cert.acme
                   THEN [live EXCEPT !.cert = new.cert] ELSE live
    BY <1>7 DEF ReloadCertificates, Reload
  <2>2. live'.core = live.core
    BY <2>1, LiveParts
  <2>3. live'.cert = IF new.cert # base.cert /\ ~new.cert.acme THEN new.cert ELSE live.cert
    BY <2>1, LiveParts
  <2> QED
    BY <1>1, <2>1, <2>2, <2>3 DEF Reloading
<1>8. CASE ReloadServerLocations
  <2>1. /\ UNCHANGED <<current, new>> /\ pc = "server" /\ pc' = "commit"
    BY <1>8 DEF ReloadServerLocations, Reload
  <2>2. live'.core = live.core /\ live'.cert = live.cert
    BY <1>8, LiveParts DEF ReloadServerLocations
  <2> QED
    BY <1>1, <2>1, <2>2
<1>9. CASE Commit
  <2>1. /\ UNCHANGED <<live, new>> /\ pc = "commit" /\ pc' \in {"idle", "sleep"}
        /\ current' = IF hotOnly /\ HotReloadConfig = base THEN current ELSE HotReloadConfig
        /\ pc' = "sleep" => HotReloadConfig # new
    BY <1>9 DEF Commit
  <2>2. base = current
    BY <1>1, <2>1 DEF Reloading
  <2>3. current'.core = current.core /\ current'.cert = IF new.cert.acme THEN current.cert ELSE new.cert
    BY <2>1, <2>2, HotReloadParts
  <2>4. pc' = "sleep" => new.core # current.core \/ (new.cert.acme /\ new.cert # current.cert)
    BY <2>1, <2>2, HotReloadParts
  <2> QED
    BY <1>1, <2>1, <2>3, <2>4
<1>10. CASE WakeAndRestart \/ AdminRestart
  <2>1. pc' \in {"start", "idle"} /\ current' = stored /\ live' = Deploy(stored)
    BY <1>10 DEF WakeAndRestart, AdminRestart, RestartNow, First
  <2> QED
    BY <2>1 DEF Deploy
<1> QED
  BY <1>0, <1>2, <1>3, <1>4, <1>5, <1>6, <1>7, <1>8, <1>9, <1>10 DEF Next, Update

\* Each section follows the current configuration, and the new one from its reload on.
LEMMA ServedStep ==
  ASSUME TypeOK, Control, Bases, Served, NoneBroken, [Next]_vars
  PROVE  Served'
<1> SUFFICES ASSUME renewals' = 0, running'
             PROVE  /\ live'.up = IF Reloading' /\ pc' # "upstream" THEN new'.up ELSE current'.up
                    /\ live'.loc = IF Reloading' /\ pc' \notin {"upstream", "location"}
                                   THEN new'.loc ELSE current'.loc
                    /\ live'.plugin = IF pc' \in {"certificate", "server", "commit"}
                                      THEN new'.plugin ELSE current'.plugin
                    /\ IsReordering(live'.order, IF pc' = "commit" THEN new'.list ELSE current'.list)
  BY DEF Served, IsReordering
<1>0. renewals = 0 /\ running /\ ~AcmeLoad /\ ~Renew
  BY NoRenewal
<1>1. /\ live.up = IF Reloading /\ pc # "upstream" THEN new.up ELSE current.up
      /\ live.loc = IF Reloading /\ pc \notin {"upstream", "location"} THEN new.loc ELSE current.loc
      /\ live.plugin = IF pc \in {"certificate", "server", "commit"} THEN new.plugin ELSE current.plugin
      /\ IsReordering(live.order, IF pc = "commit" THEN new.list ELSE current.list)
      /\ Reloading => base = current
  BY <1>0 DEF Served, Bases
<1>2. mode \in Mode /\ new \in Confs /\ stored \in Confs
  BY DEF TypeOK, Confs
<1> USE DEF Reloading
<1>3. CASE UNCHANGED vars
  BY <1>1, <1>3 DEF vars
<1>4. CASE Edit
  BY <1>1, <1>4 DEF Edit, updaterVars
<1>5. CASE Tick \/ ObserverUpdated
  BY <1>1, <1>5 DEF Tick, AutoRestartRun, Observe, ObserveFails, ObserverTick,
                    ObserverUpdated, LoadConfig,
                    updaterVars
<1>6. CASE Diff
  BY <1>1, <1>6 DEF Diff
<1>7. CASE ReloadUpstreams
  <2>1. /\ UNCHANGED <<current, new>> /\ pc = "upstream" /\ pc' = "location"
        /\ live' = IF new.up # base.up THEN [live EXCEPT !.up = new.up] ELSE live
    BY <1>7 DEF ReloadUpstreams, Reload, NoneBroken
  <2>2. live'.up = new.up
    BY <1>1, <2>1, LiveParts
  <2>3. live'.loc = live.loc /\ live'.plugin = live.plugin /\ live'.order = live.order
    BY <2>1, LiveParts
  <2> QED
    BY <1>1, <2>1, <2>2, <2>3
<1>8. CASE ReloadLocations
  <2>1. /\ UNCHANGED <<current, new>> /\ pc = "location" /\ pc' = "plugin"
        /\ live' = IF new.loc # base.loc THEN [live EXCEPT !.loc = new.loc] ELSE live
    BY <1>8 DEF ReloadLocations, Reload, NoneBroken
  <2>2. live'.loc = new.loc
    BY <1>1, <2>1, LiveParts
  <2>3. live'.up = live.up /\ live'.plugin = live.plugin /\ live'.order = live.order
    BY <2>1, LiveParts
  <2> QED
    BY <1>1, <2>1, <2>2, <2>3
<1>9. CASE ReloadPlugins
  <2>1. /\ UNCHANGED <<current, new>> /\ pc = "plugin" /\ pc' = "certificate"
        /\ live' = IF new.plugin # base.plugin
                   THEN [live EXCEPT !.plugin = new.plugin \ BrokenPlugin] ELSE live
    BY <1>9 DEF ReloadPlugins, Reload
  <2>2. new.plugin \ BrokenPlugin = new.plugin
    BY DEF NoneBroken
  <2>3. live'.plugin = new.plugin
    BY <1>1, <2>1, <2>2, LiveParts
  <2>4. live'.up = live.up /\ live'.loc = live.loc /\ live'.order = live.order
    BY <2>1, LiveParts
  <2> QED
    BY <1>1, <2>1, <2>3, <2>4
<1>10. CASE ReloadCertificates
  <2>1. UNCHANGED <<current, new>> /\ pc = "certificate" /\ pc' = "server"
    BY <1>10 DEF ReloadCertificates, Reload
  <2>2. /\ live'.up = live.up /\ live'.loc = live.loc
        /\ live'.plugin = live.plugin /\ live'.order = live.order
    BY <1>10, LiveParts DEF ReloadCertificates
  <2> QED
    BY <1>1, <2>1, <2>2
<1>11. CASE ReloadServerLocations
  <2>1. /\ UNCHANGED <<current, new>> /\ pc = "server" /\ pc' = "commit"
        /\ live' = IF new.list # base.list
                   THEN [live EXCEPT !.order = SortByWeight(new.list, new.loc)] ELSE live
    BY <1>11 DEF ReloadServerLocations, Reload
  <2>2. IsReordering(SortByWeight(new.list, new.loc), new.list)
    BY <1>2, DeployType DEF Deploy
  <2>3. live'.order = IF new.list # base.list THEN SortByWeight(new.list, new.loc) ELSE live.order
    BY <2>1, LiveParts
  <2>4. IsReordering(live'.order, new.list)
    BY <1>1, <2>1, <2>2, <2>3
  <2>5. live'.up = live.up /\ live'.loc = live.loc /\ live'.plugin = live.plugin
    BY <2>1, LiveParts
  <2> QED
    BY <1>1, <2>1, <2>4, <2>5
<1>12. CASE Commit
  <2>1. /\ UNCHANGED <<live, new>> /\ pc = "commit" /\ pc' \in {"idle", "sleep"}
        /\ current' = IF hotOnly /\ HotReloadConfig = base THEN current ELSE HotReloadConfig
    BY <1>12 DEF Commit
  <2>2. current' = HotReloadConfig
    BY <1>1, <2>1
  <2> QED
    BY <1>1, <2>1, <2>2, HotReloadParts
<1>13. CASE WakeAndRestart \/ AdminRestart
  <2>1. pc' \in {"start", "idle"} /\ current' = stored /\ live' = Deploy(stored)
    BY <1>13 DEF WakeAndRestart, AdminRestart, RestartNow, First
  <2>2. stored.plugin \ BrokenPlugin = stored.plugin
    BY DEF NoneBroken
  <2>3. IsReordering(live'.order, stored.list)
    BY <1>2, <2>1, DeployType
  <2> QED
    BY <2>1, <2>2, <2>3 DEF Deploy
<1> QED
  BY <1>0, <1>3, <1>4, <1>5, <1>6, <1>7, <1>8, <1>9, <1>10, <1>11, <1>12, <1>13 DEF Next, Update

-----------------------------------------------------------------------------
\* The invariant holds in every behaviour of the services, the restarts and the renewals.
THEOREM ReloadInvariance == Spec => []IInv
<1>1. Init => IInv
  <2> SUFFICES ASSUME Init PROVE IInv
    OBVIOUS
  <2>1. /\ mode \in Mode /\ stored \in ConfOf(mode.section) /\ Starts(stored)
        /\ current = stored /\ new = stored /\ base = stored /\ acmeConf = stored
        /\ live = Deploy(stored)
    BY DEF Init
  <2>2. stored \in Confs
    BY <2>1, ConfsDef
  <2>3. RestartUnit \in Nat \ {0} /\ mode.restarts \in Nat /\ mode.renewals \in Nat /\ MaxEdits \in Nat
    BY <2>1, UnitPositive, ReloadAssumption
  <2>4. TypeOK
    <3>1. {stored, current, new, base, acmeConf} \subseteq Confs
      BY <2>1, <2>2
    <3>2. live \in Live(mode.section)
      BY <2>1, <2>2, DeployType
    <3>3. ControlType
      <4>1. {hotOnly, event, service, running} \subseteq BOOLEAN
        BY DEF Init
      <4>2. pc \in {"start", "idle"} /\ acme = "idle" /\ count = 0 /\ edits = 0 /\ renewals = 0 /\ adminRestarts = 0
        BY DEF Init, First
      <4> QED
        BY <2>3, <4>1, <4>2 DEF ControlType
    <3> QED
      BY <2>1, <3>1, <3>2, <3>3 DEF TypeOK, ControlType, Confs
  <2>5. Control
    BY <2>1 DEF Init, First, Control, Starts
  <2>6. Bases
    BY <2>1 DEF Init, First, Bases, Starts, Reloading
  <2>7. CoreServed
    BY <2>1 DEF Init, First, CoreServed, Deploy
  <2>8. NoneBroken => Served
    <3>1. IsReordering(live.order, stored.list)
      BY <2>1, <2>2, DeployType
    <3>2. NoneBroken => stored.plugin \ BrokenPlugin = stored.plugin
      BY DEF NoneBroken
    <3> QED
      BY <2>1, <3>1, <3>2 DEF Init, First, Served, Reloading, Deploy
  <2> QED
    BY <2>4, <2>5, <2>6, <2>7, <2>8 DEF IInv
<1>2. IInv /\ [Next]_vars => IInv'
  BY TypeStep, ControlStep, BasesStep, CoreStep, ServedStep DEF IInv, NoneBroken
<1> QED
  BY <1>1, <1>2, PTL DEF Spec

\* The configurations, the maps and the control state have their types, for any
\* configurations (broken ones as well) and any number of edits.
THEOREM ReloadTypes == Spec => []TypeOK
<1>1. IInv => TypeOK
  BY DEF IInv
<1> QED
  BY <1>1, ReloadInvariance, PTL

\* The process waits for a restart only when something differs that only a restart
\* applies, or a renewal fell into the reload; broken configurations included.
THEOREM RestartOnlyWhenNeeded == Spec => []RestartOnlyForCore
<1>1. IInv => RestartOnlyForCore
  <2> SUFFICES ASSUME IInv, pc = "sleep"
               PROVE  /\ ~hotOnly
                      /\ new.core # live.core \/ (new.cert.acme /\ new.cert # live.cert) \/ renewals > 0
    BY DEF RestartOnlyForCore
  <2>1. ~hotOnly
    BY DEF IInv, Control
  <2>2. renewals \in Nat
    BY ReloadAssumption DEF IInv, TypeOK
  <2>3. running
    BY DEF IInv, Control
  <2> QED
    BY <2>1, <2>2, <2>3 DEF IInv, CoreServed
<1> QED
  BY <1>1, ReloadInvariance, PTL

\* Between two runs of diff_and_update_config the process serves what
\* get_current_config says, when whatever passes validate can be built.
THEOREM RunsCurrentConfig ==
  ASSUME NoneBroken
  PROVE  Spec => []RunningConfig
<1>1. IInv => RunningConfig
  BY DEF IInv, CoreServed, Served, Reloading, RunningConfig
<1> QED
  BY <1>1, ReloadInvariance, PTL

\* Before the first renewal a location names an upstream that is gone only while an
\* update that drops upstreams is between the upstreams and the locations.
THEOREM DanglingMidReload ==
  ASSUME NoneBroken
  PROVE  Spec => [](renewals = 0 => DanglingOnlyMidReload)
<1>1. IInv => (renewals = 0 => DanglingOnlyMidReload)
  <2> SUFFICES ASSUME IInv, renewals = 0, running,
                      NEW l \in live.loc, ~(l.uses \subseteq live.up)
               PROVE  pc = "location" /\ ~(base.up \subseteq new.up)
    BY DEF DanglingOnlyMidReload
  <2>1. /\ live.up = IF Reloading /\ pc # "upstream" THEN new.up ELSE current.up
        /\ live.loc = IF Reloading /\ pc \notin {"upstream", "location"} THEN new.loc ELSE current.loc
    BY DEF IInv, Served
  <2>2. /\ Valid(current) /\ (pc \notin {"start", "idle"} => Valid(new))
        /\ Reloading => base = current
    BY DEF IInv, Bases
  <2>3. pc = "location"
    BY <2>1, <2>2 DEF Valid, Reloading
  <2>4. l \in base.loc /\ ~(l.uses \subseteq new.up) /\ l.uses \subseteq base.up
    BY <2>1, <2>2, <2>3 DEF Valid, Reloading
  <2> QED
    BY <2>3, <2>4
<1> QED
  BY <1>1, ReloadInvariance, PTL
=============================================================================
