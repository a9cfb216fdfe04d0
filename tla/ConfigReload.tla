---------------------------- MODULE ConfigReload ----------------------------
(***************************************************************************)
(* How a change of the stored configuration reaches the running process:   *)
(* the auto restart / observer service (src/src/process/auto_restart.rs)   *)
(* that diffs the stored configuration against the current one, hot        *)
(* reloads what it can and restarts the process for the rest, the restart  *)
(* itself (process/common.rs, main.rs) and the Let's Encrypt task, which   *)
(* writes to the same storage and to the same current configuration.       *)
(*                                                                         *)
(* A configuration is a record of its sections.  An upstream is its name,  *)
(* a location is a record [name, uses, weight] and stands for a location   *)
(* configuration; the server section is split into the list of locations   *)
(* of the server (which can be hot reloaded) and "core", which stands for  *)
(* all the settings only a restart applies.                                *)
(***************************************************************************)
EXTENDS Integers, Sequences, FiniteSets, Functions

CONSTANTS
  BrokenUp,      \* upstreams that pass validate and that Upstream::new refuses
  BrokenLoc,     \* locations that pass validate and that Location::new refuses
  BrokenPlugin,  \* plugins that parse_plugins reports as errors
  Mode,          \* how pingap is run: records with the fields
                 \*   observer: the storage supports watching (etcd), so that
                 \*             ConfigObserverService runs, not AutoRestart
                 \*   hotOnly:  --autoreload without --autorestart
                 \*   interval: auto_restart_check_interval in seconds
                 \*   hand:     the storage is written by hand, without validate
                 \*   section:  the values of each section, edit: those that
                 \*             somebody edits
                 \*   restarts: bound on the restarts asked for through the
                 \*             admin API, renewals: on certificate renewals
  MaxEdits       \* bound: changes of the stored configuration

Section == {"up", "loc", "plugin", "cert", "list", "core"}
\* the configurations whose sections have the given values
ConfOf(v) == [up : v.up, loc : v.loc, plugin : v.plugin, cert : v.cert, list : v.list,
              core : v.core]
\* the certificates ACME may write: the stored ones with another version
Cert(m) == m.section.cert \cup
           {[c EXCEPT !.ver = v] : c \in m.section.cert, v \in 0..m.renewals}

ASSUME ReloadAssumption ==
  /\ \A m \in Mode :
       /\ m.interval \in Nat \ {0}
       /\ {m.observer, m.hotOnly, m.hand} \subseteq BOOLEAN
       /\ m.restarts \in Nat /\ m.renewals \in Nat
       /\ m.edit \subseteq Section /\ DOMAIN m.section = Section
       /\ \A us \in m.section.up : IsFiniteSet(us)
       /\ \A ls \in m.section.loc : \A l \in ls : l.weight \in Nat
       /\ \A l \in m.section.list : l \in Seq(Range(l))
       /\ \A c \in m.section.cert : c.ver \in Nat /\ c.acme \in BOOLEAN
  /\ MaxEdits \in Nat

VARIABLES
  mode,       \* how this instance is run
  stored,     \* the configuration in the storage
  current,    \* CURRENT_CONFIG
  live,       \* what the maps and the listeners of the process were built from
  pc,         \* where the service is: before observe(), idle, or in diff_and_update_config
  new, base,  \* its new_config and current_config
  hotOnly,    \* its argument hot_reload_only
  count,      \* AutoRestart.count: 0 at first, then 1..RestartUnit in turn
  event,      \* a change the storage has reported and the observer has not seen
  service,    \* the auto restart or observer service exists in this process
  running,    \* the process is up
  acme,       \* where the renewal of a certificate is
  acmeConf,   \* the configuration it loaded
  edits, renewals, adminRestarts

updaterVars == <<pc, new, base, hotOnly>>
acmeVars == <<acme, acmeConf, renewals>>
boundVars == <<mode, edits, adminRestarts>>
processVars == <<service, running>>
vars == <<mode, stored, current, live, pc, new, base, hotOnly, count, event, service,
          running, acme, acmeConf, edits, renewals, adminRestarts>>

-----------------------------------------------------------------------------
\* PingapConf::validate: references between the sections resolve
Valid(c) ==
  /\ \A l \in c.loc : l.uses \subseteq c.up
  /\ Range(c.list) \subseteq {l.name : l \in c.loc}

\* get_weight of the location of that name, 0 when there is none
Weight(n, locs) ==
  IF \E l \in locs : l.name = n THEN (CHOOSE l \in locs : l.name = n).weight ELSE 0

\* sort_by_key(Reverse(weight)) is stable: the place of item i in the result
Rank(items, locs, i) ==
  Cardinality({j \in DOMAIN items :
                 LET wi == Weight(items[i], locs)
                     wj == Weight(items[j], locs)
                 IN wj > wi \/ (wj = wi /\ j <= i)})

\* try_init_server_locations for the one server
SortByWeight(items, locs) ==
  [k \in DOMAIN items |-> items[CHOOSE i \in DOMAIN items : Rank(items, locs, i) = k]]

\* main: what a process that starts with c serves, and whether it starts at all
Deploy(c) ==
  [up |-> c.up, loc |-> c.loc, plugin |-> c.plugin \ BrokenPlugin, cert |-> c.cert,
   order |-> SortByWeight(c.list, c.loc), core |-> c.core]
Starts(c) == Valid(c) /\ c.up \cap BrokenUp = {} /\ c.loc \cap BrokenLoc = {}

\* where the service of a new process is
First == IF mode.observer THEN "start" ELSE "idle"

Init ==
  /\ mode \in Mode
  /\ stored \in {c \in ConfOf(mode.section) : Starts(c)}
  /\ current = stored
  /\ live = Deploy(stored)
  /\ pc = First /\ new = stored /\ base = stored /\ hotOnly = TRUE
  /\ count = 0
  /\ event = FALSE
  /\ service = TRUE /\ running = TRUE
  /\ acme = "idle" /\ acmeConf = stored
  /\ edits = 0 /\ renewals = 0 /\ adminRestarts = 0

\* External: the storage reports a change to the watcher, if there is one, or misses it
Notify == event' \in (IF mode.observer /\ pc # "start" THEN {TRUE, event} ELSE {FALSE})

\* somebody saves one section: the admin API (after validate), another
\* instance, or a hand edit
Edit ==
  /\ edits < MaxEdits
  /\ edits' = edits + 1
  /\ \E s \in mode.edit : \E v \in mode.section[s] \ {stored[s]} :
       stored' = [stored EXCEPT ![s] = v]
  /\ Valid(stored') \/ mode.hand
  /\ Notify
  /\ UNCHANGED <<current, live, updaterVars, count, processVars, acmeVars, mode, adminRestarts>>

-----------------------------------------------------------------------------
(* The services that call diff_and_update_config, and its first await.       *)

\* new_auto_restart_service
RestartUnit == IF mode.interval > 10 THEN mode.interval \div 10 ELSE 1

\* MUTANT: the configuration is not validated
LoadConfigUnchecked(hot) ==
  /\ pc = "idle" /\ service /\ running
  /\ pc' = "diff" /\ new' = stored /\ hotOnly' = hot
  /\ UNCHANGED <<base, stored, current, live, processVars, acmeVars, boundVars>>
\* load_config and validate: an error ends the run
LoadConfig(hot) ==
  /\ pc = "idle" /\ service /\ running
  /\ IF Valid(stored)
     THEN pc' = "diff" /\ new' = stored /\ hotOnly' = hot /\ UNCHANGED base
     ELSE UNCHANGED updaterVars
  /\ UNCHANGED <<stored, current, live, processVars, acmeVars, boundVars>>

\* AutoRestart::run; count stands for the number of runs, reduced modulo the unit
AutoRestartRun ==
  /\ ~mode.observer
  /\ LoadConfig(mode.hotOnly \/ ~(count > 0 /\ RestartUnit > 1 /\ count % RestartUnit = 0))
  /\ count' = IF count = RestartUnit THEN 1 ELSE count + 1
  /\ UNCHANGED event

\* ConfigObserverService: the watcher is made
Observe ==
  /\ mode.observer /\ pc = "start" /\ service /\ running
  /\ pc' = "idle"
  /\ UNCHANGED <<new, base, hotOnly, stored, current, live, count, event, processVars,
                 acmeVars, boundVars>>

\* ... or it cannot be made, and the service returns for good
ObserveFails ==
  /\ mode.observer /\ pc = "start" /\ service /\ running
  /\ service' = FALSE
  /\ UNCHANGED <<updaterVars, stored, current, live, count, event, running, acmeVars,
                 boundVars>>

\* ConfigObserverService: the period ticks
ObserverTick ==
  /\ mode.observer
  /\ LoadConfig(mode.hotOnly)
  /\ UNCHANGED <<count, event>>

\* ConfigObserverService: the watcher returns Ok(true)
ObserverUpdated ==
  /\ mode.observer /\ event
  /\ event' = FALSE
  /\ LoadConfig(TRUE)
  /\ UNCHANGED count

\* MUTANT: only the upstreams and the locations are compared
DiffSome ==
  /\ pc = "diff" /\ running
  /\ base' = current
  /\ pc' = IF current.up = new.up /\ current.loc = new.loc THEN "idle" ELSE "upstream"
  /\ UNCHANGED <<stored, current, live, new, hotOnly, count, event, processVars,
                 acmeVars, boundVars>>
\* get_current_config and the first diff: no update, or the hot reload begins
Diff ==
  /\ pc = "diff" /\ running
  /\ base' = current
  /\ pc' = IF current = new THEN "idle" ELSE "upstream"
  /\ UNCHANGED <<stored, current, live, new, hotOnly, count, event, processVars,
                 acmeVars, boundVars>>

-----------------------------------------------------------------------------
(* The hot reload, one step per section that is applied: every step awaits   *)
(* notifications, the first one health checks as well.                       *)

Reload(from, to) ==
  /\ pc = from /\ running
  /\ pc' = to
  /\ UNCHANGED <<stored, current, new, base, hotOnly, count, event, processVars,
                 acmeVars, boundVars>>

\* try_update_upstreams: one that cannot be built leaves the map as it was
ReloadUpstreams ==
  /\ Reload("upstream", "location")
  /\ live' = IF new.up # base.up /\ new.up \cap BrokenUp = {}
             THEN [live EXCEPT !.up = new.up] ELSE live

\* try_init_locations, likewise
ReloadLocations ==
  /\ Reload("location", "plugin")
  /\ live' = IF new.loc # base.loc /\ new.loc \cap BrokenLoc = {}
             THEN [live EXCEPT !.loc = new.loc] ELSE live

\* try_init_plugins stores the plugins that could be built
ReloadPlugins ==
  /\ Reload("plugin", "certificate")
  /\ live' = IF new.plugin # base.plugin
             THEN [live EXCEPT !.plugin = new.plugin \ BrokenPlugin] ELSE live

\* try_update_certificates, unless there is a certificate ACME manages
ReloadCertificates ==
  /\ Reload("certificate", "server")
  /\ live' = IF new.cert # base.cert /\ ~new.cert.acme
             THEN [live EXCEPT !.cert = new.cert] ELSE live

\* try_init_server_locations, if the list of locations changed
ReloadServerLocations ==
  /\ Reload("server", "commit")
  /\ live' = IF new.list # base.list
             THEN [live EXCEPT !.order = SortByWeight(new.list, new.loc)] ELSE live

\* MUTANT: the whole new configuration becomes the current one
HotReloadConfigAll == new
\* MUTANT: the list of locations is written back as it was sorted
HotReloadConfigSorted ==
  [base EXCEPT !.up = new.up, !.loc = new.loc, !.plugin = new.plugin,
               !.list = live.order,
               !.cert = IF new.cert.acme THEN base.cert ELSE new.cert]
\* the current configuration with everything a hot reload may take from the new
HotReloadConfig ==
  [base EXCEPT !.up = new.up, !.loc = new.loc, !.plugin = new.plugin,
               !.list = new.list,
               !.cert = IF new.cert.acme THEN base.cert ELSE new.cert]

\* MUTANT: any change restarts the process
CommitRestarts ==
  /\ pc = "commit" /\ running
  /\ pc' = IF hotOnly THEN "idle" ELSE "sleep"
  /\ current' = HotReloadConfig
  /\ UNCHANGED <<stored, live, new, base, hotOnly, count, event, processVars,
                 acmeVars, boundVars>>
\* the end of diff_and_update_config; restart() sleeps for a minute
Commit ==
  /\ pc = "commit" /\ running
  /\ IF hotOnly
     THEN /\ pc' = "idle"
          /\ current' = IF HotReloadConfig = base THEN current ELSE HotReloadConfig
     ELSE /\ pc' = IF HotReloadConfig = new THEN "idle" ELSE "sleep"
          /\ current' = HotReloadConfig
  /\ UNCHANGED <<stored, live, new, base, hotOnly, count, event, processVars,
                 acmeVars, boundVars>>

-----------------------------------------------------------------------------
\* restart_now: SIGQUIT to this process and a new one started with the stored
\* configuration; --autorestart is handed on, --autoreload is not
RestartNow ==
  /\ running' = Starts(stored)
  /\ IF Starts(stored)
     THEN /\ current' = stored /\ live' = Deploy(stored)
          /\ count' = 0 /\ service' = ~mode.hotOnly
     ELSE UNCHANGED <<current, live, count, service>>
  /\ pc' = First /\ acme' = "idle" /\ event' = FALSE
  /\ UNCHANGED <<mode, stored, new, base, hotOnly, acmeConf, renewals, edits>>

\* the minute of restart() is over and nobody else asked for a restart
WakeAndRestart ==
  /\ pc = "sleep" /\ running
  /\ RestartNow
  /\ UNCHANGED adminRestarts

\* the admin API calls restart_now
AdminRestart ==
  /\ running /\ adminRestarts < mode.restarts
  /\ adminRestarts' = adminRestarts + 1
  /\ RestartNow

-----------------------------------------------------------------------------
(* renew_certificate                                                         *)

AcmeStep(from, to) ==
  /\ acme = from /\ running
  /\ acme' = to
  /\ UNCHANGED <<updaterVars, count, processVars, boundVars>>

\* update_certificate_lets_encrypt has the certificate and loads the storage
AcmeLoad ==
  /\ AcmeStep("idle", "save")
  /\ current.cert.acme
  /\ renewals < mode.renewals
  /\ renewals' = renewals + 1
  /\ acmeConf' = IF stored.cert.acme THEN [stored EXCEPT !.cert.ver = renewals']
                                     ELSE stored
  /\ UNCHANGED <<stored, current, live, event>>

\* save_config: an invalid configuration is not written, the renewal fails; it writes the
\* section of the certificates or one item of it, a storage that is a single file is no
\* place for the answers of challenges and no renewal gets here with it
AcmeSave ==
  /\ Valid(acmeConf)
  /\ AcmeStep("save", "set")
  /\ stored' = [stored EXCEPT !.cert = acmeConf.cert]
  /\ Notify
  /\ UNCHANGED <<current, live, acmeConf, renewals>>

AcmeSaveFails ==
  /\ ~Valid(acmeConf)
  /\ AcmeStep("save", "idle")
  /\ UNCHANGED <<stored, current, live, event, acmeConf, renewals>>

\* set_current_config with everything that was loaded
AcmeSetCurrent ==
  /\ AcmeStep("set", "apply")
  /\ current' = acmeConf
  /\ UNCHANGED <<stored, live, event, acmeConf, renewals>>

\* handle_successful_renewal
AcmeApply ==
  /\ AcmeStep("apply", "idle")
  /\ live' = [live EXCEPT !.cert = acmeConf.cert]
  /\ UNCHANGED <<stored, current, event, acmeConf, renewals>>

-----------------------------------------------------------------------------
Tick == AutoRestartRun \/ Observe \/ ObserveFails \/ ObserverTick
Update ==
  \/ Diff \/ ReloadUpstreams \/ ReloadLocations \/ ReloadPlugins
  \/ ReloadCertificates \/ ReloadServerLocations \/ Commit \/ WakeAndRestart
Renew == AcmeSave \/ AcmeSaveFails \/ AcmeSetCurrent \/ AcmeApply

Next == Edit \/ Tick \/ ObserverUpdated \/ Update \/ AdminRestart \/ AcmeLoad \/ Renew

Spec == Init /\ [][Next]_vars
\* timers fire, futures that are ready are polled; nobody has to edit anything
FairSpec == Spec /\ WF_vars(Tick) /\ WF_vars(Update) /\ WF_vars(Renew)

-----------------------------------------------------------------------------
Live(v) == [up : v.up, loc : v.loc, plugin : {p \ BrokenPlugin : p \in v.plugin},
            cert : Cert(mode), order : UNION {[DOMAIN l -> Range(l)] : l \in v.list},
            core : v.core]

\* The configurations, the maps and the control state have their types.
TypeOK ==
  /\ mode \in Mode
  /\ {stored, current, new, base, acmeConf}
       \subseteq ConfOf([mode.section EXCEPT !.cert = Cert(mode)])
  /\ live \in Live(mode.section)
  /\ pc \in {"start", "idle", "diff", "upstream", "location", "plugin", "certificate",
             "server", "commit", "sleep"}
  /\ {hotOnly, event, service, running} \subseteq BOOLEAN
  /\ count \in 0..RestartUnit
  /\ acme \in {"idle", "save", "set", "apply"}
  /\ edits \in 0..MaxEdits /\ renewals \in 0..mode.renewals
  /\ adminRestarts \in 0..mode.restarts

IsReordering(s, t) ==
  /\ DOMAIN s = DOMAIN t
  /\ \A x \in Range(s) \cup Range(t) :
       Cardinality({i \in DOMAIN s : s[i] = x}) = Cardinality({i \in DOMAIN t : t[i] = x})

\* Between two runs of diff_and_update_config the process serves what
\* get_current_config says ("Get the running pingap config."), up to the order
\* of the locations: the diff of the next run starts from the truth.  (Without
\* renewals: those set the current configuration as well.)
RunningConfig ==
  running /\ pc \in {"start", "idle", "diff", "sleep"} /\ renewals = 0 =>
    /\ live.up = current.up /\ live.loc = current.loc
    /\ live.plugin = current.plugin /\ live.cert = current.cert
    /\ live.core = current.core
    /\ IsReordering(live.order, current.list)

\* A location names an upstream that is not there only between the reload of the
\* upstreams and that of the locations, and only when the update drops upstreams.
DanglingOnlyMidReload ==
  running /\ (\E l \in live.loc : ~(l.uses \subseteq live.up)) =>
    pc = "location" /\ ~(base.up \subseteq new.up)

\* The process waits for a restart only when a core setting or a certificate that ACME
\* manages really differs from what it runs with, or a renewal has changed the
\* certificate meanwhile.
RestartOnlyForCore ==
  pc = "sleep" =>
    /\ ~hotOnly
    /\ new.core # live.core \/ (new.cert.acme /\ new.cert # live.cert) \/ renewals > 0

HotApplied ==
  /\ live.up = stored.up /\ live.loc = stored.loc
  /\ live.plugin = stored.plugin \ BrokenPlugin /\ IsReordering(live.order, stored.list)
  /\ ~stored.cert.acme => live.cert = stored.cert

\* When edits stop at a valid configuration, its upstreams, locations, plugins,
\* certificates and server locations are what the process serves from then on, whatever
\* notifications are lost; unless the observer could not be made when the process started.
HotConverges == <>[](running /\ service /\ renewals = 0 /\ Valid(stored) => HotApplied)

\* With auto restart, the core settings take effect as well, provided that there are runs
\* that may restart: the observer's, or those of an interval of 20 seconds or more.
CoreConverges ==
  mode.observer \/ RestartUnit > 1 =>
    <>[](running /\ service /\ renewals = 0 /\ ~mode.hotOnly /\ Valid(stored) =>
           live.core = stored.core)


-----------------------------------------------------------------------------
\* README.md: "Hot Reload: When only upstream or location configurations change,
\* updates take effect within ~10 seconds without restart".
HotReloadDoc == <>[](Valid(stored) => live.up = stored.up /\ live.loc = stored.loc)
=============================================================================
