---------------------------- MODULE Certificates ----------------------------
(***************************************************************************)
(* The certificates of pingap: the map the TLS handshakes choose from      *)
(* (pingap-certificate/src/dynamic_certificate.rs), the leaves a CA signs  *)
(* on demand and their cache (tls_certificate.rs, self_signed.rs), the     *)
(* background tasks that warn of certificates that end, clean the cache    *)
(* and renew certificates with ACME (validity_checker.rs, pingap-acme),    *)
(* and the reloads of the certificates (process/auto_restart.rs), which    *)
(* run beside them.  When a reload or a restart happens is ConfigReload's  *)
(* matter: here they may happen at any time.  Time is counted in days.     *)
(***************************************************************************)
EXTENDS Integers, Sequences, FiniteSets, Functions

CONSTANTS
  Handshake, Leaf,   \* slots for handshakes (numbers), leaf objects
  Setup,             \* what a run starts from: conf, the tables of edits, the server
                     \* names clients ask for, the handshakes that go on at a time,
                     \* whether the storage has an item for every certificate, and the
                     \* bounds hellos, edits, reloads, restarts, failures, days
  ExpiryDays,        \* CERTIFICATE_EXPIRY_DAYS
  WarningDays,       \* DEFAULT_EXPIRATION_WARNING_DAYS
  RenewDays,         \* the buffer of Certificate::valid when none is configured
  LeafDays,          \* the life of a leaf (two years)
  CertDays,          \* External: the life of a certificate of Let's Encrypt
  Tries,             \* the bound of the polls of an order (10)
  None

\* a name is the sequence of its labels, those of a wildcard among them
Label == STRING \cup {"*", ""}
Name == Seq(Label)
\* a certificate of the configuration: names and pem are the domains that are configured and
\* those of the PEM text, has and ok say that there is one and that it parses
CertType == [ver : {0, 1}, has : BOOLEAN, ok : BOOLEAN, names : Seq(Name), pem : SUBSET Name,
             default : BOOLEAN, ca : BOOLEAN, signs : BOOLEAN, acme : BOOLEAN, buffer : Nat,
             from : Nat, until : Nat]
IsConf(cs) ==
  DOMAIN cs \subseteq STRING /\ IsFiniteSet(DOMAIN cs) /\ cs \in [DOMAIN cs -> CertType]

\* what the maps of certificates and of leaves hold, and a renewal
LiveType == [name : STRING, ver : {0, 1}, until : Nat, from : Nat, ca : BOOLEAN,
             signs : BOOLEAN, buffer : Nat, since : Nat]
LeafType == [key : STRING \X Name, by : STRING, ver : {0, 1}, old : BOOLEAN, caUntil : Nat,
             cn : Name, until : Nat, stale : BOOLEAN, count : {0, 1}, back : BOOLEAN]
LastType == [day : Nat, names : Seq(Name), buffer : Nat, odd : BOOLEAN, undone : BOOLEAN]

ASSUME CertAssumption ==
  /\ {ExpiryDays, WarningDays, RenewDays, LeafDays, CertDays, Tries} \subseteq Nat \ {0}
  /\ \A s \in Setup :
       /\ IsConf(s.conf) /\ \A t \in s.tables : IsConf(t)
       /\ s.snis \subseteq Name
       /\ s.separate \in BOOLEAN /\ s.days \in Nat \ {0}
       /\ {s.hellos, s.edits, s.reloads, s.restarts, s.failures} \subseteq Nat
  /\ None \notin LiveType /\ None \notin LeafType /\ None \notin LastType
  /\ None \notin Leaf

VARIABLES
  setup,      \* the choice of this run
  stored,     \* the certificates in the storage: name -> certificate
  conf,       \* those of the current configuration
  live,       \* DYNAMIC_CERTIFICATE_MAP: domain -> certificate with its name
  applied,    \* history: the certificates the map was made of
  reload,     \* diff_and_update_config: where it is, new_config and current_config
  enabled,    \* whether the servers of this process answer challenges
  crossed,    \* history: a reload and the end of a renewal overlapped, and since then the
              \* map has not been that of the current configuration
  leafs,      \* SELF_SIGNED_CERTIFICATE_MAP: <<name, common name>> -> leaf
  object,     \* the SelfSignedCertificate objects (by, ver, caUntil, old and back are
              \* history: the CA, its end, that it was replaced since, and that an addition
              \* has undone the removal of the leaf)
  hs,         \* the handshakes
  task,       \* where the background service is
  kept,       \* the map a sweep has built
  todo,       \* UpdateCertificateParams that are left, the first is worked on
  tokens,     \* challenges of the order whose answer is in the storage
  challenge,  \* External: the challenges of the order at Let's Encrypt
  tries,
  renewed,    \* the configuration a renewal has loaded
  day, daily, \* the day, and whether its tasks are done
  stuck,      \* history: a day went by while the service waited for a certificate, or
              \* after it had ended
  warned,     \* history: <<name, version>> reported by the validity checker
  last,       \* history: the last renewal of a certificate that is still stored; undone
              \* when a reload has put the one before back into the current configuration
  bounds      \* what is left of the bounds

confVars == <<stored, conf, live, applied, reload, enabled, crossed>>
acmeVars == <<todo, tokens, challenge, tries, renewed, last>>
vars == <<setup, confVars, leafs, object, hs, task, kept, acmeVars, day, daily, stuck,
          warned, bounds>>

-----------------------------------------------------------------------------
(* The map of the handshakes.                                                *)

Default == <<"*">>
Wildcard(sni) == IF Len(sni) > 1 THEN <<"*">> \o Tail(sni) ELSE <<"*", "">>

\* the names a certificate is put under
Domains(c) ==
  (IF c.names # <<>> THEN Range(c.names) ELSE c.pem) \cup (IF c.default THEN {Default} ELSE {})

\* TlsCertificate::try_from
Parsed(cs) == {n \in DOMAIN cs : cs[n].has /\ cs[n].ok}

\* parse_certificates: the last certificate of the hash map that has a name wins
Claims(cs, d) == {n \in Parsed(cs) : d \in Domains(cs[n])}
ParseCertificates(cs, order) ==
  [d \in UNION {Domains(cs[n]) : n \in Parsed(cs)} |->
     LET n == CHOOSE x \in Claims(cs, d) : \A y \in Claims(cs, d) : order[y] <= order[x]
     IN [name |-> n, ver |-> cs[n].ver, until |-> cs[n].until, from |-> cs[n].from,
         ca |-> cs[n].ca, signs |-> cs[n].signs, buffer |-> cs[n].buffer, since |-> day]]

\* try_update_certificates; a certificate that was there keeps its day
TryUpdateCertificates(cs) ==
  /\ applied' = cs
  /\ \E order \in Bijection(DOMAIN cs, 1..Cardinality(DOMAIN cs)) :
       live' = LET m == ParseCertificates(cs, order)
               IN [d \in DOMAIN m |->
                     IF d \in DOMAIN live /\ live[d] = [m[d] EXCEPT !.since = live[d].since]
                     THEN live[d] ELSE m[d]]
\* history: the leaves of a CA that is not there any more
Signer(cs, n, v) == n \in DOMAIN cs /\ cs[n].ver = v
Aged(cs) ==
  [l \in Leaf |->
     IF object[l] = None THEN None
     ELSE [object[l] EXCEPT !.old = @ \/ ~Signer(cs, object[l].by, object[l].ver)]]

\* certificate_callback: the name, its wildcard, the default
Candidates(sni) == <<sni, Wildcard(sni), Default>>
Found(m, sni) == {i \in 1..3 : Candidates(sni)[i] \in DOMAIN m}
Selected(m, sni) ==
  IF Found(m, sni) = {} THEN None
  ELSE m[Candidates(sni)[CHOOSE i \in Found(m, sni) : \A j \in Found(m, sni) : i <= j]]

-----------------------------------------------------------------------------
\* the certificates of a configuration that fit a name best: by name, by wildcard,
\* by default
Fits(cs, sni) ==
  LET by(d) == Claims(cs, d)
  IN IF by(sni) # {} THEN by(sni)
     ELSE IF by(Wildcard(sni)) # {} THEN by(Wildcard(sni)) ELSE by(Default)

\* a handshake; fit and at are history: what fitted best when it began, and the day
NoHandshake == [pc |-> "idle", sni |-> <<>>, cert |-> None, leaf |-> None, map |-> <<>>,
                fit |-> {}, at |-> 0]

NoReload == [pc |-> "idle", new |-> <<>>, base |-> <<>>]

\* run(): what is configured at the start makes the servers answer challenges
EnabledLetsEncrypt(cs) == \E n \in DOMAIN cs : cs[n].acme /\ cs[n].names # <<>>

Init ==
  /\ setup \in Setup
  /\ stored = setup.conf /\ conf = setup.conf /\ applied = setup.conf
  /\ reload = NoReload /\ crossed = FALSE
  /\ enabled = EnabledLetsEncrypt(setup.conf)
  /\ day = 1
  /\ live \in {ParseCertificates(conf, order) :
                 order \in Bijection(DOMAIN conf, 1..Cardinality(DOMAIN conf))}
  /\ leafs = <<>>
  /\ object = [l \in Leaf |-> None]
  /\ hs = [h \in Handshake |-> NoHandshake]
  /\ task = "idle" /\ kept = <<>>
  /\ todo = <<>> /\ tokens = {} /\ challenge = <<>> /\ tries = 0 /\ renewed = <<>>
  /\ daily = FALSE /\ stuck = FALSE
  /\ warned = {}
  /\ last = [n \in DOMAIN conf \cup UNION {DOMAIN t : t \in setup.tables} |-> None]
  /\ bounds = [hellos |-> setup.hellos, edits |-> setup.edits, reloads |-> setup.reloads,
               restarts |-> setup.restarts, failures |-> setup.failures]

-----------------------------------------------------------------------------
(* The configuration: edits, reloads and restarts.                           *)

\* a configuration is saved; the certificate ACME has put there stays in it
WithPem(t) ==
  [n \in DOMAIN t |->
     IF n \in DOMAIN stored /\ t[n].acme
     THEN [t[n] EXCEPT !.ver = stored[n].ver, !.pem = stored[n].pem, !.from = stored[n].from,
                       !.until = stored[n].until, !.has = stored[n].has, !.ok = stored[n].ok]
     ELSE t[n]]
Edit ==
  /\ bounds.edits > 0
  /\ bounds' = [bounds EXCEPT !.edits = @ - 1]
  /\ \E t \in setup.tables :
       /\ stored' = WithPem(t)
       /\ last' = [n \in DOMAIN last |->
                     IF n \in DOMAIN stored \cap DOMAIN t
                     THEN IF t[n].acme THEN last[n] ELSE None
                     ELSE None]
  /\ UNCHANGED <<setup, conf, live, applied, reload, enabled, crossed, leafs, object, hs, task,
                 kept, todo, tokens, challenge, tries, renewed, day, daily, stuck, warned>>

reloadSame == <<setup, stored, enabled, leafs, hs, task, kept, todo, tokens, challenge, tries,
                renewed, day, daily, stuck, warned>>

\* diff_and_update_config: the stored configuration is loaded and passes validate ...
ReloadLoad ==
  /\ reload.pc = "idle"
  /\ bounds.reloads > 0
  /\ bounds' = [bounds EXCEPT !.reloads = @ - 1]
  /\ reload' = [pc |-> "diff", new |-> stored, base |-> <<>>]
  /\ crossed' = (crossed \/ task = "apply")
  /\ UNCHANGED <<conf, live, applied, object, last, reloadSame>>

\* ... the current one is read, and when nothing differs that is all; other sections may
\* differ
ReloadDiff ==
  /\ reload.pc = "diff"
  /\ \/ reload.new = conf /\ reload' = NoReload
        /\ crossed' = (crossed /\ (task = "apply" \/ applied # conf))
     \/ reload' = [reload EXCEPT !.pc = "apply", !.base = conf] /\ UNCHANGED crossed
  /\ UNCHANGED <<conf, live, applied, object, last, bounds, reloadSame>>

ExistsAcme(cs) == \E n \in DOMAIN cs : cs[n].acme

\* the certificates are tried when they differ and none of them is ACME's
ReloadApply ==
  /\ reload.pc = "apply"
  /\ reload' = [reload EXCEPT !.pc = "commit"]
  /\ IF reload.new # reload.base /\ ~ExistsAcme(reload.new)
     THEN TryUpdateCertificates(reload.new) /\ object' = Aged(reload.new)
     ELSE UNCHANGED <<live, applied, object>>
  /\ UNCHANGED <<conf, crossed, last, bounds, reloadSame>>

\* MUTANT: ACME certificates are taken over too
HotReloadAll(new, base) == new
\* hot_reload_config.certificates
HotReloadConfig(new, base) == IF ExistsAcme(new) THEN base ELSE new

\* a renewal is in a configuration
InPlace(cs, n, r) ==
  /\ n \in DOMAIN cs /\ cs[n].acme /\ cs[n].has /\ cs[n].ok
  /\ cs[n].pem = Range(r.names) /\ cs[n].until = r.day + CertDays

\* set_current_config; not when only hot reloads are done and none of their sections differs
ReloadCommit ==
  /\ reload.pc = "commit"
  /\ reload' = NoReload
  /\ LET hot == HotReloadConfig(reload.new, reload.base)
     IN conf' = hot \/ (hot = reload.base /\ conf' = conf)
  /\ crossed' = (crossed /\ (task = "apply" \/ applied # conf'))
  /\ last' = [n \in DOMAIN last |->
                IF crossed /\ last[n] # None
                THEN [last[n] EXCEPT !.undone = @ \/ ~InPlace(conf', n, last[n])]
                ELSE last[n]]
  /\ UNCHANGED <<live, applied, object, bounds, reloadSame>>

\* the program is started again, with what is stored
Restart ==
  /\ bounds.restarts > 0
  /\ bounds' = [bounds EXCEPT !.restarts = @ - 1]
  /\ conf' = stored /\ TryUpdateCertificates(stored)
  /\ reload' = NoReload /\ crossed' = FALSE /\ enabled' = EnabledLetsEncrypt(stored)
  /\ leafs' = <<>> /\ object' = [l \in Leaf |-> None]
  /\ hs' = [h \in Handshake |-> NoHandshake]
  /\ task' = "idle" /\ kept' = <<>> /\ daily' = FALSE
  /\ todo' = <<>> /\ tokens' = {} /\ challenge' = <<>> /\ tries' = 0 /\ renewed' = <<>>
  /\ last' = [n \in DOMAIN last |->
                IF last[n] = None THEN None ELSE [last[n] EXCEPT !.undone = FALSE]]
  /\ UNCHANGED <<setup, stored, day, stuck, warned>>

\* time passes; a handshake and a reload do not last from one day to the next, and the
\* tasks of a day are done within it, unless the loop that waits for a certificate of Let's
\* Encrypt holds them up, or a panic has ended the service
Day ==
  /\ \A h \in Handshake : hs[h].pc = "idle"
  /\ reload.pc = "idle"
  /\ (daily /\ task = "idle") \/ task \in {"certificate", "dead"}
  /\ day' = IF day < setup.days THEN day + 1 ELSE day                     \* bound
  /\ daily' = FALSE
  /\ stuck' = (stuck \/ task # "idle")
  /\ UNCHANGED <<setup, confVars, leafs, object, hs, task, kept, acmeVars, warned, bounds>>

-----------------------------------------------------------------------------
(* Handshakes.                                                               *)

\* objects nobody holds any more are gone
Held == Range(leafs) \cup Range(kept)
        \cup UNION {Range(hs[h].map) \cup ({hs[h].leaf} \ {None}) : h \in Handshake}
Collect(o) == object' = [l \in Leaf |-> IF l \in Held' THEN o[l] ELSE None]

\* history: what a handshake may count on: the current configuration; while a reload or the
\* end of a renewal is under way, or after the two have overlapped, what the map was made of
Settled == reload.pc \in {"idle", "diff"} /\ task # "apply" /\ ~crossed
Promised == IF Settled THEN conf ELSE applied

\* certificate_callback: the map is read once; no match and a CA that cannot sign leave
\* the connection without a certificate
Select(h) ==
  /\ h \in setup.handshakes /\ hs[h].pc = "idle"
  /\ \A g \in setup.handshakes : g < h => hs[g].pc # "idle"       \* the first free slot
  /\ bounds.hellos > 0
  /\ bounds' = [bounds EXCEPT !.hellos = @ - 1]
  /\ \E sni \in setup.snis :
       LET c == Selected(live, sni)
           ca == c # None /\ c.ca
       IN hs' = [hs EXCEPT ![h] =
            [NoHandshake EXCEPT !.pc = IF ca THEN "leaf" ELSE "done", !.sni = sni,
                                !.cert = c, !.at = day,
                                !.fit = {[name |-> n, ver |-> Promised[n].ver,
                                          unable |-> Promised[n].ca /\ ~Promised[n].signs] :
                                            n \in Fits(Promised, sni)}]]
  /\ UNCHANGED <<setup, confVars, leafs, object, task, kept, acmeVars, day, daily, stuck,
                 warned>>

\* format_common_name
CommonName(sni) == IF Len(sni) > 2 THEN Wildcard(sni) ELSE sni
\* MUTANT: the CA is not part of the key
LeafKeyAny(h) == <<"", CommonName(hs[h].sni)>>
LeafKey(h) == <<hs[h].cert.name, CommonName(hs[h].sni)>>

\* get_self_signed_certificate: the count goes up
LeafHit(h) ==
  /\ hs[h].pc = "leaf" /\ LeafKey(h) \in DOMAIN leafs
  /\ LET l == leafs[LeafKey(h)]
     IN /\ object' = [object EXCEPT ![l].count = 1]       \* zero or not is what counts
        /\ hs' = [hs EXCEPT ![h].pc = "done", ![h].leaf = l]
  /\ UNCHANGED <<setup, confVars, leafs, task, kept, acmeVars, day, daily, stuck, warned,
                 bounds>>

LeafMiss(h) ==
  /\ hs[h].pc = "leaf" /\ LeafKey(h) \notin DOMAIN leafs
  /\ hs' = [hs EXCEPT ![h].pc = "create"]
  /\ UNCHANGED <<setup, confVars, leafs, object, task, kept, acmeVars, day, daily, stuck,
                 warned, bounds>>

\* new_certificate_with_ca, and add_self_signed_certificate copies the map
LeafCreate(h) ==
  /\ hs[h].pc = "create"
  /\ LET c == hs[h].cert
         l == CHOOSE x \in Leaf : object[x] = None
     IN IF ~c.signs
        THEN hs' = [hs EXCEPT ![h].pc = "done", ![h].cert = None] /\ UNCHANGED object
        ELSE /\ \E x \in Leaf : object[x] = None                          \* bound
             /\ hs' = [hs EXCEPT ![h].pc = "add", ![h].leaf = l, ![h].map = leafs]
             /\ object' = [object EXCEPT ![l] =
                  [key |-> LeafKey(h), by |-> c.name, ver |-> c.ver,
                   old |-> ~Signer(applied, c.name, c.ver), caUntil |-> c.until,
                   cn |-> CommonName(hs[h].sni),
                   until |-> IF c.until < day + LeafDays THEN c.until ELSE day + LeafDays,
                   stale |-> FALSE, count |-> 0, back |-> FALSE]]
  /\ UNCHANGED <<setup, confVars, leafs, task, kept, acmeVars, day, daily, stuck, warned,
                 bounds>>

\* ... and stores the copy
LeafAdd(h) ==
  /\ hs[h].pc = "add"
  /\ leafs' = [k \in DOMAIN hs[h].map \cup {LeafKey(h)} |->
                 IF k = LeafKey(h) THEN hs[h].leaf ELSE hs[h].map[k]]
  /\ hs' = [hs EXCEPT ![h].pc = "done", ![h].map = <<>>]
  /\ UNCHANGED <<setup, confVars, task, kept, acmeVars, day, daily, stuck, warned, bounds>>
  /\ Collect([l \in Leaf |-> IF l \in Range(hs[h].map) \ Range(leafs)
                             THEN [object[l] EXCEPT !.back = TRUE] ELSE object[l]])

\* the end of the handshake, at once: "done" is where the properties look at it
Done(h) ==
  /\ hs[h].pc = "done"
  /\ hs' = [hs EXCEPT ![h] = NoHandshake]
  /\ UNCHANGED <<setup, confVars, leafs, task, kept, acmeVars, day, daily, stuck, warned,
                 bounds>>
  /\ Collect(object)

-----------------------------------------------------------------------------
(* The background service: its tasks run one after the other.                *)

\* an entry of new_lets_encrypt_service
Item(n) == [name |-> n, names |-> conf[n].names, buffer |-> conf[n].buffer]
AcmeNames == {n \in DOMAIN conf : conf[n].acme /\ conf[n].names # <<>>}

\* SimpleServiceTask::start: every tick runs the tasks in their order; the first two
\* do something once a day, the renewals on other ticks too
Daily == task = "idle" /\ ~daily
Tick == task = "idle" /\ daily /\ AcmeNames # {}

\* MUTANT: a certificate is reported when it has ended
EndsAfter(c) == day > c.until
Ends(c) == day > c.until - (IF c.buffer = 0 THEN WarningDays ELSE c.buffer)

\* do_validity_check
ValidityCheck ==
  /\ Daily
  /\ task' = "sweep"
  /\ warned' = warned \cup {<<live[d].name, live[d].ver>> :
                              d \in {x \in DOMAIN live : Ends(live[x]) \/ day < live[x].from}}
  /\ UNCHANGED <<setup, confVars, leafs, object, hs, kept, acmeVars, day, daily, stuck,
                 bounds>>

\* MUTANT: a leaf is never marked as stale
SweptKeeps(o) == [o EXCEPT !.count = 0]
\* a leaf nobody has used since the last sweep is stale
Swept(o) == [o EXCEPT !.stale = (o.count = 0), !.count = 0]

\* do_self_signed_certificate_validity
SweepScan ==
  /\ task = "sweep"
  /\ task' = "store"
  /\ LET recent == {k \in DOMAIN leafs : object[leafs[k]].until >= day - ExpiryDays}
         used == {k \in recent : ~(object[leafs[k]].stale /\ object[leafs[k]].count = 0)}
     IN /\ kept' = [k \in used |-> leafs[k]]
        /\ object' = [l \in Leaf |-> IF \E k \in used : leafs[k] = l THEN Swept(object[l])
                                     ELSE object[l]]
  /\ UNCHANGED <<setup, confVars, leafs, hs, acmeVars, day, daily, stuck, warned, bounds>>

SweepStore ==
  /\ task = "store"
  /\ leafs' = kept
  /\ kept' = <<>>
  /\ task' = "renew"
  /\ daily' = TRUE
  /\ UNCHANGED <<setup, confVars, hs, acmeVars, day, stuck, warned, bounds>>
  /\ Collect(object)

-----------------------------------------------------------------------------
(* ACME.                                                                     *)

acmeSame == <<setup, leafs, object, hs, kept, day, daily, stuck, warned>>

Buffer(item) == IF item.buffer = 0 THEN RenewDays ELSE item.buffer

\* Certificate::valid and the comparison of the domains
ShouldRenew(item) ==
  \/ item.name \notin DOMAIN conf
  \/ LET c == conf[item.name]
     IN \/ ~c.has \/ ~c.ok
        \/ ~(c.until - day > Buffer(item))
        \/ Cardinality(Range(item.names)) # Len(item.names)
        \/ Range(item.names) # c.pem

\* new_lets_encrypt_service: what is to be looked at
RenewStart ==
  /\ task = "renew" \/ Tick
  /\ task' = IF AcmeNames = {} THEN "idle" ELSE "next"
  /\ \E order \in Bijection(1..Cardinality(AcmeNames), AcmeNames) :
       todo' = [i \in 1..Cardinality(AcmeNames) |-> Item(order[i])]
  /\ UNCHANGED <<confVars, tokens, challenge, tries, renewed, last, bounds, acmeSame>>

\* do_update_certificates
RenewNext ==
  /\ task = "next"
  /\ IF todo = <<>> THEN task' = "idle" /\ UNCHANGED todo
     ELSE IF ShouldRenew(todo[1]) THEN task' = "order" /\ UNCHANGED todo
     ELSE task' = "next" /\ todo' = Tail(todo)
  /\ UNCHANGED <<confVars, tokens, challenge, tries, renewed, last, bounds, acmeSame>>

\* the renewal fails, a later run tries again
Failed ==
  /\ task' = "next"
  /\ todo' = Tail(todo)
  /\ tokens' = {} /\ challenge' = <<>> /\ tries' = 0 /\ renewed' = <<>>
  /\ UNCHANGED <<confVars, last, acmeSame>>

\* a bound
Fail == bounds.failures > 0 /\ bounds' = [bounds EXCEPT !.failures = @ - 1]

\* External: Let's Encrypt, the network or the storage fails
AcmeFails ==
  /\ task \in {"order", "token", "ready", "poll", "finalize", "certificate", "save"}
  /\ Fail /\ Failed

Step(from, to) ==
  /\ task = from /\ task' = to
  /\ UNCHANGED <<confVars, todo, renewed, last, acmeSame>>

\* new_lets_encrypt: a new account and a new order, which is pending; an authorization that
\* is valid already is passed over
AcmeOrder ==
  /\ Step("order", "token")
  /\ \E valid \in SUBSET Range(todo[1].names) :
       /\ valid # Range(todo[1].names)
       /\ IF valid = {} THEN UNCHANGED bounds ELSE Fail
       /\ challenge' = [d \in Range(todo[1].names) |->
                          IF d \in valid THEN "valid" ELSE "pending"]
  /\ tokens' = {} /\ tries' = 1

\* todo!() for an authorization that is neither: the service ends
AcmePanics ==
  /\ Step("token", "dead")
  /\ Fail
  /\ UNCHANGED <<tokens, challenge, tries>>

\* the answer of every challenge is saved ...
Pending == {d \in DOMAIN challenge : challenge[d] = "pending"}
AcmeToken(d) ==
  /\ task = "token" /\ d \in Pending \ tokens
  /\ tokens' = tokens \cup {d}
  /\ Step("token", IF tokens' = Pending THEN "ready" ELSE "token")
  /\ UNCHANGED <<challenge, tries, bounds>>

\* ... before Let's Encrypt is told about the first
AcmeReady(d) ==
  /\ task = "ready" /\ challenge[d] = "pending"
  /\ challenge' = [challenge EXCEPT ![d] = "ready"]
  /\ Step("ready", IF \A x \in DOMAIN challenge : challenge'[x] # "pending" THEN "poll"
                   ELSE "ready")
  /\ UNCHANGED <<tokens, tries, bounds>>

\* MUTANT: the token is looked for elsewhere
HandleNothing(d) == FALSE
\* handle_lets_encrypt: the answer in the storage, or an error
HandleLetsEncrypt(d) == enabled /\ d \in tokens

\* External: Let's Encrypt asks for the answer of a challenge, or does not get through
Validate(d) ==
  /\ d \in DOMAIN challenge /\ challenge[d] = "ready"
  /\ \/ /\ challenge' = [challenge EXCEPT ![d] = IF HandleLetsEncrypt(d) THEN "valid"
                                                 ELSE "invalid"]
        /\ UNCHANGED bounds
     \/ challenge' = [challenge EXCEPT ![d] = "invalid"] /\ Fail
  /\ UNCHANGED <<confVars, task, todo, tokens, tries, renewed, last, acmeSame>>

OrderStatus ==
  IF \E d \in DOMAIN challenge : challenge[d] = "invalid" THEN "invalid"
  ELSE IF \A d \in DOMAIN challenge : challenge[d] = "valid" THEN "ready" ELSE "pending"

\* the order is ready, invalid, or looked at again; to be too slow for all the tries is
\* a failure of Let's Encrypt
AcmePoll ==
  /\ task = "poll"
  /\ \/ OrderStatus = "invalid" /\ Failed /\ UNCHANGED bounds
     \/ /\ OrderStatus = "ready"
        /\ Step("poll", "finalize") /\ UNCHANGED <<tokens, challenge, tries, bounds>>
     \/ /\ OrderStatus = "pending" /\ tries + 1 < Tries
        /\ tries' = tries + 1
        /\ Step("poll", "poll") /\ UNCHANGED <<tokens, challenge, bounds>>
     \/ /\ OrderStatus = "pending" /\ tries + 1 >= Tries
        /\ Fail /\ Failed

\* the request names the challenges only; External: one without all the domains is refused
AcmeFinalize ==
  /\ task = "finalize"
  /\ IF tokens = DOMAIN challenge
     THEN Step("finalize", "certificate") /\ UNCHANGED <<tokens, challenge, tries>>
     ELSE Failed
  /\ UNCHANGED bounds

\* External: the certificate is there.  update_certificate_lets_encrypt loads the stored
\* configuration ...
AcmeLoad ==
  /\ task = "certificate"
  /\ task' = "save"
  /\ renewed' = stored
  /\ UNCHANGED <<confVars, todo, tokens, challenge, tries, last, bounds, acmeSame>>

Renewal(cs, item) ==
  [n \in DOMAIN cs |->
     IF n # item.name THEN cs[n]
     ELSE [cs[n] EXCEPT !.has = TRUE, !.ok = TRUE, !.pem = Range(item.names),
                        !.ver = 1 - @, !.from = day, !.until = day + CertDays]]

\* save_config: the section, or the item of the certificate, which goes if there is none; a
\* single file is no place for the answers of challenges, no renewal gets here with it
SaveConfig(cs, n) ==
  IF setup.separate
  THEN [k \in (DOMAIN stored \ {n}) \cup ({n} \cap DOMAIN cs) |->
          IF k = n THEN cs[n] ELSE stored[k]]
  ELSE cs

\* ... puts the certificate in and saves it
AcmeSave ==
  /\ task = "save"
  /\ task' = "set"
  /\ LET item == todo[1]
         cs == Renewal(renewed, item)
     IN /\ renewed' = cs
        /\ stored' = SaveConfig(cs, item.name)
        /\ last' = [n \in DOMAIN last |->
                      IF n = item.name /\ n \in DOMAIN cs
                      THEN IF cs[n].acme
                           THEN [day |-> day, names |-> item.names, buffer |-> item.buffer,
                                 odd |-> IF last[n] = None THEN FALSE ELSE ~last[n].odd,
                                 undone |-> FALSE]
                           ELSE last[n]
                      ELSE last[n]]
  /\ UNCHANGED <<conf, live, applied, reload, enabled, crossed, todo, tokens, challenge, tries,
                 bounds, acmeSame>>

\* MUTANT: the new certificate is not part of the current configuration
SetNothing(cs) == conf' = conf
\* set_current_config
SetCurrentConfig(cs) == conf' = cs

\* renew_certificate: what was loaded becomes the current configuration ...
AcmeSetCurrent ==
  /\ task = "set"
  /\ task' = "apply"
  /\ SetCurrentConfig(renewed)
  /\ crossed' = (crossed \/ reload.pc # "idle")
  /\ last' = [n \in DOMAIN last |->
                IF last[n] = None THEN None ELSE [last[n] EXCEPT !.undone = FALSE]]
  /\ UNCHANGED <<stored, live, applied, reload, enabled, todo, tokens, challenge, tries,
                 renewed, bounds, acmeSame>>

\* ... and after a notification handle_successful_renewal makes the map of it
AcmeApply ==
  /\ task = "apply"
  /\ task' = "next"
  /\ TryUpdateCertificates(renewed)
  /\ object' = Aged(renewed)
  /\ crossed' = (crossed /\ (reload.pc # "idle" \/ applied' # conf))
  /\ todo' = Tail(todo)
  /\ tokens' = {} /\ challenge' = <<>> /\ tries' = 0 /\ renewed' = <<>>
  /\ UNCHANGED <<setup, stored, conf, reload, enabled, leafs, hs, kept, last, day, daily, stuck,
                 warned, bounds>>

-----------------------------------------------------------------------------
Connect(h) == LeafHit(h) \/ LeafMiss(h) \/ LeafCreate(h) \/ LeafAdd(h)
Reload == ReloadDiff \/ ReloadApply \/ ReloadCommit
Acme ==
  \/ RenewStart \/ RenewNext \/ AcmeOrder \/ AcmePoll \/ AcmeFinalize
  \/ AcmeLoad \/ AcmeSave \/ AcmeSetCurrent \/ AcmeApply
  \/ \E d \in DOMAIN challenge : AcmeToken(d) \/ AcmeReady(d)
Service == ValidityCheck \/ SweepScan \/ SweepStore \/ Acme
LetsEncrypt == \E d \in DOMAIN challenge : Validate(d)
NoneDone == \A h \in Handshake : hs[h].pc # "done"

Next ==
  \/ \E h \in Handshake : Done(h)
  \/ NoneDone /\ Edit
  \/ NoneDone /\ ReloadLoad
  \/ NoneDone /\ ReloadDiff
  \/ NoneDone /\ ReloadApply
  \/ NoneDone /\ ReloadCommit
  \/ NoneDone /\ Restart
  \/ NoneDone /\ Day
  \/ NoneDone /\ \E h \in Handshake : Select(h)
  \/ NoneDone /\ \E h \in Handshake : LeafHit(h)
  \/ NoneDone /\ \E h \in Handshake : LeafMiss(h)
  \/ NoneDone /\ \E h \in Handshake : LeafCreate(h)
  \/ NoneDone /\ \E h \in Handshake : LeafAdd(h)
  \/ NoneDone /\ ValidityCheck
  \/ NoneDone /\ SweepScan
  \/ NoneDone /\ SweepStore
  \/ NoneDone /\ RenewStart
  \/ NoneDone /\ RenewNext
  \/ NoneDone /\ AcmeFails
  \/ NoneDone /\ AcmeOrder
  \/ NoneDone /\ AcmePanics
  \/ NoneDone /\ \E d \in DOMAIN challenge : AcmeToken(d)
  \/ NoneDone /\ \E d \in DOMAIN challenge : AcmeReady(d)
  \/ NoneDone /\ LetsEncrypt
  \/ NoneDone /\ AcmePoll
  \/ NoneDone /\ AcmeFinalize
  \/ NoneDone /\ AcmeLoad
  \/ NoneDone /\ AcmeSave
  \/ NoneDone /\ AcmeSetCurrent
  \/ NoneDone /\ AcmeApply

Spec == Init /\ [][Next]_vars
\* handshakes, reloads and tasks that can go on do, time passes, and Let's Encrypt answers;
\* nobody has to connect, to edit, to begin a reload, to restart or to fail
FairSpec ==
  /\ Spec
  /\ \A h \in Handshake : WF_vars(Done(h)) /\ WF_vars(NoneDone /\ Connect(h))
  /\ WF_vars(NoneDone /\ Reload)
  /\ WF_vars(NoneDone /\ Service) /\ WF_vars(NoneDone /\ LetsEncrypt)
  /\ SF_vars(NoneDone /\ Day)

-----------------------------------------------------------------------------
\* The handshakes, the reload and the service are at one of their steps, the cache holds
\* leaves under the name of a CA and their own key, and what is to be renewed has domains.
TypeOK ==
  /\ setup \in Setup
  /\ day \in 1..setup.days /\ {daily, stuck, enabled, crossed} \subseteq BOOLEAN
  /\ reload.pc \in {"idle", "diff", "apply", "commit"}
  /\ \A h \in Handshake : hs[h].pc \in {"idle", "leaf", "create", "add", "done"}
  /\ task \in {"idle", "sweep", "store", "renew", "next", "order", "token", "ready",
               "poll", "finalize", "certificate", "save", "set", "apply", "dead"}
  /\ \A k \in DOMAIN leafs : object[leafs[k]] # None /\ object[leafs[k]].key = k
                             /\ k[1] = object[leafs[k]].by
  /\ tokens \subseteq DOMAIN challenge
  /\ tries \in 0..Tries
  /\ \A i \in DOMAIN todo : todo[i].names # <<>>

\* A handshake gets a certificate that fits its name best in the current configuration, as
\* it was when it began, and from a CA a leaf of the CA of this name for its server name,
\* whatever edits, reloads, renewals, sweeps and other handshakes do meanwhile; it gets none
\* only if nothing that parses fits, or the CA that fits cannot sign.  While a reload or the
\* end of a renewal is under way, and after the two have overlapped until one of them makes
\* the map again, it is the configuration the map was made of that counts.  A leaf is of
\* another version of the CA only if one of the two is not in the map any more: the leaf
\* was signed before the CA was replaced, for the cache knows a CA by its name, or the CA
\* was replaced since the handshake chose it.
HandshakeServed ==
  \A h \in Handshake :
    hs[h].pc = "done" =>
      LET x == hs[h]
      IN IF x.cert = None THEN \/ x.fit = {}
                               \/ \E f \in x.fit : f.unable
         ELSE /\ \E f \in x.fit : f.name = x.cert.name /\ f.ver = x.cert.ver
              /\ x.cert.ca =>
                   LET o == object[x.leaf]
                   IN /\ o.by = x.cert.name
                      /\ \/ o.ver = x.cert.ver \/ o.old
                         \/ ~Signer(applied, x.cert.name, x.cert.ver)
                      /\ o.cn \in {x.sni, Wildcard(x.sni)}

\* A handshake gets a certificate that has ended only if the validity checker has
\* reported it, or it was put there within the last day; and a leaf that ended more than
\* ExpiryDays and the day of a sweep ago only if the CA had ended too, or an addition has
\* undone a sweep.  Neither is promised once the service was held up for a day, or ended.
EndedNotUnnoticed ==
  \A h \in Handshake :
    hs[h].pc = "done" /\ hs[h].cert # None /\ ~stuck =>
      LET x == hs[h]
      IN IF x.cert.ca
         THEN LET o == object[x.leaf]
              IN x.at <= o.until + ExpiryDays + 1 \/ o.caUntil < x.at \/ o.back
         ELSE x.cert.until < x.at /\ x.cert.since < x.at - 1 =>
                <<x.cert.name, x.cert.ver>> \in warned

\* When the service has a certificate to renew, the servers of this process answer the
\* challenges of Let's Encrypt: whether they do is decided at the start, and no reload or
\* renewal brings the first certificate of ACME into a process that does not.
ChallengesAnswered == AcmeNames # {} => enabled

\* When the handshakes end, the cache of leaves becomes empty, whatever sweeps and
\* additions have overwritten of each other; not after a panic has ended the service.
LeafsCollected == <>[](leafs = <<>> \/ task = "dead")

\* a renewal of a certificate that was renewed before
Again(n) ==
  IF last[n] # None /\ last'[n] # None THEN last'[n].odd # last[n].odd ELSE FALSE
\* do_update_certificates: other domains, or the life is over but for the buffer; a list
\* that has a domain twice is renewed every time, it is never that of the certificate
HasReason(n) ==
  \/ last'[n].names # last[n].names
  \/ Cardinality(Range(last'[n].names)) # Len(last'[n].names)
  \/ day - last[n].day >= CertDays - Buffer(last'[n])

\* A certificate that stays in the storage is renewed again only when its life is over but
\* for the buffer, or for other domains: no failure, edit, restart or new run of the task
\* makes it ask Let's Encrypt again for what it has, and no reload does that does not
\* overlap the end of a renewal.  One that does may put the certificate before it back into
\* the current configuration (auto_restart.rs reads it, awaits, and writes it), and then
\* the next run orders again.
RenewalsApart == [][\A n \in DOMAIN last : Again(n) => HasReason(n) \/ last[n].undone]_vars

\* Once Let's Encrypt and the storage no longer fail, the service comes back again and again
\* to where every certificate of ACME in the current configuration is valid for its
\* domains, whatever failed, was edited, reloaded, restarted or ended before; not after a
\* panic has ended it.
Renewed == []<>(task = "dead" \/ \A n \in AcmeNames : ~ShouldRenew(Item(n)))
=============================================================================
