---------------------------- MODULE PluginChain ----------------------------
(***************************************************************************)
(* The plugins of a location at work on concurrent requests: the loops of  *)
(* src/src/proxy/server.rs over location.plugins in each step, the cache   *)
(* lookup and the upstream between them, time, and the reload of PLUGINS   *)
(* (src/src/plugin/mod.rs) while requests are in flight.                   *)
(***************************************************************************)
EXTENDS AuthPlugins, TrafficPlugins

CONSTANT MaxGen   \* bound: plugin objects of one name

\* the numbers of a configuration
Numbers(c) ==
  IF c = NoConf THEN TRUE
  ELSE /\ c.category = "limit" => c.max \in Nat
       /\ c.category = "mock" => c.status \in Nat
       /\ c.category = "admin" => c.failLimit \in Nat \ {0} /\ c.failTtl \in Nat

\* the names of admin plugins
Admins(s) ==
  {n \in DOMAIN s.start : \E t \in s.tables \cup {s.start} :
                             IF t[n] = NoConf THEN FALSE ELSE t[n].category = "admin"}

ASSUME ChainAssumption ==
  /\ IsFiniteSet(Req) /\ MaxGen \in Nat \ {0} /\ TableSize \in Nat \ {0}
  /\ \A s \in Setup :
       /\ s.chain \in Seq(DOMAIN s.start) /\ s.seconds \in Nat \ {0}
       /\ \A h \in s.inputs : DOMAIN h = HeadFields
       /\ \A t \in s.tables \cup {s.start} :
            DOMAIN t = DOMAIN s.start /\ \A n \in DOMAIN t : Numbers(t[n])
       \* logins is the table of one admin plugin
       /\ \A m, n \in Admins(s) : m = n

Names == DOMAIN plugins

\* PluginFactory::create: the constructor of the category
Valid(c) ==
  CASE c.category = "basic_auth"          -> BasicAuthValid(c)
    [] c.category = "key_auth"            -> KeyAuthValid(c)
    [] c.category = "jwt"                 -> JwtAuthValid(c)
    [] c.category = "combined_auth"       -> CombinedAuthValid(c)
    [] c.category = "csrf"                -> CsrfValid(c)
    [] c.category = "ip_restriction"      -> IpRestrictionValid(c)
    [] c.category = "ua_restriction"      -> UaRestrictionValid(c)
    [] c.category = "referer_restriction" -> RefererRestrictionValid(c)
    [] c.category = "redirect"            -> RedirectValid(c)
    [] c.category = "ping"                -> PingValid(c)
    [] c.category = "mock"                -> MockValid(c)
    [] c.category = "stats"               -> StatsValid(c)
    [] c.category = "admin"               -> AdminServeValid(c)
    [] c.category = "directory"           -> DirectoryValid(c)
    [] c.category = "request_id"          -> RequestIdValid(c)
    [] c.category = "cors"                -> CorsValid(c)
    [] c.category = "compression"         -> CompressionValid(c)
    [] c.category = "accept_encoding"     -> AcceptEncodingValid(c)
    [] c.category = "limit"               -> LimitValid(c)
    [] c.category = "cache"               -> CacheValid(c)
    [] c.category = "image_optim"         -> ImageOptimValid(c)
    [] c.category = "response_headers"    -> ResponseHeadersValid(c)
    [] c.category = "sub_filter"          -> SubFilterValid(c)
    [] OTHER                              -> FALSE

\* the steps in which a handler looks at the request; Plugin's own handlers
\* return (false, None)
HandlerSteps(category) ==
  CASE category \in {"compression", "accept_encoding"} -> {"early_request"}
    [] category \in {"limit", "request_id", "directory", "stats"} -> RequestStep
    [] category \in {"jwt", "cors"} -> {"request", "response"}
    [] category = "image_optim" -> {"request", "upstream_response"}
    [] category \in {"response_headers", "sub_filter"} -> {"response"}
    [] OTHER -> {"request"}

-----------------------------------------------------------------------------
(* Startup and reload.                                                       *)

Loaded(c) == IF c = NoConf THEN FALSE ELSE Valid(c)

Init ==
  /\ setup \in Setup
  /\ plugins = [n \in DOMAIN setup.start |->
                  IF Loaded(setup.start[n]) THEN [conf |-> setup.start[n], gen |-> 1]
                                            ELSE [conf |-> NoConf, gen |-> 0]]
  /\ gens = [n \in DOMAIN plugins |-> plugins[n].gen]
  /\ clock = 1
  /\ pc = [r \in Req |-> "idle"]
  /\ at = [r \in Req |-> 1]
  /\ head = [r \in Req |-> None]
  /\ asked = [r \in Req |-> None]
  /\ ctx = [r \in Req |-> NewCtx]
  /\ resp = [r \in Req |-> NoResp]
  /\ sent = [r \in Req |-> 0]
  /\ inflight = <<>> /\ rate = <<>> /\ store = <<>> /\ logins = <<>>
  /\ seen = [r \in Req |-> None]
  /\ issued = {} /\ fails = {} /\ odd = {}
  /\ touched = [r \in Req |-> {}]

\* try_init_plugins: what has the same hash stays the same object, the rest is
\* built anew, and a configuration its constructor refuses is left out
TryInitPlugins(t) ==
  LET changed == {n \in Names : plugins[n].conf # t[n]}
      fresh == {n \in changed : Loaded(t[n])}
      admin == {n \in changed : plugins[n].conf # NoConf
                                /\ plugins[n].conf.category = "admin"}
  IN /\ \E n \in changed : n \in fresh \/ plugins[n].conf # NoConf
     /\ \A n \in fresh : gens[n] < MaxGen                        \* bound
     /\ gens' = [n \in Names |-> IF n \in fresh THEN gens[n] + 1 ELSE gens[n]]
     /\ plugins' = [n \in Names |->
                      IF n \in fresh THEN [conf |-> t[n], gen |-> gens[n] + 1]
                      ELSE IF n \in changed THEN [conf |-> NoConf, gen |-> 0]
                      ELSE plugins[n]]
     /\ touched' = [r \in Req |-> IF InFlight(r) THEN touched[r] \cup changed
                                                 ELSE touched[r]]
     /\ logins' = IF admin # {} THEN <<>> ELSE logins
     /\ odd' = IF admin = {} THEN odd
               ELSE odd \cup {<<"login", ip>> : ip \in DOMAIN logins \cup LoggingIn(Req)}
     /\ UNCHANGED <<setup, clock, pc, at, head, asked, ctx, resp, sent, inflight, rate,
                    store, seen, issued, fails>>

\* a second passes; External: Rate starts a new window
Tick ==
  /\ clock < setup.seconds                                     \* bound
  /\ clock' = clock + 1
  /\ rate' = [o \in DOMAIN rate |-> [cur |-> 0, prev |-> rate[o].cur]]
  /\ UNCHANGED <<setup, plugins, gens, pc, at, head, asked, ctx, resp, sent, inflight,
                 store, logins, seen, issued, fails, touched, odd>>

-----------------------------------------------------------------------------
(* A request through the filters of the server.                              *)

Goto(r, p) ==
  /\ pc' = [pc EXCEPT ![r] = p]
  /\ at' = [at EXCEPT ![r] = 1]

\* a client may return a token it was given
Carry(h, token) ==
  IF h.token = "" THEN h
  ELSE [h EXCEPT !.headers = Put(@, h.token, token),
                 !.cookies = [i \in DOMAIN @ |->
                                IF @[i].name = h.token THEN [@[i] EXCEPT !.value = token]
                                ELSE @[i]]]

\* requests are numbered in the order they arrive
Arrive(r) ==
  /\ pc[r] = "idle"
  /\ r = 1 + Cardinality({s \in Req : pc[s] # "idle"})
  /\ r <= setup.requests                                         \* bound
  /\ Cardinality({s \in Req : InFlight(s)}) < setup.together     \* bound
  /\ \E h \in setup.inputs, token \in issued \cup {Signed("token", clock, "forged")} :
       LET sentHead == Carry(h, token)
       IN /\ head' = [head EXCEPT ![r] = sentHead]
          /\ asked' = [asked EXCEPT ![r] = [head |-> sentHead, at |-> clock]]
  /\ touched' = [touched EXCEPT ![r] = {n \in Names : plugins[n].conf = NoConf}]
  /\ Goto(r, "early_request")
  /\ UNCHANGED <<setup, plugins, gens, clock, ctx, resp, sent, shared, seen, fails, odd>>

\* get_plugin finds nothing, or a plugin without a handler for this step
Skip(r) ==
  /\ pc[r] \in PluginStep
  /\ ~head[r].upgrade
  /\ at[r] <= Len(Chain)
  /\ IF Plugin(r) = NoConf THEN TRUE ELSE pc[r] \notin HandlerSteps(Plugin(r).category)
  /\ at' = [at EXCEPT ![r] = @ + 1]
  /\ UNCHANGED <<setup, plugins, gens, clock, pc, head, asked, ctx, resp, sent, shared,
                 seen, fails, touched, odd>>

\* the loop is over, or never began for an upgrade request
StepEnd(r) ==
  /\ pc[r] \in PluginStep
  /\ head[r].upgrade \/ at[r] > Len(Chain)
  /\ Goto(r, CASE pc[r] = "early_request" -> "request"
               [] pc[r] = "request" -> IF ctx[r].caching THEN "lookup" ELSE "proxy_upstream"
               [] pc[r] = "proxy_upstream" -> "upstream"
               [] pc[r] = "upstream_response" -> "store"
               [] pc[r] = "response" -> "body")
  /\ UNCHANGED <<setup, plugins, gens, clock, head, asked, ctx, resp, sent, shared, seen,
                 fails, touched, odd>>

\* cache_key_callback and the lookup: a hit goes to response_filter
Lookup(r) ==
  /\ pc[r] = "lookup"
  /\ LET key == CacheKey(ctx[r], head[r].method, head[r])
     IN IF key \in DOMAIN store
        THEN /\ resp' = [resp EXCEPT ![r] = store[key]]
             /\ ctx' = [ctx EXCEPT ![r].hit = TRUE]
             /\ Goto(r, "response")
        ELSE Goto(r, "proxy_upstream") /\ UNCHANGED <<resp, ctx>>
  /\ UNCHANGED <<setup, plugins, gens, clock, head, asked, sent, shared, seen, fails,
                 touched, odd>>

\* External: the upstream answers, with a body that depends on the headers it
\* varies by
VaryOf(h) ==
  [i \in DOMAIN setup.upstream.vary |-> GetHeader(h, setup.upstream.vary[i]).text]
UpstreamResponse(h) ==
  [status |-> 200,
   headers |-> [n \in {"content-length", "content-type"} |->
                  IF n = "content-type" THEN <<setup.upstream.format>> ELSE <<"n">>],
   body |-> [NoBody EXCEPT !.format = setup.upstream.format, !.vary = VaryOf(h)]]

Upstream(r) ==
  /\ pc[r] = "upstream"
  /\ resp' = [resp EXCEPT ![r] = UpstreamResponse(head[r])]
  /\ Goto(r, "upstream_response")
  /\ UNCHANGED <<setup, plugins, gens, clock, head, asked, ctx, sent, shared, seen,
                 fails, touched, odd>>

UpstreamFail(r) == pc[r] = "upstream" /\ Fail(r, 502)

\* upstream_response_body_filter, response_cache_filter and the miss handler
Store(r) ==
  /\ pc[r] = "store"
  /\ LET p == IF ctx[r].upstreamBody = "" THEN resp[r]
              ELSE [resp[r] EXCEPT !.body.format = ctx[r].upstreamBody]
     IN /\ resp' = [resp EXCEPT ![r] = p]
        /\ store' = IF ctx[r].caching /\ setup.upstream.cacheable
                    THEN Put(store, CacheKey(ctx[r], head[r].method, head[r]), p)
                    ELSE store
  /\ Goto(r, "response")
  /\ UNCHANGED <<setup, plugins, gens, clock, head, asked, ctx, sent, inflight, rate,
                 logins, seen, issued, fails, touched, odd>>

\* response_body_filter: the one modifier of the Ctx, then the response is sent
Body(r) ==
  /\ pc[r] = "body"
  /\ LET m == ctx[r].body
     IN /\ resp' = [resp EXCEPT ![r].body.signed = m.by = "jwt",
                                ![r].body.replaced = m.by = "sub_filter"]
        /\ issued' = IF m.by = "jwt"
                     THEN issued \cup {Signed("jwt", clock + setup.upstream.exp, m.key)}
                     ELSE issued
  /\ sent' = [sent EXCEPT ![r] = @ + 1]
  /\ Goto(r, "logging")
  /\ UNCHANGED <<setup, plugins, gens, clock, head, asked, ctx, inflight, rate, store,
                 logins, seen, fails, touched, odd>>

\* MUTANT: the guard is kept
LoggingKeepsGuard(r) == inflight
\* the Ctx is dropped with its Guard
DropGuard(r) == Release(inflight, ctx[r].guard)

Logging(r) ==
  /\ pc[r] = "logging"
  /\ inflight' = DropGuard(r)
  /\ pc' = [pc EXCEPT ![r] = "done"]
  /\ at' = [at EXCEPT ![r] = 1]
  /\ head' = [head EXCEPT ![r] = None]
  /\ asked' = [asked EXCEPT ![r] = None]
  /\ ctx' = [ctx EXCEPT ![r] = NewCtx]
  /\ resp' = [resp EXCEPT ![r] = NoResp]
  /\ seen' = [seen EXCEPT ![r] = None]
  /\ touched' = [touched EXCEPT ![r] = {}]
  /\ UNCHANGED <<setup, plugins, gens, clock, sent, rate, store, logins, issued, fails,
                 odd>>

-----------------------------------------------------------------------------
Guard(r) ==
  \/ BasicAuth(r) \/ KeyAuth(r) \/ JwtAuth(r) \/ CombinedAuth(r)
  \/ CsrfToken(r) \/ Csrf(r)
  \/ IpRestriction(r) \/ UaRestriction(r) \/ RefererRestriction(r)
Traffic(r) ==
  \/ Redirect(r) \/ Ping(r) \/ Mock(r) \/ Stats(r) \/ Directory(r)
  \/ AdminValidate(r) \/ AdminReset(r) \/ AdminLogin(r) \/ AdminInc(r)
  \/ RequestId(r) \/ Cors(r) \/ Compression(r) \/ AcceptEncoding(r) \/ Limit(r)
  \/ CachePurge(r) \/ CacheEnable(r) \/ ImageOptim(r)
Response(r) ==
  \/ JwtAuthResponse(r) \/ CorsResponse(r) \/ ImageOptimResponse(r)
  \/ ResponseHeaders(r) \/ SubFilter(r)
Server(r) ==
  \/ Skip(r) \/ StepEnd(r) \/ Lookup(r) \/ Upstream(r) \/ UpstreamFail(r)
  \/ Store(r) \/ Body(r) \/ Logging(r)

Serve(r) == Guard(r) \/ Traffic(r) \/ Response(r) \/ Server(r)
Reload == \E t \in setup.tables : TryInitPlugins(t)
Next == (\E r \in Req : Arrive(r) \/ Serve(r)) \/ Tick \/ Reload

Spec == Init /\ [][Next]_vars
FairSpec == Spec /\ \A r \in Req : WF_vars(Serve(r))

-----------------------------------------------------------------------------
Handled == PluginStep \cup {"lookup", "upstream", "store", "body", "logging",
                            "reset", "login", "failed"}

\* Every request is at a step of the server with the header its client sent, a
\* plugin object has the generation its name was given last, and the counters of
\* the limiters count the Guards there are.
TypeOK ==
  /\ setup \in Setup
  /\ \A n \in Names : plugins[n].gen \in {0, gens[n]} /\ gens[n] <= MaxGen
  /\ clock \in 1..setup.seconds
  /\ pc \in [Req -> Handled \cup {"idle", "done"}]
  /\ \A r \in Req : at[r] \in 1..(Len(Chain) + 1) /\ sent[r] \in Nat
  /\ \A r \in Req : IF InFlight(r) THEN DOMAIN head[r] = HeadFields ELSE head[r] = None
  /\ \A o \in DOMAIN inflight : inflight[o] = Cardinality({r \in Req : ctx[r].guard = o})

-----------------------------------------------------------------------------
(* The gate: what the guards of a location let pass.                         *)

\* what each guard stands for, by the header the client sent: h is let pass at
\* time t (tokens are those that were handed out)
Fresh(token, key, ttl, t) ==
  token \in issued /\ token.mac = key /\ (ttl = 0 \/ t - token.at <= ttl)

Permits(c, h, t) ==
  CASE c.category = "basic_auth" -> GetHeader(h, "authorization").text \in c.authorizations
    [] c.category = "key_auth" ->
         \E v \in {GetQuery(h, c.query), GetHeader(h, c.header)} : v.text \in c.keys
    [] c.category = "jwt" ->
         \/ h.path = c.authPath
         \/ \E v \in {GetHeader(h, c.header), GetQuery(h, c.query), GetCookie(h, c.cookie)} :
              v \in issued /\ v.mac = c.secret /\ v.at >= t
    [] c.category = "combined_auth" ->
         \E app \in DOMAIN c.auths :
           /\ GetQuery(h, "app_id").text = app
           /\ \/ c.auths[app].secret = "*"
              \/ /\ c.auths[app].ips = {} \/ GetClientIp(h) \in c.auths[app].ips
                 /\ \E s \in (t - c.auths[app].deviation)..(t + c.auths[app].deviation) :
                      GetQuery(h, "digest") = Signed("digest", s, c.auths[app].secret)
    [] c.category = "csrf" ->
         \/ h.method \in {"GET", "HEAD", "OPTIONS"}
         \/ \E i \in DOMAIN h.cookies :
              /\ h.cookies[i] = [name |-> c.name, value |-> GetHeader(h, c.name)]
              /\ Fresh(h.cookies[i].value, c.key, c.ttl, t)
    [] c.category = "ip_restriction" -> (GetClientIp(h) \in c.list) = (c.type # "deny")
    [] c.category = "ua_restriction" ->
         (GetHeader(h, "user-agent").text \in c.list) = (c.type # "deny")
    [] c.category = "referer_restriction" ->
         (/\ "referer" \in DOMAIN h.headers
          /\ GetHeader(h, "referer").text \in c.list \cup UNION c.suffixes)
           = (c.type # "deny")
    [] c.category = "redirect" -> h.tls = c.httpToHttps
    [] OTHER -> TRUE

\* a guard that was in place all along lets the request pass at some moment of it;
\* upgrade requests meet no plugin at all
Allowed ==
  {r \in Req : IF ~InFlight(r) THEN FALSE ELSE
     \/ asked[r].head.upgrade
     \/ \A n \in Elements(Chain) \ touched[r] :
          \E t \in asked[r].at..clock : Permits(plugins[n].conf, asked[r].head, t)}

\* a mock plugin with a status that is not sent
Silent ==
  {r \in Req : \E n \in Elements(Chain) :
     plugins[n].conf # NoConf /\ plugins[n].conf.category = "mock"
     /\ plugins[n].conf.status >= 900}

Forwarded(r) ==
  pc[r] \in {"upstream", "upstream_response", "store"}
  \/ (pc[r] \in {"response", "body"} /\ ~ctx[r].hit)
Outcome ==
  [r \in Req |->
     IF sent[r] > 1 THEN "answered twice"
     ELSE IF sent[r] = 1 /\ Forwarded(r) THEN "answered and forwarded"
     ELSE IF sent[r] = 1 THEN "answered"
     ELSE CASE Forwarded(r) -> "forwarded"
            [] pc[r] = "idle" -> "none"
            [] pc[r] \in {"logging", "done"} -> "ignored"
            [] OTHER -> "waiting"]

Gate == INSTANCE RequestGate WITH outcome <- Outcome, allowed <- Allowed, silent <- Silent

\* The chain implements the gate: a request is answered exactly once, whichever of
\* the plugins, the cache, the upstream or an error ends it, and in the end it is;
\* the upstream sees it only if every guard of the location that is loaded while it
\* runs lets it pass, whatever the other plugins remove from it, whatever time it
\* takes and whatever reloads happen.
GateImplemented == Gate!FairSpec

-----------------------------------------------------------------------------
\* The requests in flight that an inflight limiter has let pass are never more than
\* its max, over every answer, error and reload, unless a second inflight limiter
\* of the chain has taken the place of its Guard in the Ctx.
InflightBound ==
  \A n \in Names, o \in DOMAIN inflight \ odd :
    o[1] = n /\ o[2] = plugins[n].gen =>
      Cardinality({r \in Req : o \in ctx[r].admitted}) <= plugins[n].conf.max

\* The admin plugin answers at most 2 * ip_fail_limit - 1 wrong logins of an address
\* within the time of TtlLruLimit, whatever other addresses do, unless two requests
\* of the address were between validate and inc together, the table was full and has
\* lost the entry of the address, or the plugin was reloaded.  (conf/plugins.toml promises
\* the limit itself and five minutes without another attempt; but the time of an entry
\* begins with its first failure, and the failures of two entries fall into one span.)
LoginBound ==
  \A n \in Names :
    plugins[n].conf # NoConf /\ plugins[n].conf.category = "admin" =>
      \A ip \in {f[2] : f \in fails} :
        <<"login", ip>> \notin odd =>
          Cardinality({f \in fails : f[2] = ip
                                     /\ clock - f[3] <= plugins[n].conf.failTtl})
            <= 2 * plugins[n].conf.failLimit - 1

\* the configurations for which two different requests get the same key: several
\* headers (one that is missing is left out of the key), or headers that replace
\* the formats image_optim has put there before
Ambiguous ==
  \E i \in DOMAIN Chain :
    LET c == plugins[Chain[i]].conf
    IN /\ c # NoConf
       /\ c.category = "cache" /\ c.headers # <<>>
       /\ \/ Len(c.headers) > 1
          \/ \E j \in 1..(i - 1) : LET d == plugins[Chain[j]].conf
                                   IN d # NoConf /\ d.category = "image_optim"

\* A hit is the response the upstream and image_optim would have made for this
\* client: the same values of the headers the key is made of, and a format it
\* accepts or the original one (unless the configuration is ambiguous).
VariantServed ==
  ~Ambiguous =>
    \A r \in Req : pc[r] = "response" /\ ctx[r].hit =>
      /\ resp[r].body.vary = VaryOf(asked[r].head)
      /\ resp[r].body.format \in asked[r].head.accept \cup {setup.upstream.format}

\* the plugins that replace the body of this response
Claims(r) ==
  {i \in DOMAIN Chain :
     LET c == plugins[Chain[i]].conf
     IN /\ c # NoConf
        /\ \/ c.category = "jwt" /\ head[r].path = c.authPath
           \/ c.category = "sub_filter" /\ head[r].path \in c.paths}

\* A response of the upstream or of the cache leaves with the body its last body
\* plugin makes, whatever the others do (the Ctx has room for one), and a body that
\* was replaced never leaves with the length of the one it replaced.
BodyAsPromised ==
  \A r \in Req :
    pc[r] = "logging" /\ resp[r].body # NoBody /\ ~head[r].upgrade /\ touched[r] = {} =>
      /\ \A i \in Claims(r) : (\A j \in Claims(r) : j <= i) =>
           IF plugins[Chain[i]].conf.category = "jwt"
           THEN resp[r].body.signed ELSE resp[r].body.replaced
      /\ Claims(r) # {} \/ resp[r].body.format # setup.upstream.format =>
           "content-length" \notin DOMAIN resp[r].headers

-----------------------------------------------------------------------------
(* What is asked of the configurations of a location for all of this to hold: *)
(* no plugin takes away or makes up what a later one judges by.              *)

\* the configurations the plugin at place i may have
Confs(s, i) == {t[s.chain[i]] : t \in s.tables \cup {s.start}} \ {NoConf}

\* the headers, and the queries, that a plugin makes up, hides, or judges by in a
\* way that a client without them may pass
MakesUp(c) == IF c.category = "request_id" THEN {c.header} ELSE {}
HidesHeader(c) ==
  CASE c.category = "basic_auth" -> IF c.hide THEN {"authorization"} ELSE {}
    [] c.category = "key_auth" -> IF c.hide /\ c.query = "" THEN {c.header} ELSE {}
    [] OTHER -> {}
HidesQuery(c) ==
  IF c.category # "key_auth" THEN {} ELSE IF c.hide THEN {c.query} ELSE {}
ClientIpHeaders == {"x-forwarded-for", "x-real-ip"}
JudgesBy(c) ==
  CASE c.category \in {"ip_restriction", "combined_auth"} -> ClientIpHeaders
    [] c.category = "limit" -> IF c.tag = "ip" THEN ClientIpHeaders ELSE {}
    [] c.category = "ua_restriction" -> {"user-agent"}
    [] c.category = "referer_restriction" -> {"referer"}
    [] OTHER -> {}
Credential(c) ==
  CASE c.category = "basic_auth" -> {"authorization"}
    [] c.category = "key_auth" -> {c.header}
    [] OTHER -> {}

\* request_id makes up no header that a later guard reads, and credentials that are
\* hidden are none a later restriction judges by
GuardsApart(s) ==
  \A j \in DOMAIN s.chain : \A i \in 1..(j - 1) : \A c \in Confs(s, i), d \in Confs(s, j) :
    /\ MakesUp(c) \cap (JudgesBy(d) \cup Credential(d)) = {}
    /\ HidesHeader(c) \cap JudgesBy(d) = {}
    /\ d.category = "combined_auth" => "app_id" \notin HidesQuery(c)

\* the values of a request header
ValuesOf(h) ==
  {h.headers[n] : n \in DOMAIN h.headers} \cup {h.query[n] : n \in DOMAIN h.query}
    \cup {h.cookies[i].value : i \in DOMAIN h.cookies}

\* signatures are not forged: clients have the tokens they were given
TokensIssued(s) ==
  /\ s.upstream.exp \in Nat
  /\ \A h \in s.inputs :
       /\ \A v \in ValuesOf(h) : v.text \notin {"jwt", "token"} /\ v.at \in Int
       /\ h.cookies \in Seq(Elements(h.cookies))
       /\ \A i \in DOMAIN h.cookies :
            h.cookies[i] = [name |-> h.cookies[i].name, value |-> h.cookies[i].value]
  /\ \A i \in DOMAIN s.chain : \A c \in Confs(s, i) :
       /\ c.category = "csrf" => c.ttl \in Nat /\ c.key # "forged"
       /\ c.category = "combined_auth" => \A app \in DOMAIN c.auths : c.auths[app].deviation \in Nat

\* response_headers leaves the length of a body to those who make it
LengthsKept(s) ==
  \A i \in DOMAIN s.chain : \A c \in Confs(s, i) : c.category = "response_headers" =>
    /\ \A l \in {c.add, c.remove, c.set, c.setMissing, c.rename} : l \in Seq(Elements(l))
    /\ \A l \in {c.add, c.set, c.setMissing} : \A x \in Elements(l) : x.name # "content-length"
    /\ \A x \in Elements(c.rename) : x.to # "content-length"

\* the key of the cache tells variants apart: it has the one header the upstream varies
\* by, which nobody changes and whose values are no formats, formats are put there after
\* it, and image_optim is not reloaded
Formats(s) ==
  UNION {Elements(c.outputs) : c \in {d \in UNION {Confs(s, i) : i \in DOMAIN s.chain} :
                                        d.category = "image_optim"}}
VariantsTold(s) ==
  /\ Formats(s) \cap {"jwt", "token", "generated"} = {}
  /\ \A h \in s.inputs : \A v \in ValuesOf(h) : v.text \notin Formats(s)
  /\ \A i \in DOMAIN s.chain : \A c \in Confs(s, i) :
       /\ Elements(s.upstream.vary) \cap (MakesUp(c) \cup HidesHeader(c)) = {}
       /\ c.category = "image_optim" =>
            /\ c.outputs \in Seq(Elements(c.outputs))
            /\ \A t \in s.tables \cup {s.start} : t[s.chain[i]] = c
       /\ c.category = "cache" =>
            /\ c.headers \in Seq(Elements(c.headers))
            /\ \A n \in Elements(s.upstream.vary) : c.headers = <<n>>
            /\ c.headers # <<>> => \A j \in 1..(i - 1) : \A d \in Confs(s, j) :
                                     d.category # "image_optim"
=============================================================================
