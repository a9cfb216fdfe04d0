---------------------------- MODULE ProxyServer ----------------------------
(***************************************************************************)
(* The life of HTTP requests in one pingap server (src/src/proxy/server.rs *)
(* as a pingora ProxyHttp implementation) together with the state those    *)
(* requests share: the request counter of the server, and the location and *)
(* upstream objects that requests look up by name in two global maps.  The *)
(* maps are replaced by hot reloads while requests are in flight.          *)
(*                                                                         *)
(* A location object is <<name, generation>>: a reload that finds the hash *)
(* key of a name unchanged keeps the object, otherwise it allocates the    *)
(* next generation with fresh counters.  Upstream objects likewise.        *)
(***************************************************************************)
EXTENDS Integers, Sequences, FiniteSets

CONSTANTS
  Req,          \* requests; each runs once
  LocName,      \* names of locations
  UpName,       \* names of upstreams
  LocConf,      \* location configurations; path is a selector, hosts a set of selectors
  UpConf,       \* upstream configurations (only equality of keys matters)
  Input,        \* what a client may send: [host, path, length, body]
  LocTable,     \* contents the location section of the config may have
  UpTable,      \* contents the upstream section of the config may have
  ServerList,   \* values of SERVER_LOCATIONS_MAP[self.name] (NoList: no entry)
  MaxGen,       \* bound: generations of one name
  MaxAttempts,  \* pingora's max_retries
  NoConf, NoList, None

ASSUME ConstAssumption ==
  /\ IsFiniteSet(Req)
  /\ MaxGen \in Nat \ {0} /\ MaxAttempts \in Nat
  /\ LocConf # {} /\ UpConf # {}
  /\ \A c \in LocConf : /\ c.upstreams \subseteq UpName
                        /\ c.max \in Nat
                        /\ c.limit \in Nat
                        /\ c.grpcUnavailable \in BOOLEAN
  /\ \A i \in Input : i.length \in Nat /\ i.body \in Nat
  /\ NoConf \notin LocConf /\ NoConf \notin UpConf
  /\ LocTable \subseteq [LocName -> LocConf \cup {NoConf}]
  /\ UpTable \subseteq [UpName -> UpConf \cup {NoConf}]
  /\ NoList \notin Seq(LocName)
  /\ ServerList \subseteq Seq(LocName) \cup {NoList}
  /\ None \notin LocName /\ None \notin UpName /\ None \notin LocName \X Nat /\ None \notin Input

Loc == LocName \X (1..MaxGen)     \* Arc<Location> objects
Up  == UpName \X (1..MaxGen)      \* Arc<Upstream> objects

VARIABLES
  serverList,   \* SERVER_LOCATIONS_MAP entry of this server
  locMap,       \* LOCATION_MAP: current generation of a name, 0 when absent
  locLast,      \* last generation allocated
  locConf,      \* configuration an object was built from
  processing,   \* Location.processing of every object
  upMap, upLast, upConf,
  upProcessing, \* Upstream.processing of every object
  serverProcessing, \* Server.processing
  pc,           \* where a request is
  input,        \* what its client sent
  names,        \* location names early_request_filter has still to try
  current,      \* current_location of early_request_filter (an object)
  location,     \* ctx.location
  upstream,     \* ctx.upstream
  status,       \* status the request is answered with, 0 when undecided
  attempts,     \* retries pingora has made
  drifted,      \* history: names whose counter met one of the events below
  upDrifted     \* history: the same for upstreams

locVars == <<locMap, locLast, locConf>>
upVars  == <<upMap, upLast, upConf>>
mapVars == <<serverList, locVars, upVars>>
counters == <<processing, upProcessing, serverProcessing>>
history == <<drifted, upDrifted>>
ctxVars == <<input, names, current, location, upstream, attempts>>
vars == <<serverList, locMap, locLast, locConf, processing, upMap, upLast,
          upConf, upProcessing, serverProcessing, pc, input, names, current,
          location, upstream, status, attempts, drifted, upDrifted>>

Phase == {"idle", "scan", "charge", "request", "peer", "proxying", "fail",
          "logging", "done"}
InFlight(r) == pc[r] \notin {"idle", "done"}
\* add_processing has run for the request's location and sub_processing has not
AfterCharge == {"request", "peer", "proxying", "fail", "logging"}

\* get_location and get_upstream find an object; LocOf and UpOf are that object
HasLocation(n) == n # None /\ locMap[n] # 0
HasUpstream(u) == u # None /\ upMap[u] # 0
LocOf(n) == <<n, locMap[n]>>
UpOf(u)  == <<u, upMap[u]>>

Goto(r, p) == pc' = [pc EXCEPT ![r] = p]
Status(r, code) == status' = [status EXCEPT ![r] = code]

\* the request moves on and touches nothing that is shared
Local(r) == UNCHANGED <<mapVars, counters, history, ctxVars>>

-----------------------------------------------------------------------------
\* What startup leaves behind: the three maps loaded from one configuration,
\* and no request seen
Init ==
  /\ serverList \in ServerList
  /\ \E t \in LocTable :
       /\ locMap = [n \in LocName |-> IF t[n] = NoConf THEN 0 ELSE 1]
       /\ locConf = [o \in Loc |-> IF o[2] = 1 THEN t[o[1]] ELSE NoConf]
  /\ locLast = locMap
  /\ \E t \in UpTable :
       /\ upMap = [u \in UpName |-> IF t[u] = NoConf THEN 0 ELSE 1]
       /\ upConf = [o \in Up |-> IF o[2] = 1 THEN t[o[1]] ELSE NoConf]
  /\ upLast = upMap
  /\ processing = [o \in Loc |-> 0]
  /\ upProcessing = [o \in Up |-> 0]
  /\ serverProcessing = 0
  /\ pc = [r \in Req |-> "idle"]
  /\ input = [r \in Req |-> None]
  /\ names = [r \in Req |-> <<>>]
  /\ current = [r \in Req |-> None]
  /\ location = [r \in Req |-> None]
  /\ upstream = [r \in Req |-> None]
  /\ status = [r \in Req |-> 0]
  /\ attempts = [r \in Req |-> 0]
  /\ drifted = {}
  /\ upDrifted = {}

-----------------------------------------------------------------------------
(* early_request_filter.  It is synchronous but runs on its own thread, and *)
(* every get_location loads the map anew, so a reload may fall between two  *)
(* lookups.                                                                  *)

\* counts the request and loads this server's list of location names
Accept(r) ==
  /\ pc[r] = "idle"
  /\ \E i \in Input : input' = [input EXCEPT ![r] = i]
  /\ serverProcessing' = serverProcessing + 1
  /\ IF serverList = NoList
     THEN Goto(r, "request") /\ UNCHANGED names
     ELSE Goto(r, "scan") /\ names' = [names EXCEPT ![r] = serverList]
  /\ UNCHANGED <<mapVars, processing, upProcessing, history, current, location,
                 upstream, status, attempts>>

\* new_path_selector, new_host_selector: the value of a regular expression is the set
\* of what it matches; "/api" is a prefix of "/apis" as well
PathMatches(selector, path) ==
  LET v == selector.value
  IN CASE selector.kind = "empty"  -> TRUE
       [] selector.kind = "equal"  -> path = v
       [] selector.kind = "prefix" -> Len(v) <= Len(path) /\ SubSeq(path, 1, Len(v)) = v
       [] selector.kind = "regex"  -> path \in v
HostMatches(selector, host) ==
  IF selector.kind = "regex" THEN host \in selector.value ELSE host = selector.value

\* match_host_path: the path is compared first, and no hosts stand for every host
MatchHostPath(o, i) ==
  /\ PathMatches(locConf[o].path, i.path)
  /\ locConf[o].hosts = {} \/ \E h \in locConf[o].hosts : HostMatches(h, i.host)

\* one turn of the loop over the names: a missing location is skipped, one that
\* does not match still becomes current_location, one that matches ends the loop
ScanNext(r) ==
  /\ pc[r] = "scan"
  /\ names[r] # <<>>
  /\ LET n == Head(names[r])
     IN IF ~HasLocation(n)
        THEN UNCHANGED <<current, location, pc>>
        ELSE /\ current' = [current EXCEPT ![r] = LocOf(n)]
             /\ IF MatchHostPath(LocOf(n), input[r])
                THEN /\ location' = [location EXCEPT ![r] = n]
                     /\ Goto(r, "charge")
                ELSE UNCHANGED <<location, pc>>
  /\ names' = [names EXCEPT ![r] = Tail(@)]
  /\ UNCHANGED <<mapVars, counters, history, input, upstream, status, attempts>>

\* the loop ends without a match: current_location is the last one that exists
ScanEnd(r) ==
  /\ pc[r] = "scan"
  /\ names[r] = <<>>
  /\ Goto(r, IF current[r] = None THEN "request" ELSE "charge")
  /\ UNCHANGED status /\ Local(r)

\* client_max_body_size, 0 when there is no limit: validate_content_length and
\* client_body_size_limit
Exceeds(o, size) == locConf[o].limit # 0 /\ size > locConf[o].limit

\* validate_content_length fails: the request never enters the counter, but
\* logging will take it out of the counter of the location it matched
TooLarge(r) ==
  /\ pc[r] = "charge"
  /\ Exceeds(current[r], input[r].length)
  /\ Goto(r, "fail") /\ Status(r, 413)
  /\ drifted' = drifted \cup ({location[r]} \ {None})
  /\ UNCHANGED <<mapVars, counters, ctxVars, upDrifted>>

\* the comparison in add_processing, with the value fetch_add returned plus one
\* (MUTANT: the value before the request is compared)
OverLimitBefore(o) == locConf[o].max # 0 /\ processing[o] > locConf[o].max
OverLimit(o) == locConf[o].max # 0 /\ processing[o] + 1 > locConf[o].max

\* Location::add_processing counts first and compares afterwards; then the
\* grpc-web module is looked up and the EarlyRequest plugins run.  A request
\* that matched nothing is counted too, and logging will not count it out.
AddProcessing(r) ==
  LET o == current[r]
  IN /\ pc[r] = "charge"
     /\ ~Exceeds(o, input[r].length)
     /\ processing' = [processing EXCEPT ![o] = @ + 1]
     /\ IF OverLimit(o)
        THEN Goto(r, "fail") /\ Status(r, 429)
        ELSE IF locConf[o].grpcUnavailable
             THEN Goto(r, "fail") /\ Status(r, 500)
             ELSE Goto(r, "request") /\ UNCHANGED status
     /\ drifted' = IF location[r] = None THEN drifted \cup {o[1]} ELSE drifted
     /\ UNCHANGED <<mapVars, upProcessing, serverProcessing, ctxVars, upDrifted>>

-----------------------------------------------------------------------------
(* request_filter, the cache lookup and proxy_upstream_filter: the request  *)
(* is answered here (admin, ACME challenge, metrics, a plugin's response, a *)
(* cached response, no location), fails, or goes on to an upstream.          *)

RequestFilterAnswer(r) ==
  /\ pc[r] = "request"
  /\ Goto(r, "logging") /\ Status(r, 200)
  /\ Local(r)

\* get_location(&ctx.location) finds nothing: "Location not found"
LocationNotFound(r) ==
  /\ pc[r] = "request"
  /\ ~HasLocation(location[r])
  /\ Goto(r, "logging") /\ Status(r, 500)
  /\ Local(r)

RequestFilterContinue(r) ==
  /\ pc[r] = "request"
  /\ HasLocation(location[r])
  /\ Goto(r, "peer")
  /\ UNCHANGED status /\ Local(r)

\* a plugin, the ACME handler or the admin server returned an error
RequestFilterError(r) ==
  /\ pc[r] = "request"
  /\ Goto(r, "fail") /\ Status(r, 500)
  /\ Local(r)

-----------------------------------------------------------------------------
(* upstream_peer.  The location and the upstream are looked up again, by     *)
(* name, and ctx.upstream is set whether or not there is a backend.          *)

\* MUTANT: only a request that gets a backend is counted
NewHttpPeerLate(r, u) ==
  \/ /\ upProcessing' = [upProcessing EXCEPT ![UpOf(u)] = @ + 1]
     /\ Goto(r, "proxying") /\ UNCHANGED status
  \/ Goto(r, "fail") /\ Status(r, 503) /\ UNCHANGED upProcessing
\* Upstream::new_http_peer counts before it knows whether there is a backend
NewHttpPeer(r, u) ==
  /\ upProcessing' = [upProcessing EXCEPT ![UpOf(u)] = @ + 1]
  /\ \/ Goto(r, "proxying") /\ UNCHANGED status
     \/ Goto(r, "fail") /\ Status(r, 503)      \* no backend to select

UpstreamPeer(r) ==
  /\ pc[r] = "peer"
  /\ HasLocation(location[r])
  /\ \E u \in locConf[LocOf(location[r])].upstreams :
       /\ HasUpstream(u)
       /\ NewHttpPeer(r, u)
       /\ upstream' = [upstream EXCEPT ![r] = u]
  /\ UNCHANGED <<mapVars, processing, serverProcessing, history, input, names,
                 current, location, attempts>>

NoUpstream(r) ==
  /\ pc[r] = "peer"
  /\ HasLocation(location[r]) =>
       LET us == locConf[LocOf(location[r])].upstreams
       IN us = {} \/ \E u \in us : ~HasUpstream(u)
  /\ Goto(r, "fail") /\ Status(r, 503)
  /\ Local(r)

\* request_body_filter: the body outgrows the limit of the location of that name
BodyTooLarge(r) ==
  /\ pc[r] = "proxying"
  /\ HasLocation(location[r])
  /\ Exceeds(LocOf(location[r]), input[r].body)
  /\ Goto(r, "fail") /\ Status(r, 413)
  /\ Local(r)

\* the upstream answers: upstream_response_filter and the body filters
UpstreamAnswer(r) ==
  /\ pc[r] = "proxying"
  /\ Goto(r, "logging") /\ Status(r, 200)
  /\ Local(r)

\* connection or proxy error that pingora does not retry
UpstreamError(r) ==
  /\ pc[r] = "proxying"
  /\ Goto(r, "fail") /\ Status(r, 502)
  /\ Local(r)

\* MUTANT: the number of retries is not bounded
RetryAlways(r) ==
  /\ pc[r] = "proxying"
  /\ attempts' = [attempts EXCEPT ![r] = @ + 1]
  /\ Goto(r, "peer")
  /\ upDrifted' = upDrifted \cup {upstream[r]}
  /\ UNCHANGED <<mapVars, counters, drifted, input, names, current, location,
                 upstream, status>>

\* External: a reused connection broke, so pingora asks for a peer again; the
\* attempt that failed has been counted and is never counted out
Retry(r) ==
  /\ pc[r] = "proxying"
  /\ attempts[r] < MaxAttempts
  /\ attempts' = [attempts EXCEPT ![r] = @ + 1]
  /\ Goto(r, "peer")
  /\ upDrifted' = upDrifted \cup {upstream[r]}
  /\ UNCHANGED <<mapVars, counters, drifted, input, names, current, location,
                 upstream, status>>

-----------------------------------------------------------------------------
\* MUTANT: a failed request is dropped without logging
FailToProxyEnds(r) ==
  /\ pc[r] = "fail"
  /\ Goto(r, "done")
  /\ UNCHANGED status /\ Local(r)
\* MUTANT: a request over the limit is tried with an upstream all the same
FailToProxyRetries(r) ==
  /\ pc[r] = "fail"
  /\ Goto(r, IF status[r] = 429 THEN "peer" ELSE "logging")
  /\ UNCHANGED status /\ Local(r)
\* MUTANT: a request over the limit gets no answer
FailToProxySilent(r) ==
  /\ pc[r] = "fail" /\ status[r] # 429
  /\ Goto(r, "logging")
  /\ UNCHANGED status /\ Local(r)

FailToProxy(r) ==
  /\ pc[r] = "fail"
  /\ Goto(r, "logging")
  /\ UNCHANGED status /\ Local(r)

\* the session and its Ctx are dropped when logging returns
DropCtx(r) ==
  /\ input' = [input EXCEPT ![r] = None]
  /\ names' = [names EXCEPT ![r] = <<>>]
  /\ current' = [current EXCEPT ![r] = None]
  /\ location' = [location EXCEPT ![r] = None]
  /\ upstream' = [upstream EXCEPT ![r] = None]
  /\ status' = [status EXCEPT ![r] = 0]
  /\ attempts' = [attempts EXCEPT ![r] = 0]

\* MUTANT: sub_processing is left out
LoggingKeeps(r) ==
  /\ pc[r] = "logging"
  /\ Goto(r, "done")
  /\ serverProcessing' = serverProcessing - 1
  /\ upProcessing' =
       IF HasUpstream(upstream[r])
       THEN [upProcessing EXCEPT ![UpOf(upstream[r])] = @ - 1] ELSE upProcessing
  /\ DropCtx(r)
  /\ UNCHANGED <<mapVars, processing, history>>

\* logging: sub_processing and completed on whatever objects have the names now
Logging(r) ==
  /\ pc[r] = "logging"
  /\ Goto(r, "done")
  /\ serverProcessing' = serverProcessing - 1
  /\ processing' =
       IF HasLocation(location[r])
       THEN [processing EXCEPT ![LocOf(location[r])] = @ - 1] ELSE processing
  /\ upProcessing' =
       IF HasUpstream(upstream[r])
       THEN [upProcessing EXCEPT ![UpOf(upstream[r])] = @ - 1] ELSE upProcessing
  /\ DropCtx(r)
  /\ UNCHANGED <<mapVars, history>>

-----------------------------------------------------------------------------
(* Hot reload.  A name is changed when its object is replaced or dropped.    *)

LocChanged(t) ==
  {n \in LocName : IF t[n] = NoConf THEN locMap[n] # 0
                   ELSE locMap[n] = 0 \/ locConf[LocOf(n)] # t[n]}

\* try_init_locations: keep what has the same key, build the rest, store the map
TryInitLocations(t) ==
  LET changed == LocChanged(t)
      fresh   == {n \in changed : t[n] # NoConf}
  IN /\ changed # {}
     /\ \A n \in fresh : locLast[n] < MaxGen                \* bound
     /\ locLast' = [n \in LocName |-> IF n \in fresh THEN locLast[n] + 1
                                                    ELSE locLast[n]]
     /\ locMap' = [n \in LocName |-> IF n \in fresh THEN locLast[n] + 1
                                     ELSE IF n \in changed THEN 0
                                     ELSE locMap[n]]
     /\ locConf' = [o \in Loc |->
                      IF o[1] \in fresh /\ o[2] = locLast[o[1]] + 1
                      THEN t[o[1]] ELSE locConf[o]]
     /\ drifted' = drifted \cup
          {n \in changed : \E r \in Req : InFlight(r) /\ location[r] = n}
     /\ UNCHANGED <<serverList, upVars, counters, pc, ctxVars, status, upDrifted>>

UpChanged(t) ==
  {u \in UpName : IF t[u] = NoConf THEN upMap[u] # 0
                  ELSE upMap[u] = 0 \/ upConf[UpOf(u)] # t[u]}

\* try_update_upstreams (and try_init_upstreams at startup)
TryUpdateUpstreams(t) ==
  LET changed == UpChanged(t)
      fresh   == {u \in changed : t[u] # NoConf}
  IN /\ changed # {}
     /\ \A u \in fresh : upLast[u] < MaxGen                 \* bound
     /\ upLast' = [u \in UpName |-> IF u \in fresh THEN upLast[u] + 1
                                                  ELSE upLast[u]]
     /\ upMap' = [u \in UpName |-> IF u \in fresh THEN upLast[u] + 1
                                   ELSE IF u \in changed THEN 0
                                   ELSE upMap[u]]
     /\ upConf' = [o \in Up |->
                     IF o[1] \in fresh /\ o[2] = upLast[o[1]] + 1
                     THEN t[o[1]] ELSE upConf[o]]
     /\ upDrifted' = upDrifted \cup
          {u \in changed : \E r \in Req : InFlight(r) /\ upstream[r] = u}
     /\ UNCHANGED <<serverList, locVars, counters, pc, ctxVars, status, drifted>>

TryInitServerLocations(list) ==
  /\ serverList # list
  /\ serverList' = list
  /\ UNCHANGED <<locVars, upVars, counters, pc, ctxVars, status, history>>

-----------------------------------------------------------------------------
EarlyRequestFilter(r) ==
  \/ ScanNext(r) \/ ScanEnd(r) \/ TooLarge(r) \/ AddProcessing(r)
RequestFilter(r) ==
  \/ RequestFilterAnswer(r) \/ LocationNotFound(r)
  \/ RequestFilterContinue(r) \/ RequestFilterError(r)
Proxying(r) ==
  \/ UpstreamPeer(r) \/ NoUpstream(r) \/ BodyTooLarge(r)
  \/ UpstreamAnswer(r) \/ UpstreamError(r) \/ Retry(r)

\* the steps the runtime takes for a request it has accepted
Serve(r) ==
  \/ EarlyRequestFilter(r) \/ RequestFilter(r) \/ Proxying(r)
  \/ FailToProxy(r) \/ Logging(r)

Reload ==
  \/ \E t \in LocTable : TryInitLocations(t)
  \/ \E t \in UpTable : TryUpdateUpstreams(t)
  \/ \E l \in ServerList : TryInitServerLocations(l)

Next == (\E r \in Req : Accept(r) \/ Serve(r)) \/ Reload

Spec == Init /\ [][Next]_vars
FairSpec == Spec /\ \A r \in Req : WF_vars(Serve(r))

-----------------------------------------------------------------------------
MapTypeOK ==
  /\ serverList \in Seq(LocName) \cup {NoList}
  /\ locMap \in [LocName -> 0..MaxGen]
  /\ locLast \in [LocName -> 0..MaxGen]
  /\ locConf \in [Loc -> LocConf \cup {NoConf}]
  /\ upMap \in [UpName -> 0..MaxGen]
  /\ upLast \in [UpName -> 0..MaxGen]
  /\ upConf \in [Up -> UpConf \cup {NoConf}]

CounterTypeOK ==
  /\ processing \in [Loc -> Int]
  /\ upProcessing \in [Up -> Int]
  /\ serverProcessing \in Int

RequestTypeOK ==
  /\ pc \in [Req -> Phase]
  /\ input \in [Req -> Input \cup {None}]
  /\ names \in [Req -> Seq(LocName)]
  /\ current \in [Req -> Loc \cup {None}]
  /\ location \in [Req -> LocName \cup {None}]
  /\ upstream \in [Req -> UpName \cup {None}]
  /\ status \in [Req -> Nat]
  /\ attempts \in [Req -> 0..MaxAttempts]

\* The maps, the counters and the request contexts have their types; retries
\* stay within pingora's bound.
TypeOK ==
  /\ MapTypeOK /\ CounterTypeOK /\ RequestTypeOK
  /\ drifted \subseteq LocName /\ upDrifted \subseteq UpName

Charged(n)  == {r \in Req : location[r] = n /\ pc[r] \in AfterCharge}
Admitted(n) == {r \in Req : location[r] = n /\ pc[r] \in {"request", "peer", "proxying"}}
Using(u)    == {r \in Req : upstream[r] = u /\ InFlight(r)}

\* Server.processing is the number of requests in flight on every path through
\* early_request_filter, the failures and logging.
ServerCountExact ==
  serverProcessing = Cardinality({r \in Req : InFlight(r)})

\* Location.processing of the object in the map is the number of requests that
\* matched the name and are in flight, as long as the name has not met an event
\* that makes it drift: a request that fell through to it unmatched, one it
\* refused with 413, or a reload that replaced it with requests in flight.
LocCountExact ==
  \A n \in LocName \ drifted :
    locMap[n] # 0 => processing[LocOf(n)] = Cardinality(Charged(n))

\* max_processing bounds the requests a location lets through at the same time,
\* although add_processing counts before it compares and rejected requests stay
\* in the counter until logging (names that have not drifted).
AdmittedBound ==
  \A n \in LocName \ drifted :
    locMap[n] # 0 =>
      LET max == locConf[LocOf(n)].max
      IN max # 0 => Cardinality(Admitted(n)) <= max

\* Upstream.processing of the object in the map is the number of requests in
\* flight that chose it, also for those that found no backend (503), as long as
\* no request retried on it and no reload replaced it with requests in flight.
UpCountExact ==
  \A u \in UpName \ upDrifted :
    upMap[u] # 0 => upProcessing[UpOf(u)] = Cardinality(Using(u))

\* A request that matched no location, or that its location refused with 429,
\* never takes an upstream connection, whatever reloads happen meanwhile.
RejectedNeverProxied ==
  \A r \in Req : location[r] = None \/ status[r] = 429 => upstream[r] = None

\* Every request the server has accepted is logged in the end.
EveryRequestLogged == \A r \in Req : pc[r] = "scan" ~> pc[r] = "done"

-----------------------------------------------------------------------------
(* The inductive strengthening of the counter properties.                    *)

\* objects in the maps were built from a configuration; generations not yet
\* allocated have untouched counters
HeapOK ==
  /\ \A n \in LocName : /\ locMap[n] <= locLast[n]
                        /\ locMap[n] # 0 => locConf[LocOf(n)] \in LocConf
  /\ \A o \in Loc : o[2] > locLast[o[1]] => processing[o] = 0 /\ locConf[o] = NoConf
  /\ \A u \in UpName : upMap[u] <= upLast[u]
  /\ \A o \in Up : o[2] > upLast[o[1]] => upProcessing[o] = 0

\* what a request's context holds at each point of its life
ControlOK ==
  \A r \in Req :
    /\ pc[r] \in {"idle", "scan", "done"} => location[r] = None
    /\ pc[r] \in {"idle", "scan", "charge", "request", "done"} => upstream[r] = None
    /\ pc[r] = "charge" => /\ current[r] # None
                           /\ location[r] # None => current[r][1] = location[r]
    /\ current[r] # None => locConf[current[r]] \in LocConf
    /\ pc[r] \in {"peer", "proxying"} => location[r] # None
    /\ pc[r] = "proxying" => upstream[r] # None
    /\ upstream[r] # None => location[r] # None
    /\ status[r] = 429 => pc[r] \in {"fail", "logging"} /\ upstream[r] = None

\* a request's names still denote the objects it counted on, unless they drifted
HoldLoc ==
  \A r \in Req :
    location[r] \in LocName \ drifted =>
      /\ locMap[location[r]] # 0
      /\ pc[r] = "charge" => current[r] = LocOf(location[r])
HoldUp ==
  \A r \in Req :
    /\ upstream[r] \in UpName \ upDrifted => upMap[upstream[r]] # 0
    /\ pc[r] = "peer" => upstream[r] \in upDrifted \cup {None}

IInv ==
  /\ TypeOK /\ HeapOK /\ ControlOK /\ HoldLoc /\ HoldUp
  /\ ServerCountExact /\ LocCountExact /\ UpCountExact /\ AdmittedBound

-----------------------------------------------------------------------------
\* location.rs, field Location.max_processing: "Maximum number of concurrent
\* requests allowed".
MaxProcessingDoc ==
  \A n \in LocName : locMap[n] # 0 =>
    LET max == locConf[LocOf(n)].max
    IN max # 0 => Cardinality(Admitted(n)) <= max
=============================================================================
