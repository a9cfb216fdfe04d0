--------------------------- MODULE TrafficPlugins ---------------------------
(***************************************************************************)
(* The plugins that answer requests themselves, limit them or prepare the  *)
(* answer: redirect, ping, mock, stats, admin, directory, request_id, cors, *)
(* compression, accept_encoding, limit, cache, image_optim,                *)
(* response_headers and sub_filter.                                        *)
(***************************************************************************)
EXTENDS PluginRequest

-----------------------------------------------------------------------------
(* redirect, ping, mock, stats                                               *)

RedirectValid(c) == TRUE
PingValid(c) == TRUE
MockValid(c) == Parses(c, {"delay"})

Redirect(r) ==
  /\ Calls(r, "redirect", "request")
  /\ LET p == Plugin(r)
     IN IF head[r].tls = p.httpToHttps /\ StartsWith(head[r].path, p.prefix)
        THEN Pass(r) ELSE Answer(r, 307)

Ping(r) ==
  /\ Calls(r, "ping", "request")
  /\ IF head[r].path = Plugin(r).path THEN Answer(r, 200) ELSE Pass(r)

\* the status is any number that is a StatusCode, 900 and more included
Mock(r) ==
  /\ Calls(r, "mock", "request")
  /\ LET p == Plugin(r)
     IN IF p.path = <<>> \/ p.path = head[r].path THEN Answer(r, p.status) ELSE Pass(r)

\* MUTANT: any step is accepted
AnyStep(c) == TRUE
\* get_step_conf and the check of limit, request_id, directory and stats
StepValid(c) == c.step \in {"request", "proxy_upstream"}

StatsValid(c) == StepValid(c)

Stats(r) ==
  /\ pc[r] \in RequestStep /\ Calls(r, "stats", pc[r])
  /\ IF pc[r] = Plugin(r).step /\ head[r].path = Plugin(r).path
     THEN Answer(r, 200) ELSE Pass(r)

-----------------------------------------------------------------------------
(* admin: TtlLruLimit reads an entry and puts a new one, in two steps for     *)
(* validate and for inc, around the check of the credentials.                 *)

AdminServeValid(c) == Parses(c, {"authorizations", "max_age"})

\* MUTANT: an entry is only full when it is over the limit
FullAbove(p, e) == e.count > p.failLimit
Full(p, e) == e.count >= p.failLimit
Expired(p, e) == clock - e.created > p.failTtl
NoLimit == [count |-> 0, created |-> 0]

\* an ip is odd once two of its requests are between validate and inc
LoggingIn(rs) ==
  {GetClientIp(head[s]) : s \in {x \in rs : pc[x] \in {"reset", "login", "failed"}}}

AdminValidate(r) ==
  /\ Calls(r, "admin", "request")
  /\ LET p == Plugin(r)
         ip == GetClientIp(head[r])
         known == ip \in DOMAIN logins
         old == known /\ Expired(p, logins[ip])
     IN IF ~StartsWith(head[r].path, p.path) THEN Pass(r)
        ELSE IF known /\ ~old /\ Full(p, logins[ip]) THEN Answer(r, 403)
        ELSE /\ pc' = [pc EXCEPT ![r] = IF old THEN "reset" ELSE "login"]
             /\ seen' = [seen EXCEPT ![r] = [conf |-> p, gen |-> Object(r)[2],
                                             limit |-> NoLimit]]
             /\ odd' = IF ip \in LoggingIn(Req \ {r}) THEN odd \cup {<<"login", ip>>} ELSE odd
             /\ UNCHANGED <<setup, plugins, gens, clock, at, head, asked, ctx, resp,
                            sent, shared, fails, touched>>

\* ufo.put: a new key in a full table costs one entry, which may be the new one.  An
\* object that was replaced keeps its own entries, which nobody reads again.
PutLimit(r, e) ==
  LET put == Put(logins, GetClientIp(head[r]), e)
  IN \/ Object(r)[2] # seen[r].gen /\ UNCHANGED <<logins, odd>>
     \/ /\ Object(r)[2] = seen[r].gen
        /\ Cardinality(DOMAIN put) <= TableSize
        /\ logins' = put /\ UNCHANGED odd
     \/ /\ Object(r)[2] = seen[r].gen
        /\ Cardinality(DOMAIN put) > TableSize
        /\ \E lost \in DOMAIN put : /\ logins' = Drop(put, lost)
                                  /\ odd' = odd \cup {<<"login", lost>>}

\* ufo.put at the end of validate
AdminReset(r) ==
  /\ pc[r] = "reset"
  /\ PutLimit(r, NoLimit)
  /\ pc' = [pc EXCEPT ![r] = "login"]
  /\ UNCHANGED <<setup, plugins, gens, clock, at, head, asked, ctx, resp, sent,
                 inflight, rate, store, issued, fails, seen, touched>>

\* auth_validate: assets need no credentials; a token is user, password and time
AuthValidate(p, h) ==
  \/ p.authorizations = {}
  \/ h.path \in p.assets
  \/ LET value == GetHeader(h, "authorization")
     IN /\ value.mac \in p.authorizations
        /\ clock - value.at <= p.maxAge /\ value.at - clock <= p.maxAge

\* the bare path is sent to path/ before the credentials are looked at; what the
\* admin API does with a request is ConfigStorage; inc reads the entry
AdminLogin(r) ==
  /\ pc[r] = "login"
  /\ LET ip == GetClientIp(head[r])
     IN IF head[r].path = seen[r].conf.path /\ head[r].path # <<"">> THEN Answer(r, 307)
        ELSE IF AuthValidate(seen[r].conf, head[r]) THEN Answer(r, 200)
        ELSE /\ seen' = [seen EXCEPT ![r].limit =
                            IF ip \in DOMAIN logins THEN logins[ip] ELSE NoLimit]
             /\ pc' = [pc EXCEPT ![r] = "failed"]
             /\ UNCHANGED <<setup, plugins, gens, clock, at, head, ctx, resp, sent,
                            shared, history, touched>>

AdminInc(r) ==
  /\ pc[r] = "failed"
  /\ LET e == seen[r].limit
     IN PutLimit(r, [count |-> e.count + 1,
                     created |-> IF e.created = 0 THEN clock ELSE e.created])
  /\ fails' = fails \cup {<<r, GetClientIp(head[r]), clock>>}
  /\ seen' = [seen EXCEPT ![r] = None]
  /\ Answered(r, 401)
  /\ UNCHANGED <<head, asked, ctx, inflight, rate, store, issued>>

-----------------------------------------------------------------------------
(* directory: a small file is a response, a large one is sent in chunks and   *)
(* the loop gets a response it does not send.                                 *)

DirectoryValid(c) == StepValid(c) /\ Parses(c, {"headers"})

\* what get_data finds under a path
FileAt(p, path) == IF path \in DOMAIN p.files THEN p.files[path] ELSE "missing"

IgnoreResponse == 999

Directory(r) ==
  /\ pc[r] \in RequestStep /\ Calls(r, "directory", pc[r])
  /\ LET p == Plugin(r)
         path == IF head[r].path = <<"">> /\ ~p.autoindex THEN p.index ELSE head[r].path
         file == FileAt(p, path)
     IN IF pc[r] # p.step THEN Pass(r)
        ELSE \/ file = "dir" /\ p.autoindex /\ (Answer(r, 200) \/ Answer(r, 400))
             \/ file = "missing" /\ Answer(r, 404)
             \/ file = "dir" /\ ~p.autoindex /\ Answer(r, 404)
             \/ file = "denied" /\ Answer(r, 500)
             \/ file = "small" /\ (Answer(r, 200) \/ Answer(r, 400))
             \/ /\ file = "large"
                /\ AnsweredAfter(r, 1, IgnoreResponse)
                /\ UNCHANGED <<head, ctx, shared, history, seen>>
             \* the file or the connection fails: the response that was begun, or the one
             \* of fail_to_proxy, since pingora writes no second header
             \/ file = "large" /\ Fail(r, 400)

-----------------------------------------------------------------------------
(* request_id, cors, compression, accept_encoding                            *)

RequestIdValid(c) == StepValid(c) /\ Parses(c, {"header_name"})

\* keeps the id the client sent, else makes one and adds it to the request
RequestId(r) ==
  /\ pc[r] \in RequestStep /\ Calls(r, "request_id", pc[r])
  /\ LET p == Plugin(r)
         id == GetHeader(head[r], p.header)
     IN IF pc[r] # p.step THEN Pass(r)
        ELSE IF id # Nothing THEN Rewrite(r, head[r], [ctx[r] EXCEPT !.id = id.text])
        ELSE Rewrite(r, [head[r] EXCEPT !.headers = Put(@, p.header, Text("generated"))],
                     [ctx[r] EXCEPT !.id = "generated"])

CorsValid(c) ==
  Parses(c, {"max_age", "path", "allow_origin", "allow_methods", "allow_headers",
             "expose_headers"})

\* Cors::get_headers: the origin has to convert, a plain text does not
CorsOrigin(p, h, c) == ConvertHeaderValue(p.allowOrigin, h, c)

Cors(r) ==
  /\ Calls(r, "cors", "request")
  /\ LET p == Plugin(r)
     IN IF head[r].path \notin p.paths \/ head[r].method # "OPTIONS" THEN Pass(r)
        ELSE IF CorsOrigin(p, head[r], ctx[r]) = "" THEN Fail(r, 400)
        ELSE Answer(r, 204)

CorsResponse(r) ==
  /\ Calls(r, "cors", "response")
  /\ LET p == Plugin(r)
         origin == CorsOrigin(p, head[r], ctx[r])
     IN IF head[r].path \notin p.paths \/ GetHeader(head[r], "origin") = Nothing
        THEN Respond(r, resp[r], ctx[r])
        ELSE IF origin = "" THEN Fail(r, 400)
        ELSE Respond(r, [resp[r] EXCEPT
                           !.headers = Put(@, "access-control-allow-origin", <<origin>>)],
                     ctx[r])

CompressionValid(c) == TRUE

\* the first of zstd, br, gzip that is configured and accepted turns the
\* compression module of the session on
Compression(r) ==
  /\ Calls(r, "compression", "early_request")
  /\ LET usable == Plugin(r).encodings \cap head[r].encodings
     IN Rewrite(r, head[r], [ctx[r] EXCEPT !.level = IF usable # {} THEN 1 ELSE @])

AcceptEncodingValid(c) == TRUE

AcceptEncoding(r) ==
  /\ Calls(r, "accept_encoding", "early_request")
  /\ LET p == Plugin(r)
         kept == Kept(p.encodings, head[r].encodings)
         new == IF p.onlyOne /\ kept # <<>> THEN {kept[1]} ELSE Elements(kept)
     IN Rewrite(r, [head[r] EXCEPT !.encodings = new], ctx[r])

-----------------------------------------------------------------------------
(* limit: requests in flight, or requests of a window                        *)

LimitValid(c) == StepValid(c) /\ Parses(c, {"interval"})

LimitKey(p, h) ==
  CASE p.tag = "query"  -> GetQuery(h, p.key).text
    [] p.tag = "header" -> GetHeader(h, p.key).text
    [] p.tag = "cookie" -> GetCookie(h, p.key).text
    [] OTHER            -> GetClientIp(h)

Count(o) == IF o \in DOMAIN inflight THEN inflight[o] ELSE 0
Window(o) == IF o \in DOMAIN rate THEN rate[o] ELSE [cur |-> 0, prev |-> 0]

\* a dropped Guard takes its place back
Release(f, guard) == IF guard = <<>> THEN f ELSE [f EXCEPT ![guard] = @ - 1]

\* the address of the client is left in the Ctx
LimitCtx(r) ==
  IF Plugin(r).tag = "ip" THEN [ctx[r] EXCEPT !.ip = GetClientIp(head[r])] ELSE ctx[r]

\* MUTANT: the value before this request is compared
ExceedsBefore(value, max) == value - 1 > max
Exceeds(value, max) == value > max

\* the first sample of a window decides nothing: rate() is that of the window
\* before, unless a weight mixes both
RateValue(p, w) ==
  IF p.weight = 0 THEN w.prev
  ELSE (w.prev * (100 - p.weight) + w.cur * p.weight + 99) \div 100

LimitRate(r) ==
  LET p == Plugin(r)
      o == Append(Object(r), LimitKey(p, head[r]))
      w == [Window(o) EXCEPT !.cur = @ + 1]
  IN /\ rate' = Put(rate, o, w)
     /\ UNCHANGED <<inflight, store, logins, issued, history, head>>
     /\ ctx' = [ctx EXCEPT ![r] = LimitCtx(r)]
     /\ IF Exceeds(RateValue(p, w), p.max)
        THEN Answered(r, 429) /\ UNCHANGED seen
        ELSE Continue(r)

\* the Ctx has room for one Guard: the one of an earlier limiter is dropped
LimitInflight(r) ==
  LET p == Plugin(r)
      o == Append(Object(r), LimitKey(p, head[r]))
      over == Exceeds(Count(o) + 1, p.max)
      old == ctx[r].guard
  IN /\ inflight' = Release(Put(inflight, o, Count(o) + 1), old)
     /\ odd' = IF old = <<>> THEN odd ELSE odd \cup {old}
     /\ ctx' = [ctx EXCEPT ![r] =
                  [LimitCtx(r) EXCEPT !.guard = o,
                                      !.admitted = IF over THEN @ ELSE @ \cup {o}]]
     /\ UNCHANGED <<rate, store, logins, issued, asked, fails, head>>
     /\ IF over THEN Answered(r, 429) /\ UNCHANGED seen ELSE Continue(r)

Limit(r) ==
  /\ pc[r] \in RequestStep /\ Calls(r, "limit", pc[r])
  /\ LET p == Plugin(r)
     IN IF pc[r] # p.step THEN Pass(r)
        ELSE IF LimitKey(p, head[r]) = "" THEN Rewrite(r, head[r], LimitCtx(r))
        ELSE IF p.type = "inflight" THEN LimitInflight(r)
        ELSE LimitRate(r)

-----------------------------------------------------------------------------
(* cache and image_optim: what a response is stored under                    *)

CacheValid(c) == Parses(c, {"lock", "max_ttl", "max_file_size", "skip"})

\* get_cache_key
CacheKey(c, method, h) == <<c.ns, c.keys, method, h.path, h.query>>

\* MUTANT: the headers are not part of the key
CacheKeysNone(p, h) == <<>>
\* the values of the configured headers, those the request does not have left out
CacheKeys(p, h) ==
  LET values == [i \in DOMAIN p.headers |-> GetHeader(h, p.headers[i]).text]
  IN Kept(values, Elements(values) \ {""})

\* replaces the keys other plugins have put there, unless it has none
CacheCtx(r) ==
  LET keys == CacheKeys(Plugin(r), head[r])
  IN [ctx[r] EXCEPT !.ns = Plugin(r).namespace, !.keys = IF keys = <<>> THEN @ ELSE keys]

Skips(p, h) == h.method \notin {"GET", "HEAD", "PURGE"} \/ h.path \in p.skip

CachePurge(r) ==
  /\ Calls(r, "cache", "request")
  /\ ~Skips(Plugin(r), head[r])
  /\ head[r].method = "PURGE"
  /\ LET ip == GetClientIp(head[r])
         allowed == ip \in Plugin(r).purgeIps
         removed == Drop(store, CacheKey(CacheCtx(r), "GET", head[r]))
     IN \/ /\ ~allowed /\ UNCHANGED store
           /\ Answered(r, IF IpError({}, ip) THEN 400 ELSE 403)
        \/ allowed /\ store' = removed /\ Answered(r, 204)
        \* remove fails, before or after the entry is gone: fail_to_proxy
        \/ allowed /\ store' \in {store, removed} /\ Answered(r, 500)
  /\ ctx' = [ctx EXCEPT ![r] = CacheCtx(r)]
  /\ UNCHANGED <<head, inflight, rate, logins, issued, history, seen>>

CacheEnable(r) ==
  /\ Calls(r, "cache", "request")
  /\ IF Skips(Plugin(r), head[r]) THEN Pass(r)
     ELSE /\ head[r].method # "PURGE"
          /\ Rewrite(r, head[r], [CacheCtx(r) EXCEPT !.caching = TRUE])

ImageOptimValid(c) == TRUE
SupportTypes == {"jpeg", "png"}

\* the formats of output_types the client accepts, in that order
AcceptImages(p, h) == Kept(p.outputs, h.accept)

ImageOptim(r) ==
  /\ Calls(r, "image_optim", "request")
  /\ Rewrite(r, head[r],
             [ctx[r] EXCEPT !.keys = @ \o AcceptImages(Plugin(r), head[r])])

ImageOptimResponse(r) ==
  /\ Calls(r, "image_optim", "upstream_response")
  /\ LET types == AcceptImages(Plugin(r), head[r])
         format == IF types = <<>> THEN resp[r].body.format ELSE types[1]
     IN IF resp[r].body.format \notin SupportTypes
        THEN Respond(r, resp[r], ctx[r])
        ELSE Respond(r, [resp[r] EXCEPT
                           !.headers = Put(Put(Drop(@, "content-length"),
                                               "content-type", <<format>>),
                                           "transfer-encoding", <<"chunked">>)],
                     [ctx[r] EXCEPT !.upstreamBody = format])

-----------------------------------------------------------------------------
(* response_headers, sub_filter                                              *)

ResponseHeadersValid(c) ==
  Parses(c, {"add_headers", "set_headers", "remove_headers", "rename_headers",
             "set_headers_not_exists"})

Values(hs, n) == IF n \in DOMAIN hs THEN hs[n] ELSE <<>>

\* one change of a header; a rename keeps only the first value
Edited(s, op, x, h, c) ==
  LET value == HeaderValue(x.value, h, c)
  IN CASE op = "add"    -> Put(s, x.name, Append(Values(s, x.name), value))
       [] op = "remove" -> Drop(s, x.name)
       [] op = "set"    -> Put(s, x.name, <<value>>)
       [] op = "setMissing" -> IF x.name \in DOMAIN s THEN s ELSE Put(s, x.name, <<value>>)
       [] op = "rename" ->
            IF x.name \notin DOMAIN s THEN s
            ELSE Put(Drop(s, x.name), x.to,
                     Append(Values(Drop(s, x.name), x.to), s[x.name][1]))

\* the changes, in the order of the code
Tagged(op, list) == [i \in DOMAIN list |-> <<op, list[i]>>]
Edits(p) ==
  Tagged("add", p.add) \o Tagged("remove", p.remove) \o Tagged("set", p.set)
    \o Tagged("setMissing", p.setMissing) \o Tagged("rename", p.rename)

\* one change after the other
SetHeaders(p, hs, h, c) ==
  LET e == Edits(p)
      f[i \in 0..Len(e)] == IF i = 0 THEN hs ELSE Edited(f[i - 1], e[i][1], e[i][2], h, c)
  IN f[Len(e)]

ResponseHeaders(r) ==
  /\ Calls(r, "response_headers", "response")
  /\ Respond(r, [resp[r] EXCEPT !.headers = SetHeaders(Plugin(r), @, head[r], ctx[r])],
             ctx[r])

SubFilterValid(c) == Parses(c, {"path", "filters"})

\* MUTANT: the length of the body before the filters stays
FilterHeadersKeep(hs) == Put(hs, "transfer-encoding", <<"chunked">>)
FilterHeaders(hs) == Put(Drop(hs, "content-length"), "transfer-encoding", <<"chunked">>)

SubFilter(r) ==
  /\ Calls(r, "sub_filter", "response")
  /\ IF head[r].path \notin Plugin(r).paths
     THEN Respond(r, resp[r], ctx[r])
     ELSE Respond(r, [resp[r] EXCEPT !.headers = FilterHeaders(@)],
                  [ctx[r] EXCEPT !.body = Modify("sub_filter", "")])
=============================================================================
