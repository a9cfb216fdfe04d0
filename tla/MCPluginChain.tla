--------------------------- MODULE MCPluginChain ---------------------------
EXTENDS PluginChain, TLC

Reqs == 1..4

Root == <<"">>
H == [path |-> <<"data">>, method |-> "GET", upgrade |-> FALSE, tls |-> FALSE,
      host |-> "pingap", remote |-> "ip1", headers |-> <<>>, query |-> <<>>,
      cookies |-> <<>>, accept |-> {}, encodings |-> {}, token |-> ""]
With(n, v) == (n :> v)
Up == [format |-> "json", vary |-> <<>>, cacheable |-> FALSE, exp |-> 1]
Base == [chain |-> <<>>, start |-> <<>>, tables |-> {}, inputs |-> {H}, requests |-> 2,
         together |-> 2, seconds |-> 1, upstream |-> Up]

-----------------------------------------------------------------------------
Basic == [category |-> "basic_auth", bad |-> {}, authorizations |-> {"user"}, hide |-> TRUE]
Key == [category |-> "key_auth", bad |-> {}, query |-> "key", header |-> "x-key",
        keys |-> {"k"}, hide |-> TRUE]
KeyHeader == [Key EXCEPT !.query = "", !.hide = FALSE]

\* two guards that hide what they check, replaced, broken and removed while in use
Auth ==
  [Base EXCEPT
     !.chain = <<"basic", "key">>,
     !.start = [basic |-> Basic, key |-> Key],
     !.tables = {[basic |-> [Basic EXCEPT !.bad = {"delay"}], key |-> KeyHeader],
                 [basic |-> Basic, key |-> NoConf]},
     !.inputs = {H,
                 [H EXCEPT !.headers = With("authorization", Text("user")),
                           !.query = With("key", Text("k"))],
                 [H EXCEPT !.headers = "authorization" :> Text("user") @@ "x-key" :> Text("k")],
                 [H EXCEPT !.upgrade = TRUE]}]

JwtConf == [category |-> "jwt", bad |-> {}, header |-> "", cookie |-> "session", query |-> "",
            secret |-> "s", authPath |-> <<"login">>]
Sub == [category |-> "sub_filter", bad |-> {}, paths |-> {<<"login">>, <<"data">>}]
Session(more) == [H EXCEPT !.cookies = more \o <<[name |-> "session", value |-> Nothing]>>,
                           !.token = "session"]

\* tokens of auth_path that expire, and a second plugin that replaces bodies
Jwt ==
  [Base EXCEPT
     !.chain = <<"jwt", "sub">>,
     !.start = [jwt |-> JwtConf, sub |-> Sub],
     !.inputs = {[H EXCEPT !.path = <<"login">>], Session(<<>>),
                 Session(<<[name |-> "first", value |-> Text("x")]>>)},
     !.seconds = 4]
JwtLast == [Jwt EXCEPT !.chain = <<"sub", "jwt">>, !.seconds = 1,
                       !.start["jwt"] = [JwtConf EXCEPT !.header = "session"],
                       !.inputs = {[H EXCEPT !.path = <<"login">>], [H EXCEPT !.token = "session"]}]

CsrfConf == [category |-> "csrf", bad |-> {}, tokenPath |-> <<"token">>, key |-> "s",
             name |-> "x-csrf", ttl |-> 1]
Returned(cookies) == [H EXCEPT !.method = "POST", !.cookies = cookies, !.token = "x-csrf"]
CsrfSetup ==
  [Base EXCEPT
     !.chain = <<"csrf">>,
     !.start = [csrf |-> CsrfConf],
     !.inputs = {[H EXCEPT !.path = <<"token">>], H, Returned(<<>>),
                 Returned(<<[name |-> "x-csrf", value |-> Nothing]>>)},
     !.seconds = 4]
\* a name that is no header value
CsrfBad ==
  [CsrfSetup EXCEPT !.start = [csrf |-> [CsrfConf EXCEPT !.bad = {"name"}]], !.requests = 1,
                    !.inputs = {[H EXCEPT !.path = <<"token">>], [H EXCEPT !.method = "POST"]}]

Combined == [category |-> "combined_auth", bad |-> {},
             auths |-> [app |-> [secret |-> "s", ips |-> {"ip1"}, deviation |-> 1],
                        open |-> [secret |-> "*", ips |-> {"ip9"}, deviation |-> 0]]]
Digest(t, signedAt, key) ==
  [H EXCEPT !.query = [app_id |-> Text("app"), ts |-> Signed("ts", t, ""),
                       digest |-> Signed("digest", signedAt, key)]]
Ip == [category |-> "ip_restriction", bad |-> {}, list |-> {"ip2"}, type |-> "deny"]
Rate == [category |-> "limit", bad |-> {}, step |-> "request", tag |-> "ip", key |-> "",
         type |-> "rate", max |-> 1, weight |-> 50]

\* a digest that gets old and the address of a client
CombinedSetup ==
  [Base EXCEPT
     !.chain = <<"combined", "ip">>,
     !.start = [combined |-> Combined, ip |-> Ip],
     !.requests = 1,
     !.inputs = {H, Digest(1, 1, "s"), Digest(2, 1, "s"), Digest(1, 1, "x"),
                 [Digest(1, 1, "s") EXCEPT !.headers = With("x-real-ip", Text("ip2"))],
                 [H EXCEPT !.query = With("app_id", Text("open")), !.remote = "unix"],
                 [H EXCEPT !.query = With("app_id", Text("open")),
                           !.headers = With("x-forwarded-for", Text("ip2"))]},
     !.seconds = 3]

\* the rate of the requests of an address, which the limiter leaves in the Ctx
Rates ==
  [Base EXCEPT
     !.chain = <<"rate", "ip">>,
     !.start = [rate |-> Rate, ip |-> Ip],
     !.tables = {[ip |-> Ip, rate |-> [Rate EXCEPT !.weight = 0]]},
     !.inputs = {H, [H EXCEPT !.headers = With("x-forwarded-for", Text("ip2"))]},
     !.requests = 3, !.together = 1, !.seconds = 3]

Ua == [category |-> "ua_restriction", bad |-> {}, list |-> {"bot"}, type |-> "deny"]
Referer == [category |-> "referer_restriction", bad |-> {}, list |-> {"a"},
            suffixes |-> {{"x.b", "y.b"}}, type |-> "allow"]
RedirectConf == [category |-> "redirect", bad |-> {}, httpToHttps |-> TRUE,
                 prefix |-> <<"api">>]
Site == [H EXCEPT !.tls = TRUE, !.path = <<"api", "data">>]
Restrict ==
  [Base EXCEPT
     !.chain = <<"ua", "referer", "redirect">>,
     !.start = [ua |-> Ua, referer |-> Referer, redirect |-> RedirectConf],
     !.tables = {[ua |-> [Ua EXCEPT !.type = "allow"], redirect |-> RedirectConf,
                  \* the entry '*'
                  referer |-> [Referer EXCEPT !.suffixes = {{"a", "x.b", "y.b", ""}}]]},
     !.inputs = {[Site EXCEPT !.headers = With("referer", Text("a"))],
                 [Site EXCEPT !.headers = With("referer", Text("x.b")), !.tls = FALSE],
                 [Site EXCEPT !.headers = With("user-agent", Text("bot"))],
                 [Site EXCEPT !.headers = With("referer", Nothing)],   \* no URL
                 Site}]

-----------------------------------------------------------------------------
PingConf == [category |-> "ping", bad |-> {}, path |-> <<"ping">>]
MockConf == [category |-> "mock", bad |-> {}, path |-> <<"mock">>, status |-> 404]
StatsConf == [category |-> "stats", bad |-> {}, step |-> "request", path |-> <<"stats">>]
Files == [category |-> "directory", bad |-> {}, step |-> "proxy_upstream",
          autoindex |-> FALSE, index |-> <<"index">>,
          files |-> (<<"index">> :> "small" @@ <<"large">> :> "large" @@ <<"dir">> :> "dir"
                     @@ <<"denied">> :> "denied" @@ Root :> "dir")]
Id == [category |-> "request_id", bad |-> {}, step |-> "request", header |-> "x-id"]
At(p) == [H EXCEPT !.path = p]

\* plugins that answer, one of them configured for a step it cannot answer in
Answering ==
  [Base EXCEPT
     !.chain = <<"ping", "mock", "stats", "id">>,
     !.start = [ping |-> PingConf, mock |-> MockConf,
                stats |-> [StatsConf EXCEPT !.step = "early_request"],
                id |-> Id],
     !.tables = {[ping |-> PingConf, mock |-> MockConf, stats |-> StatsConf,
                  id |-> [Id EXCEPT !.step = "proxy_upstream"]]},
     !.inputs = {H, At(<<"ping">>), At(<<"mock">>), At(<<"stats">>),
                 [H EXCEPT !.headers = With("x-id", Text("7"))]},
     !.together = 1]
Silence ==
  [Base EXCEPT !.chain = <<"mock">>, !.requests = 1,
               !.start = [mock |-> [MockConf EXCEPT !.path = <<>>, !.status = 900]]]
Static ==
  [Base EXCEPT
     !.chain = <<"files">>, !.requests = 1,
     !.start = [files |-> Files],
     !.tables = {[files |-> [Files EXCEPT !.autoindex = TRUE]]},
     !.inputs = {At(Root), At(<<"large">>), At(<<"dir">>), At(<<"denied">>), At(<<"x">>)}]

AdminConf == [category |-> "admin", bad |-> {}, path |-> <<"admin">>,
              authorizations |-> {"pass"}, assets |-> {<<"admin", "index">>},
              maxAge |-> 2, failLimit |-> 1, failTtl |-> 1]
Login(key) == [At(<<"admin", "configs">>) EXCEPT
                 !.headers = With("authorization", Signed("user", 1, key))]

\* wrong logins of one address around the limit
Admin ==
  [Base EXCEPT !.chain = <<"admin">>, !.start = [admin |-> AdminConf],
               !.inputs = {Login("wrong"), Login("pass"), At(<<"admin">>),
                           At(<<"admin", "index">>)},
               !.tables = {[admin |-> [AdminConf EXCEPT !.maxAge = 1]]},
               !.seconds = 3]
Guessing ==
  [Base EXCEPT !.chain = <<"admin">>, !.inputs = {Login("wrong")}, !.seconds = 4,
               !.requests = 4, !.together = 1,
               !.start = [admin |-> [AdminConf EXCEPT !.failLimit = 2]]]
\* more addresses than the table has room for
Crowd ==
  [Guessing EXCEPT !.inputs = {Login("wrong"), [Login("wrong") EXCEPT !.remote = "ip2"]},
                   !.seconds = 3, !.start = [admin |-> AdminConf]]

Inflight == [Rate EXCEPT !.type = "inflight", !.weight = 0]
ByHeader == [Inflight EXCEPT !.tag = "header", !.key = "x-user", !.step = "proxy_upstream"]

\* limiters of requests in flight, reloaded and one after the other
Limits ==
  [Base EXCEPT
     !.chain = <<"limit">>, !.start = [limit |-> Inflight],
     !.tables = {[limit |-> [Inflight EXCEPT !.max = 2]]},
     !.requests = 3, !.together = 3,
     !.inputs = {H}]
TwoLimits ==
  [Base EXCEPT
     !.chain = <<"limit", "user">>,
     !.start = [limit |-> Inflight, user |-> ByHeader],
     !.inputs = {H, [H EXCEPT !.headers = With("x-user", Text("u"))]}]

-----------------------------------------------------------------------------
CacheConf == [category |-> "cache", bad |-> {}, headers |-> <<"x-lang">>, namespace |-> "",
              skip |-> {<<"skip">>}, purgeIps |-> {"ip1"}]
Image == [category |-> "image_optim", bad |-> {}, outputs |-> <<"avif", "webp">>]
Lang(l) == [H EXCEPT !.headers = With("x-lang", Text(l))]

\* a cache in front of an upstream whose answer depends on a header and of
\* image_optim, whose answer depends on Accept
Caching ==
  [Base EXCEPT
     !.chain = <<"cache", "image">>,
     !.start = [cache |-> CacheConf, image |-> Image],
     !.inputs = {H, Lang("en"), [Lang("de") EXCEPT !.accept = {"avif", "webp"}],
                 [Lang("en") EXCEPT !.accept = {"webp"}],
                 [Lang("en") EXCEPT !.method = "PURGE"],
                 [H EXCEPT !.method = "POST"]},
     !.upstream = [Up EXCEPT !.format = "png", !.vary = <<"x-lang">>, !.cacheable = TRUE]]
Purging ==
  [Caching EXCEPT !.chain = <<"cache">>, !.start = [cache |-> CacheConf],
                  !.requests = 3, !.together = 1,
                  !.inputs = {H, At(<<"skip">>), [H EXCEPT !.method = "PURGE"],
                              [H EXCEPT !.method = "PURGE", !.remote = "unix"],
                              [H EXCEPT !.method = "PURGE", !.remote = "ip2"]}]

CorsConf == [category |-> "cors", bad |-> {}, paths |-> {<<"data">>},
             allowOrigin |-> "$http_origin"]
Compress == [category |-> "compression", bad |-> {}, encodings |-> {"gzip", "br"}]
Encodings == [category |-> "accept_encoding", bad |-> {}, encodings |-> <<"br", "gzip">>,
              onlyOne |-> TRUE]
Headers == [category |-> "response_headers", bad |-> {},
            add |-> <<[name |-> "x-a", value |-> "$host"], [name |-> "x-a", value |-> "1"]>>,
            remove |-> <<[name |-> "server"]>>, set |-> <<[name |-> "x-b", value |-> "2"]>>,
            setMissing |-> <<[name |-> "x-a", value |-> "3"]>>,
            rename |-> <<[name |-> "x-a", to |-> "x-c"]>>]
Origin == [H EXCEPT !.headers = With("origin", Text("o"))]
Responses ==
  [Base EXCEPT
     !.chain = <<"encodings", "compress", "cors", "headers", "sub">>,
     !.start = [encodings |-> Encodings, compress |-> Compress, cors |-> CorsConf,
                headers |-> Headers, sub |-> [Sub EXCEPT !.paths = {<<"data">>}]],
     !.tables = {[encodings |-> [Encodings EXCEPT !.onlyOne = FALSE], compress |-> Compress,
                  cors |-> CorsConf, headers |-> Headers, sub |-> NoConf]},
     !.requests = 1,
     !.inputs = {H, Origin, At(<<"page">>), [Origin EXCEPT !.method = "OPTIONS"],
                 [H EXCEPT !.encodings = {"gzip", "br", "zstd"}]}]

\* the default allow_origin, which fails preflights
CorsDefault ==
  [Responses EXCEPT !.start["cors"] = [CorsConf EXCEPT !.allowOrigin = "*"],
                    !.tables = {}]

MCSetup == {Auth, Jwt, JwtLast, CsrfSetup, CsrfBad, CombinedSetup, Rates, Restrict, Answering,
            Silence, Static, Admin, Guessing, Crowd, Limits, TwoLimits, Caching, Purging,
            Responses, CorsDefault}

\* what the theorems ask of a configuration is true of every setup
ASSUME SetupsFit ==
  \A s \in MCSetup : GuardsApart(s) /\ TokensIssued(s) /\ LengthsKept(s) /\ VariantsTold(s)
=============================================================================
