--------------------------- MODULE PluginRequest ---------------------------
(***************************************************************************)
(* What the plugins of pingap share: the request header a plugin may       *)
(* rewrite, the Ctx it may fill, the response header it may change, and    *)
(* the steps of the loop in src/src/proxy/server.rs that calls the plugins *)
(* of a location one after the other.                                      *)
(*                                                                         *)
(* A header, query or cookie value is [text, at, mac]: plain text, or text *)
(* that carries a time and was signed with a secret (a CSRF token, a JWT,  *)
(* a digest).  Signatures are taken to be unforgeable.                     *)
(***************************************************************************)
EXTENDS Integers, Sequences, FiniteSets

CONSTANTS
  Req,        \* requests, 1..n in the order they arrive
  Setup,      \* what a run starts from: the location's chain, the configurations at
              \* the start and those of reloads, the requests clients may send, the
              \* upstream, and the bounds requests, together (in flight at once) and
              \* seconds
  TableSize,  \* entries of the table of failed logins: 512 in the code
  NoConf, None

VARIABLES
  setup,      \* the location, its upstream and the configurations of this run
  plugins,    \* PLUGINS: name -> [conf, gen]; conf is NoConf when not loaded
  gens,       \* generations allocated for a name
  clock,      \* now_sec
  pc,         \* the PluginStep a request is in, or where it is outside of them
  at,         \* position in location.plugins
  head,       \* RequestHeader as the plugins have left it
  asked,      \* history: the header the client sent and when
  ctx,        \* Ctx
  resp,       \* ResponseHeader and body on their way to the client
  sent,       \* history: responses written to the client
  inflight,   \* the counters of Inflight: <<name, gen, key>> -> count
  rate,       \* the windows of Rate: <<name, gen, key>> -> [cur, prev]
  store,      \* the response cache: key -> response
  logins,     \* ip_fail_limit of the admin plugin: ip -> TtlLimit
  seen,       \* the plugin object and the TtlLimit an admin request works with
  issued,     \* history: tokens handed out
  fails,      \* history: <<request, ip, time>> of refused logins
  touched,    \* history: names reloaded or not loaded while a request ran
  odd         \* history: limiters whose guard was overwritten, and ips whose
              \* logins overlapped or whose entry the table has lost

shared == <<inflight, rate, store, logins, issued>>
history == <<asked, fails, odd>>
vars == <<setup, plugins, gens, clock, pc, at, head, asked, ctx, resp, sent,
          inflight, rate, store, logins, seen, issued, fails, touched, odd>>

-----------------------------------------------------------------------------
(* Values, headers, queries and cookies.                                     *)

Text(s) == [text |-> s, at |-> 0, mac |-> ""]
Signed(s, t, key) == [text |-> s, at |-> t, mac |-> key]
Nothing == Text("")

Get(f, n) == IF n \in DOMAIN f THEN f[n] ELSE Nothing
Put(f, n, v) == [x \in DOMAIN f \cup {n} |-> IF x = n THEN v ELSE f[x]]
Drop(f, n) == [x \in DOMAIN f \ {n} |-> f[x]]

Elements(s) == {s[i] : i \in DOMAIN s}
\* the elements of a list that are in S
Kept(list, S) ==
  LET f[i \in 0..Len(list)] ==
        IF i = 0 THEN <<>> ELSE IF list[i] \in S THEN Append(f[i - 1], list[i]) ELSE f[i - 1]
  IN f[Len(list)]

GetHeader(h, n) == Get(h.headers, n)
GetQuery(h, n) == Get(h.query, n)

\* The Cookie header is split at ';' and the names are compared untrimmed: a
\* client writes "; " between cookies, so only the first one has its own name.
GetCookie(h, n) ==
  IF h.cookies # <<>> /\ h.cookies[1].name = n THEN h.cookies[1].value ELSE Nothing

\* get_client_ip: X-Forwarded-For, X-Real-Ip, then the peer address
GetClientIp(h) ==
  IF GetHeader(h, "x-forwarded-for") # Nothing THEN GetHeader(h, "x-forwarded-for").text
  ELSE IF GetHeader(h, "x-real-ip") # Nothing THEN GetHeader(h, "x-real-ip").text
  ELSE h.remote

\* remove_query_from_header
RemoveQuery(h, n) == [h EXCEPT !.query = Drop(@, n)]
RemoveHeader(h, n) == [h EXCEPT !.headers = Drop(@, n)]

\* convert_header_value: only a value that starts with '$' or ':' is converted, "" is None
\* (no conversion, or the variable has no value).  Five of its variables; those of the
\* server, the upstream, the ports, the environment and the rest of the Ctx are left out
ConvertHeaderValue(v, h, c) ==
  CASE v = "$host"        -> h.host
    [] v = "$scheme"      -> IF h.tls THEN "https" ELSE "http"
    [] v = "$remote_addr" -> h.remote
    [] v = "$http_origin" -> GetHeader(h, "origin").text
    [] v = ":request_id"  -> c.id
    [] OTHER              -> ""

\* the value a header is set to: its conversion, else the text itself
HeaderValue(v, h, c) ==
  IF ConvertHeaderValue(v, h, c) # "" THEN ConvertHeaderValue(v, h, c) ELSE v

StartsWith(path, prefix) ==
  /\ Len(prefix) <= Len(path)
  /\ SubSeq(path, 1, Len(prefix)) = prefix

\* IpRules::is_match; an address that is not in the list and does not parse is
\* an error
IpError(list, ip) == ip \notin list /\ ip = "unix"

-----------------------------------------------------------------------------
(* The loop over location.plugins.                                           *)

\* ctx.modify_response_body: which plugin set it and the secret it signs with
Modify(by, key) == [by |-> by, key |-> key]
NoModify == Modify("", "")

\* what plugins read of a RequestHeader
HeadFields == {"path", "method", "upgrade", "tls", "host", "remote", "headers", "query",
               "cookies", "accept", "encodings", "token"}

\* Ctx::new; a Guard is the counter it holds, <<>> is none
NewCtx == [ip |-> "", id |-> "", ns |-> "", keys |-> <<>>, caching |-> FALSE, hit |-> FALSE,
           guard |-> <<>>, body |-> NoModify, upstreamBody |-> "", level |-> 0,
           admitted |-> {}]
NoBody == [format |-> "", vary |-> <<>>, signed |-> FALSE, replaced |-> FALSE]
NoResp == [status |-> 0, headers |-> <<>>, body |-> NoBody]

RequestStep == {"early_request", "request", "proxy_upstream"}
ResponseStep == {"upstream_response", "response"}
PluginStep == RequestStep \cup ResponseStep
InFlight(r) == pc[r] \notin {"idle", "done"}

Chain == setup.chain
Name(r) == Chain[at[r]]
Plugin(r) == plugins[Name(r)].conf
Object(r) == <<Name(r), plugins[Name(r)].gen>>

\* get_plugin(name) finds a plugin of that category and its handler is called;
\* an upgrade request skips the loop
Calls(r, category, step) ==
  /\ pc[r] = step
  /\ ~head[r].upgrade
  /\ at[r] <= Len(Chain)
  /\ Plugin(r) # NoConf
  /\ Plugin(r).category = category

\* (handled, None): on to the next plugin
Continue(r) ==
  /\ at' = [at EXCEPT ![r] = @ + 1]
  /\ UNCHANGED <<setup, plugins, gens, clock, pc, resp, sent, seen, touched>>

\* a plugin changed the request header or the Ctx and nothing else
Rewrite(r, h, c) ==
  /\ head' = [head EXCEPT ![r] = h]
  /\ ctx' = [ctx EXCEPT ![r] = c]
  /\ UNCHANGED <<shared, history>>
  /\ Continue(r)

Pass(r) == Rewrite(r, head[r], ctx[r])

\* (handled, Some(response)) from a handler that has written some responses
\* itself: a status of 900 or more is not sent; the answer ends the request,
\* except in early_request_filter, which ignores it
AnsweredAfter(r, written, status) ==
  /\ sent' = [sent EXCEPT ![r] = @ + written + (IF status < 900 THEN 1 ELSE 0)]
  /\ resp' = [resp EXCEPT ![r] = [NoResp EXCEPT !.status = status]]
  /\ IF pc[r] = "early_request"
     THEN pc' = [pc EXCEPT ![r] = "request"] /\ at' = [at EXCEPT ![r] = 1]
     ELSE pc' = [pc EXCEPT ![r] = "logging"] /\ UNCHANGED at
  /\ UNCHANGED <<setup, plugins, gens, clock, touched>>

Answered(r, status) == AnsweredAfter(r, 0, status)

Answer(r, status) ==
  /\ Answered(r, status)
  /\ UNCHANGED <<head, ctx, shared, history, seen>>

\* Err: fail_to_proxy writes an error response
Fail(r, status) ==
  /\ sent' = [sent EXCEPT ![r] = @ + 1]
  /\ resp' = [resp EXCEPT ![r] = [NoResp EXCEPT !.status = status]]
  /\ pc' = [pc EXCEPT ![r] = "logging"]
  /\ UNCHANGED <<setup, plugins, gens, clock, at, head, ctx, shared, history, seen,
                 touched>>

\* a response plugin is done
Respond(r, p, c) ==
  /\ resp' = [resp EXCEPT ![r] = p]
  /\ ctx' = [ctx EXCEPT ![r] = c]
  /\ at' = [at EXCEPT ![r] = @ + 1]
  /\ UNCHANGED <<setup, plugins, gens, clock, pc, head, sent, shared, history, seen,
                 touched>>

\* the fields of a configuration whose text does not parse
Parses(conf, fields) == conf.bad \cap fields = {}
=============================================================================
