---------------------------- MODULE AuthPlugins ----------------------------
(***************************************************************************)
(* The plugins that let a request through or refuse it: basic_auth,        *)
(* key_auth, jwt, combined_auth, csrf, ip_restriction, ua_restriction and  *)
(* referer_restriction (src/pingap-plugin/src).  For each one, Valid says  *)
(* which configurations its constructor accepts, and the action is its     *)
(* handle_request.  The delay before a refusal is left out: nothing is     *)
(* read after it.                                                          *)
(***************************************************************************)
EXTENDS PluginRequest

-----------------------------------------------------------------------------
(* basic_auth                                                                *)

BasicAuthValid(c) ==
  Parses(c, {"delay", "authorizations"}) /\ c.authorizations # {}

BasicAuth(r) ==
  /\ Calls(r, "basic_auth", "request")
  /\ LET p == Plugin(r)
         value == GetHeader(head[r], "authorization")
     IN IF value = Nothing \/ value.text \notin p.authorizations
        THEN Answer(r, 401)
        ELSE Rewrite(r, IF p.hide THEN RemoveHeader(head[r], "authorization")
                                  ELSE head[r], ctx[r])

-----------------------------------------------------------------------------
(* key_auth: a query parameter, or else a header                             *)

KeyAuthValid(c) ==
  /\ Parses(c, {"delay"})
  /\ c.query # "" \/ (c.header # "" /\ Parses(c, {"header"}))
  /\ c.keys # {}

KeyAuth(r) ==
  /\ Calls(r, "key_auth", "request")
  /\ LET p == Plugin(r)
         value == IF p.query # "" THEN GetQuery(head[r], p.query)
                                  ELSE GetHeader(head[r], p.header)
         hidden == IF p.query # "" THEN RemoveQuery(head[r], p.query)
                                   ELSE RemoveHeader(head[r], p.header)
     IN IF value = Nothing \/ value.text \notin p.keys
        THEN Answer(r, 401)
        ELSE Rewrite(r, IF p.hide THEN hidden ELSE head[r], ctx[r])

-----------------------------------------------------------------------------
(* jwt: handle_request checks a token, handle_response makes one of the body *)
(* of auth_path.                                                             *)

JwtAuthValid(c) ==
  /\ Parses(c, {"delay"})
  /\ \E f \in {"header", "cookie", "query"} : c[f] # ""
  /\ c.secret # ""

\* header, then cookie, then query
JwtValue(p, h) ==
  IF p.header # "" THEN GetHeader(h, p.header)
  ELSE IF p.cookie # "" THEN GetCookie(h, p.cookie)
  ELSE GetQuery(h, p.query)

\* three parts, the signature, and exp when there is one (0: none)
JwtAccepts(p, value, now) ==
  /\ value.text = "jwt"
  /\ value.mac = p.secret
  /\ value.at = 0 \/ value.at >= now

JwtAuth(r) ==
  /\ Calls(r, "jwt", "request")
  /\ LET p == Plugin(r)
     IN IF head[r].path = p.authPath \/ JwtAccepts(p, JwtValue(p, head[r]), clock)
        THEN Pass(r)
        ELSE Answer(r, 401)

\* the response of auth_path: its body becomes a token, whatever it says
JwtAuthResponse(r) ==
  /\ Calls(r, "jwt", "response")
  /\ LET p == Plugin(r)
     IN IF head[r].path # p.authPath
        THEN Respond(r, resp[r], ctx[r])
        ELSE Respond(r, [resp[r] EXCEPT
                           !.headers = Put(Put(Drop(@, "content-length"),
                                               "content-type", <<"json">>),
                                           "transfer-encoding", <<"chunked">>)],
                     [ctx[r] EXCEPT !.body = Modify("jwt", p.secret)])

-----------------------------------------------------------------------------
(* combined_auth: app_id, ts and digest in the query                         *)

CombinedAuthValid(c) == Parses(c, {"authorizations"})

CombinedAccepts(p, h, now) ==
  LET app == GetQuery(h, "app_id").text
      ts == GetQuery(h, "ts")
      digest == GetQuery(h, "digest")
  IN /\ app \in DOMAIN p.auths
     /\ LET a == p.auths[app]
        IN \/ a.secret = "*"
           \/ /\ a.ips # {} => GetClientIp(h) \in a.ips
              /\ ts.text = "ts"
              /\ now - ts.at <= a.deviation /\ ts.at - now <= a.deviation
              /\ digest = Signed("digest", ts.at, a.secret)

CombinedAuth(r) ==
  /\ Calls(r, "combined_auth", "request")
  /\ IF CombinedAccepts(Plugin(r), head[r], clock) THEN Pass(r) ELSE Answer(r, 401)

-----------------------------------------------------------------------------
(* csrf: token_path hands out a token, other requests that change something  *)
(* have to return it in a header and in the cookie.                          *)

CsrfValid(c) == Parses(c, {"ttl"}) /\ c.tokenPath # <<>> /\ c.key # ""

\* validate_token; now - ts wraps to a value above every ttl for a time to come
ValidateToken(p, token, now) ==
  /\ token.text = "token"
  /\ p.ttl > 0 => token.at <= now /\ now - token.at <= p.ttl
  /\ token.mac = p.key

GenerateToken(p, now) == Signed("token", now, p.key)

CsrfToken(r) ==
  /\ Calls(r, "csrf", "request")
  /\ head[r].path = Plugin(r).tokenPath
  /\ \/ /\ Parses(Plugin(r), {"name"})
        /\ issued' = issued \cup {GenerateToken(Plugin(r), clock)}
        /\ Answered(r, 204)
        /\ UNCHANGED <<head, ctx, inflight, rate, store, logins, history, seen>>
     \/ /\ ~Parses(Plugin(r), {"name"})     \* Set-Cookie is no header value
        /\ Fail(r, 400)

Csrf(r) ==
  /\ Calls(r, "csrf", "request")
  /\ head[r].path # Plugin(r).tokenPath
  /\ LET p == Plugin(r)
         value == GetHeader(head[r], p.name)
     IN IF \/ head[r].method \in {"GET", "HEAD", "OPTIONS"}
           \/ /\ value # Nothing
              /\ value = GetCookie(head[r], p.name)
              /\ ValidateToken(p, value, clock)
        THEN Pass(r)
        ELSE Answer(r, 401)

-----------------------------------------------------------------------------
(* ip_restriction, ua_restriction, referer_restriction: a list that denies,  *)
(* or one that allows (any other type).                                      *)

IpRestrictionValid(c) == TRUE
UaRestrictionValid(c) == Parses(c, {"ua_list"})
RefererRestrictionValid(c) == TRUE

Allow(p, found) == IF p.type = "deny" THEN ~found ELSE found

\* the address is taken from the Ctx when another plugin has put it there
IpRestriction(r) ==
  /\ Calls(r, "ip_restriction", "request")
  /\ LET p == Plugin(r)
         ip == IF ctx[r].ip # "" THEN ctx[r].ip ELSE GetClientIp(head[r])
     IN IF IpError(p.list, ip) THEN Answer(r, 400)
        ELSE IF Allow(p, ip \in p.list)
             THEN Rewrite(r, head[r], [ctx[r] EXCEPT !.ip = ip])
             ELSE Answer(r, 403)

UaRestriction(r) ==
  /\ Calls(r, "ua_restriction", "request")
  /\ LET p == Plugin(r)
     IN IF Allow(p, GetHeader(head[r], "user-agent").text \in p.list)
        THEN Pass(r) ELSE Answer(r, 403)

\* exact hosts, and the suffixes written with a leading '*' (a suffix is the set of
\* hosts that end with it); a referer that is no URL has the host ""
RefererRestriction(r) ==
  /\ Calls(r, "referer_restriction", "request")
  /\ LET p == Plugin(r)
         host == GetHeader(head[r], "referer").text
         found == /\ "referer" \in DOMAIN head[r].headers
                  /\ host \in p.list \/ \E s \in p.suffixes : host \in s
     IN IF Allow(p, found) THEN Pass(r) ELSE Answer(r, 403)
=============================================================================
