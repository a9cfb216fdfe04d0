-------------------------- MODULE PluginGateProofs --------------------------
(***************************************************************************)
(* What the plugins of a location promise together, for any chain, any     *)
(* reloads and any requests, when the configurations do not get in each    *)
(* other's way (GuardsApart, TokensIssued, LengthsKept and VariantsTold of *)
(* PluginChain): the guards are enforced, a body leaves as its last plugin *)
(* makes it, and a hit is the variant of the client that asks.             *)
(***************************************************************************)
EXTENDS PluginChainProofs, WellFoundedInduction

-----------------------------------------------------------------------------
(* The shapes a step of a request may have.                                  *)

\* What a step of one request does to the others.
Apart(r) ==
  /\ UNCHANGED <<setup, plugins, clock>> /\ issued \subseteq issued'
  /\ DOMAIN asked' = Req /\ DOMAIN resp' = Req /\ DOMAIN touched' = Req
  /\ \A s \in Req \ {r} :
       /\ pc'[s] = pc[s] /\ at'[s] = at[s] /\ head'[s] = head[s] /\ asked'[s] = asked[s]
       /\ ctx'[s] = ctx[s] /\ resp'[s] = resp[s] /\ touched'[s] = touched[s]
Views == DOMAIN asked = Req /\ DOMAIN resp = Req /\ DOMAIN touched = Req

\* The plugin at place at[r] is done with the request and lets it go on.
Passes(r, h, c) ==
  /\ pc[r] \in RequestStep /\ ~head[r].upgrade /\ at[r] <= Len(Chain)
  /\ pc'[r] = pc[r] /\ at'[r] = at[r] + 1
  /\ head'[r] = h /\ ctx'[r] = c /\ resp'[r] = resp[r]
  /\ UNCHANGED <<asked, touched, store, issued>>
\* It ends the request.
Ends(r) ==
  /\ pc[r] \in Handled /\ pc'[r] = "logging" /\ resp'[r].body = NoBody /\ head'[r] = head[r]
  /\ UNCHANGED <<asked, touched>>
  /\ store' = store \/ \E k : store' = Drop(store, k)
  /\ issued' = issued \/ \E k : issued' = issued \cup {Signed("token", clock, k)}
\* The admin plugin looks at a login.
Waits(r) ==
  /\ pc'[r] \in LoginStep
  /\ UNCHANGED <<at, head, asked, ctx, resp, touched, store, issued>>
\* A plugin is done with the response.
Responds(r, p, c) ==
  /\ pc[r] \in ResponseStep /\ ~head[r].upgrade /\ at[r] <= Len(Chain)
  /\ pc'[r] = pc[r] /\ at'[r] = at[r] + 1
  /\ head'[r] = head[r] /\ ctx'[r] = c /\ resp'[r] = p
  /\ UNCHANGED <<asked, touched, store, issued>>

\* What plugins do to a request header.
HeadChange(r, h) ==
  \/ h = head[r]
  \/ /\ pc[r] = "early_request"
     /\ \E e : h = [head[r] EXCEPT !.encodings = e]
  \/ /\ pc[r] = "request" /\ Plugin(r) # NoConf
     /\ \/ \E n \in HidesHeader(Plugin(r)) : h = RemoveHeader(head[r], n)
        \/ \E n \in HidesQuery(Plugin(r)) : h = RemoveQuery(head[r], n)
  \/ /\ pc[r] # "early_request" /\ Plugin(r) # NoConf
     /\ \E n \in MakesUp(Plugin(r)) : h = [head[r] EXCEPT !.headers = Put(@, n, Text("generated"))]

\* What they do to the Ctx: the body is left to the response, an address is that of the
\* header, and only cache and image_optim make keys.
CtxChange(r, c) ==
  /\ DOMAIN c = CtxFields /\ c.body = ctx[r].body /\ c.upstreamBody = ctx[r].upstreamBody
  /\ \/ c.ip = ctx[r].ip
     \/ /\ pc[r] # "early_request" /\ Plugin(r) # NoConf /\ JudgesBy(Plugin(r)) = ClientIpHeaders
        /\ c.ip = GetClientIp(head[r])
  /\ \/ c.keys = ctx[r].keys /\ c.caching = ctx[r].caching
     \/ /\ pc[r] = "request" /\ Plugin(r) # NoConf /\ Plugin(r).category = "cache"
        /\ c.keys = CacheCtx(r).keys /\ c.caching
     \/ /\ pc[r] = "request" /\ Plugin(r) # NoConf /\ Plugin(r).category = "image_optim"
        /\ c.keys = ctx[r].keys \o AcceptImages(Plugin(r), head[r])
        /\ c.caching = ctx[r].caching
  \* image_optim is not left out
  /\ pc[r] = "request" /\ Plugin(r) # NoConf /\ Plugin(r).category = "image_optim" =>
       c.keys = ctx[r].keys \o AcceptImages(Plugin(r), head[r])

Shape(r) ==
  \/ \E h, c : Passes(r, h, c) /\ HeadChange(r, h) /\ CtxChange(r, c)
  \/ Ends(r) \/ Waits(r)
  \/ (Response(r) \/ Skip(r)) /\ \E p, c : Responds(r, p, c)
  \/ StepEnd(r) \/ Lookup(r) \/ Upstream(r) \/ Store(r) \/ Body(r) \/ Logging(r)

-----------------------------------------------------------------------------
(* The ends of a handler.                                                    *)

LEMMA RewriteShape ==
  ASSUME RequestsOK, Views, NEW r \in Req, NEW h, NEW c, Rewrite(r, h, c),
         pc[r] \in RequestStep, ~head[r].upgrade, at[r] <= Len(Chain)
  PROVE  Apart(r) /\ Passes(r, h, c)
BY DEF RequestsOK, Views, Rewrite, Continue, Apart, Passes, shared, history

LEMMA AnsweredShape ==
  ASSUME RequestsOK, Views, NEW r \in Req, NEW w, NEW s, AnsweredAfter(r, w, s),
         pc[r] \in Handled, pc[r] # "early_request", head' = head, asked' = asked,
         \A x \in Req \ {r} : ctx'[x] = ctx[x],
         store' = store \/ \E k : store' = Drop(store, k),
         issued' = issued \/ \E k : issued' = issued \cup {Signed("token", clock, k)}
  PROVE  Apart(r) /\ Ends(r)
<1>1. NoResp.body = NoBody /\ [NoResp EXCEPT !.status = s].body = NoBody
  BY DEF NoResp
<1>2. resp'[r].body = NoBody /\ DOMAIN resp' = Req /\ \A x \in Req \ {r} : resp'[x] = resp[x]
  BY <1>1 DEF Views, AnsweredAfter
<1>3. pc' = [pc EXCEPT ![r] = "logging"] /\ at' = at /\ UNCHANGED <<setup, plugins, clock, touched>>
  BY DEF AnsweredAfter
<1>. QED BY <1>2, <1>3 DEF RequestsOK, Views, Apart, Ends

LEMMA AnswerShape ==
  ASSUME RequestsOK, Views, NEW r \in Req, pc[r] \in Handled, pc[r] # "early_request"
  PROVE  /\ \A s : Answer(r, s) => Apart(r) /\ Ends(r)
         /\ \A s : Fail(r, s) => Apart(r) /\ Ends(r)
<1>1. ASSUME NEW s, Answer(r, s)
      PROVE  Apart(r) /\ Ends(r)
  <2>1. AnsweredAfter(r, 0, s) /\ UNCHANGED <<head, asked, ctx, store, issued>>
    BY <1>1 DEF Answer, Answered, shared, history
  <2>. QED BY <2>1, AnsweredShape
<1>2. ASSUME NEW s, Fail(r, s)
      PROVE  Apart(r) /\ Ends(r)
  <2>1. [NoResp EXCEPT !.status = s].body = NoBody
    BY DEF NoResp
  <2>2. resp'[r].body = NoBody /\ DOMAIN resp' = Req /\ \A x \in Req \ {r} : resp'[x] = resp[x]
    BY <1>2, <2>1 DEF Views, Fail
  <2>. QED BY <1>2, <2>2 DEF RequestsOK, Views, Apart, Ends, Fail, shared, history
<1>. QED BY <1>1, <1>2

LEMMA RespondShape ==
  ASSUME RequestsOK, Views, NEW r \in Req, NEW p, NEW c, Respond(r, p, c),
         pc[r] \in ResponseStep, ~head[r].upgrade, at[r] <= Len(Chain)
  PROVE  Apart(r) /\ Responds(r, p, c)
BY DEF RequestsOK, Views, Respond, Apart, Responds, shared, history

\* A Ctx that is left alone, or whose id or level is set.
LEMMA CtxSame ==
  ASSUME RequestsOK, NEW r \in Req, pc[r] \in Handled,
         pc[r] = "request" /\ Plugin(r) # NoConf => Plugin(r).category # "image_optim"
  PROVE  /\ CtxChange(r, ctx[r])
         /\ \A x : CtxChange(r, [ctx[r] EXCEPT !.id = x]) /\ CtxChange(r, [ctx[r] EXCEPT !.level = x])
<1>1. DOMAIN ctx[r] = CtxFields
  BY Flying
<1>2. CtxChange(r, ctx[r])
  BY <1>1 DEF CtxChange
<1>3. ASSUME NEW x, NEW c, c \in {[ctx[r] EXCEPT !.id = x], [ctx[r] EXCEPT !.level = x]}
      PROVE  CtxChange(r, c)
  <2>1. DOMAIN c = CtxFields /\ c.body = ctx[r].body /\ c.upstreamBody = ctx[r].upstreamBody
        /\ c.ip = ctx[r].ip /\ c.keys = ctx[r].keys /\ c.caching = ctx[r].caching
    BY <1>1, <1>3 DEF CtxFields
  <2>. QED BY <2>1 DEF CtxChange
<1>. QED BY <1>2, <1>3

\* A handler that is called in a step of the request.
LEMMA CalledShape ==
  ASSUME TableOK, RequestsOK, Views, NEW r \in Req, NEW category, Calls(r, category, pc[r]),
         pc[r] \in RequestStep
  PROVE  /\ pc[r] \in Handled /\ ~head[r].upgrade /\ at[r] <= Len(Chain)
         /\ Plugin(r) # NoConf /\ Plugin(r).category = category
         /\ \A h, c : Rewrite(r, h, c) => Apart(r) /\ Passes(r, h, c)
         /\ \A h, c : Rewrite(r, h, c) /\ HeadChange(r, h) /\ CtxChange(r, c) => Apart(r) /\ Shape(r)
         /\ category # "image_optim" /\ Pass(r) => Apart(r) /\ Shape(r)
         /\ pc[r] # "early_request" => \A s : Answer(r, s) \/ Fail(r, s) => Apart(r) /\ Shape(r)
<1>1. pc[r] \in Handled /\ ~head[r].upgrade /\ at[r] <= Len(Chain) /\ Plugin(r) # NoConf
      /\ Plugin(r).category = category
  BY PlaceFacts DEF Calls
<1>2. ASSUME NEW h, NEW c, Rewrite(r, h, c)
      PROVE  Apart(r) /\ Passes(r, h, c)
  BY <1>1, <1>2, RewriteShape
<1>3. ASSUME NEW h, NEW c, Rewrite(r, h, c), HeadChange(r, h), CtxChange(r, c)
      PROVE  Apart(r) /\ Shape(r)
  BY <1>2, <1>3 DEF Shape
<1>4. ASSUME category # "image_optim", Pass(r)
      PROVE  Apart(r) /\ Shape(r)
  <2>1. HeadChange(r, head[r]) /\ CtxChange(r, ctx[r])
    BY <1>1, <1>4, CtxSame DEF HeadChange
  <2>. QED BY <1>3, <1>4, <2>1 DEF Pass
<1>5. ASSUME pc[r] # "early_request", NEW s, Answer(r, s) \/ Fail(r, s)
      PROVE  Apart(r) /\ Shape(r)
  BY <1>1, <1>5, AnswerShape DEF Shape
<1>. QED BY <1>1, <1>2, <1>3, <1>4, <1>5

\* One that passes.
LEMMA PassShape ==
  ASSUME TableOK, RequestsOK, Views, NEW r \in Req, NEW category, category # "image_optim",
         Calls(r, category, pc[r]), pc[r] \in RequestStep, Pass(r)
  PROVE  Apart(r) /\ Shape(r)
BY CalledShape

\* One that passes or answers.
LEMMA PassOrAnswer ==
  ASSUME TableOK, RequestsOK, Views, NEW r \in Req, NEW category, category # "image_optim",
         Calls(r, category, pc[r]), pc[r] \in RequestStep, pc[r] # "early_request",
         Pass(r) \/ \E s : Answer(r, s) \/ Fail(r, s)
  PROVE  Apart(r) /\ Shape(r)
BY CalledShape

LEMMA GuardShape ==
  ASSUME TableOK, RequestsOK, Views, NEW r \in Req, Guard(r)
  PROVE  Apart(r) /\ Shape(r)
<1>0. pc[r] = "request" /\ pc[r] \in RequestStep /\ pc[r] # "early_request"
  BY DEF Guard, BasicAuth, KeyAuth, JwtAuth, CombinedAuth, CsrfToken, Csrf,
         IpRestriction, UaRestriction, RefererRestriction, Calls, RequestStep
<1>1. CASE BasicAuth(r)
  <2>1. Calls(r, "basic_auth", pc[r])
    BY <1>0, <1>1 DEF BasicAuth
  <2>2. PICK h : Answer(r, 401) \/ (Rewrite(r, h, ctx[r])
                   /\ h = IF Plugin(r).hide THEN RemoveHeader(head[r], "authorization") ELSE head[r])
    BY <1>1 DEF BasicAuth
  <2>3. CASE Rewrite(r, h, ctx[r])
               /\ h = IF Plugin(r).hide THEN RemoveHeader(head[r], "authorization") ELSE head[r]
    <3>1. Plugin(r) # NoConf /\ Plugin(r).category = "basic_auth" /\ pc[r] \in Handled
      BY <1>0, <2>1, CalledShape
    <3>2. Plugin(r).hide => HidesHeader(Plugin(r)) = {"authorization"}
      BY <3>1 DEF HidesHeader
    <3>3. HeadChange(r, h)
      BY <1>0, <2>3, <3>1, <3>2 DEF HeadChange
    <3>4. CtxChange(r, ctx[r])
      BY <3>1, CtxSame
    <3>. QED BY <1>0, <2>1, <2>3, <3>3, <3>4, CalledShape
  <2>. QED BY <1>0, <2>1, <2>2, <2>3, CalledShape
<1>2. CASE KeyAuth(r)
  <2>1. Calls(r, "key_auth", pc[r])
    BY <1>0, <1>2 DEF KeyAuth
  <2>. DEFINE p == Plugin(r)
              hidden == IF p.query # "" THEN RemoveQuery(head[r], p.query)
                                        ELSE RemoveHeader(head[r], p.header)
  <2>2. PICK h : Answer(r, 401) \/ (Rewrite(r, h, ctx[r]) /\ h = IF p.hide THEN hidden ELSE head[r])
    BY <1>2 DEF KeyAuth
  <2>3. CASE Rewrite(r, h, ctx[r]) /\ h = IF p.hide THEN hidden ELSE head[r]
    <3>1. p # NoConf /\ p.category = "key_auth" /\ pc[r] \in Handled
      BY <1>0, <2>1, CalledShape
    <3>2. p.hide => IF p.query # "" THEN p.query \in HidesQuery(p) ELSE p.header \in HidesHeader(p)
      BY <3>1 DEF HidesHeader, HidesQuery
    <3>3. HeadChange(r, h)
      BY <1>0, <2>3, <3>1, <3>2 DEF HeadChange
    <3>4. CtxChange(r, ctx[r])
      BY <3>1, CtxSame
    <3>. QED BY <1>0, <2>1, <2>3, <3>3, <3>4, CalledShape
  <2>. QED BY <1>0, <2>1, <2>2, <2>3, CalledShape
<1>3. CASE JwtAuth(r)
  <2>1. Calls(r, "jwt", pc[r]) /\ (Pass(r) \/ Answer(r, 401))
    BY <1>0, <1>3 DEF JwtAuth
  <2>. QED BY <1>0, <2>1, PassOrAnswer
<1>4. CASE CombinedAuth(r)
  BY <1>0, <1>4, CalledShape DEF CombinedAuth
<1>5. CASE CsrfToken(r)
  <2>1. Calls(r, "csrf", pc[r])
    BY <1>0, <1>5 DEF CsrfToken
  <2>2. CASE Fail(r, 400)
    BY <1>0, <2>1, <2>2, PassOrAnswer
  <2>3. CASE ~Fail(r, 400)
    <3>1. AnsweredAfter(r, 0, 204) /\ UNCHANGED <<head, ctx, asked, store>>
      BY <1>5, <2>3 DEF CsrfToken, Answered, history
    <3>2. \E k : issued' = issued \cup {Signed("token", clock, k)}
      BY <1>5, <2>3 DEF CsrfToken, GenerateToken
    <3>3. pc[r] \in Handled
      BY <1>0, <2>1, CalledShape
    <3>. QED BY <1>0, <3>1, <3>2, <3>3, AnsweredShape DEF Shape
  <2>. QED BY <2>2, <2>3
<1>6. CASE Csrf(r)
  BY <1>0, <1>6, CalledShape DEF Csrf
<1>7. CASE IpRestriction(r)
  <2>1. Calls(r, "ip_restriction", pc[r])
    BY <1>0, <1>7 DEF IpRestriction
  <2>2. PICK ip : Answer(r, 400) \/ Answer(r, 403)
                  \/ (Rewrite(r, head[r], [ctx[r] EXCEPT !.ip = ip])
                      /\ ip \in {ctx[r].ip, GetClientIp(head[r])})
    BY <1>7 DEF IpRestriction
  <2>3. CASE Rewrite(r, head[r], [ctx[r] EXCEPT !.ip = ip]) /\ ip \in {ctx[r].ip, GetClientIp(head[r])}
    <3>1. Plugin(r) # NoConf /\ Plugin(r).category = "ip_restriction" /\ pc[r] \in Handled
      BY <1>0, <2>1, CalledShape
    <3>2. JudgesBy(Plugin(r)) = ClientIpHeaders
      BY <3>1 DEF JudgesBy
    <3>3. PICK c : c = [ctx[r] EXCEPT !.ip = ip]
      OBVIOUS
    <3>4. DOMAIN c = CtxFields /\ c.body = ctx[r].body /\ c.upstreamBody = ctx[r].upstreamBody
          /\ c.ip = ip /\ c.keys = ctx[r].keys /\ c.caching = ctx[r].caching
      BY <3>1, <3>3, Flying DEF CtxFields
    <3>5. CtxChange(r, c) /\ HeadChange(r, head[r])
      BY <1>0, <2>3, <3>1, <3>2, <3>4 DEF CtxChange, HeadChange
    <3>. QED BY <1>0, <2>1, <2>3, <3>3, <3>5, CalledShape
  <2>. QED BY <1>0, <2>1, <2>2, <2>3, CalledShape
<1>8. CASE UaRestriction(r)
  BY <1>0, <1>8, CalledShape DEF UaRestriction
<1>9. CASE RefererRestriction(r)
  <2>1. Calls(r, "referer_restriction", pc[r]) /\ (Pass(r) \/ Answer(r, 403))
    BY <1>0, <1>9 DEF RefererRestriction
  <2>. QED BY <1>0, <2>1, PassOrAnswer
<1>. QED BY <1>1, <1>2, <1>3, <1>4, <1>5, <1>6, <1>7, <1>8, <1>9 DEF Guard

\* The plugins that answer by themselves.
LEMMA AnswersShape ==
  ASSUME TableOK, RequestsOK, ValidOK, Views, NEW r \in Req,
         \/ Redirect(r) \/ Ping(r) \/ Mock(r) \/ Stats(r) \/ Directory(r) \/ Cors(r)
  PROVE  Apart(r) /\ Shape(r)
<1>0. pc[r] = "request" => pc[r] \in RequestStep /\ pc[r] # "early_request"
  BY DEF RequestStep
<1>1. CASE Redirect(r)
  <2>1. pc[r] = "request" /\ Calls(r, "redirect", pc[r]) /\ (Pass(r) \/ Answer(r, 307))
    BY <1>1 DEF Redirect, Calls
  <2>. QED BY <1>0, <2>1, PassOrAnswer
<1>2. CASE Ping(r)
  <2>1. pc[r] = "request" /\ Calls(r, "ping", pc[r]) /\ (Pass(r) \/ Answer(r, 200))
    BY <1>2 DEF Ping, Calls
  <2>. QED BY <1>0, <2>1, PassOrAnswer
<1>3. CASE Mock(r)
  <2>1. pc[r] = "request" /\ Calls(r, "mock", pc[r]) /\ (Pass(r) \/ Answer(r, Plugin(r).status))
    BY <1>3 DEF Mock, Calls
  <2>. QED BY <1>0, <2>1, PassOrAnswer
<1>4. CASE Cors(r)
  <2>1. pc[r] = "request" /\ Calls(r, "cors", pc[r]) /\ (Pass(r) \/ Answer(r, 204) \/ Fail(r, 400))
    BY <1>4 DEF Cors, Calls
  <2>. QED BY <1>0, <2>1, PassOrAnswer
<1>5. CASE Stats(r)
  <2>1. pc[r] \in RequestStep /\ Calls(r, "stats", pc[r])
        /\ (Pass(r) \/ (pc[r] = Plugin(r).step /\ Answer(r, 200)))
    BY <1>5 DEF Stats
  <2>2. CASE Pass(r)
    BY <2>1, <2>2, PassShape
  <2>3. CASE pc[r] = Plugin(r).step /\ Answer(r, 200)
    <3>1. pc[r] # "early_request"
      BY <2>1, <2>3, StepsValid
    <3>. QED BY <2>1, <2>3, <3>1, PassOrAnswer
  <2>. QED BY <2>1, <2>2, <2>3
<1>6. CASE Directory(r)
  <2>1. pc[r] \in RequestStep /\ Calls(r, "directory", pc[r])
    BY <1>6 DEF Directory
  <2>. DEFINE Codes == \/ Answer(r, 200) \/ Answer(r, 404) \/ Answer(r, 500) \/ Answer(r, 400)
                       \/ Fail(r, 400)
  <2>2. \/ Pass(r)
        \/ pc[r] = Plugin(r).step /\ Codes
        \/ pc[r] = Plugin(r).step /\ AnsweredAfter(r, 1, IgnoreResponse)
           /\ UNCHANGED <<head, ctx, shared, history, seen>>
    BY <1>6 DEF Directory
  <2>3. CASE Pass(r)
    BY <2>1, <2>3, PassShape
  <2>4. CASE pc[r] = Plugin(r).step /\ Codes
    <3>1. pc[r] # "early_request"
      BY <2>1, <2>4, StepsValid
    <3>. QED BY <2>1, <2>4, <3>1, PassOrAnswer
  <2>5. CASE pc[r] = Plugin(r).step /\ AnsweredAfter(r, 1, IgnoreResponse)
             /\ UNCHANGED <<head, ctx, shared, history, seen>>
    <3>1. pc[r] # "early_request" /\ pc[r] \in Handled
      BY <2>1, <2>5, StepsValid, CalledShape
    <3>2. UNCHANGED <<head, asked, ctx, store, issued>>
      BY <2>5 DEF shared, history
    <3>. QED BY <2>5, <3>1, <3>2, AnsweredShape DEF Shape
  <2>. QED BY <2>2, <2>3, <2>4, <2>5
<1>. QED BY <1>1, <1>2, <1>3, <1>4, <1>5, <1>6

\* The admin plugin.
LEMMA AdminShape ==
  ASSUME TableOK, RequestsOK, Views, NEW r \in Req,
         AdminValidate(r) \/ AdminReset(r) \/ AdminLogin(r) \/ AdminInc(r)
  PROVE  Apart(r) /\ Shape(r)
<1>0. /\ "request" \in RequestStep /\ "request" \in Handled /\ LoginStep \subseteq Handled
      /\ "early_request" \notin LoginStep
  BY PlaceFacts DEF RequestStep, LoginStep
<1>1. ASSUME NEW p \in LoginStep, pc' = [pc EXCEPT ![r] = p],
             UNCHANGED <<setup, plugins, clock, at, head, asked, ctx, resp, touched, store, issued>>
      PROVE  Apart(r) /\ Waits(r)
  BY <1>1 DEF RequestsOK, Views, Apart, Waits
<1>2. CASE AdminValidate(r)
  <2>1. pc[r] = "request" /\ Calls(r, "admin", pc[r])
    BY <1>2 DEF AdminValidate, Calls
  <2>2. \/ Pass(r) \/ Answer(r, 403)
        \/ /\ pc' = [pc EXCEPT ![r] = "reset"] \/ pc' = [pc EXCEPT ![r] = "login"]
           /\ UNCHANGED <<setup, plugins, gens, clock, at, head, asked, ctx, resp, sent, shared,
                          fails, touched>>
    BY <1>2 DEF AdminValidate
  <2>3. CASE Pass(r) \/ Answer(r, 403)
    BY <1>0, <2>1, <2>3, PassOrAnswer
  <2>4. CASE /\ pc' = [pc EXCEPT ![r] = "reset"] \/ pc' = [pc EXCEPT ![r] = "login"]
             /\ UNCHANGED <<setup, plugins, gens, clock, at, head, asked, ctx, resp, sent, shared,
                            fails, touched>>
    BY <1>1, <2>4 DEF shared, LoginStep, Shape
  <2>. QED BY <2>2, <2>3, <2>4
<1>3. CASE AdminReset(r)
  BY <1>1, <1>3 DEF AdminReset, history, LoginStep, Shape
<1>4. CASE AdminLogin(r)
  <2>1. pc[r] = "login"
    BY <1>4 DEF AdminLogin
  <2>2. \/ Answer(r, 307) \/ Answer(r, 200)
        \/ /\ pc' = [pc EXCEPT ![r] = "failed"]
           /\ UNCHANGED <<setup, plugins, gens, clock, at, head, ctx, resp, sent, shared, history,
                          touched>>
    BY <1>4 DEF AdminLogin
  <2>3. CASE Answer(r, 307) \/ Answer(r, 200)
    BY <1>0, <2>1, <2>3, AnswerShape DEF LoginStep, Shape
  <2>4. CASE /\ pc' = [pc EXCEPT ![r] = "failed"]
             /\ UNCHANGED <<setup, plugins, gens, clock, at, head, ctx, resp, sent, shared, history,
                            touched>>
    BY <1>1, <2>4 DEF shared, history, LoginStep, Shape
  <2>. QED BY <2>2, <2>3, <2>4
<1>5. CASE AdminInc(r)
  <2>1. pc[r] = "failed" /\ AnsweredAfter(r, 0, 401) /\ UNCHANGED <<head, asked, ctx, store, issued>>
    BY <1>5 DEF AdminInc, Answered
  <2>2. pc[r] \in Handled /\ pc[r] # "early_request"
    BY <1>0, <2>1 DEF LoginStep
  <2>. QED BY <2>1, <2>2, AnsweredShape DEF Shape
<1>. QED BY <1>2, <1>3, <1>4, <1>5

\* The plugins that change the request or the Ctx.
LEMMA ChangesShape ==
  ASSUME TableOK, RequestsOK, ValidOK, Views, NEW r \in Req,
         \/ RequestId(r) \/ Compression(r) \/ AcceptEncoding(r)
         \/ CachePurge(r) \/ CacheEnable(r) \/ ImageOptim(r)
  PROVE  Apart(r) /\ Shape(r)
<1>0. {"early_request", "request"} \subseteq RequestStep
  BY DEF RequestStep
<1>1. CASE RequestId(r)
  <2>1. pc[r] \in RequestStep /\ Calls(r, "request_id", pc[r])
    BY <1>1 DEF RequestId
  <2>2. pc[r] \in Handled /\ Plugin(r) # NoConf /\ Plugin(r).category = "request_id"
    BY <2>1, CalledShape
  <2>3. PICK id, h : \/ Pass(r)
                     \/ /\ pc[r] = Plugin(r).step /\ Rewrite(r, h, [ctx[r] EXCEPT !.id = id])
                        /\ \/ h = head[r]
                           \/ h = [head[r] EXCEPT !.headers = Put(@, Plugin(r).header, Text("generated"))]
    BY <1>1 DEF RequestId
  <2>4. CASE Pass(r)
    BY <2>1, <2>4, PassShape
  <2>5. CASE /\ pc[r] = Plugin(r).step /\ Rewrite(r, h, [ctx[r] EXCEPT !.id = id])
             /\ \/ h = head[r]
                \/ h = [head[r] EXCEPT !.headers = Put(@, Plugin(r).header, Text("generated"))]
    <3>1. pc[r] # "early_request"
      BY <2>1, <2>5, StepsValid
    <3>2. Plugin(r).header \in MakesUp(Plugin(r))
      BY <2>2 DEF MakesUp
    <3>3. HeadChange(r, h)
      BY <2>2, <2>5, <3>1, <3>2 DEF HeadChange
    <3>4. CtxChange(r, [ctx[r] EXCEPT !.id = id])
      BY <2>2, CtxSame
    <3>. QED BY <2>1, <2>5, <3>3, <3>4, CalledShape
  <2>. QED BY <2>3, <2>4, <2>5
<1>2. CASE Compression(r)
  <2>1. pc[r] = "early_request" /\ Calls(r, "compression", pc[r])
    BY <1>2 DEF Compression, Calls
  <2>2. PICK x : Rewrite(r, head[r], [ctx[r] EXCEPT !.level = x])
    BY <1>2 DEF Compression
  <2>3. HeadChange(r, head[r]) /\ CtxChange(r, [ctx[r] EXCEPT !.level = x])
    BY <1>0, <2>1, CtxSame, CalledShape DEF HeadChange
  <2>. QED BY <1>0, <2>1, <2>2, <2>3, CalledShape
<1>3. CASE AcceptEncoding(r)
  <2>1. pc[r] = "early_request" /\ Calls(r, "accept_encoding", pc[r])
    BY <1>3 DEF AcceptEncoding, Calls
  <2>2. PICK e : Rewrite(r, [head[r] EXCEPT !.encodings = e], ctx[r])
    BY <1>3 DEF AcceptEncoding
  <2>3. HeadChange(r, [head[r] EXCEPT !.encodings = e]) /\ CtxChange(r, ctx[r])
    BY <1>0, <2>1, CtxSame, CalledShape DEF HeadChange
  <2>. QED BY <1>0, <2>1, <2>2, <2>3, CalledShape
<1>4. CASE CachePurge(r)
  <2>1. pc[r] = "request" /\ Calls(r, "cache", pc[r])
    BY <1>4 DEF CachePurge, Calls
  <2>2. PICK s : AnsweredAfter(r, 0, s)
    BY <1>4 DEF CachePurge, Answered
  <2>3. UNCHANGED <<head, asked, issued>> /\ \A x \in Req \ {r} : ctx'[x] = ctx[x]
    BY <1>4 DEF CachePurge, history, RequestsOK
  <2>4. store' = store \/ \E k : store' = Drop(store, k)
    BY <1>4 DEF CachePurge
  <2>5. pc[r] \in Handled
    BY <1>0, <2>1, CalledShape
  <2>. QED BY <2>1, <2>2, <2>3, <2>4, <2>5, AnsweredShape DEF Shape
<1>5. CASE CacheEnable(r)
  <2>1. pc[r] = "request" /\ Calls(r, "cache", pc[r])
    BY <1>5 DEF CacheEnable, Calls
  <2>2. PICK c : Pass(r) \/ (Rewrite(r, head[r], c) /\ c = [CacheCtx(r) EXCEPT !.caching = TRUE])
    BY <1>5 DEF CacheEnable
  <2>3. CASE Pass(r)
    BY <1>0, <2>1, <2>3, PassOrAnswer
  <2>4. CASE Rewrite(r, head[r], c) /\ c = [CacheCtx(r) EXCEPT !.caching = TRUE]
    <3>1. Plugin(r) # NoConf /\ Plugin(r).category = "cache" /\ DOMAIN ctx[r] = CtxFields
      BY <1>0, <2>1, CalledShape, Flying
    <3>2. PICK ns, keys : CacheCtx(r) = [ctx[r] EXCEPT !.ns = ns, !.keys = keys]
      BY DEF CacheCtx
    <3>3. DOMAIN c = CtxFields /\ c.body = ctx[r].body /\ c.upstreamBody = ctx[r].upstreamBody
          /\ c.ip = ctx[r].ip /\ c.keys = CacheCtx(r).keys /\ c.caching
      BY <2>4, <3>1, <3>2 DEF CtxFields
    <3>4. CtxChange(r, c) /\ HeadChange(r, head[r])
      BY <2>1, <3>1, <3>3 DEF CtxChange, HeadChange
    <3>. QED BY <1>0, <2>1, <2>4, <3>4, CalledShape
  <2>. QED BY <2>2, <2>3, <2>4
<1>6. CASE ImageOptim(r)
  <2>1. pc[r] = "request" /\ Calls(r, "image_optim", pc[r])
    BY <1>6 DEF ImageOptim, Calls
  <2>2. PICK keys : keys = ctx[r].keys \o AcceptImages(Plugin(r), head[r])
    OBVIOUS
  <2>3. PICK c : Rewrite(r, head[r], c) /\ c = [ctx[r] EXCEPT !.keys = keys]
    BY <1>6, <2>2 DEF ImageOptim
  <2>4. Plugin(r) # NoConf /\ Plugin(r).category = "image_optim" /\ DOMAIN ctx[r] = CtxFields
    BY <1>0, <2>1, CalledShape, Flying
  <2>5. DOMAIN c = CtxFields /\ c.body = ctx[r].body /\ c.upstreamBody = ctx[r].upstreamBody
        /\ c.ip = ctx[r].ip /\ c.keys = keys /\ c.caching = ctx[r].caching
    BY <2>3, <2>4 DEF CtxFields
  <2>6. CtxChange(r, c) /\ HeadChange(r, head[r])
    BY <2>1, <2>2, <2>4, <2>5 DEF CtxChange, HeadChange
  <2>. QED BY <1>0, <2>1, <2>3, <2>6, CalledShape
<1>. QED BY <1>1, <1>2, <1>3, <1>4, <1>5, <1>6

\* The limiter leaves at most the address in the Ctx.
LEMMA LimitCtxChange ==
  ASSUME RequestsOK, NEW r \in Req, pc[r] \in Handled, pc[r] # "early_request",
         Plugin(r) # NoConf, Plugin(r).category = "limit",
         NEW c, DOMAIN c = CtxFields,
         \A f \in {"ip", "keys", "caching", "body", "upstreamBody"} : c[f] = LimitCtx(r)[f]
  PROVE  CtxChange(r, c)
<1>1. DOMAIN ctx[r] = CtxFields
  BY Flying
<1>2. CASE Plugin(r).tag = "ip"
  <2>1. JudgesBy(Plugin(r)) = ClientIpHeaders
    BY <1>2 DEF JudgesBy
  <2>2. LimitCtx(r) = [ctx[r] EXCEPT !.ip = GetClientIp(head[r])]
    BY <1>2 DEF LimitCtx
  <2>3. c.body = ctx[r].body /\ c.upstreamBody = ctx[r].upstreamBody
        /\ c.ip = GetClientIp(head[r]) /\ c.keys = ctx[r].keys /\ c.caching = ctx[r].caching
    BY <1>1, <2>2 DEF CtxFields
  <2>. QED BY <2>1, <2>3 DEF CtxChange
<1>3. CASE Plugin(r).tag # "ip"
  BY <1>1, <1>3 DEF LimitCtx, CtxChange
<1>. QED BY <1>2, <1>3

LEMMA LimitShape ==
  ASSUME TableOK, RequestsOK, ValidOK, Views, NEW r \in Req, Limit(r)
  PROVE  Apart(r) /\ Shape(r)
<1>1. pc[r] \in RequestStep /\ Calls(r, "limit", pc[r])
  BY DEF Limit
<1>2. /\ pc[r] \in Handled /\ ~head[r].upgrade /\ at[r] <= Len(Chain) /\ Plugin(r) # NoConf
      /\ Plugin(r).category = "limit" /\ DOMAIN ctx[r] = CtxFields
  BY <1>1, CalledShape, Flying
<1>3. \/ Pass(r)
      \/ pc[r] = Plugin(r).step /\ (Rewrite(r, head[r], LimitCtx(r)) \/ LimitInflight(r) \/ LimitRate(r))
  BY DEF Limit
<1>4. CASE Pass(r)
  BY <1>1, <1>4, PassShape
<1>5. ASSUME pc[r] = Plugin(r).step
      PROVE  pc[r] # "early_request"
  BY <1>1, <1>5, StepsValid
<1>6. HeadChange(r, head[r])
  BY DEF HeadChange
<1>7. DOMAIN LimitCtx(r) = CtxFields
  BY <1>2 DEF LimitCtx
<1>8. CASE pc[r] = Plugin(r).step /\ Rewrite(r, head[r], LimitCtx(r))
  <2>1. CtxChange(r, LimitCtx(r))
    BY <1>2, <1>5, <1>7, <1>8, LimitCtxChange
  <2>. QED BY <1>1, <1>6, <1>8, <2>1, CalledShape
<1>9. CASE pc[r] = Plugin(r).step /\ (LimitInflight(r) \/ LimitRate(r))
  <2>1. PICK g, a : LET c == [LimitCtx(r) EXCEPT !.guard = g, !.admitted = a]
                    IN ctx' = [ctx EXCEPT ![r] = c] \/ ctx' = [ctx EXCEPT ![r] = LimitCtx(r)]
    BY <1>9 DEF LimitInflight, LimitRate
  <2>2. PICK c : /\ ctx' = [ctx EXCEPT ![r] = c]
                 /\ c = LimitCtx(r) \/ c = [LimitCtx(r) EXCEPT !.guard = g, !.admitted = a]
    BY <2>1
  <2>3. DOMAIN c = CtxFields
        /\ \A f \in {"ip", "keys", "caching", "body", "upstreamBody"} : c[f] = LimitCtx(r)[f]
    BY <1>7, <2>2 DEF CtxFields
  <2>4. CtxChange(r, c)
    BY <1>2, <1>5, <1>9, <2>3, LimitCtxChange
  <2>5. UNCHANGED <<head, asked, store, issued>> /\ ctx'[r] = c /\ \A s \in Req \ {r} : ctx'[s] = ctx[s]
    BY <1>9, <2>2 DEF LimitInflight, LimitRate, history, RequestsOK
  <2>6. AnsweredAfter(r, 0, 429) \/ Continue(r)
    BY <1>9 DEF LimitInflight, LimitRate, Answered
  <2>7. CASE AnsweredAfter(r, 0, 429)
    BY <1>2, <1>5, <1>9, <2>5, <2>7, AnsweredShape DEF Shape
  <2>8. CASE Continue(r)
    <3>1. Apart(r)
      BY <2>5, <2>8 DEF RequestsOK, Views, Apart, Continue
    <3>2. Passes(r, head[r], c)
      BY <1>1, <1>2, <2>5, <2>8 DEF RequestsOK, Passes, Continue
    <3>. QED BY <1>6, <2>4, <3>1, <3>2 DEF Shape
  <2>. QED BY <2>6, <2>7, <2>8
<1>. QED BY <1>3, <1>4, <1>8, <1>9

\* The plugins that change the response.
LEMMA ResponseShape ==
  ASSUME TableOK, RequestsOK, Views, NEW r \in Req, Response(r)
  PROVE  Apart(r) /\ Shape(r)
<1>0. pc[r] \in ResponseStep /\ ~head[r].upgrade /\ at[r] <= Len(Chain)
  BY DEF Response, JwtAuthResponse, CorsResponse, ImageOptimResponse, ResponseHeaders, SubFilter,
         Calls, ResponseStep
<1>1. \A p, c : Respond(r, p, c) => Apart(r) /\ Shape(r)
  BY <1>0, RespondShape DEF Shape
<1>2. pc[r] \in Handled /\ pc[r] # "early_request"
  BY <1>0, PlaceFacts DEF ResponseStep
<1>3. \A s : Fail(r, s) => Apart(r) /\ Shape(r)
  BY <1>2, AnswerShape DEF Shape
<1>4. CASE JwtAuthResponse(r)
  BY <1>1, <1>4 DEF JwtAuthResponse
<1>5. CASE CorsResponse(r)
  BY <1>1, <1>3, <1>5 DEF CorsResponse
<1>6. CASE ImageOptimResponse(r)
  BY <1>1, <1>6 DEF ImageOptimResponse
<1>7. CASE ResponseHeaders(r)
  BY <1>1, <1>7 DEF ResponseHeaders
<1>8. CASE SubFilter(r)
  BY <1>1, <1>8 DEF SubFilter
<1>. QED BY <1>4, <1>5, <1>6, <1>7, <1>8 DEF Response

\* The steps of the server.
LEMMA ServerShape ==
  ASSUME TableOK, RequestsOK, Views, NEW r \in Req, Server(r)
  PROVE  Apart(r) /\ Shape(r)
<1>1. CASE Skip(r)
  <2>1. Apart(r)
    BY <1>1 DEF RequestsOK, Views, Apart, Skip, shared
  <2>2. CASE pc[r] \in RequestStep
    <3>1. Passes(r, head[r], ctx[r])
      BY <1>1, <2>2 DEF RequestsOK, Passes, Skip, shared
    <3>2. pc[r] = "request" /\ Plugin(r) # NoConf => Plugin(r).category # "image_optim"
      BY <1>1 DEF Skip, HandlerSteps
    <3>3. HeadChange(r, head[r]) /\ CtxChange(r, ctx[r])
      BY <2>2, <3>2, CtxSame, PlaceFacts DEF HeadChange
    <3>. QED BY <2>1, <3>1, <3>3 DEF Shape
  <2>3. CASE pc[r] \in ResponseStep
    <3>1. Responds(r, resp[r], ctx[r])
      BY <1>1, <2>3 DEF RequestsOK, Responds, Skip, shared
    <3>. QED BY <1>1, <2>1, <3>1 DEF Shape
  <2>. QED BY <1>1, <2>2, <2>3 DEF Skip, PluginStep
<1>2. CASE StepEnd(r)
  <2>1. PICK p : Goto(r, p)
    BY <1>2 DEF StepEnd
  <2>. QED BY <1>2, <2>1 DEF RequestsOK, Views, Apart, StepEnd, Goto, shared, Shape
<1>3. CASE Lookup(r)
  <2>1. PICK p : Goto(r, p)
    BY <1>3 DEF Lookup
  <2>2. UNCHANGED <<setup, plugins, clock, head, asked, issued, touched>>
    BY <1>3 DEF Lookup, shared
  <2>3. DOMAIN resp' = Req /\ \A s \in Req \ {r} : ctx'[s] = ctx[s] /\ resp'[s] = resp[s]
    BY <1>3 DEF Lookup, RequestsOK, Views
  <2>. QED BY <1>3, <2>1, <2>2, <2>3 DEF RequestsOK, Views, Apart, Goto, Shape
<1>4. CASE Upstream(r)
  BY <1>4 DEF RequestsOK, Views, Apart, Upstream, Goto, shared, Shape
<1>5. CASE UpstreamFail(r)
  <2>1. pc[r] \in Handled /\ pc[r] # "early_request"
    BY <1>5, PlaceFacts DEF UpstreamFail
  <2>. QED BY <1>5, <2>1, AnswerShape DEF UpstreamFail, Shape
<1>6. CASE Store(r)
  <2>1. UNCHANGED <<setup, plugins, clock, head, asked, ctx, issued, touched>> /\ Goto(r, "response")
    BY <1>6 DEF Store
  <2>2. DOMAIN resp' = Req /\ \A s \in Req \ {r} : resp'[s] = resp[s]
    BY <1>6 DEF Store, Views
  <2>. QED BY <1>6, <2>1, <2>2 DEF RequestsOK, Views, Apart, Goto, Shape
<1>7. CASE Body(r)
  <2>1. UNCHANGED <<setup, plugins, clock, head, asked, ctx, touched>> /\ Goto(r, "logging")
    BY <1>7 DEF Body
  <2>2. DOMAIN resp' = Req /\ \A s \in Req \ {r} : resp'[s] = resp[s]
    BY <1>7 DEF Body, Views
  <2>3. issued \subseteq issued'
    BY <1>7 DEF Body
  <2>. QED BY <1>7, <2>1, <2>2, <2>3 DEF RequestsOK, Views, Apart, Goto, Shape
<1>8. CASE Logging(r)
  BY <1>8 DEF RequestsOK, Views, Apart, Logging, Shape
<1>. QED BY <1>1, <1>2, <1>3, <1>4, <1>5, <1>6, <1>7, <1>8 DEF Server

\* Every step of a request has one of the shapes.
LEMMA ServeShape ==
  ASSUME OInv, Views, NEW r \in Req, Serve(r)
  PROVE  Apart(r) /\ Shape(r)
<1>0. TableOK /\ RequestsOK /\ ValidOK
  BY DEF OInv, IInv
<1>1. CASE Guard(r)
  BY <1>0, <1>1, GuardShape
<1>2. CASE Traffic(r)
  BY <1>0, <1>2, AnswersShape, AdminShape, ChangesShape, LimitShape DEF Traffic
<1>3. CASE Response(r)
  BY <1>0, <1>3, ResponseShape
<1>4. CASE Server(r)
  BY <1>0, <1>4, ServerShape
<1>. QED BY <1>1, <1>2, <1>3, <1>4 DEF Serve

-----------------------------------------------------------------------------
(* The guards: what of a request the plugins have changed, and who has let it *)
(* pass.                                                                     *)

\* A header or a query that is not the one the client sent was taken away or made up by
\* a plugin that comes before.
SameHeader(g, h, n) ==
  /\ GetHeader(g, n) = GetHeader(h, n)
  /\ n \in DOMAIN g.headers <=> n \in DOMAIN h.headers
HeaderKept(r, n) ==
  \/ SameHeader(head[r], asked[r].head, n)
  \/ \E i \in 1..(at[r] - 1) : \E c \in Confs(setup, i) :
       \/ n \in HidesHeader(c) /\ GetHeader(head[r], n) = Nothing
       \/ n \in MakesUp(c) /\ GetHeader(head[r], n) = Text("generated")
QueryKept(r, n) ==
  \/ GetQuery(head[r], n) = GetQuery(asked[r].head, n)
  \/ \E i \in 1..(at[r] - 1) : \E c \in Confs(setup, i) :
       n \in HidesQuery(c) /\ GetQuery(head[r], n) = Nothing

\* The guard at a place has let the request pass, or it was reloaded, or does not matter.
Meets(r, i) ==
  \/ asked[r].head.upgrade \/ Chain[i] \in touched[r]
  \/ \E t \in asked[r].at..clock : Permits(plugins[Chain[i]].conf, asked[r].head, t)

\* Tokens were handed out, or are the forged one.
Handed(v) == v.at \in Nat /\ (v.text = "token" \/ (v.text = "jwt" /\ v.at >= 1))
Honest(v) ==
  /\ v.at \in Int
  /\ v.text \in {"jwt", "token"} => v \in issued \/ (v.text = "token" /\ v.mac = "forged")

\* the fields no plugin changes
Plain == HeadFields \ {"headers", "query", "encodings"}

SentOK(h) ==
  /\ DOMAIN h = HeadFields /\ \A v \in ValuesOf(h) : Honest(v)
  /\ h.cookies \in Seq(Elements(h.cookies))
  /\ \A i \in DOMAIN h.cookies :
       h.cookies[i] = [name |-> h.cookies[i].name, value |-> h.cookies[i].value]
HeadOK(r) ==
  /\ asked[r].at \in 1..clock /\ SentOK(asked[r].head)
  /\ \A f \in Plain : head[r][f] = asked[r].head[f]
  /\ pc[r] = "early_request" =>
       \A f \in HeadFields \ {"encodings"} : head[r][f] = asked[r].head[f]
  /\ pc[r] = "request" => \A n : HeaderKept(r, n) /\ QueryKept(r, n)
IpOK(r) ==
  /\ pc[r] = "early_request" => ctx[r].ip = ""
  /\ pc[r] = "request" => ctx[r].ip \in {"", GetClientIp(asked[r].head)}
MetOK(r) ==
  /\ \A n \in Names : plugins[n].conf = NoConf => n \in touched[r]
  /\ pc[r] = "request" => \A i \in 1..(at[r] - 1) : Meets(r, i)
  /\ pc[r] \in {"lookup", "proxy_upstream"} => \A i \in 1..Len(Chain) : Meets(r, i)

NewOK == \A r \in Req : pc[r] = "idle" => ctx[r] = NewCtx
GuardInv ==
  /\ GuardsApart(setup) /\ TokensIssued(setup)
  /\ \A v \in issued : Handed(v)
  /\ \A r \in Req : InFlight(r) => HeadOK(r) /\ IpOK(r) /\ MetOK(r)

-----------------------------------------------------------------------------
(* Bodies.                                                                   *)

Parts(p) ==
  /\ DOMAIN p = {"status", "headers", "body"}
  /\ DOMAIN p.body = {"format", "vary", "signed", "replaced"}
Unsized(p) == "content-length" \notin DOMAIN p.headers
Sized(p) == Parts(p) /\ (p.body.format # setup.upstream.format => Unsized(p))

\* the body plugins that are done with the response
Done(r) == {i \in Claims(r) : pc[r] = "response" => i < at[r]}
Last(S) == {i \in S : \A j \in S : j <= i}

EarlyBody(r) ==
  /\ pc[r] \notin {"response", "body", "logging"} => ctx[r].body = NoModify
  /\ pc[r] \notin {"upstream_response", "store", "response", "body", "logging"} =>
       ctx[r].upstreamBody = ""
  /\ pc[r] \in {"upstream_response", "store"} =>
       /\ Parts(resp[r]) /\ resp[r].body.format = setup.upstream.format
       /\ ctx[r].upstreamBody # "" => Unsized(resp[r])
LateBody(r) ==
  /\ pc[r] \in {"response", "body"} => Sized(resp[r])
  /\ pc[r] \in {"response", "body"} /\ ~head[r].upgrade /\ touched[r] = {} =>
       /\ Done(r) # {} => Unsized(resp[r])
       /\ \A i \in Last(Done(r)) : ctx[r].body.by = plugins[Chain[i]].conf.category
SentBody(r) ==
  pc[r] = "logging" /\ resp[r].body # NoBody /\ ~head[r].upgrade /\ touched[r] = {} =>
    /\ \A i \in Last(Claims(r)) :
         IF plugins[Chain[i]].conf.category = "jwt" THEN resp[r].body.signed ELSE resp[r].body.replaced
    /\ Claims(r) # {} \/ resp[r].body.format # setup.upstream.format => Unsized(resp[r])

BodyInv ==
  /\ LengthsKept(setup)
  /\ \A k \in DOMAIN store : Sized(store[k])
  /\ \A r \in Req : EarlyBody(r) /\ LateBody(r) /\ SentBody(r)

-----------------------------------------------------------------------------
(* Variants.                                                                 *)

F == Formats(setup)
Vary == setup.upstream.vary
\* the value of the header the upstream varies by, in the keys of a request
VKey(keys) == IF keys # <<>> /\ keys[1] \notin F THEN keys[1] ELSE ""
IsImage(i) == plugins[Chain[i]].conf # NoConf /\ plugins[Chain[i]].conf.category = "image_optim"
\* image_optim has put into the keys what the client accepts
Covers(r, i) == IsImage(i) =>
  Elements(plugins[Chain[i]].conf.outputs) \cap head[r].accept \subseteq Elements(ctx[r].keys)

ImagesOK ==
  \A i \in 1..Len(Chain) : \A c \in Confs(setup, i) :
    c.category = "image_optim" => plugins[Chain[i]].conf = c

HeadersOK(r) ==
  /\ head[r].accept = asked[r].head.accept
  /\ \A n \in Elements(Vary) : GetHeader(head[r], n) = GetHeader(asked[r].head, n)
  /\ \A n \in DOMAIN head[r].headers : head[r].headers[n].text \notin F
KeysOK(r) ==
  /\ ctx[r].keys \in Seq(Elements(ctx[r].keys)) /\ Elements(ctx[r].keys) \cap F \subseteq head[r].accept
  /\ \A n \in Elements(Vary) :
       /\ VKey(ctx[r].keys) \in {"", GetHeader(head[r], n).text}
       /\ ctx[r].caching => VKey(ctx[r].keys) = GetHeader(head[r], n).text
  /\ pc[r] = "early_request" => ctx[r].keys = <<>>
  /\ pc[r] = "early_request" \/ head[r].upgrade => ~ctx[r].caching
  /\ pc[r] = "lookup" => ctx[r].caching
CoverOK(r) ==
  ~head[r].upgrade =>
    /\ pc[r] = "request" => \A i \in 1..(at[r] - 1) : Covers(r, i)
    /\ pc[r] \in {"lookup", "proxy_upstream", "upstream", "upstream_response", "store"} =>
         \A i \in 1..Len(Chain) : Covers(r, i)
MadeOK(r) ==
  /\ pc[r] \notin {"upstream_response", "store", "response", "body", "logging"} =>
       ctx[r].upstreamBody = ""
  /\ pc[r] \in {"upstream_response", "store"} =>
       /\ Parts(resp[r]) /\ resp[r].body.format = setup.upstream.format
       /\ resp[r].body.vary = VaryOf(head[r])
       /\ ctx[r].upstreamBody \in {"", setup.upstream.format} \cup (F \cap Elements(ctx[r].keys))
  /\ pc[r] = "response" /\ ctx[r].hit =>
       /\ Parts(resp[r]) /\ resp[r].body.vary = VaryOf(asked[r].head)
       /\ resp[r].body.format \in asked[r].head.accept \cup {setup.upstream.format}
StoredOK(k, p) ==
  /\ Parts(p) /\ p.body.vary = [i \in DOMAIN Vary |-> VKey(k[2])]
  /\ p.body.format \in {setup.upstream.format} \cup (F \cap Elements(k[2]))

VariantInv ==
  /\ VariantsTold(setup) /\ ImagesOK
  /\ \A v \in issued : v.text \in {"jwt", "token"}
  /\ \A k \in DOMAIN store : StoredOK(k, store[k])
  /\ \A r \in Req : InFlight(r) /\ pc[r] # "logging" =>
       HeadersOK(r) /\ KeysOK(r) /\ CoverOK(r) /\ MadeOK(r)

-----------------------------------------------------------------------------
(* Steps of the server, arrivals and reloads.                                *)

LEMMA StepEnds ==
  ASSUME RequestsOK, NEW r \in Req, StepEnd(r)
  PROVE  /\ UNCHANGED <<setup, plugins, clock, head, asked, ctx, resp, store, issued, touched>>
         /\ at'[r] = 1 /\ (head[r].upgrade \/ at[r] > Len(Chain))
         /\ \/ pc[r] = "early_request" /\ pc'[r] = "request"
            \/ pc[r] = "request" /\ ctx[r].caching /\ pc'[r] = "lookup"
            \/ pc[r] = "request" /\ ~ctx[r].caching /\ pc'[r] = "proxy_upstream"
            \/ pc[r] = "proxy_upstream" /\ pc'[r] = "upstream"
            \/ pc[r] = "upstream_response" /\ pc'[r] = "store"
            \/ pc[r] = "response" /\ pc'[r] = "body"
<1>1. PICK p : /\ Goto(r, p)
               /\ p = CASE pc[r] = "early_request" -> "request"
                        [] pc[r] = "request" -> IF ctx[r].caching THEN "lookup" ELSE "proxy_upstream"
                        [] pc[r] = "proxy_upstream" -> "upstream"
                        [] pc[r] = "upstream_response" -> "store"
                        [] pc[r] = "response" -> "body"
  BY DEF StepEnd
<1>2. pc'[r] = p /\ at'[r] = 1
  BY <1>1 DEF Goto, RequestsOK
<1>3. pc[r] \in PluginStep /\ (head[r].upgrade \/ at[r] > Len(Chain))
  BY DEF StepEnd
<1>4. UNCHANGED <<setup, plugins, clock, head, asked, ctx, resp, store, issued, touched>>
  BY DEF StepEnd, shared
<1>. QED BY <1>1, <1>2, <1>3, <1>4 DEF PluginStep, RequestStep, ResponseStep

LEMMA Arrives ==
  ASSUME RequestsOK, Views, NEW r \in Req, Arrive(r)
  PROVE  /\ Apart(r) /\ UNCHANGED <<ctx, resp, store, issued>>
         /\ pc[r] = "idle" /\ pc'[r] = "early_request" /\ at'[r] = 1
         /\ touched'[r] = {n \in Names : plugins[n].conf = NoConf}
         /\ \E h \in setup.inputs, token \in issued \cup {Signed("token", clock, "forged")} :
              head'[r] = Carry(h, token) /\ asked'[r] = [head |-> Carry(h, token), at |-> clock]
<1>1. PICK h \in setup.inputs, token \in issued \cup {Signed("token", clock, "forged")} :
        /\ head' = [head EXCEPT ![r] = Carry(h, token)]
        /\ asked' = [asked EXCEPT ![r] = [head |-> Carry(h, token), at |-> clock]]
  BY DEF Arrive
<1>2. head'[r] = Carry(h, token) /\ asked'[r] = [head |-> Carry(h, token), at |-> clock]
  BY <1>1 DEF RequestsOK, Views
<1>3. UNCHANGED <<setup, plugins, clock, ctx, resp, store, issued>>
      /\ pc[r] = "idle" /\ pc' = [pc EXCEPT ![r] = "early_request"] /\ at' = [at EXCEPT ![r] = 1]
      /\ touched' = [touched EXCEPT ![r] = {n \in Names : plugins[n].conf = NoConf}]
  BY DEF Arrive, Goto, shared
<1>4. Apart(r)
  BY <1>1, <1>3 DEF RequestsOK, Views, Apart
<1>. QED BY <1>2, <1>3, <1>4 DEF RequestsOK, Views

\* A reload touches every request in flight with what it changes, and that is something.
LEMMA Reloads ==
  ASSUME TableOK, Reload
  PROVE  /\ UNCHANGED <<setup, clock, pc, at, head, asked, ctx, resp, store, issued>>
         /\ DOMAIN touched' = Req /\ DOMAIN plugins' = DOMAIN plugins
         /\ \A r \in Req : touched[r] \subseteq touched'[r]
         /\ \A r \in Req : InFlight(r) => touched'[r] # {}
         /\ \A r \in Req, n \in Names :
              InFlight(r) /\ n \notin touched'[r] => plugins'[n] = plugins[n]
         /\ \A r \in Req, n \in Names :
              InFlight(r) /\ plugins'[n].conf = NoConf /\ plugins[n].conf # NoConf => n \in touched'[r]
         /\ \E t \in setup.tables : \A n \in Names : plugins[n].conf = t[n] => plugins'[n] = plugins[n]
<1>1. PICK t \in setup.tables : TryInitPlugins(t)
  BY DEF Reload
<1>2. PICK changed, fresh :
        /\ changed = {n \in Names : plugins[n].conf # t[n]}
        /\ fresh \subseteq changed
        /\ changed # {}
        /\ plugins' = [n \in Names |->
                         IF n \in fresh THEN [conf |-> t[n], gen |-> gens[n] + 1]
                         ELSE IF n \in changed THEN [conf |-> NoConf, gen |-> 0]
                         ELSE plugins[n]]
        /\ touched' = [r \in Req |-> IF InFlight(r) THEN touched[r] \cup changed ELSE touched[r]]
  BY <1>1 DEF TryInitPlugins
<1>3. UNCHANGED <<setup, clock, pc, at, head, asked, ctx, resp, store, issued>>
  BY <1>1 DEF TryInitPlugins
<1>4. \A n \in Names : n \notin changed => plugins'[n] = plugins[n]
  BY <1>2
<1>5. \A r \in Req : InFlight(r) => changed \subseteq touched'[r]
  BY <1>2
<1>6. DOMAIN plugins' = DOMAIN plugins /\ DOMAIN touched' = Req
  BY <1>2 DEF Names
<1>7. \A n \in Names : plugins[n].conf = t[n] => plugins'[n] = plugins[n]
  BY <1>2, <1>4
<1>8. \A r \in Req : touched[r] \subseteq touched'[r]
  BY <1>2
<1>. QED BY <1>2, <1>3, <1>4, <1>5, <1>6, <1>7, <1>8

\* Where a step of a request leads.
LEMMA ServeTo ==
  ASSUME OInv, Views, NEW r \in Req, Serve(r)
  PROVE  pc'[r] # "idle" /\ pc[r] \notin {"idle", "done"} /\ (pc'[r] = "done" => Logging(r))
<1>0. RequestsOK /\ Shape(r)
  BY ServeShape DEF OInv, IInv
<1>1. CASE \/ \E h, c : Passes(r, h, c) /\ HeadChange(r, h) /\ CtxChange(r, c)
           \/ \E p, c : Responds(r, p, c)
  BY <1>1 DEF Passes, Responds, RequestStep, ResponseStep
<1>2. CASE Ends(r)
  BY <1>2, PlaceFacts DEF Ends
<1>3. CASE Waits(r)
  <2>1. pc'[r] \in LoginStep /\ OneStep(r)
    BY <1>0, <1>3, RequestFlow DEF Waits, OInv, IInv
  <2>2. pc[r] \in LoginStep \cup {"request"}
    BY <2>1 DEF OneStep, Stays, Sends, Ignores, Walks, Hits, Leaves, Flow, Transitions, LoginStep
  <2>. QED BY <2>1, <2>2 DEF LoginStep
<1>4. CASE StepEnd(r)
  BY <1>0, <1>4, StepEnds
<1>5. CASE Lookup(r) \/ Upstream(r) \/ Store(r) \/ Body(r)
  BY <1>0, <1>5 DEF Lookup, Upstream, Store, Body, Goto, RequestsOK
<1>6. CASE Logging(r)
  BY <1>0, <1>6 DEF Logging, RequestsOK
<1>. QED BY <1>0, <1>1, <1>2, <1>3, <1>4, <1>5, <1>6 DEF Shape

\* What the proofs below start from.
BaseInv == OInv /\ FromTables /\ Views /\ NewOK

LEMMA BaseNext ==
  ASSUME BaseInv, [Next]_vars
  PROVE  Views' /\ NewOK'
<1>0. RequestsOK /\ TableOK /\ OInv /\ Views
  BY DEF BaseInv, OInv, IInv
<1>1. CASE \E r \in Req : Arrive(r) \/ Serve(r)
  <2>1. PICK r \in Req : Arrive(r) \/ Serve(r)
    BY <1>1
  <2>2. Apart(r) /\ pc'[r] # "idle"
    BY <1>0, <2>1, Arrives, ServeShape, ServeTo
  <2>. QED BY <2>2 DEF Apart, Views, NewOK, BaseInv
<1>2. CASE Reload
  BY <1>0, <1>2, Reloads DEF Views, NewOK, BaseInv
<1>3. CASE Tick \/ UNCHANGED vars
  BY <1>3 DEF Tick, vars, Views, NewOK, BaseInv
<1>. QED BY <1>1, <1>2, <1>3 DEF Next

LEMMA BaseInvariance == Spec => []BaseInv
<1>1. Init => OInv /\ Views /\ NewOK
  BY InitOInv DEF Init, Views, NewOK
<1>2. BaseInv /\ [Next]_vars => (OInv /\ Views /\ NewOK)'
  BY BaseNext, NextOnce DEF BaseInv
<1>3. LoginInv => FromTables
  BY DEF LoginInv
<1>4. BaseInv <=> OInv /\ FromTables /\ Views /\ NewOK
  BY DEF BaseInv
<1>. QED BY <1>1, <1>2, <1>3, <1>4, LoginInvariance, PTL DEF Spec

\* A plugin has one of the configurations of its place.
LEMMA Configured ==
  ASSUME TableOK, FromTables, NEW i \in 1..Len(Chain), plugins[Chain[i]].conf # NoConf
  PROVE  plugins[Chain[i]].conf \in Confs(setup, i)
<1>1. Chain[i] \in DOMAIN setup.start
  BY ChainLength
<1>2. PICK t \in setup.tables \cup {setup.start} : plugins[Chain[i]].conf = t[Chain[i]]
  BY <1>1 DEF FromTables
<1>. QED BY <1>2 DEF Confs, Chain

-----------------------------------------------------------------------------
(* The guards are enforced.                                                  *)

\* A guard that lets pass a request keeps doing so when more tokens are handed out.
LEMMA PermitsKeeps ==
  ASSUME issued \subseteq issued', NEW c, NEW h, NEW t, Permits(c, h, t)
  PROVE  Permits(c, h, t)'
<1>1. CASE c.category = "jwt"
  BY <1>1 DEF Permits
<1>2. CASE c.category = "csrf"
  <2>1. \A x, k, l : Fresh(x, k, l, t) => Fresh(x, k, l, t)'
    BY DEF Fresh
  <2>. QED BY <1>2, <2>1 DEF Permits
<1>3. CASE c.category \notin {"jwt", "csrf"}
  BY <1>3 DEF Permits
<1>. QED BY <1>1, <1>2, <1>3

LEMMA MeetsKeeps ==
  ASSUME NEW r \in Req, NEW i, Meets(r, i), issued \subseteq issued', clock \in Int, clock' \in Int,
         clock <= clock', asked[r].at \in Int,
         asked'[r] = asked[r], touched[r] \subseteq touched'[r], Chain' = Chain,
         plugins'[Chain[i]] = plugins[Chain[i]] \/ Chain[i] \in touched'[r]
  PROVE  Meets(r, i)'
<1>1. CASE asked[r].head.upgrade \/ Chain[i] \in touched'[r]
  BY <1>1 DEF Meets
<1>2. CASE /\ ~asked[r].head.upgrade /\ Chain[i] \notin touched'[r]
  <2>1. PICK t \in asked[r].at..clock : Permits(plugins[Chain[i]].conf, asked[r].head, t)
    BY <1>2 DEF Meets
  <2>2. t \in asked'[r].at..clock'
    <3>1. t \in Int /\ asked[r].at <= t /\ t <= clock
      BY <2>1
    <3>. QED BY <3>1
  <2>3. plugins'[Chain'[i]].conf = plugins[Chain[i]].conf /\ asked'[r].head = asked[r].head
    BY <1>2
  <2>4. PICK c, h : c = plugins[Chain[i]].conf /\ h = asked[r].head
    OBVIOUS
  <2>5. Permits(c, h, t)'
    BY <2>1, <2>4, PermitsKeeps
  <2>6. Permits(plugins[Chain[i]].conf, asked[r].head, t)'
    BY <2>3, <2>4, <2>5
  <2>. QED BY <2>2, <2>6 DEF Meets
<1>. QED BY <1>1, <1>2

\* What a plugin judges by is as the client sent it.
LEMMA JudgedAsSent ==
  ASSUME GuardsApart(setup), NEW r \in Req, at[r] \in 1..Len(Chain), Len(Chain) \in Nat,
         NEW d \in Confs(setup, at[r]), \A n : HeaderKept(r, n) /\ QueryKept(r, n)
  PROVE  /\ \A n \in JudgesBy(d) : SameHeader(head[r], asked[r].head, n)
         /\ \A n \in Credential(d) :
              GetHeader(head[r], n) # Nothing => GetHeader(head[r], n) = GetHeader(asked[r].head, n)
         /\ \A n : GetHeader(head[r], n).text \notin {"", "generated"} =>
              GetHeader(head[r], n) = GetHeader(asked[r].head, n)
         /\ \A n : GetQuery(head[r], n) # Nothing => GetQuery(head[r], n) = GetQuery(asked[r].head, n)
         /\ d.category = "combined_auth" =>
              GetQuery(head[r], "app_id") = GetQuery(asked[r].head, "app_id")
<1>1. at[r] \in DOMAIN setup.chain
  <2>1. DOMAIN setup.chain = 1..Len(Chain)
    BY DEF Chain
  <2>. QED BY <2>1
<1>2. ASSUME NEW i \in 1..(at[r] - 1), NEW c \in Confs(setup, i)
      PROVE  /\ MakesUp(c) \cap (JudgesBy(d) \cup Credential(d)) = {}
             /\ HidesHeader(c) \cap JudgesBy(d) = {}
             /\ d.category = "combined_auth" => "app_id" \notin HidesQuery(c)
  BY <1>1, <1>2 DEF GuardsApart
<1>3. Nothing.text = "" /\ Text("generated").text = "generated"
  BY DEF Nothing, Text
<1>4. ASSUME NEW n, ~SameHeader(head[r], asked[r].head, n)
      PROVE  /\ n \notin JudgesBy(d) /\ GetHeader(head[r], n).text \in {"", "generated"}
             /\ n \in Credential(d) => GetHeader(head[r], n) = Nothing
  <2>1. PICK i \in 1..(at[r] - 1) : \E c \in Confs(setup, i) :
          \/ n \in HidesHeader(c) /\ GetHeader(head[r], n) = Nothing
          \/ n \in MakesUp(c) /\ GetHeader(head[r], n) = Text("generated")
    BY <1>4 DEF HeaderKept
  <2>. QED BY <1>2, <1>3, <2>1
<1>5. ASSUME NEW n, GetQuery(head[r], n) # GetQuery(asked[r].head, n)
      PROVE  GetQuery(head[r], n) = Nothing /\ (d.category = "combined_auth" => n # "app_id")
  <2>1. PICK i \in 1..(at[r] - 1) : \E c \in Confs(setup, i) :
          n \in HidesQuery(c) /\ GetQuery(head[r], n) = Nothing
    BY <1>5 DEF QueryKept
  <2>. QED BY <1>2, <2>1
<1>6. \A n : SameHeader(head[r], asked[r].head, n) => GetHeader(head[r], n) = GetHeader(asked[r].head, n)
  BY DEF SameHeader
<1>. QED BY <1>4, <1>5, <1>6

\* So is the address of the client, for those who judge by it.
LEMMA AddressAsSent ==
  ASSUME NEW r \in Req,
         \A n \in ClientIpHeaders : GetHeader(head[r], n) = GetHeader(asked[r].head, n),
         head[r].remote = asked[r].head.remote
  PROVE  GetClientIp(head[r]) = GetClientIp(asked[r].head)
BY DEF GetClientIp, ClientIpHeaders

\* What a client sends is honest.
LEMMA SentValues ==
  ASSUME NEW h, SentOK(h), NEW n, NEW v \in {GetHeader(h, n), GetQuery(h, n), GetCookie(h, n)}
  PROVE  v.at \in Int /\ (v.text # "" => Honest(v))
<1>1. Nothing.text = "" /\ Nothing.at \in Int
  BY DEF Nothing, Text
<1>2. \A w \in ValuesOf(h) : w.at \in Int /\ Honest(w)
  BY DEF SentOK, Honest
<1>3. v \in ValuesOf(h) \cup {Nothing}
  <2>1. GetHeader(h, n) \in ValuesOf(h) \cup {Nothing} /\ GetQuery(h, n) \in ValuesOf(h) \cup {Nothing}
    BY DEF GetHeader, GetQuery, Get, ValuesOf
  <2>2. h.cookies # <<>> => 1 \in DOMAIN h.cookies
    BY DEF SentOK
  <2>3. GetCookie(h, n) \in ValuesOf(h) \cup {Nothing}
    BY <2>2 DEF GetCookie, ValuesOf
  <2>. QED BY <2>1, <2>3
<1>. QED BY <1>1, <1>2, <1>3

\* A handler that is called in request_filter and does not go on has ended the request.
LEMMA AnswerLogs ==
  ASSUME RequestsOK, NEW r \in Req, pc[r] = "request", NEW s, Answer(r, s)
  PROVE  pc'[r] = "logging"
BY DEF RequestsOK, Answer, Answered, AnsweredAfter

\* What a guard may use of the invariant.
LEMMA Judging ==
  ASSUME BaseInv, GuardInv, NEW r \in Req, pc[r] = "request", at[r] <= Len(Chain), Plugin(r) # NoConf
  PROVE  /\ at[r] \in 1..Len(Chain) /\ Plugin(r) \in Confs(setup, at[r])
         /\ SentOK(asked[r].head) /\ \A f \in Plain : head[r][f] = asked[r].head[f]
         /\ \A n \in JudgesBy(Plugin(r)) : SameHeader(head[r], asked[r].head, n)
         /\ \A n \in Credential(Plugin(r)) :
              GetHeader(head[r], n) # Nothing => GetHeader(head[r], n) = GetHeader(asked[r].head, n)
         /\ \A n : GetHeader(head[r], n).text \notin {"", "generated"} =>
              GetHeader(head[r], n) = GetHeader(asked[r].head, n)
         /\ \A n : GetQuery(head[r], n) # Nothing => GetQuery(head[r], n) = GetQuery(asked[r].head, n)
         /\ Plugin(r).category = "combined_auth" =>
              GetQuery(head[r], "app_id") = GetQuery(asked[r].head, "app_id")
         /\ ClientIpHeaders \subseteq JudgesBy(Plugin(r)) =>
              GetClientIp(head[r]) = GetClientIp(asked[r].head)
<1>0. TableOK /\ RequestsOK /\ FromTables /\ Len(Chain) \in Nat
  BY ChainLength DEF BaseInv, OInv, IInv
<1>1. at[r] \in 1..Len(Chain)
  BY <1>0 DEF RequestsOK
<1>2. Plugin(r) \in Confs(setup, at[r])
  BY <1>0, <1>1, Configured DEF Plugin, Name
<1>3. HeadOK(r)
  BY DEF GuardInv, InFlight
<1>4. SentOK(asked[r].head) /\ (\A f \in Plain : head[r][f] = asked[r].head[f])
      /\ \A n : HeaderKept(r, n) /\ QueryKept(r, n)
  BY <1>3 DEF HeadOK
<1>5. GuardsApart(setup)
  BY DEF GuardInv
<1>6. PICK d \in Confs(setup, at[r]) : d = Plugin(r)
  BY <1>2
<1>7. /\ \A n \in JudgesBy(d) : SameHeader(head[r], asked[r].head, n)
      /\ \A n \in Credential(d) :
              GetHeader(head[r], n) # Nothing => GetHeader(head[r], n) = GetHeader(asked[r].head, n)
      /\ \A n : GetHeader(head[r], n).text \notin {"", "generated"} =>
              GetHeader(head[r], n) = GetHeader(asked[r].head, n)
      /\ \A n : GetQuery(head[r], n) # Nothing => GetQuery(head[r], n) = GetQuery(asked[r].head, n)
      /\ d.category = "combined_auth" =>
              GetQuery(head[r], "app_id") = GetQuery(asked[r].head, "app_id")
  BY <1>0, <1>1, <1>4, <1>5, JudgedAsSent
<1>8. ClientIpHeaders \subseteq JudgesBy(d) => GetClientIp(head[r]) = GetClientIp(asked[r].head)
  <2>1. "remote" \in Plain
    BY DEF Plain, HeadFields
  <2>2. ClientIpHeaders \subseteq JudgesBy(d) =>
          \A n \in ClientIpHeaders : GetHeader(head[r], n) = GetHeader(asked[r].head, n)
    BY <1>7 DEF SameHeader
  <2>. QED BY <1>4, <2>1, <2>2, AddressAsSent
<1>. QED BY <1>1, <1>2, <1>4, <1>6, <1>7, <1>8

\* A guard that goes on lets the request of the client pass.
LEMMA GuardLets ==
  ASSUME BaseInv, GuardInv, NEW r \in Req, Guard(r) \/ Redirect(r), pc'[r] = "request"
  PROVE  Permits(Plugin(r), asked[r].head, clock)
<1>. DEFINE p == Plugin(r)
            h == asked[r].head
<1>0. pc[r] = "request" /\ at[r] <= Len(Chain) /\ p # NoConf /\ RequestsOK
  BY DEF Guard, BasicAuth, KeyAuth, JwtAuth, CombinedAuth, CsrfToken, Csrf, IpRestriction,
         UaRestriction, RefererRestriction, Redirect, Calls, BaseInv, OInv, IInv
<1>1. \A s : ~Answer(r, s)
  BY <1>0, AnswerLogs
<1>2. /\ SentOK(h) /\ \A f \in Plain : head[r][f] = h[f]
      /\ {"path", "method", "tls", "cookies"} \subseteq Plain
  BY <1>0, Judging DEF Plain, HeadFields
<1>3. Nothing = [text |-> "", at |-> 0, mac |-> ""] /\ Nothing.text = ""
  BY DEF Nothing, Text
<1>4. clock \in Int /\ \A v \in issued : Handed(v)
  BY <1>0 DEF RequestsOK, GuardInv
<1>5. CASE BasicAuth(r)
  <2>1. p.category = "basic_auth" /\ GetHeader(head[r], "authorization") # Nothing
        /\ GetHeader(head[r], "authorization").text \in p.authorizations
    BY <1>1, <1>5 DEF BasicAuth, Calls
  <2>2. "authorization" \in Credential(p)
    BY <2>1 DEF Credential
  <2>3. GetHeader(head[r], "authorization") = GetHeader(h, "authorization")
    BY <1>0, <2>1, <2>2, Judging
  <2>. QED BY <2>1, <2>3 DEF Permits
<1>6. CASE KeyAuth(r)
  <2>1. p.category = "key_auth"
    BY <1>6 DEF KeyAuth, Calls
  <2>2. PICK v : /\ v = IF p.query # "" THEN GetQuery(head[r], p.query) ELSE GetHeader(head[r], p.header)
                 /\ v # Nothing /\ v.text \in p.keys
    BY <1>1, <1>6 DEF KeyAuth
  <2>3. p.header \in Credential(p)
    BY <2>1 DEF Credential
  <2>4. v \in {GetQuery(h, p.query), GetHeader(h, p.header)}
    BY <1>0, <2>2, <2>3, Judging
  <2>. QED BY <2>1, <2>2, <2>4 DEF Permits
<1>7. CASE JwtAuth(r)
  <2>1. p.category = "jwt" /\ (head[r].path = p.authPath \/ JwtAccepts(p, JwtValue(p, head[r]), clock))
    BY <1>1, <1>7 DEF JwtAuth, Calls
  <2>2. CASE head[r].path = p.authPath
    BY <1>2, <2>1, <2>2 DEF Permits
  <2>3. CASE JwtAccepts(p, JwtValue(p, head[r]), clock)
    <3>1. PICK v : v = JwtValue(p, head[r]) /\ v.text = "jwt" /\ v.mac = p.secret
                   /\ (v.at = 0 \/ v.at >= clock)
      BY <2>3 DEF JwtAccepts
    <3>2. v # Nothing /\ v.text \notin {"", "generated"}
      BY <1>3, <3>1
    <3>3. v \in {GetHeader(h, p.header), GetQuery(h, p.query), GetCookie(h, p.cookie)}
      <4>1. v = GetHeader(head[r], p.header) => v = GetHeader(h, p.header)
        BY <1>0, <3>2, Judging
      <4>2. v = GetQuery(head[r], p.query) => v = GetQuery(h, p.query)
        BY <1>0, <3>2, Judging
      <4>3. v = GetCookie(head[r], p.cookie) => v = GetCookie(h, p.cookie)
        BY <1>2 DEF GetCookie
      <4>. QED BY <3>1, <4>1, <4>2, <4>3 DEF JwtValue
    <3>4. Honest(v)
      BY <1>2, <3>2, <3>3, SentValues
    <3>5. v \in issued
      BY <3>1, <3>4 DEF Honest
    <3>6. v.at >= clock
      BY <1>4, <3>1, <3>5 DEF Handed
    <3>. QED BY <2>1, <3>1, <3>3, <3>5, <3>6 DEF Permits
  <2>. QED BY <2>1, <2>2, <2>3
<1>8. CASE CombinedAuth(r)
  <2>1. p.category = "combined_auth" /\ CombinedAccepts(p, head[r], clock)
    BY <1>1, <1>8 DEF CombinedAuth, Calls
  <2>2. GetQuery(head[r], "app_id") = GetQuery(h, "app_id")
        /\ GetClientIp(head[r]) = GetClientIp(h)
    <3>1. ClientIpHeaders \subseteq JudgesBy(p)
      BY <2>1 DEF JudgesBy
    <3>. QED BY <1>0, <2>1, <3>1, Judging
  <2>3. PICK app : app = GetQuery(h, "app_id").text
    OBVIOUS
  <2>4. PICK a : a = p.auths[app]
    OBVIOUS
  <2>5. app \in DOMAIN p.auths
        /\ \/ a.secret = "*"
           \/ /\ a.ips # {} => GetClientIp(head[r]) \in a.ips
              /\ GetQuery(head[r], "ts").text = "ts"
              /\ clock - GetQuery(head[r], "ts").at <= a.deviation
              /\ GetQuery(head[r], "ts").at - clock <= a.deviation
              /\ GetQuery(head[r], "digest") = Signed("digest", GetQuery(head[r], "ts").at, a.secret)
    BY <2>1, <2>2, <2>3, <2>4 DEF CombinedAccepts
  <2>6. CASE a.secret = "*"
    BY <2>1, <2>3, <2>4, <2>5, <2>6 DEF Permits
  <2>7. CASE a.secret # "*"
    <3>1. PICK ts : ts = GetQuery(head[r], "ts").at
      OBVIOUS
    <3>2. Signed("digest", ts, a.secret) # Nothing
      BY <1>3 DEF Signed
    <3>3. GetQuery(h, "digest") = Signed("digest", ts, a.secret)
      BY <1>0, <2>5, <2>7, <3>1, <3>2, Judging
    <3>4. ts \in Int
      <4>1. GetQuery(head[r], "ts") = GetQuery(h, "ts")
        BY <1>0, <1>3, <2>5, <2>7, Judging
      <4>. QED BY <1>2, <3>1, <4>1, SentValues
    <3>5. a.deviation \in Nat
      <4>1. p \in Confs(setup, at[r]) /\ at[r] \in 1..Len(Chain)
        BY <1>0, Judging
      <4>2. at[r] \in DOMAIN setup.chain
        <5>1. TableOK
          BY DEF BaseInv, OInv, IInv
        <5>2. DOMAIN setup.chain = 1..Len(Chain)
          BY <5>1, ChainLength DEF Chain
        <5>. QED BY <4>1, <5>2
      <4>3. TokensIssued(setup)
        BY DEF GuardInv
      <4>. QED BY <2>1, <2>4, <2>5, <4>1, <4>2, <4>3 DEF TokensIssued
    <3>6. ts \in (clock - a.deviation)..(clock + a.deviation)
      BY <1>4, <2>5, <2>7, <3>1, <3>4, <3>5
    <3>7. a.ips = {} \/ GetClientIp(h) \in a.ips
      BY <2>2, <2>5, <2>7
    <3>. QED BY <2>1, <2>3, <2>4, <2>5, <3>3, <3>6, <3>7 DEF Permits
  <2>. QED BY <2>6, <2>7
<1>9. CASE CsrfToken(r)
  <2>1. pc'[r] = "logging"
    BY <1>0, <1>9 DEF CsrfToken, Answered, AnsweredAfter, Fail, RequestsOK
  <2>. QED BY <2>1
<1>10. CASE Csrf(r)
  <2>1. PICK v : v = GetHeader(head[r], p.name)
    OBVIOUS
  <2>2. p.category = "csrf"
        /\ \/ head[r].method \in {"GET", "HEAD", "OPTIONS"}
           \/ v # Nothing /\ v = GetCookie(head[r], p.name) /\ ValidateToken(p, v, clock)
    BY <1>1, <1>10, <2>1 DEF Csrf, Calls
  <2>3. CASE head[r].method \in {"GET", "HEAD", "OPTIONS"}
    BY <1>2, <2>2, <2>3 DEF Permits
  <2>4. CASE v # Nothing /\ v = GetCookie(head[r], p.name) /\ ValidateToken(p, v, clock)
    <3>1. v.text = "token" /\ v.mac = p.key /\ (p.ttl > 0 => clock - v.at <= p.ttl)
      BY <2>4 DEF ValidateToken
    <3>2. v = GetHeader(h, p.name)
      BY <1>0, <2>1, <3>1, Judging
    <3>3. v = GetCookie(h, p.name)
      BY <1>2, <2>4 DEF GetCookie
    <3>4. p.ttl \in Nat /\ p.key # "forged"
      <4>1. p \in Confs(setup, at[r]) /\ at[r] \in 1..Len(Chain)
        BY <1>0, Judging
      <4>2. at[r] \in DOMAIN setup.chain
        <5>1. TableOK
          BY DEF BaseInv, OInv, IInv
        <5>2. DOMAIN setup.chain = 1..Len(Chain)
          BY <5>1, ChainLength DEF Chain
        <5>. QED BY <4>1, <5>2
      <4>3. TokensIssued(setup)
        BY DEF GuardInv
      <4>. QED BY <2>2, <4>1, <4>2, <4>3 DEF TokensIssued
    <3>5. v \in issued
      <4>1. Honest(v)
        BY <1>2, <3>1, <3>2, SentValues
      <4>. QED BY <3>1, <3>4, <4>1 DEF Honest
    <3>6. Fresh(v, p.key, p.ttl, clock)
      BY <3>1, <3>4, <3>5 DEF Fresh
    <3>7. 1 \in DOMAIN h.cookies /\ h.cookies[1] = [name |-> p.name, value |-> v]
      <4>1. h.cookies # <<>> /\ h.cookies[1].name = p.name /\ h.cookies[1].value = v
        BY <2>4, <3>3 DEF GetCookie
      <4>2. 1 \in DOMAIN h.cookies
        BY <1>2, <4>1 DEF SentOK
      <4>. QED BY <1>2, <4>1, <4>2 DEF SentOK
    <3>. QED BY <2>2, <3>2, <3>6, <3>7 DEF Permits
  <2>. QED BY <2>2, <2>3, <2>4
<1>11. CASE IpRestriction(r)
  <2>1. PICK ip : ip = IF ctx[r].ip # "" THEN ctx[r].ip ELSE GetClientIp(head[r])
    OBVIOUS
  <2>2. p.category = "ip_restriction" /\ Allow(p, ip \in p.list)
    BY <1>1, <1>11, <2>1 DEF IpRestriction, Calls
  <2>3. ip = GetClientIp(h)
    <3>1. ClientIpHeaders \subseteq JudgesBy(p)
      BY <2>2 DEF JudgesBy
    <3>2. GetClientIp(head[r]) = GetClientIp(h)
      BY <1>0, <3>1, Judging
    <3>3. ctx[r].ip \in {"", GetClientIp(h)}
      BY <1>0 DEF GuardInv, InFlight, IpOK
    <3>. QED BY <2>1, <3>2, <3>3
  <2>. QED BY <2>2, <2>3 DEF Permits, Allow
<1>12. CASE UaRestriction(r)
  <2>1. p.category = "ua_restriction" /\ Allow(p, GetHeader(head[r], "user-agent").text \in p.list)
    BY <1>1, <1>12 DEF UaRestriction, Calls
  <2>2. GetHeader(head[r], "user-agent") = GetHeader(h, "user-agent")
    <3>1. "user-agent" \in JudgesBy(p)
      BY <2>1 DEF JudgesBy
    <3>. QED BY <1>0, <3>1, Judging DEF SameHeader
  <2>. QED BY <2>1, <2>2 DEF Permits, Allow
<1>13. CASE RefererRestriction(r)
  <2>1. PICK host : host = GetHeader(head[r], "referer").text
    OBVIOUS
  <2>2. PICK found \in BOOLEAN :
          found <=> /\ "referer" \in DOMAIN head[r].headers
                    /\ host \in p.list \/ \E s \in p.suffixes : host \in s
    OBVIOUS
  <2>3. p.category = "referer_restriction" /\ (IF p.type = "deny" THEN ~found ELSE found)
    BY <1>1, <1>13, <2>1, <2>2 DEF RefererRestriction, Calls, Allow
  <2>4. /\ host = GetHeader(h, "referer").text
        /\ "referer" \in DOMAIN head[r].headers <=> "referer" \in DOMAIN h.headers
    <3>1. "referer" \in JudgesBy(p)
      BY <2>3 DEF JudgesBy
    <3>. QED BY <1>0, <2>1, <3>1, Judging DEF SameHeader
  <2>5. found <=> /\ "referer" \in DOMAIN h.headers
                  /\ GetHeader(h, "referer").text \in p.list \cup UNION p.suffixes
    BY <2>2, <2>4
  <2>. QED BY <2>3, <2>5 DEF Permits
<1>14. CASE Redirect(r)
  <2>1. p.category = "redirect" /\ head[r].tls = p.httpToHttps
    BY <1>1, <1>14 DEF Redirect, Calls
  <2>. QED BY <1>2, <2>1 DEF Permits
<1>. QED BY <1>5, <1>6, <1>7, <1>8, <1>9, <1>10, <1>11, <1>12, <1>13, <1>14 DEF Guard

\* Whoever goes on in request_filter was let pass by the plugin it met.
LEMMA PassMeets ==
  ASSUME BaseInv, GuardInv, NEW r \in Req, Serve(r), pc[r] = "request", pc'[r] = "request",
         at[r] <= Len(Chain), Plugin(r) # NoConf
  PROVE  Permits(Plugin(r), asked[r].head, clock)
<1>0. RequestsOK
  BY DEF BaseInv, OInv, IInv
<1>1. CASE Guard(r) \/ Redirect(r)
  BY <1>1, GuardLets
<1>2. ASSUME Plugin(r).category \notin {"basic_auth", "key_auth", "jwt", "combined_auth", "csrf",
               "ip_restriction", "ua_restriction", "referer_restriction", "redirect"}
      PROVE  Permits(Plugin(r), asked[r].head, clock)
  BY <1>2 DEF Permits
<1>3. CASE Traffic(r) /\ ~Redirect(r)
  <2>1. Plugin(r).category \in {"ping", "mock", "stats", "directory", "admin", "request_id", "cors",
          "compression", "accept_encoding", "limit", "cache", "image_optim"}
    BY <1>3 DEF Traffic, Ping, Mock, Stats, Directory, AdminValidate, AdminReset, AdminLogin, AdminInc,
                RequestId, Cors, Compression, AcceptEncoding, Limit, CachePurge, CacheEnable,
                ImageOptim, Calls
  <2>. QED BY <1>2, <2>1
<1>4. CASE Skip(r)
  <2>1. "request" \notin HandlerSteps(Plugin(r).category)
    BY <1>4 DEF Skip
  <2>2. Plugin(r).category \in {"compression", "accept_encoding", "response_headers", "sub_filter"}
    BY <2>1 DEF HandlerSteps, RequestStep
  <2>. QED BY <1>2, <2>2
<1>5. CASE StepEnd(r)
  BY <1>0, <1>5, StepEnds
<1>6. CASE Response(r) \/ Lookup(r) \/ Upstream(r) \/ UpstreamFail(r) \/ Store(r) \/ Body(r) \/ Logging(r)
  BY <1>6 DEF Response, JwtAuthResponse, CorsResponse, ImageOptimResponse, ResponseHeaders, SubFilter,
              Calls, Lookup, Upstream, UpstreamFail, Store, Body, Logging
<1>. QED BY <1>1, <1>3, <1>4, <1>5, <1>6 DEF Serve, Server

\* Reading a header that was changed.
LEMMA HeaderRemoved ==
  ASSUME NEW h, DOMAIN h = HeadFields, NEW m
  PROVE  /\ \A f \in HeadFields \ {"headers"} : RemoveHeader(h, m)[f] = h[f]
         /\ RemoveHeader(h, m).headers = Drop(h.headers, m)
         /\ \A n : GetHeader(RemoveHeader(h, m), n) = IF n = m THEN Nothing ELSE GetHeader(h, n)
<1>1. RemoveHeader(h, m).headers = Drop(h.headers, m)
      /\ \A f \in HeadFields \ {"headers"} : RemoveHeader(h, m)[f] = h[f]
  BY DEF RemoveHeader, HeadFields
<1>2. \A f, n : Get(Drop(f, m), n) = IF n = m THEN Nothing ELSE Get(f, n)
  BY DEF Get, Drop
<1>. QED BY <1>1, <1>2 DEF GetHeader

LEMMA QueryRemoved ==
  ASSUME NEW h, DOMAIN h = HeadFields, NEW m
  PROVE  /\ \A f \in HeadFields \ {"query"} : RemoveQuery(h, m)[f] = h[f]
         /\ \A n : GetQuery(RemoveQuery(h, m), n) = IF n = m THEN Nothing ELSE GetQuery(h, n)
<1>1. RemoveQuery(h, m).query = Drop(h.query, m)
      /\ \A f \in HeadFields \ {"query"} : RemoveQuery(h, m)[f] = h[f]
  BY DEF RemoveQuery, HeadFields
<1>2. \A f, n : Get(Drop(f, m), n) = IF n = m THEN Nothing ELSE Get(f, n)
  BY DEF Get, Drop
<1>. QED BY <1>1, <1>2 DEF GetQuery

\* A plugin that goes on keeps what is known of the request header.
LEMMA PassHead ==
  ASSUME BaseInv, GuardInv, NEW r \in Req, NEW h, NEW c, Apart(r), Passes(r, h, c), HeadChange(r, h)
  PROVE  HeadOK(r)'
<1>0. /\ TableOK /\ RequestsOK /\ FromTables /\ pc[r] \in Handled /\ InFlight(r) /\ HeadOK(r)
      /\ at[r] \in 1..Len(Chain) /\ at[r] \in Int
  <2>1. TableOK /\ RequestsOK /\ FromTables /\ pc[r] \in Handled
    BY PlaceFacts DEF BaseInv, OInv, IInv, Passes
  <2>2. InFlight(r)
    BY <2>1, PlaceFacts DEF InFlight
  <2>. QED BY <2>1, <2>2, ChainLength DEF RequestsOK, Passes, GuardInv
<1>1. DOMAIN head[r] = HeadFields
  BY <1>0, Flying
<1>2. /\ pc'[r] = pc[r] /\ at'[r] = at[r] + 1 /\ head'[r] = h /\ asked'[r] = asked[r]
      /\ clock' = clock /\ setup' = setup /\ issued' = issued
  BY DEF Passes, Apart
<1>3. SentOK(asked[r].head)' /\ (asked[r].at \in 1..clock)'
  BY <1>0, <1>2 DEF HeadOK, SentOK, Honest
<1>4. \A f \in Plain : h[f] = asked[r].head[f]
  <2>1. \A f \in Plain : h[f] = head[r][f]
    <3>1. CASE \E e : h = [head[r] EXCEPT !.encodings = e]
      BY <1>1, <3>1 DEF Plain, HeadFields
    <3>2. CASE \E m : h = RemoveHeader(head[r], m) \/ h = RemoveQuery(head[r], m)
      BY <1>1, <3>2, HeaderRemoved, QueryRemoved DEF Plain
    <3>3. CASE \E m : h = [head[r] EXCEPT !.headers = Put(@, m, Text("generated"))]
      BY <1>1, <3>3 DEF Plain, HeadFields
    <3>. QED BY <3>1, <3>2, <3>3 DEF HeadChange
  <2>. QED BY <1>0, <2>1 DEF HeadOK
<1>5. ASSUME pc[r] = "early_request"
      PROVE  \A f \in HeadFields \ {"encodings"} : h[f] = asked[r].head[f]
  <2>1. \A f \in HeadFields \ {"encodings"} : h[f] = head[r][f]
    BY <1>1, <1>5 DEF HeadChange, HeadFields
  <2>. QED BY <1>0, <1>5, <2>1 DEF HeadOK
<1>6. ASSUME pc[r] = "request", NEW n
      PROVE  HeaderKept(r, n)' /\ QueryKept(r, n)'
  <2>1. 1..(at[r] - 1) \subseteq 1..(at'[r] - 1) /\ at[r] \in 1..(at'[r] - 1)
    BY <1>0, <1>2
  <2>2. HeaderKept(r, n) /\ QueryKept(r, n)
    BY <1>0, <1>6 DEF HeadOK
  <2>3. SameHeader(h, head[r], n) => HeaderKept(r, n)'
    BY <1>2, <2>1, <2>2 DEF HeaderKept, SameHeader
  <2>4. GetQuery(h, n) = GetQuery(head[r], n) => QueryKept(r, n)'
    BY <1>2, <2>1, <2>2 DEF QueryKept
  <2>5. ASSUME NEW d \in Confs(setup, at[r]),
               \/ n \in HidesHeader(d) /\ GetHeader(h, n) = Nothing
               \/ n \in MakesUp(d) /\ GetHeader(h, n) = Text("generated")
        PROVE  HeaderKept(r, n)'
    BY <1>2, <2>1, <2>5 DEF HeaderKept
  <2>6. ASSUME NEW d \in Confs(setup, at[r]), n \in HidesQuery(d), GetQuery(h, n) = Nothing
        PROVE  QueryKept(r, n)'
    BY <1>2, <2>1, <2>6 DEF QueryKept
  <2>7. Plugin(r) # NoConf => Plugin(r) \in Confs(setup, at[r])
    BY <1>0, Configured DEF Plugin, Name
  <2>8. CASE h = head[r]
    BY <2>3, <2>4, <2>8 DEF SameHeader
  <2>9. CASE Plugin(r) # NoConf /\ \E m \in HidesHeader(Plugin(r)) : h = RemoveHeader(head[r], m)
    <3>1. PICK m \in HidesHeader(Plugin(r)) : h = RemoveHeader(head[r], m)
      BY <2>9
    <3>2. (IF n = m THEN GetHeader(h, n) = Nothing ELSE SameHeader(h, head[r], n))
          /\ h.query = head[r].query
      <4>1. GetHeader(h, n) = (IF n = m THEN Nothing ELSE GetHeader(head[r], n))
            /\ h.headers = Drop(head[r].headers, m) /\ h.query = head[r].query
        BY <1>1, <3>1, HeaderRemoved DEF HeadFields
      <4>2. n # m => (n \in DOMAIN h.headers <=> n \in DOMAIN head[r].headers)
        BY <4>1 DEF Drop
      <4>. QED BY <4>1, <4>2 DEF SameHeader
    <3>. QED BY <2>3, <2>4, <2>5, <2>7, <2>9, <3>1, <3>2 DEF GetQuery
  <2>10. CASE Plugin(r) # NoConf /\ \E m \in HidesQuery(Plugin(r)) : h = RemoveQuery(head[r], m)
    <3>1. PICK m \in HidesQuery(Plugin(r)) : h = RemoveQuery(head[r], m)
      BY <2>10
    <3>2. GetQuery(h, n) = (IF n = m THEN Nothing ELSE GetQuery(head[r], n))
          /\ h.headers = head[r].headers
      BY <1>1, <3>1, QueryRemoved DEF HeadFields
    <3>. QED BY <2>3, <2>4, <2>6, <2>7, <2>10, <3>1, <3>2 DEF GetHeader, SameHeader
  <2>11. CASE Plugin(r) # NoConf /\ \E m \in MakesUp(Plugin(r)) :
                 h = [head[r] EXCEPT !.headers = Put(@, m, Text("generated"))]
    <3>1. PICK m \in MakesUp(Plugin(r)) : h = [head[r] EXCEPT !.headers = Put(@, m, Text("generated"))]
      BY <2>11
    <3>2. h.headers = Put(head[r].headers, m, Text("generated")) /\ h.query = head[r].query
      BY <1>1, <3>1 DEF HeadFields
    <3>3. IF n = m THEN GetHeader(h, n) = Text("generated") ELSE SameHeader(h, head[r], n)
      BY <3>2 DEF GetHeader, Get, Put, SameHeader
    <3>. QED BY <2>3, <2>4, <2>5, <2>7, <2>11, <3>1, <3>2, <3>3 DEF GetQuery
  <2>. QED BY <1>6, <2>8, <2>9, <2>10, <2>11 DEF HeadChange
<1>. QED BY <1>2, <1>3, <1>4, <1>5, <1>6 DEF HeadOK

\* The address a plugin leaves in the Ctx is that of the client.
LEMMA PassIp ==
  ASSUME BaseInv, GuardInv, NEW r \in Req, NEW h, NEW c, Apart(r), Passes(r, h, c), CtxChange(r, c)
  PROVE  IpOK(r)'
<1>1. RequestsOK /\ IpOK(r) /\ pc'[r] = pc[r] /\ ctx'[r] = c /\ asked'[r] = asked[r]
  BY DEF BaseInv, OInv, IInv, GuardInv, InFlight, Passes, RequestStep
<1>2. CASE c.ip = ctx[r].ip
  BY <1>1, <1>2 DEF IpOK
<1>3. CASE /\ pc[r] # "early_request" /\ Plugin(r) # NoConf /\ JudgesBy(Plugin(r)) = ClientIpHeaders
           /\ c.ip = GetClientIp(head[r])
  <2>1. CASE pc[r] = "request"
    <3>1. GetClientIp(head[r]) = GetClientIp(asked[r].head)
      BY <1>3, <2>1, Judging DEF Passes
    <3>. QED BY <1>1, <1>3, <2>1, <3>1 DEF IpOK
  <2>. QED BY <1>1, <1>3, <2>1 DEF IpOK
<1>. QED BY <1>2, <1>3 DEF CtxChange

\* So one more guard is met.
LEMMA PassMet ==
  ASSUME BaseInv, GuardInv, NEW r \in Req, NEW h, NEW c, Serve(r), Apart(r), Passes(r, h, c)
  PROVE  MetOK(r)'
<1>0. /\ RequestsOK /\ TableOK /\ Len(Chain) \in Nat /\ at[r] \in 1..Len(Chain) /\ Chain' = Chain
      /\ clock \in Nat
  <2>1. RequestsOK /\ TableOK
    BY DEF BaseInv, OInv, IInv
  <2>. QED BY <2>1, ChainLength DEF RequestsOK, Passes, Apart, Chain
<1>1. HeadOK(r) /\ MetOK(r)
  BY DEF GuardInv, InFlight, Passes, RequestStep
<1>2. /\ pc'[r] = pc[r] /\ at'[r] = at[r] + 1 /\ asked'[r] = asked[r] /\ touched'[r] = touched[r]
      /\ UNCHANGED <<setup, plugins, clock, issued>>
  BY DEF Passes, Apart
<1>3. asked[r].at \in 1..clock
  BY <1>1 DEF HeadOK
<1>4. ASSUME NEW i, Meets(r, i)
      PROVE  Meets(r, i)'
  BY <1>0, <1>2, <1>3, <1>4, MeetsKeeps
<1>5. ASSUME pc[r] = "request"
      PROVE  Meets(r, at[r])
  <2>1. CASE Plugin(r) = NoConf
    <3>1. Chain[at[r]] \in Names
      BY <1>0, ChainLength DEF Names, TableOK
    <3>. QED BY <1>1, <2>1, <3>1 DEF MetOK, Meets, Plugin, Name
  <2>2. CASE Plugin(r) # NoConf
    <3>1. Permits(Plugin(r), asked[r].head, clock)
      BY <1>0, <1>2, <1>5, <2>2, PassMeets
    <3>2. clock \in asked[r].at..clock
      BY <1>0, <1>3
    <3>. QED BY <3>1, <3>2 DEF Meets, Plugin, Name
  <2>. QED BY <2>1, <2>2
<1>6. ASSUME pc[r] = "request", NEW i \in 1..(at'[r] - 1)
      PROVE  Meets(r, i)'
  <2>1. i = at[r] \/ i \in 1..(at[r] - 1)
    BY <1>0, <1>2
  <2>. QED BY <1>1, <1>4, <1>5, <1>6, <2>1 DEF MetOK
<1>7. Names' = Names
  BY <1>2 DEF Names
<1>. QED BY <1>0, <1>1, <1>2, <1>4, <1>6, <1>7 DEF MetOK

\* A client sends the values it has and a token it was given.
LEMMA CarrySent ==
  ASSUME BaseInv, GuardInv, NEW h \in setup.inputs,
         NEW token \in issued \cup {Signed("token", clock, "forged")}
  PROVE  SentOK(Carry(h, token))
<1>1. DOMAIN h = HeadFields /\ clock \in Nat
  <2>1. setup \in Setup /\ RequestsOK
    BY DEF BaseInv, OInv, IInv, TableOK
  <2>. QED BY <2>1, ChainAssumption DEF RequestsOK
<1>2. /\ \A v \in ValuesOf(h) : v.text \notin {"jwt", "token"} /\ v.at \in Int
      /\ h.cookies \in Seq(Elements(h.cookies))
      /\ \A i \in DOMAIN h.cookies :
           h.cookies[i] = [name |-> h.cookies[i].name, value |-> h.cookies[i].value]
  BY DEF GuardInv, TokensIssued
<1>3. \A v \in ValuesOf(h) : Honest(v)
  BY <1>2 DEF Honest
<1>4. CASE h.token = ""
  BY <1>1, <1>2, <1>3, <1>4 DEF Carry, SentOK
<1>5. CASE h.token # ""
  <2>1. Honest(token)
    BY <1>1 DEF Honest, GuardInv, Handed, Signed
  <2>2. PICK g : g = Carry(h, token)
    OBVIOUS
  <2>3. PICK cookies : cookies = [i \in DOMAIN h.cookies |->
                          IF h.cookies[i].name = h.token THEN [h.cookies[i] EXCEPT !.value = token]
                          ELSE h.cookies[i]]
    OBVIOUS
  <2>4. g = [h EXCEPT !.headers = Put(@, h.token, token), !.cookies = cookies]
    BY <1>5, <2>2, <2>3 DEF Carry
  <2>5. DOMAIN g = HeadFields /\ g.headers = Put(h.headers, h.token, token) /\ g.cookies = cookies
        /\ g.query = h.query
    BY <1>1, <2>4 DEF HeadFields
  <2>6. ASSUME NEW i \in DOMAIN cookies
        PROVE  /\ cookies[i] = [name |-> cookies[i].name, value |-> cookies[i].value]
               /\ cookies[i].value = token \/ cookies[i].value = h.cookies[i].value
    <3>1. h.cookies[i] = [name |-> h.cookies[i].name, value |-> h.cookies[i].value]
          /\ i \in DOMAIN h.cookies
      BY <1>2, <2>3, <2>6
    <3>2. [h.cookies[i] EXCEPT !.value = token] = [name |-> h.cookies[i].name, value |-> token]
      BY <3>1
    <3>. QED BY <2>3, <3>1, <3>2
  <2>7. cookies \in Seq(Elements(cookies))
    <3>1. DOMAIN h.cookies = 1..Len(h.cookies) /\ Len(h.cookies) \in Nat
      BY <1>2
    <3>2. cookies \in [1..Len(h.cookies) -> Elements(cookies)]
      BY <2>3, <3>1 DEF Elements
    <3>. QED BY <3>1, <3>2
  <2>8. ASSUME NEW v \in ValuesOf(g)
        PROVE  v = token \/ v \in ValuesOf(h)
    <3>1. CASE v \in {g.headers[n] : n \in DOMAIN g.headers}
      BY <2>5, <3>1 DEF Put, ValuesOf
    <3>2. CASE v \in {g.query[n] : n \in DOMAIN g.query}
      BY <2>5, <3>2 DEF ValuesOf
    <3>3. CASE v \in {g.cookies[i].value : i \in DOMAIN g.cookies}
      <4>1. PICK i \in DOMAIN cookies : v = cookies[i].value
        BY <2>5, <3>3
      <4>2. i \in DOMAIN h.cookies
        BY <2>3, <4>1
      <4>. QED BY <2>6, <4>1, <4>2 DEF ValuesOf
    <3>. QED BY <3>1, <3>2, <3>3 DEF ValuesOf
  <2>9. \A v \in ValuesOf(g) : Honest(v)
    BY <1>3, <2>1, <2>8
  <2>. QED BY <2>2, <2>5, <2>6, <2>7, <2>9 DEF SentOK
<1>. QED BY <1>4, <1>5

LEMMA SentKeeps ==
  ASSUME issued \subseteq issued', NEW h, SentOK(h)
  PROVE  SentOK(h)'
BY DEF SentOK, Honest

\* A request that another step leaves alone.
LEMMA LeftAlone ==
  ASSUME BaseInv, NEW s \in Req, HeadOK(s) /\ IpOK(s) /\ MetOK(s),
         pc'[s] = pc[s], at'[s] = at[s], head'[s] = head[s], asked'[s] = asked[s], ctx'[s] = ctx[s],
         setup' = setup, issued \subseteq issued', clock' \in Nat, clock <= clock',
         touched[s] \subseteq touched'[s], DOMAIN plugins' = DOMAIN plugins,
         \A n \in Names : plugins'[n] = plugins[n] \/ n \in touched'[s]
  PROVE  (HeadOK(s) /\ IpOK(s) /\ MetOK(s))'
<1>0. RequestsOK /\ TableOK /\ clock \in Nat /\ Chain' = Chain
      /\ \A i \in 1..Len(Chain) : Chain[i] \in Names
  BY ChainLength DEF BaseInv, OInv, IInv, RequestsOK, Chain, Names, TableOK
<1>1. SentOK(asked[s].head)' /\ (asked[s].at \in 1..clock)' /\ asked[s].at \in Int
  <2>1. PICK h : h = asked[s].head
    OBVIOUS
  <2>2. SentOK(h)'
    BY <2>1, SentKeeps DEF HeadOK
  <2>. QED BY <1>0, <2>1, <2>2 DEF HeadOK
<1>2. HeadOK(s)'
  <2>1. ASSUME NEW n
        PROVE  (HeaderKept(s, n) <=> HeaderKept(s, n)') /\ (QueryKept(s, n) <=> QueryKept(s, n)')
    BY DEF HeaderKept, QueryKept, SameHeader
  <2>. QED BY <1>1, <2>1 DEF HeadOK
<1>3. IpOK(s)'
  BY DEF IpOK
<1>4. ASSUME NEW i \in 1..Len(Chain), Meets(s, i)
      PROVE  Meets(s, i)'
  BY <1>0, <1>1, <1>4, MeetsKeeps
<1>5. MetOK(s)'
  <2>1. 1..(at[s] - 1) \subseteq 1..Len(Chain)
    BY <1>0, ChainLength DEF RequestsOK
  <2>2. \A n \in Names' : plugins'[n].conf = NoConf => n \in touched'[s]
    BY DEF MetOK, Names
  <2>. QED BY <1>0, <1>4, <2>1, <2>2 DEF MetOK
<1>. QED BY <1>2, <1>3, <1>5

\* A step of a request that is past the guards, or leaves them.
LEMMA Later ==
  ASSUME BaseInv, NEW r \in Req, HeadOK(r), MetOK(r), Apart(r),
         head'[r] = head[r], asked'[r] = asked[r], touched'[r] = touched[r],
         pc'[r] \notin {"early_request", "request", "lookup", "proxy_upstream"}
  PROVE  (HeadOK(r) /\ IpOK(r) /\ MetOK(r))'
<1>1. SentOK(asked[r].head)' /\ (asked[r].at \in 1..clock)'
  <2>1. PICK h : h = asked[r].head
    OBVIOUS
  <2>2. SentOK(h)'
    BY <2>1, SentKeeps DEF HeadOK, Apart
  <2>. QED BY <2>1, <2>2 DEF HeadOK, Apart
<1>2. HeadOK(r)'
  BY <1>1 DEF HeadOK
<1>3. MetOK(r)'
  BY DEF MetOK, Apart, Names
<1>. QED BY <1>2, <1>3 DEF IpOK

\* From one step of the loop to the next.
LEMMA GuardStepEnd ==
  ASSUME BaseInv, GuardInv, NEW r \in Req, Apart(r), StepEnd(r)
  PROVE  (HeadOK(r) /\ IpOK(r) /\ MetOK(r))'
<1>0. RequestsOK /\ TableOK /\ InFlight(r) /\ HeadOK(r) /\ IpOK(r) /\ MetOK(r) /\ Len(Chain) \in Nat
  <2>1. RequestsOK /\ TableOK /\ InFlight(r)
    BY DEF BaseInv, OInv, IInv, InFlight, StepEnd, PluginStep, RequestStep, ResponseStep
  <2>. QED BY <2>1, ChainLength DEF GuardInv
<1>1. /\ UNCHANGED <<setup, plugins, clock, head, asked, ctx, resp, store, issued, touched>>
      /\ at'[r] = 1 /\ (head[r].upgrade \/ at[r] > Len(Chain)) /\ Chain' = Chain
  BY <1>0, StepEnds DEF Chain
<1>2. SentOK(asked[r].head)' /\ (asked[r].at \in 1..clock)' /\ asked[r].at \in Int /\ clock \in Int
      /\ \A f \in Plain : head'[r][f] = asked'[r].head[f]
  <2>1. PICK h : h = asked[r].head
    OBVIOUS
  <2>2. SentOK(h)'
    BY <1>0, <1>1, <2>1, SentKeeps DEF HeadOK
  <2>. QED BY <1>0, <1>1, <2>1, <2>2 DEF HeadOK, RequestsOK
<1>3. CASE pc[r] = "early_request" /\ pc'[r] = "request"
  <2>1. head[r].headers = asked[r].head.headers /\ head[r].query = asked[r].head.query
        /\ ctx[r].ip = ""
    BY <1>0, <1>3 DEF HeadOK, HeadFields, IpOK
  <2>2. \A n : HeaderKept(r, n)' /\ QueryKept(r, n)'
    BY <1>1, <2>1 DEF HeaderKept, QueryKept, SameHeader, GetHeader, GetQuery
  <2>3. HeadOK(r)'
    BY <1>2, <1>3, <2>2 DEF HeadOK
  <2>4. IpOK(r)'
    BY <1>1, <1>3, <2>1 DEF IpOK
  <2>5. MetOK(r)'
    BY <1>0, <1>1, <1>3 DEF MetOK, Names
  <2>. QED BY <2>3, <2>4, <2>5
<1>4. CASE pc[r] = "request" /\ pc'[r] \in {"lookup", "proxy_upstream"}
  <2>1. ASSUME NEW i \in 1..Len(Chain)
        PROVE  Meets(r, i)'
    <3>1. CASE head[r].upgrade
      <4>1. asked[r].head.upgrade
        BY <1>0, <3>1 DEF HeadOK, Plain, HeadFields
      <4>. QED BY <1>1, <4>1 DEF Meets
    <3>2. CASE ~head[r].upgrade
      <4>1. at[r] \in Int /\ i \in 1..(at[r] - 1)
        BY <1>0, <1>1, <3>2 DEF RequestsOK
      <4>2. Meets(r, i)
        BY <1>0, <1>4, <4>1 DEF MetOK
      <4>. QED BY <1>1, <1>2, <4>2, MeetsKeeps
    <3>. QED BY <3>1, <3>2
  <2>2. HeadOK(r)'
    BY <1>2, <1>4 DEF HeadOK
  <2>3. MetOK(r)'
    BY <1>0, <1>1, <1>4, <2>1 DEF MetOK, Names
  <2>. QED BY <1>4, <2>2, <2>3 DEF IpOK
<1>5. CASE pc'[r] \notin {"early_request", "request", "lookup", "proxy_upstream"}
  BY <1>0, <1>1, <1>5, Later
<1>. QED BY <1>0, <1>3, <1>4, <1>5, StepEnds

LEMMA GuardServe ==
  ASSUME BaseInv, GuardInv, NEW r \in Req, Serve(r), InFlight(r)'
  PROVE  (HeadOK(r) /\ IpOK(r) /\ MetOK(r))'
<1>0. RequestsOK /\ TableOK /\ Apart(r) /\ Shape(r) /\ InFlight(r)
  BY ServeShape, ServeTo DEF BaseInv, OInv, IInv, InFlight
<1>1. HeadOK(r) /\ IpOK(r) /\ MetOK(r)
  BY <1>0 DEF GuardInv
<1>2. CASE \E h, c : Passes(r, h, c) /\ HeadChange(r, h) /\ CtxChange(r, c)
  BY <1>0, <1>2, PassHead, PassIp, PassMet
<1>3. CASE Ends(r) \/ Waits(r)
  BY <1>0, <1>1, <1>3, Later DEF Ends, Waits, LoginStep
<1>4. CASE \E p, c : Responds(r, p, c)
  BY <1>0, <1>1, <1>4, Later DEF Responds, ResponseStep
<1>5. CASE StepEnd(r)
  BY <1>0, <1>5, GuardStepEnd
<1>6. CASE Lookup(r)
  <2>1. UNCHANGED <<head, asked, touched, plugins, setup, clock, issued>> /\ pc[r] = "lookup"
    BY <1>6 DEF Lookup, shared
  <2>2. pc'[r] \in {"response", "proxy_upstream"}
    BY <1>0, <1>6 DEF Lookup, Goto, RequestsOK
  <2>3. CASE pc'[r] = "response"
    BY <1>0, <1>1, <2>1, <2>3, Later
  <2>4. CASE pc'[r] = "proxy_upstream"
    <3>1. clock \in Nat /\ asked[r].at \in Int /\ Chain' = Chain
      BY <1>0, <1>1, <2>1 DEF RequestsOK, HeadOK, Chain
    <3>2. \A i \in 1..Len(Chain) : Meets(r, i)'
      BY <1>1, <2>1, <3>1, MeetsKeeps DEF MetOK
    <3>3. MetOK(r)'
      BY <1>1, <2>1, <2>4, <3>1, <3>2 DEF MetOK, Names
    <3>4. PICK h : h = asked[r].head
      OBVIOUS
    <3>5. SentOK(h)'
      BY <1>1, <2>1, <3>4, SentKeeps DEF HeadOK
    <3>6. HeadOK(r)'
      BY <1>1, <2>1, <2>4, <3>4, <3>5 DEF HeadOK
    <3>. QED BY <2>4, <3>3, <3>6 DEF IpOK
  <2>. QED BY <2>2, <2>3, <2>4
<1>7. CASE Upstream(r) \/ Store(r) \/ Body(r)
  <2>1. UNCHANGED <<head, asked, touched>> /\ pc'[r] \in {"upstream_response", "response", "logging"}
    BY <1>0, <1>7 DEF Upstream, Store, Body, Goto, RequestsOK
  <2>. QED BY <1>0, <1>1, <2>1, Later
<1>8. CASE Logging(r)
  BY <1>0, <1>8 DEF Logging, InFlight, RequestsOK
<1>. QED BY <1>0, <1>2, <1>3, <1>4, <1>5, <1>6, <1>7, <1>8 DEF Shape

LEMMA GuardArrive ==
  ASSUME BaseInv, GuardInv, NEW r \in Req, Arrive(r)
  PROVE  Apart(r) /\ issued' = issued /\ (HeadOK(r) /\ IpOK(r) /\ MetOK(r))'
<1>0. RequestsOK /\ Views /\ clock \in Nat /\ clock >= 1
  BY DEF BaseInv, OInv, IInv, RequestsOK
<1>1. /\ Apart(r) /\ UNCHANGED <<ctx, issued>> /\ pc[r] = "idle" /\ pc'[r] = "early_request"
      /\ touched'[r] = {n \in Names : plugins[n].conf = NoConf}
  BY <1>0, Arrives
<1>2. PICK h \in setup.inputs, token \in issued \cup {Signed("token", clock, "forged")} :
        head'[r] = Carry(h, token) /\ asked'[r] = [head |-> Carry(h, token), at |-> clock]
  BY <1>0, Arrives
<1>3. PICK g : g = Carry(h, token)
  OBVIOUS
<1>4. SentOK(g)'
  <2>1. SentOK(g)
    BY <1>3, CarrySent
  <2>. QED BY <1>1, <2>1, SentKeeps
<1>5. asked'[r].head = g /\ asked'[r].at = clock /\ head'[r] = g
  BY <1>2, <1>3
<1>6. HeadOK(r)'
  BY <1>0, <1>1, <1>4, <1>5 DEF HeadOK, Apart
<1>7. ctx'[r].ip = ""
  <2>1. ctx'[r] = NewCtx
    BY <1>1 DEF BaseInv, NewOK
  <2>2. NewCtx.ip = ""
    BY DEF NewCtx
  <2>. QED BY <2>1, <2>2
<1>8. MetOK(r)'
  BY <1>1 DEF MetOK, Apart, Names
<1>. QED BY <1>1, <1>6, <1>7, <1>8 DEF IpOK

\* Tokens are handed out by csrf and by the body of auth_path.
LEMMA IssuedBy ==
  ASSUME BaseInv, NEW r \in Req, Serve(r)
  PROVE  Ends(r) \/ Body(r) \/ issued' = issued
<1>0. RequestsOK /\ Shape(r)
  BY ServeShape DEF BaseInv, OInv, IInv
<1>. QED BY <1>0, StepEnds DEF Shape, Passes, Waits, Responds, Lookup, Upstream, Store, Logging, shared

LEMMA TokensHanded ==
  ASSUME BaseInv, GuardInv, NEW r \in Req, Serve(r)
  PROVE  \A v \in issued' : Handed(v)
<1>0. RequestsOK /\ Shape(r) /\ clock \in Nat /\ clock >= 1
  BY ServeShape DEF BaseInv, OInv, IInv, RequestsOK
<1>1. \A v \in issued : Handed(v)
  BY DEF GuardInv
<1>2. CASE Ends(r)
  <2>1. \A k : Handed(Signed("token", clock, k))
    BY <1>0 DEF Handed, Signed
  <2>. QED BY <1>1, <1>2, <2>1 DEF Ends
<1>3. CASE Body(r)
  <2>1. setup.upstream.exp \in Nat
    BY DEF GuardInv, TokensIssued
  <2>2. \A k : Handed(Signed("jwt", clock + setup.upstream.exp, k))
    BY <1>0, <2>1 DEF Handed, Signed
  <2>. QED BY <1>1, <1>3, <2>2 DEF Body
<1>4. CASE issued' = issued
  BY <1>1, <1>4
<1>. QED BY <1>2, <1>3, <1>4, IssuedBy

LEMMA GuardNext ==
  ASSUME BaseInv, GuardInv, [Next]_vars
  PROVE  GuardInv'
<1>0. RequestsOK /\ TableOK /\ Views /\ clock \in Nat
  BY DEF BaseInv, OInv, IInv, RequestsOK
<1>1. CASE \E r \in Req : Arrive(r) \/ Serve(r)
  <2>1. PICK r \in Req : Arrive(r) \/ Serve(r)
    BY <1>1
  <2>2. Apart(r) /\ (InFlight(r)' => (HeadOK(r) /\ IpOK(r) /\ MetOK(r))')
    BY <1>0, <2>1, ServeShape, GuardServe, GuardArrive DEF BaseInv
  <2>3. ASSUME NEW s \in Req \ {r}, InFlight(s)'
        PROVE  (HeadOK(s) /\ IpOK(s) /\ MetOK(s))'
    <3>1. HeadOK(s) /\ IpOK(s) /\ MetOK(s)
      BY <2>2, <2>3 DEF Apart, InFlight, GuardInv
    <3>2. /\ pc'[s] = pc[s] /\ at'[s] = at[s] /\ head'[s] = head[s] /\ asked'[s] = asked[s]
          /\ ctx'[s] = ctx[s] /\ setup' = setup /\ issued \subseteq issued' /\ clock' = clock
          /\ touched'[s] = touched[s] /\ plugins' = plugins
      BY <2>2, <2>3 DEF Apart
    <3>. QED BY <1>0, <2>3, <3>1, <3>2, LeftAlone
  <2>4. \A v \in issued' : Handed(v)
    BY <2>1, TokensHanded, GuardArrive DEF GuardInv
  <2>5. GuardsApart(setup') /\ TokensIssued(setup')
    BY <2>2 DEF Apart, GuardInv
  <2>. QED BY <2>2, <2>3, <2>4, <2>5 DEF GuardInv
<1>2. CASE Reload \/ Tick \/ UNCHANGED vars
  <2>1. UNCHANGED <<setup, pc, at, head, asked, ctx, issued>> /\ clock' \in Nat /\ clock <= clock'
        /\ DOMAIN plugins' = DOMAIN plugins
    BY <1>0, <1>2, Reloads DEF Tick, vars
  <2>2. ASSUME NEW s \in Req, InFlight(s)'
        PROVE  (HeadOK(s) /\ IpOK(s) /\ MetOK(s))'
    <3>1. HeadOK(s) /\ IpOK(s) /\ MetOK(s) /\ InFlight(s)
      BY <2>1, <2>2 DEF InFlight, GuardInv
    <3>2. touched[s] \subseteq touched'[s] /\ \A n \in Names : plugins'[n] = plugins[n] \/ n \in touched'[s]
      BY <1>0, <1>2, <3>1, Reloads DEF Tick, vars
    <3>. QED BY <2>1, <2>2, <3>1, <3>2, LeftAlone
  <2>. QED BY <2>1, <2>2 DEF GuardInv
<1>. QED BY <1>1, <1>2 DEF Next

LEMMA GuardInit ==
  ASSUME Init, GuardsApart(setup), TokensIssued(setup)
  PROVE  GuardInv
BY DEF Init, GuardInv, InFlight

\* A request is forwarded when it leaves the loop of proxy_upstream.
LEMMA ForwardsAllowed ==
  ASSUME BaseInv, GuardInv, [Next]_vars, NEW r \in Req, Outcome[r] = "waiting", Outcome'[r] = "forwarded"
  PROVE  r \in Allowed
<1>0. RequestsOK /\ TableOK /\ ValidOK /\ AnswersOK /\ AnswersOK'
  BY NextOnce DEF BaseInv, OInv, IInv
<1>1. What(pc[r], sent[r], ctx[r].hit) = "waiting" /\ What(pc'[r], sent'[r], ctx'[r].hit) = "forwarded"
  BY <1>0, OutcomeIs, OutcomeWillBe
<1>2. PICK s \in Req : Arrive(s) \/ Serve(s)
  <2>1. CASE Tick \/ Reload \/ UNCHANGED vars
    <3>1. UNCHANGED <<pc, sent, ctx>>
      BY <2>1 DEF Tick, Reload, TryInitPlugins, vars
    <3>. QED BY <1>1, <3>1
  <2>. QED BY <2>1 DEF Next
<1>3. OneStep(s)
  BY <1>0, <1>2, RequestFlow
<1>4. s = r
  <2>1. CASE s # r
    <3>1. pc'[r] = pc[r] /\ sent'[r] = sent[r] /\ ctx'[r].hit = ctx[r].hit
      BY <1>3, <2>1 DEF OneStep, Stays, Sends, Ignores, Walks, Hits, Leaves, Flow
    <3>. QED BY <1>1, <3>1
  <2>. QED BY <2>1
<1>5. pc[r] = "proxy_upstream"
  <2>0. sent[r] = 0 /\ (pc[r] \notin {"response", "body", "logging"} => ~ctx[r].hit)
    BY <1>0, <1>1 DEF AnswersOK, What
  <2>1. CASE Stays(r) \/ Sends(r) \/ Ignores(r) \/ Hits(r) \/ Leaves(r)
    BY <1>1, <2>0, <2>1 DEF Stays, Sends, Ignores, Hits, Leaves, Flow, What
  <2>2. CASE Walks(r)
    <3>1. <<pc[r], pc'[r]>> \in Transitions /\ sent'[r] = sent[r] /\ ctx'[r].hit = ctx[r].hit
      BY <2>2 DEF Walks, Flow
    <3>. QED BY <1>1, <2>0, <3>1 DEF Transitions, What
  <2>. QED BY <1>3, <1>4, <2>1, <2>2 DEF OneStep
<1>6. InFlight(r) /\ \A i \in 1..Len(Chain) : Meets(r, i)
  BY <1>5 DEF InFlight, GuardInv, MetOK
<1>7. ASSUME ~asked[r].head.upgrade, NEW n \in Elements(Chain) \ touched[r]
      PROVE  \E t \in asked[r].at..clock : Permits(plugins[n].conf, asked[r].head, t)
  <2>1. PICK i \in 1..Len(Chain) : n = Chain[i]
    BY <1>0, <1>7, ChainLength DEF Elements
  <2>. QED BY <1>6, <1>7, <2>1 DEF Meets
<1>. QED BY <1>6, <1>7 DEF Allowed

\* The guards of a location are enforced, for any chain, any requests and any reloads: a
\* request is answered once, and the upstream sees it only if every guard that was loaded
\* all along lets pass, at some moment, what the client sent (not what other plugins left
\* of it). That needs plugins that do not take away or make up what a later one judges by,
\* and signatures that are not forged.
THEOREM GuardsEnforced == Spec /\ GuardsApart(setup) /\ TokensIssued(setup) => Gate!Spec
<1>1. Init /\ GuardsApart(setup) /\ TokensIssued(setup) => GuardInv /\ Gate!Init
  <2>1. Init => Gate!Init
    BY InitOInv DEF Gate!Init, Once!Init
  <2>. QED BY <2>1, GuardInit
<1>2. BaseInv /\ GuardInv /\ [Next]_vars => GuardInv' /\ [Gate!Next]_Outcome
  <2>. SUFFICES ASSUME BaseInv, GuardInv, [Next]_vars
                PROVE  GuardInv' /\ (Gate!Next \/ Outcome' = Outcome)
    OBVIOUS
  <2>1. Once!Next \/ Outcome' = Outcome
    BY NextOnce DEF BaseInv
  <2>2. ASSUME Once!Next
        PROVE  Gate!Next \/ Outcome' = Outcome
    <3>1. PICK r \in Req : Once!Arrive(r) \/ Once!Serve(r)
      BY <2>2 DEF Once!Next
    <3>2. CASE Once!Forward(r)
      <4>1. Outcome[r] = "waiting" /\ Outcome' = [Outcome EXCEPT ![r] = "forwarded"]
        BY <3>2 DEF Once!Forward
      <4>2. Outcome'[r] = "forwarded"
        BY <4>1 DEF Outcome
      <4>3. Gate!Forward(r)
        BY <4>1, <4>2, ForwardsAllowed DEF Gate!Forward
      <4>. QED BY <4>3 DEF Gate!Next, Gate!Serve
    <3>3. CASE Once!Arrive(r) \/ Once!Reply(r) \/ Once!Relay(r) \/ Once!Ignore(r)
      <4>1. Gate!Arrive(r) \/ Gate!Reply(r) \/ Gate!Relay(r) \/ Gate!Ignore(r)
        BY <3>3 DEF Once!Arrive, Once!Reply, Once!Relay, Once!Ignore,
                    Gate!Arrive, Gate!Reply, Gate!Relay, Gate!Ignore
      <4>. QED BY <4>1 DEF Gate!Next, Gate!Serve
    <3>. QED BY <3>1, <3>2, <3>3 DEF Once!Serve
  <2>. QED BY <2>1, <2>2, GuardNext
<1>. QED BY <1>1, <1>2, BaseInvariance, PTL DEF Spec, Gate!Spec

-----------------------------------------------------------------------------
(* Lists: what the recursive functions of Kept and SetHeaders return. The     *)
(* theorems of the library on induction take an operator; this one takes a    *)
(* set.                                                                       *)

Less == {ss \in Nat \X Nat : ss[1] < ss[2]}

LEMMA LessFounded == IsWellFoundedOn(Less, Nat)
BY NatLessThanWellFounded, Zenon DEF OpToRel, Less

LEMMA Least ==
  ASSUME NEW T, T \subseteq Nat, T # {}
  PROVE  \E x \in T : \A y \in T : x <= y
<1>1. PICK x \in T : \A y \in T : ~ (<<y, x>> \in Less)
  BY LessFounded, WFMin
<1>2. ASSUME NEW y \in T PROVE x <= y
  <2>1. ~ (y < x)
    BY <1>1 DEF Less
  <2>. QED BY <2>1
<1>. QED BY <1>2

\* Induction over a set of numbers.
LEMMA SetInduction ==
  ASSUME NEW n \in Nat, NEW S, 0 \in S, \A i \in 0..(n - 1) : i \in S => i + 1 \in S
  PROVE  0..n \subseteq S
<1>. DEFINE T == {i \in 0..n : i \notin S}
<1>. SUFFICES ASSUME T # {} PROVE FALSE OBVIOUS
<1>1. PICK x \in T : \A y \in T : x <= y
  <2>. T \subseteq Nat OBVIOUS
  <2>. HIDE DEF T
  <2>. QED BY Least
<1>2. x # 0 /\ x - 1 \in 0..(n - 1) /\ x - 1 \notin T
  BY <1>1
<1>. QED BY <1>1, <1>2

\* The function SetHeaders is defined by.
EditAt(e, hs, h, c, g, i) == IF i = 0 THEN hs ELSE Edited(g[i - 1], e[i][1], e[i][2], h, c)
EditSteps(e, hs, h, c, g, n) == g = [i \in 0..n |-> EditAt(e, hs, h, c, g, i)]

LEMMA EditsExist ==
  ASSUME NEW p, NEW hs, NEW h, NEW c, NEW e, e = Edits(p), Len(e) \in Nat
  PROVE  \E g : EditSteps(e, hs, h, c, g, Len(e)) /\ SetHeaders(p, hs, h, c) = g[Len(e)]
<1>. DEFINE Fine == {n \in 0..Len(e) : \E g : EditSteps(e, hs, h, c, g, n)}
<1>1. 0 \in Fine
  <2>1. EditSteps(e, hs, h, c, [i \in 0..0 |-> hs], 0)
    BY DEF EditSteps, EditAt
  <2>. QED BY <2>1
<1>2. ASSUME NEW n \in 0..(Len(e) - 1), n \in Fine
      PROVE  n + 1 \in Fine
  <2>1. PICK g : EditSteps(e, hs, h, c, g, n)
    BY <1>2
  <2>2. PICK k : k = [i \in 0..(n + 1) |-> IF i <= n THEN g[i] ELSE EditAt(e, hs, h, c, g, i)]
    OBVIOUS
  <2>3. ASSUME NEW i \in 0..(n + 1)
        PROVE  k[i] = EditAt(e, hs, h, c, k, i)
    <3>1. i # 0 => i - 1 \in 0..n /\ k[i - 1] = g[i - 1]
      BY <2>2
    <3>2. EditAt(e, hs, h, c, k, i) = EditAt(e, hs, h, c, g, i)
      BY <3>1 DEF EditAt
    <3>3. i <= n => g[i] = EditAt(e, hs, h, c, g, i)
      BY <2>1 DEF EditSteps
    <3>. QED BY <2>2, <3>2, <3>3
  <2>4. EditSteps(e, hs, h, c, k, n + 1)
    BY <2>2, <2>3 DEF EditSteps
  <2>5. n + 1 \in 0..Len(e)
    OBVIOUS
  <2>. QED BY <2>4, <2>5
<1>3. Len(e) \in Fine
  <2>1. 0..Len(e) \subseteq Fine
    <3>. HIDE DEF Fine
    <3>. QED BY <1>1, <1>2, SetInduction
  <2>. QED BY <2>1
<1>4. \E g : EditSteps(e, hs, h, c, g, Len(e))
  BY <1>3
<1>5. SetHeaders(p, hs, h, c) = (CHOOSE g : EditSteps(e, hs, h, c, g, Len(e)))[Len(e)]
  BY DEF SetHeaders, EditSteps, EditAt
<1>6. PICK g : g = CHOOSE x : EditSteps(e, hs, h, c, x, Len(e))
  OBVIOUS
<1>7. EditSteps(e, hs, h, c, g, Len(e))
  BY <1>4, <1>6
<1>. QED BY <1>5, <1>6, <1>7

\* The changes that bring no length back.
Harmless(op, x) ==
  /\ op \in {"add", "remove", "set", "setMissing", "rename"}
  /\ op \in {"add", "set", "setMissing"} => x.name # "content-length"
  /\ op = "rename" => x.to # "content-length"

LEMMA EditedUnsized ==
  ASSUME NEW s, NEW op, NEW x, NEW h, NEW c, Harmless(op, x), "content-length" \notin DOMAIN s
  PROVE  "content-length" \notin DOMAIN Edited(s, op, x, h, c)
<1>1. \A f, n, v : "content-length" \notin DOMAIN f /\ n # "content-length" =>
                     "content-length" \notin DOMAIN Put(f, n, v)
  BY DEF Put
<1>2. \A f, n : "content-length" \notin DOMAIN f => "content-length" \notin DOMAIN Drop(f, n)
  BY DEF Drop
<1>3. CASE op = "add"
  <2>1. \E v : Edited(s, op, x, h, c) = Put(s, x.name, v)
    BY <1>3 DEF Edited
  <2>. QED BY <1>1, <1>3, <2>1 DEF Harmless
<1>4. CASE op = "remove"
  <2>1. Edited(s, op, x, h, c) = Drop(s, x.name)
    BY <1>4 DEF Edited
  <2>. QED BY <1>2, <2>1
<1>5. CASE op = "set"
  <2>1. \E v : Edited(s, op, x, h, c) = Put(s, x.name, v)
    BY <1>5 DEF Edited
  <2>. QED BY <1>1, <1>5, <2>1 DEF Harmless
<1>6. CASE op = "setMissing"
  <2>1. Edited(s, op, x, h, c) = s \/ \E v : Edited(s, op, x, h, c) = Put(s, x.name, v)
    BY <1>6 DEF Edited
  <2>. QED BY <1>1, <1>6, <2>1 DEF Harmless
<1>7. CASE op = "rename"
  <2>1. \/ Edited(s, op, x, h, c) = s
        \/ \E v : Edited(s, op, x, h, c) = Put(Drop(s, x.name), x.to, v)
    BY <1>7 DEF Edited
  <2>. QED BY <1>1, <1>2, <1>7, <2>1 DEF Harmless
<1>. QED BY <1>3, <1>4, <1>5, <1>6, <1>7 DEF Harmless

LEMMA TaggedIn ==
  ASSUME NEW l, l \in Seq(Elements(l)), NEW op, NEW A, \A x \in Elements(l) : <<op, x>> \in A
  PROVE  Tagged(op, l) \in Seq(A)
<1>1. DOMAIN l = 1..Len(l) /\ Len(l) \in Nat
  OBVIOUS
<1>2. \A i \in 1..Len(l) : <<op, l[i]>> \in A
  BY <1>1 DEF Elements
<1>. QED BY <1>1, <1>2 DEF Tagged

LEMMA SetHeadersUnsized ==
  ASSUME NEW p, NEW hs, NEW h, NEW c, "content-length" \notin DOMAIN hs,
         \A l \in {p.add, p.remove, p.set, p.setMissing, p.rename} : l \in Seq(Elements(l)),
         \A l \in {p.add, p.set, p.setMissing} : \A x \in Elements(l) : x.name # "content-length",
         \A x \in Elements(p.rename) : x.to # "content-length"
  PROVE  "content-length" \notin DOMAIN SetHeaders(p, hs, h, c)
<1>. DEFINE U == Elements(p.add) \cup Elements(p.remove) \cup Elements(p.set)
                   \cup Elements(p.setMissing) \cup Elements(p.rename)
            A == {y \in {"add", "remove", "set", "setMissing", "rename"} \X U : Harmless(y[1], y[2])}
<1>1. Tagged("add", p.add) \in Seq(A)
  <2>1. \A x \in Elements(p.add) : <<"add", x>> \in A
    BY DEF Harmless
  <2>. QED BY <2>1, TaggedIn
<1>2. Tagged("remove", p.remove) \in Seq(A)
  <2>1. \A x \in Elements(p.remove) : <<"remove", x>> \in A
    BY DEF Harmless
  <2>. QED BY <2>1, TaggedIn
<1>3. Tagged("set", p.set) \in Seq(A)
  <2>1. \A x \in Elements(p.set) : <<"set", x>> \in A
    BY DEF Harmless
  <2>. QED BY <2>1, TaggedIn
<1>4. Tagged("setMissing", p.setMissing) \in Seq(A)
  <2>1. \A x \in Elements(p.setMissing) : <<"setMissing", x>> \in A
    BY DEF Harmless
  <2>. QED BY <2>1, TaggedIn
<1>5. Tagged("rename", p.rename) \in Seq(A)
  <2>1. \A x \in Elements(p.rename) : <<"rename", x>> \in A
    BY DEF Harmless
  <2>. QED BY <2>1, TaggedIn
<1>6. PICK e : e = Edits(p)
  OBVIOUS
<1>7. e \in Seq(A)
  <2>. HIDE DEF A
  <2>. QED BY <1>1, <1>2, <1>3, <1>4, <1>5, <1>6 DEF Edits
<1>8. Len(e) \in Nat /\ \A i \in 1..Len(e) : Harmless(e[i][1], e[i][2])
  <2>1. Len(e) \in Nat /\ \A i \in 1..Len(e) : e[i] \in A
    <3>. HIDE DEF A
    <3>. QED BY <1>7
  <2>. QED BY <2>1
<1>9. PICK g : EditSteps(e, hs, h, c, g, Len(e)) /\ SetHeaders(p, hs, h, c) = g[Len(e)]
  BY <1>6, <1>8, EditsExist
<1>. DEFINE Good == {i \in 0..Len(e) : "content-length" \notin DOMAIN g[i]}
<1>10. 0 \in Good
  <2>1. g[0] = hs
    BY <1>8, <1>9 DEF EditSteps, EditAt
  <2>. QED BY <1>8, <2>1
<1>11. ASSUME NEW i \in 0..(Len(e) - 1), i \in Good
       PROVE  i + 1 \in Good
  <2>1. i + 1 \in 1..Len(e) /\ i + 1 \in 0..Len(e) /\ i + 1 # 0 /\ (i + 1) - 1 = i
    BY <1>8
  <2>2. g[i + 1] = EditAt(e, hs, h, c, g, i + 1)
    BY <1>9, <2>1 DEF EditSteps
  <2>3. g[i + 1] = Edited(g[i], e[i + 1][1], e[i + 1][2], h, c)
    BY <2>1, <2>2 DEF EditAt
  <2>4. "content-length" \notin DOMAIN g[i + 1]
    BY <1>8, <1>11, <2>1, <2>3, EditedUnsized
  <2>. QED BY <2>1, <2>4
<1>12. 0..Len(e) \subseteq Good
  <2>. HIDE DEF Good
  <2>. QED BY <1>8, <1>10, <1>11, SetInduction
<1>13. Len(e) \in Good
  <2>1. Len(e) \in 0..Len(e)
    BY <1>8
  <2>. QED BY <1>12, <2>1
<1>. QED BY <1>9, <1>13

-----------------------------------------------------------------------------
(* Bodies leave as promised.                                                 *)

LEMMA BodyInit ==
  ASSUME Init, LengthsKept(setup)
  PROVE  BodyInv
<1>1. NewCtx.body = NoModify /\ NewCtx.upstreamBody = ""
  BY DEF NewCtx
<1>2. ASSUME NEW r \in Req
      PROVE  EarlyBody(r) /\ LateBody(r) /\ SentBody(r)
  <2>1. pc[r] = "idle" /\ ctx[r] = NewCtx
    BY DEF Init
  <2>. QED BY <1>1, <2>1 DEF EarlyBody, LateBody, SentBody
<1>. QED BY <1>2 DEF BodyInv, Init

LEMMA HeadersSet ==
  ASSUME NEW p, Parts(p), NEW hs
  PROVE  /\ Parts([p EXCEPT !.headers = hs])
         /\ [p EXCEPT !.headers = hs].headers = hs /\ [p EXCEPT !.headers = hs].body = p.body
BY DEF Parts

LEMMA PutUnsized ==
  ASSUME NEW f, NEW n, NEW v, "content-length" \notin DOMAIN f, n # "content-length"
  PROVE  "content-length" \notin DOMAIN Put(f, n, v)
BY DEF Put

\* A request nobody works on.
LEMMA BodyLeft ==
  ASSUME NEW s \in Req, EarlyBody(s), LateBody(s), SentBody(s), setup' = setup,
         pc'[s] = pc[s], at'[s] = at[s], head'[s] = head[s], ctx'[s] = ctx[s], resp'[s] = resp[s],
         (touched'[s] = touched[s] /\ plugins' = plugins) \/ touched'[s] # {} \/ ~InFlight(s)
  PROVE  (EarlyBody(s) /\ LateBody(s) /\ SentBody(s))'
<1>1. EarlyBody(s)'
  BY DEF EarlyBody, Parts, Unsized
<1>2. (pc[s] \in {"response", "body"} => Sized(resp[s]))'
  BY DEF LateBody, Sized, Parts, Unsized
<1>3. CASE touched'[s] = touched[s] /\ plugins' = plugins
  <2>1. Claims(s)' = Claims(s)
    BY <1>3 DEF Claims, Chain
  <2>2. Done(s)' = Done(s)
    BY <2>1 DEF Done
  <2>3. Last(Done(s))' = Last(Done(s)) /\ Last(Claims(s))' = Last(Claims(s))
    BY <2>1, <2>2 DEF Last
  <2>4. LateBody(s)'
    BY <1>2, <1>3, <2>2, <2>3 DEF LateBody, Unsized, Chain
  <2>5. SentBody(s)'
    BY <1>3, <2>1, <2>3 DEF SentBody, Unsized, Chain
  <2>. QED BY <1>1, <2>4, <2>5
<1>4. CASE touched'[s] # {} \/ ~InFlight(s)
  BY <1>1, <1>2, <1>4 DEF LateBody, SentBody, InFlight
<1>. QED BY <1>3, <1>4

\* The steps of the request: its body is that of the response.
LEMMA BodyEarly ==
  ASSUME BodyInv, NEW r \in Req, pc'[r] \notin {"upstream_response", "store", "response", "body", "logging"},
         ctx'[r].body = NoModify, ctx'[r].upstreamBody = ""
  PROVE  (EarlyBody(r) /\ LateBody(r) /\ SentBody(r))'
BY DEF EarlyBody, LateBody, SentBody

LEMMA WaitsFrom ==
  ASSUME BaseInv, NEW r \in Req, Serve(r), Waits(r)
  PROVE  pc[r] \in LoginStep \cup {"request"}
<1>1. pc'[r] \in LoginStep /\ OneStep(r)
  BY RequestFlow DEF Waits, BaseInv, OInv, IInv
<1>. QED BY <1>1 DEF OneStep, Stays, Sends, Ignores, Walks, Hits, Leaves, Flow, Transitions, LoginStep

\* A response comes out of the cache or of the upstream.
LEMMA BodyResponse ==
  ASSUME BaseInv, BodyInv, NEW r \in Req, Apart(r), pc'[r] = "response", at'[r] = 1, Sized(resp'[r])
  PROVE  (EarlyBody(r) /\ LateBody(r) /\ SentBody(r))'
<1>1. TableOK
  BY DEF BaseInv, OInv, IInv
<1>2. DOMAIN Chain' = 1..Len(Chain) /\ Len(Chain) \in Nat
  BY <1>1, ChainLength DEF Apart, Chain
<1>3. Done(r)' = {}
  BY <1>2 DEF Done, Claims
<1>4. Sized(resp[r])'
  BY DEF Sized, Parts, Unsized, Apart
<1>. QED BY <1>3, <1>4 DEF EarlyBody, LateBody, SentBody, Last

\* One more plugin is done with the response.
LEMMA BodyPlugin ==
  ASSUME BaseInv, BodyInv, NEW r \in Req, Apart(r), pc[r] = "response", NEW p, NEW c, Responds(r, p, c),
         Parts(p), p.body = resp[r].body, Unsized(resp[r]) => Unsized(p),
         at[r] \in Claims(r) => Unsized(p) /\ c.body.by = plugins[Chain[at[r]]].conf.category,
         at[r] \notin Claims(r) => c.body = ctx[r].body
  PROVE  (EarlyBody(r) /\ LateBody(r) /\ SentBody(r))'
<1>0. /\ TableOK /\ LateBody(r) /\ at[r] \in Int /\ Len(Chain) \in Nat /\ DOMAIN Chain = 1..Len(Chain)
  <2>1. TableOK /\ at[r] \in Int
    BY PlaceFacts DEF BaseInv, OInv, IInv, RequestsOK
  <2>. QED BY <2>1, ChainLength DEF BodyInv
<1>1. /\ pc'[r] = "response" /\ at'[r] = at[r] + 1 /\ head'[r] = head[r] /\ ctx'[r] = c /\ resp'[r] = p
      /\ touched'[r] = touched[r] /\ setup' = setup /\ plugins' = plugins
  BY DEF Responds, Apart
<1>2. Claims(r)' = Claims(r) /\ \A i \in Claims(r) : i \in Int
  BY <1>0, <1>1 DEF Claims, Chain
<1>3. Sized(resp[r])'
  <2>1. Sized(resp[r])
    BY <1>0 DEF LateBody
  <2>. QED BY <1>1, <2>1 DEF Sized, Unsized, Parts
<1>4. CASE at[r] \in Claims(r)
  <2>1. at[r] \in Done(r)' /\ \A i \in Done(r)' : i <= at[r]
    BY <1>0, <1>1, <1>2, <1>4 DEF Done
  <2>2. \A i \in Last(Done(r))' : i = at[r]
    <3>1. \A i \in Done(r)' : i \in Int
      BY <1>2 DEF Done
    <3>. QED BY <1>0, <2>1, <3>1 DEF Last
  <2>3. (\A i \in Last(Done(r)) : ctx[r].body.by = plugins[Chain[i]].conf.category)'
    BY <1>1, <1>4, <2>2 DEF Chain
  <2>. QED BY <1>1, <1>3, <1>4, <2>3 DEF EarlyBody, LateBody, SentBody, Unsized
<1>5. CASE at[r] \notin Claims(r)
  <2>1. Done(r)' = Done(r)
    BY <1>0, <1>1, <1>2, <1>5 DEF Done
  <2>2. Last(Done(r))' = Last(Done(r))
    BY <2>1 DEF Last
  <2>. QED BY <1>0, <1>1, <1>3, <1>5, <2>1, <2>2 DEF EarlyBody, LateBody, SentBody, Unsized, Chain
<1>. QED BY <1>4, <1>5

\* A plugin that makes no body.
LEMMA NoClaim ==
  ASSUME NEW r \in Req, Plugin(r) = NoConf \/ Plugin(r).category \notin {"jwt", "sub_filter"}
                        \/ (Plugin(r).category = "jwt" /\ head[r].path # Plugin(r).authPath)
                        \/ (Plugin(r).category = "sub_filter" /\ head[r].path \notin Plugin(r).paths)
  PROVE  at[r] \notin Claims(r)
BY DEF Claims, Plugin, Name

LEMMA BodyRespond ==
  ASSUME BaseInv, BodyInv, NEW r \in Req, Apart(r), Response(r) \/ Skip(r), pc[r] = "response",
         NEW p, NEW c, Responds(r, p, c)
  PROVE  (EarlyBody(r) /\ LateBody(r) /\ SentBody(r))'
<1>0. Parts(resp[r]) /\ resp[r].body = resp[r].body /\ RequestsOK /\ TableOK /\ Views /\ FromTables
  BY DEF BodyInv, LateBody, Sized, BaseInv, OInv, IInv
<1>1. /\ \A q, d : Respond(r, q, d) => p = q /\ c = d
      /\ \A s : ~Fail(r, s)
  <2>1. resp'[r] = p /\ ctx'[r] = c /\ pc'[r] = pc[r]
    BY DEF Responds
  <2>2. ASSUME NEW q, NEW d, Respond(r, q, d)
        PROVE  resp'[r] = q /\ ctx'[r] = d
    BY <1>0, <2>2 DEF Respond, RequestsOK, Views
  <2>3. ASSUME NEW s, Fail(r, s)
        PROVE  pc'[r] = "logging"
    BY <1>0, <2>3 DEF Fail, RequestsOK
  <2>. QED BY <2>1, <2>2, <2>3
<1>2. ASSUME NEW hs, p = [resp[r] EXCEPT !.headers = hs]
      PROVE  Parts(p) /\ p.headers = hs /\ p.body = resp[r].body
  BY <1>0, <1>2, HeadersSet
<1>3. DOMAIN ctx[r] = CtxFields
  BY <1>0, Flying, PlaceFacts
<1>4. ASSUME NEW m, c = [ctx[r] EXCEPT !.body = m]
      PROVE  c.body = m
  BY <1>3, <1>4 DEF CtxFields
<1>5. ASSUME p = resp[r], c = ctx[r], at[r] \notin Claims(r)
      PROVE  (EarlyBody(r) /\ LateBody(r) /\ SentBody(r))'
  BY <1>0, <1>5, BodyPlugin
<1>6. CASE JwtAuthResponse(r)
  <2>1. Plugin(r).category = "jwt"
    BY <1>6 DEF JwtAuthResponse, Calls
  <2>2. CASE head[r].path # Plugin(r).authPath
    <3>1. p = resp[r] /\ c = ctx[r]
      BY <1>1, <1>6, <2>2 DEF JwtAuthResponse
    <3>. QED BY <1>5, <2>1, <2>2, <3>1, NoClaim
  <2>3. CASE head[r].path = Plugin(r).authPath
    <3>1. PICK hs : hs = Put(Put(Drop(resp[r].headers, "content-length"), "content-type", <<"json">>),
                             "transfer-encoding", <<"chunked">>)
      OBVIOUS
    <3>2. p = [resp[r] EXCEPT !.headers = hs] /\ c = [ctx[r] EXCEPT !.body = Modify("jwt", Plugin(r).secret)]
      BY <1>1, <1>6, <2>3, <3>1 DEF JwtAuthResponse
    <3>3. "content-length" \notin DOMAIN hs
      BY <3>1 DEF Put, Drop
    <3>4. c.body.by = "jwt"
      BY <1>4, <3>2 DEF Modify
    <3>5. at[r] \in Claims(r) /\ plugins[Chain[at[r]]].conf.category = "jwt"
      <4>1. at[r] \in DOMAIN Chain /\ Plugin(r) # NoConf
        BY <1>0, <1>6, PlaceFacts, ChainLength DEF JwtAuthResponse, Calls, RequestsOK
      <4>. QED BY <2>1, <2>3, <4>1 DEF Claims, Plugin, Name
    <3>. QED BY <1>2, <3>2, <3>3, <3>4, <3>5, BodyPlugin DEF Unsized
  <2>. QED BY <2>2, <2>3
<1>7. CASE CorsResponse(r)
  <2>1. at[r] \notin Claims(r)
    BY <1>7, NoClaim DEF CorsResponse, Calls
  <2>2. c = ctx[r]
    BY <1>1, <1>7 DEF CorsResponse
  <2>3. \/ p = resp[r]
        \/ \E v : p = [resp[r] EXCEPT !.headers = Put(resp[r].headers, "access-control-allow-origin", v)]
    BY <1>1, <1>7 DEF CorsResponse
  <2>4. CASE p # resp[r]
    <3>1. PICK v, hs : p = [resp[r] EXCEPT !.headers = hs]
                       /\ hs = Put(resp[r].headers, "access-control-allow-origin", v)
      BY <2>3, <2>4
    <3>2. Unsized(resp[r]) => "content-length" \notin DOMAIN hs
      BY <3>1, PutUnsized DEF Unsized
    <3>. QED BY <1>2, <2>1, <2>2, <3>1, <3>2, BodyPlugin DEF Unsized
  <2>. QED BY <1>5, <2>1, <2>2, <2>4
<1>8. CASE ImageOptimResponse(r)
  BY <1>8 DEF ImageOptimResponse, Calls
<1>9. CASE ResponseHeaders(r)
  <2>1. at[r] \notin Claims(r) /\ Plugin(r) # NoConf /\ Plugin(r).category = "response_headers"
    BY <1>9, NoClaim DEF ResponseHeaders, Calls
  <2>2. PICK hs : hs = SetHeaders(Plugin(r), resp[r].headers, head[r], ctx[r])
    OBVIOUS
  <2>3. p = [resp[r] EXCEPT !.headers = hs] /\ c = ctx[r]
    BY <1>1, <1>9, <2>2 DEF ResponseHeaders
  <2>4. at[r] \in 1..Len(Chain) /\ at[r] \in DOMAIN setup.chain
    BY <1>0, <1>9, PlaceFacts, ChainLength DEF ResponseHeaders, Calls, RequestsOK, Chain
  <2>5. Plugin(r) \in Confs(setup, at[r])
    BY <1>0, <2>1, <2>4, Configured DEF Plugin, Name
  <2>6. PICK x : x = Plugin(r)
    OBVIOUS
  <2>7. /\ \A l \in {x.add, x.remove, x.set, x.setMissing, x.rename} : l \in Seq(Elements(l))
        /\ \A l \in {x.add, x.set, x.setMissing} : \A y \in Elements(l) : y.name # "content-length"
        /\ \A y \in Elements(x.rename) : y.to # "content-length"
    BY <2>1, <2>4, <2>5, <2>6 DEF BodyInv, LengthsKept
  <2>8. Unsized(resp[r]) => "content-length" \notin DOMAIN hs
    BY <2>2, <2>6, <2>7, SetHeadersUnsized DEF Unsized
  <2>. QED BY <1>2, <2>1, <2>3, <2>8, BodyPlugin DEF Unsized
<1>10. CASE SubFilter(r)
  <2>1. Plugin(r).category = "sub_filter"
    BY <1>10 DEF SubFilter, Calls
  <2>2. CASE head[r].path \notin Plugin(r).paths
    <3>1. p = resp[r] /\ c = ctx[r]
      BY <1>1, <1>10, <2>2 DEF SubFilter
    <3>. QED BY <1>5, <2>1, <2>2, <3>1, NoClaim
  <2>3. CASE head[r].path \in Plugin(r).paths
    <3>1. PICK hs : hs = FilterHeaders(resp[r].headers)
      OBVIOUS
    <3>2. p = [resp[r] EXCEPT !.headers = hs] /\ c = [ctx[r] EXCEPT !.body = Modify("sub_filter", "")]
      BY <1>1, <1>10, <2>3, <3>1 DEF SubFilter
    <3>3. "content-length" \notin DOMAIN hs
      BY <3>1 DEF FilterHeaders, Put, Drop
    <3>4. c.body.by = "sub_filter"
      BY <1>4, <3>2 DEF Modify
    <3>5. at[r] \in Claims(r) /\ plugins[Chain[at[r]]].conf.category = "sub_filter"
      <4>1. at[r] \in DOMAIN Chain /\ Plugin(r) # NoConf
        <5>1. at[r] <= Len(Chain) /\ Plugin(r) # NoConf
          BY <1>10 DEF SubFilter, Calls
        <5>. QED BY <1>0, <5>1, ChainLength DEF RequestsOK
      <4>. QED BY <2>1, <2>3, <4>1 DEF Claims, Plugin, Name
    <3>. QED BY <1>2, <3>2, <3>3, <3>4, <3>5, BodyPlugin DEF Unsized
  <2>. QED BY <2>2, <2>3
<1>11. CASE Skip(r)
  <2>1. Plugin(r) = NoConf \/ Plugin(r).category \notin {"jwt", "sub_filter"}
    <3>1. "response" \in HandlerSteps("jwt") /\ "response" \in HandlerSteps("sub_filter")
      BY DEF HandlerSteps
    <3>. QED BY <1>11, <3>1 DEF Skip
  <2>2. p = resp[r] /\ c = ctx[r]
    BY <1>0, <1>11 DEF Skip, Responds
  <2>. QED BY <1>5, <2>1, <2>2, NoClaim
<1>. QED BY <1>6, <1>7, <1>8, <1>9, <1>10, <1>11 DEF Response

\* image_optim takes the length away when it makes a body of its own.
LEMMA BodyUpstream ==
  ASSUME BaseInv, BodyInv, NEW r \in Req, Apart(r), Response(r) \/ Skip(r), pc[r] = "upstream_response",
         NEW p, NEW c, Responds(r, p, c)
  PROVE  (EarlyBody(r) /\ LateBody(r) /\ SentBody(r))'
<1>0. /\ EarlyBody(r) /\ RequestsOK /\ Views /\ setup' = setup /\ pc'[r] = "upstream_response"
      /\ resp'[r] = p /\ ctx'[r] = c
  BY DEF BodyInv, BaseInv, OInv, IInv, Apart, Responds
<1>1. Parts(resp[r]) /\ resp[r].body.format = setup.upstream.format /\ ctx[r].body = NoModify
  BY <1>0 DEF EarlyBody
<1>2. /\ Parts(p) /\ p.body = resp[r].body /\ c.body = NoModify
      /\ c.upstreamBody # "" => Unsized(p)
  <2>1. CASE p = resp[r] /\ c = ctx[r]
    BY <1>0, <1>1, <2>1 DEF EarlyBody
  <2>2. CASE ImageOptimResponse(r) /\ ~(p = resp[r] /\ c = ctx[r])
    <3>. DEFINE types == AcceptImages(Plugin(r), head[r])
                fmt == IF types = <<>> THEN resp[r].body.format ELSE types[1]
                new == Put(Put(Drop(resp[r].headers, "content-length"), "content-type", <<fmt>>),
                           "transfer-encoding", <<"chunked">>)
    <3>0. \/ Respond(r, resp[r], ctx[r])
          \/ Respond(r, [resp[r] EXCEPT !.headers = new], [ctx[r] EXCEPT !.upstreamBody = fmt])
      BY <2>2 DEF ImageOptimResponse
    <3>a. PICK format, hs : format = fmt /\ hs = new
      OBVIOUS
    <3>b. \/ Respond(r, resp[r], ctx[r])
          \/ Respond(r, [resp[r] EXCEPT !.headers = hs], [ctx[r] EXCEPT !.upstreamBody = format])
      BY <3>0, <3>a
    <3>1. PICK q, d :
            /\ Respond(r, q, d)
            /\ \/ q = resp[r] /\ d = ctx[r]
               \/ q = [resp[r] EXCEPT !.headers = hs] /\ d = [ctx[r] EXCEPT !.upstreamBody = format]
      <4>. HIDE DEF fmt, new
      <4>. QED BY <3>b
    <3>2. p = q /\ c = d
      BY <1>0, <3>1 DEF Respond, RequestsOK, Views
    <3>3. DOMAIN ctx[r] = CtxFields
      BY <1>0 DEF RequestsOK
    <3>4. c.body = NoModify
      BY <1>1, <2>2, <3>1, <3>2, <3>3 DEF CtxFields
    <3>5. "content-length" \notin DOMAIN hs
      BY <3>a DEF Put, Drop
    <3>6. p = [resp[r] EXCEPT !.headers = hs]
      BY <2>2, <3>1, <3>2
    <3>7. Parts(p) /\ p.headers = hs /\ p.body = resp[r].body
      BY <1>1, <3>6, HeadersSet
    <3>. QED BY <3>4, <3>5, <3>7 DEF Unsized
  <2>3. ImageOptimResponse(r) \/ Skip(r)
    BY DEF Response, JwtAuthResponse, CorsResponse, ResponseHeaders, SubFilter, Calls
  <2>4. Skip(r) => p = resp[r] /\ c = ctx[r]
    BY <1>0 DEF Skip
  <2>. QED BY <2>1, <2>2, <2>3, <2>4
<1>3. EarlyBody(r)'
  BY <1>0, <1>1, <1>2 DEF EarlyBody, Unsized, Parts
<1>. QED BY <1>0, <1>3 DEF LateBody, SentBody

\* The end of the loops, and the body itself.
LEMMA BodyStepEnd ==
  ASSUME BaseInv, BodyInv, NEW r \in Req, Apart(r), StepEnd(r)
  PROVE  (EarlyBody(r) /\ LateBody(r) /\ SentBody(r))'
<1>0. RequestsOK /\ TableOK /\ EarlyBody(r) /\ LateBody(r)
  BY DEF BodyInv, BaseInv, OInv, IInv
<1>1. /\ UNCHANGED <<setup, plugins, head, ctx, resp, touched>>
      /\ (head[r].upgrade \/ at[r] > Len(Chain))
      /\ \/ pc[r] \in RequestStep /\ pc'[r] \in {"request", "lookup", "proxy_upstream", "upstream"}
         \/ pc[r] = "upstream_response" /\ pc'[r] = "store"
         \/ pc[r] = "response" /\ pc'[r] = "body"
  BY <1>0, StepEnds DEF RequestStep
<1>2. CASE pc[r] \in RequestStep /\ pc'[r] \in {"request", "lookup", "proxy_upstream", "upstream"}
  <2>1. ctx[r].body = NoModify /\ ctx[r].upstreamBody = ""
    BY <1>0, <1>2 DEF EarlyBody, RequestStep
  <2>. QED BY <1>1, <1>2, <2>1, BodyEarly
<1>3. CASE pc[r] = "upstream_response" /\ pc'[r] = "store"
  BY <1>0, <1>1, <1>3 DEF EarlyBody, LateBody, SentBody, Parts, Unsized
<1>4. CASE pc[r] = "response" /\ pc'[r] = "body"
  <2>1. Sized(resp[r])'
    BY <1>0, <1>1, <1>4 DEF LateBody, Sized, Parts, Unsized
  <2>2. CASE head[r].upgrade
    BY <1>1, <1>4, <2>1, <2>2 DEF EarlyBody, LateBody, SentBody
  <2>3. CASE ~head[r].upgrade
    <3>1. Claims(r)' = Claims(r) /\ \A i \in Claims(r) : i < at[r]
      <4>1. at[r] \in Int /\ Len(Chain) \in Nat /\ DOMAIN Chain = 1..Len(Chain) /\ at[r] > Len(Chain)
        BY <1>0, <1>1, <2>3, ChainLength DEF RequestsOK
      <4>. QED BY <1>1, <4>1 DEF Claims, Chain
    <3>2. Done(r)' = Done(r)
      BY <1>4, <3>1 DEF Done
    <3>3. Last(Done(r))' = Last(Done(r))
      BY <3>2 DEF Last
    <3>. QED BY <1>0, <1>1, <1>4, <2>1, <2>3, <3>2, <3>3 DEF EarlyBody, LateBody, SentBody, Unsized, Chain
  <2>. QED BY <2>2, <2>3
<1>. QED BY <1>1, <1>2, <1>3, <1>4

LEMMA BodyBody ==
  ASSUME BaseInv, BodyInv, NEW r \in Req, Apart(r), Body(r)
  PROVE  (EarlyBody(r) /\ LateBody(r) /\ SentBody(r))'
<1>0. LateBody(r) /\ Views /\ pc[r] = "body" /\ Parts(resp[r]) /\ RequestsOK
  BY DEF BodyInv, LateBody, Sized, Body, BaseInv, OInv, IInv
<1>1. /\ pc'[r] = "logging" /\ UNCHANGED <<setup, plugins, head, touched>>
  BY <1>0 DEF Body, Goto, RequestsOK
<1>2. /\ resp'[r].body.signed = (ctx[r].body.by = "jwt") /\ resp'[r].headers = resp[r].headers
      /\ resp'[r].body.replaced = (ctx[r].body.by = "sub_filter")
      /\ resp'[r].body.format = resp[r].body.format
  BY <1>0 DEF Body, Views, Parts
<1>3. CASE head[r].upgrade \/ touched[r] # {}
  BY <1>1, <1>3 DEF EarlyBody, LateBody, SentBody
<1>4. CASE ~(head[r].upgrade \/ touched[r] # {})
  <2>1. Claims(r)' = Claims(r) /\ Done(r) = Claims(r)
    BY <1>0, <1>1 DEF Claims, Done, Chain
  <2>2. Last(Claims(r))' = Last(Done(r))
    BY <2>1 DEF Last
  <2>3. (Claims(r) # {} => Unsized(resp[r])) /\ (resp[r].body.format # setup.upstream.format => Unsized(resp[r]))
    BY <1>0, <1>4, <2>1 DEF LateBody, Sized
  <2>4. ASSUME NEW i \in Last(Done(r))
        PROVE  /\ ctx[r].body.by = plugins[Chain[i]].conf.category
               /\ plugins[Chain[i]].conf.category \in {"jwt", "sub_filter"}
    BY <1>0, <1>4, <2>4 DEF LateBody, Last, Done, Claims
  <2>5. (\A i \in Last(Claims(r)) :
           IF plugins[Chain[i]].conf.category = "jwt" THEN resp[r].body.signed ELSE resp[r].body.replaced)'
    BY <1>1, <1>2, <2>2, <2>4 DEF Chain
  <2>6. (Claims(r) # {} \/ resp[r].body.format # setup.upstream.format => Unsized(resp[r]))'
    BY <1>1, <1>2, <2>1, <2>3 DEF Unsized
  <2>. QED BY <1>1, <2>5, <2>6 DEF EarlyBody, LateBody, SentBody
<1>. QED BY <1>3, <1>4

LEMMA BodyServe ==
  ASSUME BaseInv, BodyInv, NEW r \in Req, Serve(r)
  PROVE  /\ (EarlyBody(r) /\ LateBody(r) /\ SentBody(r))'
         /\ \A k \in DOMAIN store' : Sized(store'[k])
<1>0. RequestsOK /\ TableOK /\ Views /\ Apart(r) /\ Shape(r)
  BY ServeShape DEF BaseInv, OInv, IInv
<1>1. EarlyBody(r) /\ LateBody(r) /\ \A k \in DOMAIN store : Sized(store[k])
  BY DEF BodyInv
<1>2. CASE \E h, c : Passes(r, h, c) /\ HeadChange(r, h) /\ CtxChange(r, c)
  <2>1. PICK h, c : Passes(r, h, c) /\ CtxChange(r, c)
    BY <1>2
  <2>2. pc[r] \in RequestStep /\ pc'[r] = pc[r] /\ ctx'[r] = c /\ store' = store
    BY <2>1 DEF Passes
  <2>3. ctx[r].body = NoModify /\ ctx[r].upstreamBody = ""
    BY <1>1, <2>2 DEF EarlyBody, RequestStep
  <2>4. c.body = NoModify /\ c.upstreamBody = ""
    BY <2>1, <2>3 DEF CtxChange
  <2>. QED BY <1>1, <2>2, <2>4, BodyEarly DEF RequestStep
<1>3. CASE Ends(r)
  <2>1. pc'[r] = "logging" /\ resp'[r].body = NoBody
    BY <1>3 DEF Ends
  <2>2. \A k \in DOMAIN store' : k \in DOMAIN store /\ store'[k] = store[k]
    BY <1>3 DEF Ends, Drop
  <2>. QED BY <1>1, <2>1, <2>2 DEF EarlyBody, LateBody, SentBody
<1>4. CASE Waits(r)
  <2>1. pc'[r] \in LoginStep /\ UNCHANGED <<ctx, store>>
    BY <1>4 DEF Waits
  <2>2. ctx[r].body = NoModify /\ ctx[r].upstreamBody = ""
    BY <1>1, <1>4, WaitsFrom DEF EarlyBody, LoginStep
  <2>. QED BY <1>1, <2>1, <2>2, BodyEarly DEF LoginStep
<1>5. CASE (Response(r) \/ Skip(r)) /\ \E p, c : Responds(r, p, c)
  <2>1. PICK p, c : Responds(r, p, c)
    BY <1>5
  <2>2. pc[r] \in {"upstream_response", "response"} /\ store' = store
    BY <2>1 DEF Responds, ResponseStep
  <2>. QED BY <1>0, <1>1, <1>5, <2>1, <2>2, BodyRespond, BodyUpstream
<1>6. CASE StepEnd(r)
  <2>1. store' = store
    BY <1>0, <1>6, StepEnds
  <2>. QED BY <1>0, <1>1, <1>6, <2>1, BodyStepEnd
<1>7. CASE Lookup(r)
  <2>1. PICK key : key = CacheKey(ctx[r], head[r].method, head[r])
    OBVIOUS
  <2>2. store' = store /\ pc[r] = "lookup"
    BY <1>7 DEF Lookup, shared
  <2>3. CASE key \in DOMAIN store
    <3>1. resp'[r] = store[key] /\ pc'[r] = "response" /\ at'[r] = 1
      BY <1>0, <1>7, <2>1, <2>3 DEF Lookup, Goto, RequestsOK, Views
    <3>. QED BY <1>0, <1>1, <2>2, <2>3, <3>1, BodyResponse
  <2>4. CASE key \notin DOMAIN store
    <3>1. ctx' = ctx /\ pc'[r] = "proxy_upstream"
      BY <1>0, <1>7, <2>1, <2>4 DEF Lookup, Goto, RequestsOK
    <3>2. ctx[r].body = NoModify /\ ctx[r].upstreamBody = ""
      BY <1>1, <2>2 DEF EarlyBody
    <3>. QED BY <1>1, <2>2, <3>1, <3>2, BodyEarly
  <2>. QED BY <2>3, <2>4
<1>8. CASE Upstream(r)
  <2>1. /\ pc[r] = "upstream" /\ pc'[r] = "upstream_response" /\ UNCHANGED <<ctx, store, setup>>
        /\ resp'[r] = UpstreamResponse(head[r])
    BY <1>0, <1>8 DEF Upstream, Goto, RequestsOK, Views, shared
  <2>2. /\ Parts(UpstreamResponse(head[r]))
        /\ UpstreamResponse(head[r]).body.format = setup.upstream.format
    BY DEF UpstreamResponse, Parts, NoBody
  <2>3. ctx[r].body = NoModify /\ ctx[r].upstreamBody = ""
    BY <1>1, <2>1 DEF EarlyBody
  <2>. QED BY <1>1, <2>1, <2>2, <2>3 DEF EarlyBody, LateBody, SentBody, Parts
<1>9. CASE Store(r)
  <2>1. PICK p : p = IF ctx[r].upstreamBody = "" THEN resp[r]
                     ELSE [resp[r] EXCEPT !.body.format = ctx[r].upstreamBody]
    OBVIOUS
  <2>2. /\ pc[r] = "store" /\ pc'[r] = "response" /\ at'[r] = 1 /\ resp'[r] = p
        /\ store' = store \/ \E k : store' = Put(store, k, p)
    BY <1>0, <1>9, <2>1 DEF Store, Goto, RequestsOK, Views
  <2>3. Parts(resp[r]) /\ resp[r].body.format = setup.upstream.format
        /\ (ctx[r].upstreamBody # "" => Unsized(resp[r]))
    BY <1>1, <2>2 DEF EarlyBody
  <2>4. Sized(p)
    <3>1. CASE ctx[r].upstreamBody = ""
      BY <2>1, <2>3, <3>1 DEF Sized
    <3>2. CASE ctx[r].upstreamBody # ""
      <4>1. Parts(p) /\ p.headers = resp[r].headers
        BY <2>1, <2>3, <3>2 DEF Parts
      <4>. QED BY <2>3, <3>2, <4>1 DEF Sized, Unsized
    <3>. QED BY <3>1, <3>2
  <2>5. \A k \in DOMAIN store' : Sized(store'[k])
    <3>1. CASE store' = store
      BY <1>1, <3>1
    <3>2. CASE \E k : store' = Put(store, k, p)
      BY <1>1, <2>4, <3>2 DEF Put
    <3>. QED BY <2>2, <3>1, <3>2
  <2>. QED BY <1>0, <2>2, <2>4, <2>5, BodyResponse
<1>10. CASE Body(r)
  <2>1. store' = store
    BY <1>10 DEF Body
  <2>. QED BY <1>0, <1>1, <1>10, <2>1, BodyBody
<1>11. CASE Logging(r)
  <2>1. pc'[r] = "done" /\ ctx'[r] = NewCtx /\ store' = store
    BY <1>0, <1>11 DEF Logging, RequestsOK
  <2>2. NewCtx.body = NoModify /\ NewCtx.upstreamBody = ""
    BY DEF NewCtx
  <2>. QED BY <1>1, <2>1, <2>2, BodyEarly
<1>. QED BY <1>0, <1>2, <1>3, <1>4, <1>5, <1>6, <1>7, <1>8, <1>9, <1>10, <1>11 DEF Shape

LEMMA BodyNext ==
  ASSUME BaseInv, BodyInv, [Next]_vars
  PROVE  BodyInv'
<1>0. RequestsOK /\ TableOK /\ Views
  BY DEF BaseInv, OInv, IInv
<1>1. \A s \in Req : EarlyBody(s) /\ LateBody(s) /\ SentBody(s)
  BY DEF BodyInv
<1>2. CASE \E r \in Req : Arrive(r) \/ Serve(r)
  <2>1. PICK r \in Req : Arrive(r) \/ Serve(r)
    BY <1>2
  <2>2. /\ Apart(r) /\ (EarlyBody(r) /\ LateBody(r) /\ SentBody(r))'
        /\ \A k \in DOMAIN store' : Sized(store'[k])
    <3>1. CASE Serve(r)
      BY <1>0, <3>1, ServeShape, BodyServe DEF BaseInv
    <3>2. CASE Arrive(r)
      <4>1. Apart(r) /\ UNCHANGED <<ctx, store>> /\ pc[r] = "idle" /\ pc'[r] = "early_request"
        BY <1>0, <3>2, Arrives
      <4>2. ctx[r].body = NoModify /\ ctx[r].upstreamBody = ""
        BY <1>1, <4>1 DEF EarlyBody
      <4>. QED BY <4>1, <4>2, BodyEarly DEF BodyInv
    <3>. QED BY <2>1, <3>1, <3>2
  <2>3. ASSUME NEW s \in Req \ {r}
        PROVE  (EarlyBody(s) /\ LateBody(s) /\ SentBody(s))'
    BY <1>1, <2>2, <2>3, BodyLeft DEF Apart
  <2>4. LengthsKept(setup') /\ \A k \in DOMAIN store' : Sized(store[k])'
    BY <2>2 DEF Apart, BodyInv, Sized, Parts, Unsized
  <2>. QED BY <2>2, <2>3, <2>4 DEF BodyInv
<1>3. CASE Reload \/ Tick \/ UNCHANGED vars
  <2>1. UNCHANGED <<setup, pc, at, head, ctx, resp, store>>
    BY <1>0, <1>3, Reloads DEF Tick, vars
  <2>2. ASSUME NEW s \in Req
        PROVE  (EarlyBody(s) /\ LateBody(s) /\ SentBody(s))'
    <3>1. (touched'[s] = touched[s] /\ plugins' = plugins) \/ touched'[s] # {} \/ ~InFlight(s)
      BY <1>0, <1>3, Reloads DEF Tick, vars
    <3>. QED BY <1>1, <2>1, <3>1, BodyLeft
  <2>3. LengthsKept(setup') /\ \A k \in DOMAIN store' : Sized(store[k])'
    BY <2>1 DEF BodyInv, Sized, Parts, Unsized
  <2>. QED BY <2>2, <2>3 DEF BodyInv
<1>. QED BY <1>2, <1>3 DEF Next

\* A response leaves with the body the last of its body plugins makes, and never with the
\* length of a body that was replaced (jwt, sub_filter and image_optim take it away, the cache
\* keeps it so), for any chain in which response_headers does not set a length by itself.
THEOREM BodiesAsPromised == Spec /\ LengthsKept(setup) => []BodyAsPromised
<1>1. Init /\ LengthsKept(setup) => BodyInv
  BY BodyInit
<1>2. BaseInv /\ BodyInv /\ [Next]_vars => BodyInv'
  BY BodyNext
<1>3. BodyInv => BodyAsPromised
  BY DEF BodyInv, SentBody, BodyAsPromised, Last, Unsized
<1>. QED BY <1>1, <1>2, <1>3, BaseInvariance, PTL DEF Spec

\* The function Kept is defined by.
KeptAt(list, S, g, i) ==
  IF i = 0 THEN <<>> ELSE IF list[i] \in S THEN Append(g[i - 1], list[i]) ELSE g[i - 1]
KeptSteps(list, S, g, n) == g = [i \in 0..n |-> KeptAt(list, S, g, i)]


LEMMA KeptExists ==
  ASSUME NEW list, NEW S, Len(list) \in Nat
  PROVE  \E g : KeptSteps(list, S, g, Len(list)) /\ Kept(list, S) = g[Len(list)]
<1>. DEFINE Fine == {n \in 0..Len(list) : \E g : KeptSteps(list, S, g, n)}
<1>1. 0 \in Fine
  <2>1. KeptSteps(list, S, [i \in 0..0 |-> <<>>], 0)
    BY DEF KeptSteps, KeptAt
  <2>. QED BY <2>1
<1>2. ASSUME NEW n \in 0..(Len(list) - 1), n \in Fine
      PROVE  n + 1 \in Fine
  <2>1. PICK g : KeptSteps(list, S, g, n)
    BY <1>2
  <2>2. PICK h : h = [i \in 0..(n + 1) |-> IF i <= n THEN g[i] ELSE KeptAt(list, S, g, i)]
    OBVIOUS
  <2>3. ASSUME NEW i \in 0..(n + 1)
        PROVE  h[i] = KeptAt(list, S, h, i)
    <3>1. i # 0 => i - 1 \in 0..n /\ h[i - 1] = g[i - 1]
      BY <2>2
    <3>2. KeptAt(list, S, h, i) = KeptAt(list, S, g, i)
      BY <3>1 DEF KeptAt
    <3>3. i <= n => g[i] = KeptAt(list, S, g, i)
      BY <2>1 DEF KeptSteps
    <3>. QED BY <2>2, <3>2, <3>3
  <2>4. KeptSteps(list, S, h, n + 1)
    BY <2>2, <2>3 DEF KeptSteps
  <2>5. n + 1 \in 0..Len(list)
    OBVIOUS
  <2>. QED BY <2>4, <2>5
<1>3. Len(list) \in Fine
  <2>1. 0..Len(list) \subseteq Fine
    <3>. HIDE DEF Fine
    <3>. QED BY <1>1, <1>2, SetInduction
  <2>. QED BY <2>1
<1>4. \E g : KeptSteps(list, S, g, Len(list))
  BY <1>3
<1>5. Kept(list, S) = (CHOOSE g : KeptSteps(list, S, g, Len(list)))[Len(list)]
  BY DEF Kept, KeptSteps, KeptAt
<1>6. PICK g : g = CHOOSE x : KeptSteps(list, S, x, Len(list))
  OBVIOUS
<1>7. KeptSteps(list, S, g, Len(list))
  BY <1>4, <1>6
<1>. QED BY <1>5, <1>6, <1>7

\* What Kept returns.
LEMMA AppendElements ==
  ASSUME NEW A, NEW s \in Seq(A), NEW x
  PROVE  Elements(Append(s, x)) = Elements(s) \cup {x}
<1>1. Len(s) \in Nat /\ DOMAIN s = 1..Len(s) /\ DOMAIN Append(s, x) = 1..(Len(s) + 1)
  OBVIOUS
<1>2. /\ \A i \in 1..Len(s) : Append(s, x)[i] = s[i]
      /\ Append(s, x)[Len(s) + 1] = x
  OBVIOUS
<1>3. \A i \in 1..Len(s) : i \in 1..(Len(s) + 1)
  BY <1>1
<1>4. \A i \in 1..(Len(s) + 1) : i \in 1..Len(s) \/ i = Len(s) + 1
  BY <1>1
<1>5. Len(s) + 1 \in 1..(Len(s) + 1)
  BY <1>1
<1>6. Elements(s) \subseteq Elements(Append(s, x))
  BY <1>1, <1>2, <1>3 DEF Elements
<1>7. x \in Elements(Append(s, x))
  BY <1>1, <1>2, <1>5 DEF Elements
<1>8. Elements(Append(s, x)) \subseteq Elements(s) \cup {x}
  BY <1>1, <1>2, <1>4 DEF Elements
<1>. QED BY <1>6, <1>7, <1>8

LEMMA KeptElements ==
  ASSUME NEW A, NEW list \in Seq(A), NEW S
  PROVE  /\ Kept(list, S) \in Seq(Elements(list) \cap S)
         /\ Elements(Kept(list, S)) = Elements(list) \cap S
<1>. DEFINE B == Elements(list) \cap S
<1>0. Len(list) \in Nat /\ DOMAIN list = 1..Len(list)
  OBVIOUS
<1>1. PICK g : KeptSteps(list, S, g, Len(list)) /\ Kept(list, S) = g[Len(list)]
  BY <1>0, KeptExists
<1>. DEFINE Good == {i \in 0..Len(list) : g[i] \in Seq(B)
                       /\ \A j \in 1..i : list[j] \in S => list[j] \in Elements(g[i])}
<1>2. 0 \in Good
  <2>1. g[0] = <<>>
    BY <1>0, <1>1 DEF KeptSteps, KeptAt
  <2>2. g[0] \in Seq(B)
    BY <2>1
  <2>. QED BY <1>0, <2>2
<1>3. ASSUME NEW i \in 0..(Len(list) - 1), i \in Good
      PROVE  i + 1 \in Good
  <2>1. i + 1 \in 1..Len(list) /\ i + 1 \in 0..Len(list) /\ i + 1 # 0 /\ (i + 1) - 1 = i /\ i \in Nat
    BY <1>0
  <2>2. g[i + 1] = KeptAt(list, S, g, i + 1)
    BY <1>1, <2>1 DEF KeptSteps
  <2>3. g[i + 1] = IF list[i + 1] \in S THEN Append(g[i], list[i + 1]) ELSE g[i]
    BY <2>1, <2>2 DEF KeptAt
  <2>4. g[i] \in Seq(B) /\ \A j \in 1..i : list[j] \in S => list[j] \in Elements(g[i])
    BY <1>3
  <2>5. list[i + 1] \in S => list[i + 1] \in B
    BY <1>0, <2>1 DEF Elements
  <2>6. g[i + 1] \in Seq(B)
    <3>. HIDE DEF B
    <3>. QED BY <2>3, <2>4, <2>5
  <2>7. Elements(g[i + 1]) = IF list[i + 1] \in S THEN Elements(g[i]) \cup {list[i + 1]} ELSE Elements(g[i])
    BY <2>3, <2>4, AppendElements
  <2>8. ASSUME NEW j \in 1..(i + 1), list[j] \in S
        PROVE  list[j] \in Elements(g[i + 1])
    <3>1. j \in 1..i \/ j = i + 1
      BY <2>1
    <3>. QED BY <2>4, <2>7, <2>8, <3>1
  <2>. QED BY <2>1, <2>6, <2>8
<1>4. 0..Len(list) \subseteq Good
  <2>. HIDE DEF Good
  <2>. QED BY <1>0, <1>2, <1>3, SetInduction
<1>5. Len(list) \in Good
  <2>1. Len(list) \in 0..Len(list)
    BY <1>0
  <2>. QED BY <1>4, <2>1
<1>6. Kept(list, S) \in Seq(B) /\ \A j \in 1..Len(list) : list[j] \in S => list[j] \in Elements(Kept(list, S))
  BY <1>1, <1>5
<1>7. Elements(Kept(list, S)) \subseteq B
  <2>1. \A k \in DOMAIN Kept(list, S) : Kept(list, S)[k] \in B
    <3>. HIDE DEF B
    <3>. QED BY <1>6
  <2>. QED BY <2>1 DEF Elements
<1>8. B \subseteq Elements(Kept(list, S))
  <2>. SUFFICES ASSUME NEW x \in B
                PROVE  x \in Elements(Kept(list, S))
    OBVIOUS
  <2>1. PICK j \in 1..Len(list) : x = list[j]
    BY <1>0 DEF Elements
  <2>. QED BY <1>6, <2>1
<1>. QED BY <1>6, <1>7, <1>8

LEMMA KeptOne ==
  ASSUME NEW x, NEW S
  PROVE  Kept(<<x>>, S) = IF x \in S THEN <<x>> ELSE <<>>
<1>a. PICK l : l = <<x>>
  OBVIOUS
<1>0. l = <<x>> /\ Len(l) = 1 /\ l[1] = x
  BY <1>a
<1>1. PICK g : KeptSteps(l, S, g, 1) /\ Kept(l, S) = g[1]
  BY <1>0, KeptExists
<1>2. g[0] = KeptAt(l, S, g, 0) /\ g[1] = KeptAt(l, S, g, 1)
  BY <1>1 DEF KeptSteps
<1>3. g[0] = <<>>
  BY <1>2 DEF KeptAt
<1>4. g[1] = IF x \in S THEN Append(g[0], x) ELSE g[0]
  <2>1. 1 # 0 /\ 1 - 1 = 0
    OBVIOUS
  <2>. QED BY <1>0, <1>2, <2>1 DEF KeptAt
<1>. QED BY <1>0, <1>1, <1>3, <1>4

LEMMA JoinElements ==
  ASSUME NEW A, NEW s \in Seq(A), NEW B, NEW t \in Seq(B)
  PROVE  /\ Elements(s \o t) = Elements(s) \cup Elements(t)
         /\ s # <<>> => s \o t # <<>> /\ (s \o t)[1] = s[1]
         /\ s = <<>> => s \o t = t
<1>0. Len(s) \in Nat /\ Len(t) \in Nat /\ DOMAIN s = 1..Len(s) /\ DOMAIN t = 1..Len(t)
      /\ DOMAIN (s \o t) = 1..(Len(s) + Len(t))
  <2>1. s \in Seq(A \cup B) /\ t \in Seq(A \cup B)
    OBVIOUS
  <2>. QED BY <2>1
<1>1. s \in Seq(A \cup B) /\ t \in Seq(A \cup B)
  OBVIOUS
<1>2. /\ \A i \in 1..Len(s) : (s \o t)[i] = s[i] /\ i \in 1..(Len(s) + Len(t))
      /\ \A i \in 1..Len(t) : (s \o t)[Len(s) + i] = t[i] /\ Len(s) + i \in 1..(Len(s) + Len(t))
  BY <1>0, <1>1
<1>3. \A i \in 1..(Len(s) + Len(t)) : i \in 1..Len(s) \/ (i - Len(s) \in 1..Len(t) /\ Len(s) + (i - Len(s)) = i)
  BY <1>0
<1>4. Elements(s) \cup Elements(t) \subseteq Elements(s \o t)
  BY <1>0, <1>2 DEF Elements
<1>5. Elements(s \o t) \subseteq Elements(s) \cup Elements(t)
  <2>. SUFFICES ASSUME NEW i \in 1..(Len(s) + Len(t))
                PROVE  (s \o t)[i] \in Elements(s) \cup Elements(t)
    BY <1>0 DEF Elements
  <2>1. CASE i \in 1..Len(s)
    BY <1>0, <1>2, <2>1 DEF Elements
  <2>2. CASE i - Len(s) \in 1..Len(t) /\ Len(s) + (i - Len(s)) = i
    <3>1. (s \o t)[i] = t[i - Len(s)]
      BY <1>2, <2>2
    <3>. QED BY <1>0, <2>2, <3>1 DEF Elements
  <2>. QED BY <1>3, <2>1, <2>2
<1>6. s # <<>> => 1 \in 1..Len(s)
  BY <1>0, <1>1
<1>7. s # <<>> => s \o t # <<>> /\ (s \o t)[1] = s[1]
  BY <1>0, <1>1, <1>2, <1>6
<1>. QED BY <1>1, <1>4, <1>5, <1>7

-----------------------------------------------------------------------------
(* A hit is the variant of the client that asks.                             *)

LEMMA VariantInit ==
  ASSUME Init, VariantsTold(setup)
  PROVE  VariantInv
<1>1. ImagesOK
  <2>1. ASSUME NEW i \in 1..Len(Chain), NEW c \in Confs(setup, i), c.category = "image_optim"
        PROVE  plugins[Chain[i]].conf = c
    <3>1. DOMAIN setup.chain = 1..Len(Chain) /\ Chain[i] \in DOMAIN setup.start /\ setup \in Setup
      BY ChainAssumption DEF Init, Chain
    <3>2. setup.start[Chain[i]] = c /\ c # NoConf
      BY <2>1, <3>1 DEF VariantsTold, Confs, Chain
    <3>3. Loaded(c)
      BY <2>1, <3>2 DEF Loaded, Valid, ImageOptimValid
    <3>. QED BY <3>1, <3>2, <3>3 DEF Init
  <2>. QED BY <2>1 DEF ImagesOK
<1>. QED BY <1>1 DEF VariantInv, Init, InFlight

\* image_optim is the same before and after a reload.
LEMMA ImagesKept ==
  ASSUME BaseInv, VariantInv, Reload
  PROVE  /\ ImagesOK'
         /\ \A i \in 1..Len(Chain) : IsImage(i)' => IsImage(i) /\ plugins'[Chain[i]].conf = plugins[Chain[i]].conf
<1>0. TableOK /\ FromTables /\ setup' = setup /\ DOMAIN plugins' = DOMAIN plugins
  BY Reloads DEF BaseInv, OInv, IInv
<1>1. DOMAIN setup.chain = 1..Len(Chain) /\ \A i \in 1..Len(Chain) : Chain[i] \in Names
  BY <1>0, ChainLength DEF Chain, TableOK, Names
<1>2. PICK t \in setup.tables : \A n \in Names : plugins[n].conf = t[n] => plugins'[n] = plugins[n]
  BY <1>0, Reloads
<1>3. ASSUME NEW i \in 1..Len(Chain), NEW c \in Confs(setup, i), c.category = "image_optim"
      PROVE  plugins[Chain[i]].conf = c /\ plugins'[Chain[i]] = plugins[Chain[i]]
  <2>1. plugins[Chain[i]].conf = c
    BY <1>3 DEF VariantInv, ImagesOK
  <2>2. t[Chain[i]] = c
    BY <1>1, <1>3 DEF VariantInv, VariantsTold, Chain
  <2>. QED BY <1>1, <1>2, <2>1, <2>2
<1>4. ImagesOK'
  BY <1>0, <1>3 DEF ImagesOK, Chain
<1>5. ASSUME NEW i \in 1..Len(Chain), IsImage(i)'
      PROVE  IsImage(i) /\ plugins'[Chain[i]].conf = plugins[Chain[i]].conf
  <2>1. plugins'[Chain[i]].conf # NoConf /\ plugins'[Chain[i]].conf.category = "image_optim"
    BY <1>0, <1>5 DEF IsImage, Chain
  <2>2. plugins'[Chain[i]].conf \in Confs(setup, i)
    <3>1. CASE plugins'[Chain[i]] = plugins[Chain[i]]
      BY <1>0, <2>1, <3>1, Configured
    <3>2. CASE plugins'[Chain[i]] # plugins[Chain[i]]
      <4>1. PICK u \in setup.tables : TryInitPlugins(u)
        BY DEF Reload
      <4>2. plugins'[Chain[i]].conf \in {u[Chain[i]], NoConf, plugins[Chain[i]].conf}
        BY <1>1, <4>1 DEF TryInitPlugins
      <4>3. CASE plugins'[Chain[i]].conf = u[Chain[i]]
        BY <2>1, <4>3 DEF Confs, Chain
      <4>4. CASE plugins'[Chain[i]].conf = plugins[Chain[i]].conf
        BY <1>0, <2>1, <4>4, Configured
      <4>. QED BY <2>1, <4>2, <4>3, <4>4
    <3>. QED BY <3>1, <3>2
  <2>3. plugins[Chain[i]].conf = plugins'[Chain[i]].conf
    BY <1>3, <2>1, <2>2
  <2>. QED BY <2>1, <2>3 DEF IsImage
<1>. QED BY <1>4, <1>5

\* A request nobody works on.
LEMMA VariantLeft ==
  ASSUME NEW s \in Req, HeadersOK(s), KeysOK(s), CoverOK(s), MadeOK(s), setup' = setup,
         pc'[s] = pc[s], at'[s] = at[s], head'[s] = head[s], asked'[s] = asked[s], ctx'[s] = ctx[s],
         resp'[s] = resp[s], Len(Chain) \in Nat, at[s] \in 1..(Len(Chain) + 1),
         \A i \in 1..Len(Chain) : IsImage(i)' => IsImage(i) /\ plugins'[Chain[i]].conf = plugins[Chain[i]].conf
  PROVE  (HeadersOK(s) /\ KeysOK(s) /\ CoverOK(s) /\ MadeOK(s))'
<1>0. F' = F /\ Vary' = Vary /\ Chain' = Chain /\ \A h : VaryOf(h)' = VaryOf(h)
  BY DEF F, Vary, Chain, VaryOf
<1>1. HeadersOK(s)'
  BY <1>0 DEF HeadersOK
<1>2. VKey(ctx[s].keys)' = VKey(ctx[s].keys)
  BY <1>0 DEF VKey
<1>3. KeysOK(s)'
  BY <1>0, <1>2 DEF KeysOK
<1>4. \A i \in 1..Len(Chain) : Covers(s, i) => Covers(s, i)'
  BY <1>0 DEF Covers
<1>5. CoverOK(s)'
  <2>1. \A i \in 1..(at[s] - 1) : i \in 1..Len(Chain)
    OBVIOUS
  <2>. QED BY <1>0, <1>4, <2>1 DEF CoverOK
<1>6. MadeOK(s)'
  BY <1>0 DEF MadeOK, Parts, VaryOf
<1>. QED BY <1>1, <1>3, <1>5, <1>6

\* What the plugins do to a request header leaves variants alone.
LEMMA HeadVariant ==
  ASSUME BaseInv, VariantInv, NEW r \in Req, HeadersOK(r), pc[r] \in RequestStep, at[r] <= Len(Chain),
         NEW h, HeadChange(r, h)
  PROVE  /\ h.accept = head[r].accept /\ h.upgrade = head[r].upgrade
         /\ \A n \in Elements(Vary) : GetHeader(h, n) = GetHeader(head[r], n)
         /\ \A n \in DOMAIN h.headers : h.headers[n].text \notin F
<1>0. /\ RequestsOK /\ TableOK /\ FromTables /\ DOMAIN head[r] = HeadFields
      /\ \A n \in DOMAIN head[r].headers : head[r].headers[n].text \notin F
  BY Flying, PlaceFacts DEF BaseInv, OInv, IInv, HeadersOK
<1>1. at[r] \in 1..Len(Chain) /\ at[r] \in DOMAIN setup.chain
  BY <1>0, ChainLength DEF RequestsOK, Chain
<1>2. Plugin(r) # NoConf => Plugin(r) \in Confs(setup, at[r])
  BY <1>0, <1>1, Configured DEF Plugin, Name
<1>3. Plugin(r) # NoConf => Elements(Vary) \cap (MakesUp(Plugin(r)) \cup HidesHeader(Plugin(r))) = {}
  BY <1>1, <1>2 DEF VariantInv, VariantsTold, Vary
<1>4. CASE h = head[r]
  BY <1>0, <1>4
<1>5. CASE \E e : h = [head[r] EXCEPT !.encodings = e]
  <2>1. h.accept = head[r].accept /\ h.upgrade = head[r].upgrade /\ h.headers = head[r].headers
    BY <1>0, <1>5 DEF HeadFields
  <2>. QED BY <1>0, <2>1 DEF GetHeader
<1>6. CASE Plugin(r) # NoConf /\ \E n \in HidesHeader(Plugin(r)) : h = RemoveHeader(head[r], n)
  <2>1. PICK m \in HidesHeader(Plugin(r)) : h = RemoveHeader(head[r], m)
    BY <1>6
  <2>2. /\ h.accept = head[r].accept /\ h.upgrade = head[r].upgrade
        /\ h.headers = Drop(head[r].headers, m)
    BY <1>0, <2>1 DEF RemoveHeader, HeadFields
  <2>3. m \notin Elements(Vary)
    BY <1>3, <1>6, <2>1
  <2>4. \A n \in Elements(Vary) : GetHeader(h, n) = GetHeader(head[r], n)
    BY <2>2, <2>3 DEF GetHeader, Get, Drop
  <2>5. \A n \in DOMAIN h.headers : n \in DOMAIN head[r].headers /\ h.headers[n] = head[r].headers[n]
    BY <2>2 DEF Drop
  <2>. QED BY <1>0, <2>2, <2>4, <2>5
<1>7. CASE \E n : h = RemoveQuery(head[r], n)
  <2>1. h.accept = head[r].accept /\ h.upgrade = head[r].upgrade /\ h.headers = head[r].headers
    BY <1>0, <1>7 DEF RemoveQuery, HeadFields
  <2>. QED BY <1>0, <2>1 DEF GetHeader
<1>8. CASE Plugin(r) # NoConf
           /\ \E n \in MakesUp(Plugin(r)) : h = [head[r] EXCEPT !.headers = Put(@, n, Text("generated"))]
  <2>1. PICK m \in MakesUp(Plugin(r)) : h = [head[r] EXCEPT !.headers = Put(@, m, Text("generated"))]
    BY <1>8
  <2>2. /\ h.accept = head[r].accept /\ h.upgrade = head[r].upgrade
        /\ h.headers = Put(head[r].headers, m, Text("generated"))
    BY <1>0, <2>1 DEF HeadFields
  <2>3. m \notin Elements(Vary) /\ Text("generated").text \notin F
    <3>1. "generated" \notin F
      BY DEF VariantInv, VariantsTold, F
    <3>. QED BY <1>3, <1>8, <2>1, <3>1 DEF Text
  <2>4. \A n \in Elements(Vary) : GetHeader(h, n) = GetHeader(head[r], n)
    BY <2>2, <2>3 DEF GetHeader, Get, Put
  <2>5. \A n \in DOMAIN h.headers :
          h.headers[n] = Text("generated") \/ (n \in DOMAIN head[r].headers /\ h.headers[n] = head[r].headers[n])
    BY <2>2 DEF Put
  <2>. QED BY <1>0, <2>2, <2>3, <2>4, <2>5
<1>. QED BY <1>4, <1>5, <1>6, <1>7, <1>8 DEF HeadChange

\* The keys of the cache plugin are header values, and the one the upstream varies by.
LEMMA CacheKeysAre ==
  ASSUME VariantInv, NEW r \in Req, HeadersOK(r), NEW i \in DOMAIN setup.chain, NEW p \in Confs(setup, i),
         p.category = "cache", NEW K, K = CacheKeys(p, head[r])
  PROVE  /\ K \in Seq(Elements(K)) /\ Elements(K) \cap F = {}
         /\ \A n \in Elements(Vary) : /\ GetHeader(head[r], n).text = "" => K = <<>>
                                      /\ GetHeader(head[r], n).text # "" => K = <<GetHeader(head[r], n).text>>
         /\ p.headers = <<>> => K = <<>>
<1>0. p.headers \in Seq(Elements(p.headers)) /\ \A n \in Elements(Vary) : p.headers = <<n>>
  BY DEF VariantInv, VariantsTold, Vary
<1>1. PICK values : values = [j \in DOMAIN p.headers |-> GetHeader(head[r], p.headers[j]).text]
  OBVIOUS
<1>2. K = Kept(values, Elements(values) \ {""})
  BY <1>1 DEF CacheKeys
<1>3. values \in Seq(Elements(values)) /\ DOMAIN values = DOMAIN p.headers
  <2>1. DOMAIN p.headers = 1..Len(p.headers) /\ Len(p.headers) \in Nat
    BY <1>0
  <2>2. \A j \in 1..Len(p.headers) : values[j] \in Elements(values)
    BY <1>1, <2>1 DEF Elements
  <2>3. PICK E, n : E = Elements(values) /\ n = Len(p.headers)
    OBVIOUS
  <2>4. values \in [1..n -> E] /\ n \in Nat
    BY <1>1, <2>1, <2>2, <2>3
  <2>5. values \in Seq(E)
    BY <2>4
  <2>6. DOMAIN values = DOMAIN p.headers
    BY <1>1
  <2>. QED BY <2>3, <2>5, <2>6
<1>4. /\ K \in Seq(Elements(values) \cap (Elements(values) \ {""}))
      /\ Elements(K) = Elements(values) \cap (Elements(values) \ {""})
  BY <1>2, <1>3, KeptElements
<1>5. K \in Seq(Elements(K))
  BY <1>4
<1>6. ASSUME NEW x \in Elements(K)
      PROVE  x \notin F
  <2>1. x \in Elements(values) /\ x # ""
    BY <1>4, <1>6
  <2>2. PICK j \in DOMAIN p.headers : x = GetHeader(head[r], p.headers[j]).text
    BY <1>1, <2>1 DEF Elements
  <2>3. p.headers[j] \in DOMAIN head[r].headers
    BY <2>1, <2>2 DEF GetHeader, Get, Nothing, Text
  <2>4. GetHeader(head[r], p.headers[j]) = head[r].headers[p.headers[j]]
    BY <2>3 DEF GetHeader, Get
  <2>. QED BY <2>2, <2>3, <2>4 DEF HeadersOK
<1>7. ASSUME NEW n \in Elements(Vary)
      PROVE  /\ GetHeader(head[r], n).text = "" => K = <<>>
             /\ GetHeader(head[r], n).text # "" => K = <<GetHeader(head[r], n).text>>
  <2>1. p.headers = <<n>>
    BY <1>0
  <2>2. PICK x : x = GetHeader(head[r], n).text
    OBVIOUS
  <2>3. values = <<x>>
    BY <1>1, <2>1, <2>2
  <2>4. Elements(values) = {x}
    BY <2>3 DEF Elements
  <2>5. K = IF x \in {x} \ {""} THEN <<x>> ELSE <<>>
    BY <1>2, <2>3, <2>4, KeptOne
  <2>. QED BY <2>2, <2>5
<1>8. ASSUME p.headers = <<>>
      PROVE  K = <<>>
  <2>1. Elements(values) = {}
    BY <1>3, <1>8 DEF Elements
  <2>2. K \in Seq({})
    BY <1>4, <2>1
  <2>. QED BY <2>2
<1>. QED BY <1>5, <1>6, <1>7, <1>8

\* The formats image_optim puts into the keys.
LEMMA ImageKeysAre ==
  ASSUME VariantInv, NEW h, NEW i \in DOMAIN setup.chain, NEW p \in Confs(setup, i), p.category = "image_optim"
  PROVE  /\ AcceptImages(p, h) \in Seq(F \cap h.accept)
         /\ Elements(AcceptImages(p, h)) = Elements(p.outputs) \cap h.accept
         /\ Elements(p.outputs) \subseteq F
<1>1. p.outputs \in Seq(Elements(p.outputs))
  BY DEF VariantInv, VariantsTold
<1>2. Elements(p.outputs) \subseteq F
  BY DEF F, Formats
<1>3. /\ AcceptImages(p, h) \in Seq(Elements(p.outputs) \cap h.accept)
      /\ Elements(AcceptImages(p, h)) = Elements(p.outputs) \cap h.accept
  BY <1>1, KeptElements DEF AcceptImages
<1>. QED BY <1>2, <1>3

\* What the plugins do to the keys of a request.
KeysFit(r, c) ==
  /\ c.keys \in Seq(Elements(c.keys)) /\ Elements(c.keys) \cap F \subseteq head[r].accept
  /\ \A n \in Elements(Vary) :
       /\ VKey(c.keys) \in {"", GetHeader(head[r], n).text}
       /\ c.caching => VKey(c.keys) = GetHeader(head[r], n).text
CoversIn(r, i, keys) == IsImage(i) =>
  Elements(plugins[Chain[i]].conf.outputs) \cap head[r].accept \subseteq Elements(keys)

LEMMA CacheVariant ==
  ASSUME BaseInv, VariantInv, NEW r \in Req, HeadersOK(r), KeysOK(r), CoverOK(r), ~head[r].upgrade,
         at[r] \in 1..Len(Chain), pc[r] = "request", Plugin(r) # NoConf, Plugin(r).category = "cache",
         NEW c, c.keys = CacheCtx(r).keys
  PROVE  KeysFit(r, c) /\ \A i \in 1..at[r] : CoversIn(r, i, c.keys)
<1>0. RequestsOK /\ TableOK /\ FromTables /\ DOMAIN ctx[r] = CtxFields /\ Len(Chain) \in Nat
      /\ DOMAIN setup.chain = 1..Len(Chain)
  BY ChainLength DEF BaseInv, OInv, IInv, RequestsOK, Chain
<1>1. PICK p, K : p = Plugin(r) /\ K = CacheKeys(p, head[r])
  OBVIOUS
<1>2. p \in Confs(setup, at[r]) /\ p.category = "cache" /\ at[r] \in DOMAIN setup.chain
  BY <1>0, <1>1, Configured DEF Plugin, Name
<1>3. /\ K \in Seq(Elements(K)) /\ Elements(K) \cap F = {}
      /\ \A n \in Elements(Vary) : /\ GetHeader(head[r], n).text = "" => K = <<>>
                                   /\ GetHeader(head[r], n).text # "" => K = <<GetHeader(head[r], n).text>>
      /\ p.headers = <<>> => K = <<>>
  BY <1>1, <1>2, CacheKeysAre
<1>4. c.keys = IF K = <<>> THEN ctx[r].keys ELSE K
  BY <1>0, <1>1 DEF CacheCtx, CtxFields
<1>5. CASE K = <<>>
  <2>1. c.keys = ctx[r].keys
    BY <1>4, <1>5
  <2>2. \A n \in Elements(Vary) : GetHeader(head[r], n).text = ""
    BY <1>3, <1>5
  <2>3. KeysFit(r, c)
    BY <2>1, <2>2 DEF KeysFit, KeysOK
  <2>4. ASSUME NEW i \in 1..at[r]
        PROVE  CoversIn(r, i, c.keys)
    <3>1. CASE i = at[r]
      BY <3>1 DEF CoversIn, IsImage, Plugin, Name
    <3>2. CASE i # at[r]
      <4>1. i \in 1..(at[r] - 1)
        BY <3>2
      <4>. QED BY <2>1, <4>1 DEF CoverOK, Covers, CoversIn
    <3>. QED BY <3>1, <3>2
  <2>. QED BY <2>3, <2>4
<1>6. CASE K # <<>>
  <2>1. c.keys = K /\ p.headers # <<>>
    BY <1>3, <1>4, <1>6
  <2>2. \A n \in Elements(Vary) : VKey(c.keys) = GetHeader(head[r], n).text
    <3>. SUFFICES ASSUME NEW n \in Elements(Vary)
                  PROVE  VKey(c.keys) = GetHeader(head[r], n).text
      OBVIOUS
    <3>1. PICK x : x = GetHeader(head[r], n).text
      OBVIOUS
    <3>2. K = <<x>>
      BY <1>3, <1>6, <3>1
    <3>3. K[1] = x /\ x \in Elements(K)
      BY <3>2 DEF Elements
    <3>. QED BY <1>3, <1>6, <2>1, <3>1, <3>3 DEF VKey
  <2>3. KeysFit(r, c)
    BY <1>3, <2>1, <2>2 DEF KeysFit
  <2>4. ASSUME NEW i \in 1..at[r]
        PROVE  ~IsImage(i)
    <3>1. CASE i = at[r]
      BY <3>1 DEF IsImage, Plugin, Name
    <3>2. CASE i # at[r]
      <4>1. i \in 1..(at[r] - 1) /\ i \in 1..Len(Chain)
        BY <1>0, <3>2
      <4>2. \A d \in Confs(setup, i) : d.category # "image_optim"
        BY <1>2, <2>1, <4>1 DEF VariantInv, VariantsTold
      <4>3. plugins[Chain[i]].conf # NoConf => plugins[Chain[i]].conf \in Confs(setup, i)
        BY <1>0, <4>1, Configured
      <4>. QED BY <4>2, <4>3 DEF IsImage
    <3>. QED BY <3>1, <3>2
  <2>. QED BY <2>3, <2>4 DEF CoversIn
<1>. QED BY <1>5, <1>6

LEMMA ImageVariant ==
  ASSUME BaseInv, VariantInv, NEW r \in Req, HeadersOK(r), KeysOK(r), CoverOK(r), ~head[r].upgrade,
         at[r] \in 1..Len(Chain), pc[r] = "request", Plugin(r) # NoConf, Plugin(r).category = "image_optim",
         NEW c, c.keys = ctx[r].keys \o AcceptImages(Plugin(r), head[r]), c.caching = ctx[r].caching
  PROVE  KeysFit(r, c) /\ \A i \in 1..at[r] : CoversIn(r, i, c.keys)
<1>0. RequestsOK /\ TableOK /\ FromTables /\ Len(Chain) \in Nat /\ DOMAIN setup.chain = 1..Len(Chain)
  BY ChainLength DEF BaseInv, OInv, IInv, Chain
<1>1. PICK p, K, old : p = Plugin(r) /\ K = AcceptImages(p, head[r]) /\ old = ctx[r].keys
  OBVIOUS
<1>2. p \in Confs(setup, at[r]) /\ p.category = "image_optim" /\ at[r] \in DOMAIN setup.chain
  BY <1>0, <1>1, Configured DEF Plugin, Name
<1>3. K \in Seq(F \cap head[r].accept) /\ Elements(K) = Elements(p.outputs) \cap head[r].accept
  BY <1>1, <1>2, ImageKeysAre
<1>4. old \in Seq(Elements(old)) /\ Elements(old) \cap F \subseteq head[r].accept
  BY <1>1 DEF KeysOK
<1>5. c.keys = old \o K
  BY <1>1
<1>6. /\ Elements(old \o K) = Elements(old) \cup Elements(K)
      /\ old # <<>> => old \o K # <<>> /\ (old \o K)[1] = old[1]
      /\ old = <<>> => old \o K = K
  BY <1>3, <1>4, JoinElements
<1>7. c.keys \in Seq(Elements(c.keys))
  <2>1. K \in Seq(Elements(K))
    <3>1. Len(K) \in Nat /\ DOMAIN K = 1..Len(K)
      BY <1>3
    <3>2. \A j \in 1..Len(K) : K[j] \in Elements(K)
      BY <3>1 DEF Elements
    <3>. QED BY <1>3, <3>1, <3>2
  <2>2. old \in Seq(Elements(old) \cup Elements(K)) /\ K \in Seq(Elements(old) \cup Elements(K))
    BY <1>4, <2>1
  <2>3. old \o K \in Seq(Elements(old) \cup Elements(K))
    BY <2>2
  <2>. QED BY <1>5, <1>6, <2>3
<1>8. Elements(c.keys) \cap F \subseteq head[r].accept
  BY <1>3, <1>4, <1>5, <1>6
<1>9. VKey(c.keys) = VKey(old)
  <2>1. CASE old # <<>>
    BY <1>5, <1>6, <2>1 DEF VKey
  <2>2. CASE old = <<>>
    <3>1. K # <<>> => K[1] \in F
      BY <1>3
    <3>. QED BY <1>5, <1>6, <2>2, <3>1 DEF VKey
  <2>. QED BY <2>1, <2>2
<1>10. KeysFit(r, c)
  BY <1>1, <1>7, <1>8, <1>9 DEF KeysFit, KeysOK
<1>11. ASSUME NEW i \in 1..at[r]
       PROVE  CoversIn(r, i, c.keys)
  <2>1. CASE i = at[r]
    BY <1>1, <1>3, <1>5, <1>6, <2>1 DEF CoversIn, Plugin, Name
  <2>2. CASE i # at[r]
    <3>1. i \in 1..(at[r] - 1)
      BY <2>2
    <3>. QED BY <1>1, <1>5, <1>6, <3>1 DEF CoverOK, Covers, CoversIn
  <2>. QED BY <2>1, <2>2
<1>. QED BY <1>10, <1>11

\* A plugin that lets a request go on.
LEMMA VariantPass ==
  ASSUME BaseInv, VariantInv, NEW r \in Req, Apart(r), HeadersOK(r), KeysOK(r), CoverOK(r), MadeOK(r),
         NEW h, NEW c, Passes(r, h, c), HeadChange(r, h), CtxChange(r, c)
  PROVE  (HeadersOK(r) /\ KeysOK(r) /\ CoverOK(r) /\ MadeOK(r))'
<1>0. /\ RequestsOK /\ TableOK /\ pc[r] \in RequestStep /\ ~head[r].upgrade /\ at[r] <= Len(Chain)
      /\ pc'[r] = pc[r] /\ at'[r] = at[r] + 1 /\ head'[r] = h /\ ctx'[r] = c /\ resp'[r] = resp[r]
      /\ asked'[r] = asked[r] /\ setup' = setup /\ plugins' = plugins
  BY DEF BaseInv, OInv, IInv, Passes, Apart
<1>1. at[r] \in 1..Len(Chain) /\ Len(Chain) \in Nat
  BY <1>0, ChainLength DEF RequestsOK
<1>2. F' = F /\ Vary' = Vary /\ Chain' = Chain /\ \A keys : VKey(keys)' = VKey(keys)
  BY <1>0 DEF F, Vary, Chain, VKey
<1>3. /\ h.accept = head[r].accept /\ h.upgrade = head[r].upgrade
      /\ \A n \in Elements(Vary) : GetHeader(h, n) = GetHeader(head[r], n)
      /\ \A n \in DOMAIN h.headers : h.headers[n].text \notin F
  BY <1>0, HeadVariant
<1>4. HeadersOK(r)'
  BY <1>0, <1>2, <1>3 DEF HeadersOK
<1>5. c.upstreamBody = ctx[r].upstreamBody
  BY DEF CtxChange
<1>6. MadeOK(r)'
  BY <1>0, <1>5 DEF MadeOK, RequestStep
<1>7. /\ KeysFit(r, c)
      /\ pc[r] = "request" => \A i \in 1..at[r] : CoversIn(r, i, c.keys)
      /\ pc[r] # "request" => c.keys = ctx[r].keys /\ c.caching = ctx[r].caching
  <2>1. CASE pc[r] = "request" /\ Plugin(r) # NoConf /\ Plugin(r).category = "cache" /\ c.keys = CacheCtx(r).keys
    BY <1>0, <1>1, <2>1, CacheVariant
  <2>2. CASE pc[r] = "request" /\ Plugin(r) # NoConf /\ Plugin(r).category = "image_optim"
    <3>1. c.keys = ctx[r].keys \o AcceptImages(Plugin(r), head[r]) /\ c.caching = ctx[r].caching
      BY <2>2 DEF CtxChange
    <3>. QED BY <1>0, <1>1, <2>2, <3>1, ImageVariant
  <2>3. CASE /\ c.keys = ctx[r].keys /\ c.caching = ctx[r].caching
             /\ ~(pc[r] = "request" /\ Plugin(r) # NoConf /\ Plugin(r).category = "image_optim")
    <3>1. KeysFit(r, c)
      BY <2>3 DEF KeysFit, KeysOK
    <3>2. ASSUME pc[r] = "request", NEW i \in 1..at[r]
          PROVE  CoversIn(r, i, c.keys)
      <4>1. CASE i = at[r]
        BY <2>3, <3>2, <4>1 DEF CoversIn, IsImage, Plugin, Name
      <4>2. CASE i # at[r]
        <5>1. i \in 1..(at[r] - 1)
          BY <1>1, <4>2
        <5>. QED BY <1>0, <2>3, <3>2, <5>1 DEF CoverOK, Covers, CoversIn
      <4>. QED BY <4>1, <4>2
    <3>. QED BY <2>3, <3>1, <3>2
  <2>. QED BY <2>1, <2>2, <2>3 DEF CtxChange
<1>8. KeysOK(r)'
  <2>2. ASSUME NEW n \in Elements(Vary)
        PROVE  /\ VKey(c.keys) \in {"", GetHeader(h, n).text}
               /\ c.caching => VKey(c.keys) = GetHeader(h, n).text
    BY <1>3, <1>7 DEF KeysFit
  <2>3. pc[r] = "early_request" => c.keys = <<>> /\ ~c.caching
    BY <1>7 DEF KeysOK
  <2>4. pc[r] # "lookup"
    BY <1>0 DEF RequestStep
  <2>5. (VKey(ctx[r].keys))' = VKey(c.keys)
    BY <1>0, <1>2
  <2>. QED BY <1>0, <1>2, <1>3, <1>7, <2>2, <2>3, <2>4, <2>5 DEF KeysOK, KeysFit
<1>9. CoverOK(r)'
  <2>1. \A i \in 1..Len(Chain) : Covers(r, i)' <=> CoversIn(r, i, c.keys)
    BY <1>0, <1>2, <1>3 DEF Covers, CoversIn, IsImage
  <2>2. CASE pc[r] = "request"
    <3>1. \A i \in 1..(at'[r] - 1) : i \in 1..at[r] /\ i \in 1..Len(Chain)
      BY <1>0, <1>1
    <3>. QED BY <1>0, <1>7, <2>1, <2>2, <3>1 DEF CoverOK
  <2>3. CASE pc[r] # "request"
    <3>1. \A i : Covers(r, i) => Covers(r, i)'
      BY <1>0, <1>2, <1>3, <1>7, <2>3 DEF Covers, IsImage
    <3>. QED BY <1>0, <1>2, <2>3, <3>1 DEF CoverOK
  <2>. QED BY <2>2, <2>3
<1>. QED BY <1>4, <1>6, <1>8, <1>9

\* A plugin of the response leaves the variant alone; the new body is a format that is in the keys.
LEMMA RespondKeeps ==
  ASSUME BaseInv, NEW r \in Req, Response(r) \/ Skip(r), pc[r] = "response", NEW p, NEW c, Responds(r, p, c)
  PROVE  /\ p = resp[r] \/ \E hs : p = [resp[r] EXCEPT !.headers = hs]
         /\ c = ctx[r] \/ \E m : c = [ctx[r] EXCEPT !.body = m]
<1>0. RequestsOK /\ Views /\ resp'[r] = p /\ ctx'[r] = c /\ pc'[r] = pc[r]
  BY DEF BaseInv, OInv, IInv, Responds
<1>1. ASSUME NEW q, NEW d, Respond(r, q, d)
      PROVE  p = q /\ c = d
  BY <1>0, <1>1 DEF Respond, RequestsOK, Views
<1>2. \A s : ~Fail(r, s)
  BY <1>0 DEF Fail, RequestsOK
<1>3. CASE JwtAuthResponse(r)
  <2>. DEFINE hs == Put(Put(Drop(resp[r].headers, "content-length"), "content-type", <<"json">>),
                        "transfer-encoding", <<"chunked">>)
              m == Modify("jwt", Plugin(r).secret)
  <2>1. \/ Respond(r, resp[r], ctx[r])
        \/ Respond(r, [resp[r] EXCEPT !.headers = hs], [ctx[r] EXCEPT !.body = m])
    BY <1>3 DEF JwtAuthResponse
  <2>. HIDE DEF hs, m
  <2>. QED BY <1>1, <2>1
<1>4. CASE CorsResponse(r)
  <2>. DEFINE hs == Put(resp[r].headers, "access-control-allow-origin",
                        <<CorsOrigin(Plugin(r), head[r], ctx[r])>>)
  <2>1. \/ Respond(r, resp[r], ctx[r]) \/ Fail(r, 400)
        \/ Respond(r, [resp[r] EXCEPT !.headers = hs], ctx[r])
    BY <1>4 DEF CorsResponse
  <2>. HIDE DEF hs
  <2>. QED BY <1>1, <1>2, <2>1
<1>5. CASE ResponseHeaders(r)
  <2>. DEFINE hs == SetHeaders(Plugin(r), resp[r].headers, head[r], ctx[r])
  <2>1. Respond(r, [resp[r] EXCEPT !.headers = hs], ctx[r])
    BY <1>5 DEF ResponseHeaders
  <2>. HIDE DEF hs
  <2>. QED BY <1>1, <2>1
<1>6. CASE SubFilter(r)
  <2>. DEFINE hs == FilterHeaders(resp[r].headers)
              m == Modify("sub_filter", "")
  <2>1. \/ Respond(r, resp[r], ctx[r])
        \/ Respond(r, [resp[r] EXCEPT !.headers = hs], [ctx[r] EXCEPT !.body = m])
    BY <1>6 DEF SubFilter
  <2>. HIDE DEF hs, m
  <2>. QED BY <1>1, <2>1
<1>7. CASE ImageOptimResponse(r)
  BY <1>7 DEF ImageOptimResponse, Calls
<1>8. CASE Skip(r)
  BY <1>0, <1>8 DEF Skip
<1>. QED BY <1>3, <1>4, <1>5, <1>6, <1>7, <1>8 DEF Response

\* A step that leaves the header and the keys of a request alone, on to a later place.
LEMMA VariantOn ==
  ASSUME BaseInv, VariantInv, NEW r \in Req, Apart(r), HeadersOK(r), KeysOK(r), head'[r] = head[r],
         asked'[r] = asked[r], ctx'[r].keys = ctx[r].keys, ctx'[r].caching = ctx[r].caching,
         pc'[r] # "early_request", pc'[r] = "lookup" => ctx[r].caching
  PROVE  (HeadersOK(r) /\ KeysOK(r))'
<1>1. F' = F /\ Vary' = Vary /\ (VKey(ctx[r].keys))' = VKey(ctx[r].keys)
  BY DEF Apart, F, Vary, VKey
<1>2. HeadersOK(r)'
  BY <1>1 DEF HeadersOK
<1>3. KeysOK(r)'
  BY <1>1 DEF KeysOK
<1>. QED BY <1>2, <1>3

LEMMA VariantRespond ==
  ASSUME BaseInv, VariantInv, NEW r \in Req, Apart(r), HeadersOK(r), KeysOK(r), CoverOK(r), MadeOK(r),
         Response(r) \/ Skip(r), pc[r] = "response", NEW p, NEW c, Responds(r, p, c)
  PROVE  (HeadersOK(r) /\ KeysOK(r) /\ CoverOK(r) /\ MadeOK(r))'
<1>0. /\ DOMAIN ctx[r] = CtxFields /\ pc'[r] = "response" /\ head'[r] = head[r] /\ asked'[r] = asked[r]
      /\ ctx'[r] = c /\ resp'[r] = p /\ setup' = setup
  BY DEF BaseInv, OInv, IInv, RequestsOK, Responds, Apart
<1>1. c.keys = ctx[r].keys /\ c.caching = ctx[r].caching /\ c.hit = ctx[r].hit
  BY <1>0, RespondKeeps DEF CtxFields
<1>2. ASSUME Parts(resp[r])
      PROVE  Parts(p) /\ p.body = resp[r].body
  <2>1. p = resp[r] \/ \E hs : p = [resp[r] EXCEPT !.headers = hs]
    BY RespondKeeps
  <2>2. ASSUME NEW hs, p = [resp[r] EXCEPT !.headers = hs]
        PROVE  Parts(p) /\ p.body = resp[r].body
    BY <1>2, <2>2, HeadersSet
  <2>. QED BY <1>2, <2>1, <2>2
<1>3. MadeOK(r)'
  BY <1>0, <1>1, <1>2 DEF MadeOK, VaryOf, Parts
<1>. QED BY <1>0, <1>1, <1>3, VariantOn DEF CoverOK

LEMMA VariantUpstream ==
  ASSUME BaseInv, VariantInv, NEW r \in Req, Apart(r), HeadersOK(r), KeysOK(r), CoverOK(r), MadeOK(r),
         Response(r) \/ Skip(r), pc[r] = "upstream_response", NEW p, NEW c, Responds(r, p, c)
  PROVE  (HeadersOK(r) /\ KeysOK(r) /\ CoverOK(r) /\ MadeOK(r))'
<1>0. /\ RequestsOK /\ TableOK /\ FromTables /\ Views /\ DOMAIN ctx[r] = CtxFields /\ ~head[r].upgrade
      /\ pc'[r] = pc[r] /\ head'[r] = head[r] /\ asked'[r] = asked[r] /\ plugins' = plugins
      /\ ctx'[r] = c /\ resp'[r] = p /\ setup' = setup /\ at[r] <= Len(Chain)
  BY DEF BaseInv, OInv, IInv, RequestsOK, Responds, Apart
<1>1. Parts(resp[r]) /\ resp[r].body.format = setup.upstream.format /\ resp[r].body.vary = VaryOf(head[r])
      /\ ctx[r].upstreamBody \in {"", setup.upstream.format} \cup (F \cap Elements(ctx[r].keys))
  BY DEF MadeOK
<1>2. /\ Parts(p) /\ p.body = resp[r].body /\ c.keys = ctx[r].keys /\ c.caching = ctx[r].caching
      /\ c.upstreamBody \in {"", setup.upstream.format} \cup (F \cap Elements(ctx[r].keys))
  <2>1. CASE p = resp[r] /\ c = ctx[r]
    BY <1>1, <2>1
  <2>2. CASE ImageOptimResponse(r)
    <3>. DEFINE types == AcceptImages(Plugin(r), head[r])
                fmt == IF types = <<>> THEN resp[r].body.format ELSE types[1]
                new == Put(Put(Drop(resp[r].headers, "content-length"), "content-type", <<fmt>>),
                           "transfer-encoding", <<"chunked">>)
    <3>0. /\ Plugin(r) # NoConf /\ Plugin(r).category = "image_optim"
          /\ \/ Respond(r, resp[r], ctx[r])
             \/ Respond(r, [resp[r] EXCEPT !.headers = new], [ctx[r] EXCEPT !.upstreamBody = fmt])
      BY <2>2 DEF ImageOptimResponse, Calls
    <3>1. PICK format, hs : format = fmt /\ hs = new
      OBVIOUS
    <3>2. \/ Respond(r, resp[r], ctx[r])
          \/ Respond(r, [resp[r] EXCEPT !.headers = hs], [ctx[r] EXCEPT !.upstreamBody = format])
      BY <3>0, <3>1
    <3>3. \/ p = resp[r] /\ c = ctx[r]
          \/ p = [resp[r] EXCEPT !.headers = hs] /\ c = [ctx[r] EXCEPT !.upstreamBody = format]
      <4>. HIDE DEF fmt, new
      <4>1. ASSUME NEW q, NEW d, Respond(r, q, d)
            PROVE  p = q /\ c = d
        BY <1>0, <4>1 DEF Respond, RequestsOK, Views
      <4>. QED BY <3>2, <4>1
    <3>4. format \in {setup.upstream.format} \cup (F \cap Elements(ctx[r].keys))
      <4>1. at[r] \in 1..Len(Chain) /\ at[r] \in DOMAIN setup.chain
        BY <1>0, ChainLength DEF RequestsOK, Chain
      <4>2. PICK x : x = Plugin(r)
        OBVIOUS
      <4>3. x \in Confs(setup, at[r]) /\ x.category = "image_optim"
        BY <1>0, <3>0, <4>1, <4>2, Configured DEF Plugin, Name
      <4>4. /\ types \in Seq(F \cap head[r].accept) /\ Elements(types) = Elements(x.outputs) \cap head[r].accept
        BY <4>1, <4>2, <4>3, ImageKeysAre
      <4>5. Elements(x.outputs) \cap head[r].accept \subseteq Elements(ctx[r].keys)
        <5>1. Covers(r, at[r]) /\ IsImage(at[r])
          BY <1>0, <3>0, <4>1 DEF CoverOK, IsImage, Plugin, Name
        <5>. QED BY <4>2, <5>1 DEF Covers, Plugin, Name
      <4>6. types # <<>> => types[1] \in F /\ types[1] \in Elements(types)
        <5>. HIDE DEF types
        <5>. QED BY <4>4 DEF Elements
      <4>. QED BY <1>1, <3>1, <4>4, <4>5, <4>6
    <3>. HIDE DEF fmt, new
    <3>5. CASE p = resp[r] /\ c = ctx[r]
      BY <2>1, <3>5
    <3>6. CASE p = [resp[r] EXCEPT !.headers = hs] /\ c = [ctx[r] EXCEPT !.upstreamBody = format]
      <4>1. Parts(p) /\ p.body = resp[r].body
        BY <1>1, <3>6, HeadersSet
      <4>2. c.keys = ctx[r].keys /\ c.caching = ctx[r].caching /\ c.upstreamBody = format
        BY <1>0, <3>6 DEF CtxFields
      <4>. QED BY <3>4, <4>1, <4>2
    <3>. QED BY <3>3, <3>5, <3>6
  <2>3. ImageOptimResponse(r) \/ Skip(r)
    BY DEF Response, JwtAuthResponse, CorsResponse, ResponseHeaders, SubFilter, Calls
  <2>4. Skip(r) => p = resp[r] /\ c = ctx[r]
    BY <1>0 DEF Skip
  <2>. QED BY <2>1, <2>2, <2>3, <2>4
<1>3. F' = F /\ Chain' = Chain /\ VaryOf(head[r])' = VaryOf(head[r])
  BY <1>0 DEF F, Chain, VaryOf
<1>4. MadeOK(r)'
  BY <1>0, <1>1, <1>2, <1>3 DEF MadeOK, Parts
<1>5. CoverOK(r)'
  BY <1>0, <1>2, <1>3 DEF CoverOK, Covers, IsImage
<1>. QED BY <1>0, <1>2, <1>4, <1>5, VariantOn

\* The end of a loop.
LEMMA VariantStepEnd ==
  ASSUME BaseInv, VariantInv, NEW r \in Req, Apart(r), HeadersOK(r), KeysOK(r), CoverOK(r), MadeOK(r), StepEnd(r)
  PROVE  (HeadersOK(r) /\ KeysOK(r) /\ CoverOK(r) /\ MadeOK(r))'
<1>0. RequestsOK /\ TableOK
  BY DEF BaseInv, OInv, IInv
<1>1. /\ UNCHANGED <<setup, plugins, head, asked, ctx, resp>>
      /\ at'[r] = 1 /\ (head[r].upgrade \/ at[r] > Len(Chain))
      /\ \/ pc[r] = "early_request" /\ pc'[r] = "request"
         \/ pc[r] = "request" /\ ctx[r].caching /\ pc'[r] = "lookup"
         \/ pc[r] = "request" /\ ~ctx[r].caching /\ pc'[r] = "proxy_upstream"
         \/ pc[r] = "proxy_upstream" /\ pc'[r] = "upstream"
         \/ pc[r] = "upstream_response" /\ pc'[r] = "store"
         \/ pc[r] = "response" /\ pc'[r] = "body"
  BY <1>0, StepEnds
<1>2. (HeadersOK(r) /\ KeysOK(r))'
  BY <1>1, VariantOn
<1>3. F' = F /\ Chain' = Chain /\ VaryOf(head[r])' = VaryOf(head[r])
  BY <1>1 DEF F, Chain, VaryOf
<1>4. MadeOK(r)'
  BY <1>1, <1>3 DEF MadeOK, Parts
<1>5. \A i : Covers(r, i)' <=> Covers(r, i)
  BY <1>1, <1>3 DEF Covers, IsImage
<1>a. head'[r] = head[r] /\ at'[r] = 1 /\ Chain' = Chain
  BY <1>1, <1>3
<1>6. CASE pc[r] = "early_request" /\ pc'[r] = "request"
  <2>1. 1..(at'[r] - 1) = {}
    BY <1>a
  <2>. QED BY <1>2, <1>4, <1>6, <2>1 DEF CoverOK
<1>7. CASE pc[r] = "request" /\ pc'[r] \in {"lookup", "proxy_upstream"}
  <2>1. ~head[r].upgrade => \A i \in 1..Len(Chain) : i \in 1..(at[r] - 1)
    BY <1>0, <1>1, ChainLength DEF RequestsOK
  <2>2. ~head[r].upgrade => \A i \in 1..Len(Chain) : Covers(r, i)
    BY <1>7, <2>1 DEF CoverOK
  <2>3. ~head'[r].upgrade => \A i \in 1..Len(Chain') : Covers(r, i)'
    BY <1>5, <1>a, <2>2
  <2>4. pc'[r] # "request"
    BY <1>7
  <2>. QED BY <1>2, <1>4, <1>7, <2>3, <2>4 DEF CoverOK
<1>8. CASE pc[r] \in {"proxy_upstream", "upstream_response", "response"} /\ pc'[r] \in {"upstream", "store", "body"}
  <2>1. pc'[r] \in {"upstream", "store"} => pc[r] \in {"proxy_upstream", "upstream_response"}
    BY <1>1, <1>8
  <2>2. ~head[r].upgrade /\ pc'[r] \in {"upstream", "store"} => \A i \in 1..Len(Chain) : Covers(r, i)
    BY <2>1 DEF CoverOK
  <2>3. ~head'[r].upgrade /\ pc'[r] \in {"upstream", "store"} => \A i \in 1..Len(Chain') : Covers(r, i)'
    BY <1>5, <1>a, <2>2
  <2>. QED BY <1>2, <1>4, <1>8, <2>3 DEF CoverOK
<1>. QED BY <1>1, <1>6, <1>7, <1>8

\* The cache: what is stored under the keys is what a request with these keys is served.
LEMMA VariantLookup ==
  ASSUME BaseInv, VariantInv, NEW r \in Req, Apart(r), HeadersOK(r), KeysOK(r), CoverOK(r), MadeOK(r), Lookup(r)
  PROVE  (HeadersOK(r) /\ KeysOK(r) /\ CoverOK(r) /\ MadeOK(r))'
<1>0. RequestsOK /\ Views /\ DOMAIN ctx[r] = CtxFields /\ pc[r] = "lookup" /\ ctx[r].caching
  BY DEF BaseInv, OInv, IInv, RequestsOK, Lookup, KeysOK
<1>1. UNCHANGED <<setup, plugins, head, asked>>
  BY DEF Lookup
<1>2. PICK key : key = CacheKey(ctx[r], head[r].method, head[r])
  OBVIOUS
<1>3. key[2] = ctx[r].keys
  BY <1>2 DEF CacheKey
<1>4. CASE key \in DOMAIN store
  <2>1. /\ resp'[r] = store[key] /\ pc'[r] = "response" /\ ctx' = [ctx EXCEPT ![r].hit = TRUE]
    BY <1>0, <1>2, <1>4 DEF Lookup, Goto, RequestsOK, Views
  <2>2. ctx'[r].keys = ctx[r].keys /\ ctx'[r].caching = ctx[r].caching
    BY <1>0, <2>1 DEF RequestsOK, CtxFields
  <2>3. StoredOK(key, store[key])
    BY <1>4 DEF VariantInv
  <2>4. store[key].body.vary = VaryOf(asked[r].head)
    <3>1. ASSUME NEW i \in DOMAIN Vary
          PROVE  VKey(ctx[r].keys) = GetHeader(asked[r].head, Vary[i]).text
      <4>1. Vary[i] \in Elements(Vary)
        BY DEF Elements
      <4>. QED BY <1>0, <4>1 DEF KeysOK, HeadersOK
    <3>. QED BY <1>3, <2>3, <3>1 DEF StoredOK, VaryOf, Vary
  <2>5. store[key].body.format \in asked[r].head.accept \cup {setup.upstream.format}
    <3>1. Elements(ctx[r].keys) \cap F \subseteq asked[r].head.accept
      BY DEF KeysOK, HeadersOK
    <3>. QED BY <1>3, <2>3, <3>1 DEF StoredOK
  <2>6. MadeOK(r)'
    BY <1>1, <2>1, <2>3, <2>4, <2>5 DEF MadeOK, StoredOK, Parts, VaryOf
  <2>. QED BY <1>1, <2>1, <2>2, <2>6, VariantOn DEF CoverOK
<1>5. CASE key \notin DOMAIN store
  <2>1. ctx' = ctx /\ pc'[r] = "proxy_upstream"
    BY <1>0, <1>2, <1>5 DEF Lookup, Goto, RequestsOK
  <2>2. MadeOK(r)' /\ CoverOK(r)'
    BY <1>0, <1>1, <2>1 DEF MadeOK, CoverOK, Covers, IsImage, Chain
  <2>. QED BY <1>1, <2>1, <2>2, VariantOn
<1>. QED BY <1>4, <1>5

LEMMA VariantFetch ==
  ASSUME BaseInv, VariantInv, NEW r \in Req, Apart(r), HeadersOK(r), KeysOK(r), CoverOK(r), MadeOK(r), Upstream(r)
  PROVE  (HeadersOK(r) /\ KeysOK(r) /\ CoverOK(r) /\ MadeOK(r))'
<1>1. /\ pc[r] = "upstream" /\ pc'[r] = "upstream_response" /\ UNCHANGED <<setup, plugins, head, asked, ctx>>
      /\ resp'[r] = UpstreamResponse(head[r])
  BY DEF Upstream, Goto, RequestsOK, Views, BaseInv, OInv, IInv
<1>2. /\ Parts(UpstreamResponse(head[r])) /\ UpstreamResponse(head[r]).body.vary = VaryOf(head[r])
      /\ UpstreamResponse(head[r]).body.format = setup.upstream.format
  BY DEF UpstreamResponse, Parts, NoBody
<1>3. VaryOf(head[r])' = VaryOf(head[r]) /\ F' = F
  BY <1>1 DEF VaryOf, F
<1>4. MadeOK(r)'
  BY <1>1, <1>2, <1>3 DEF MadeOK, Parts
<1>5. CoverOK(r)'
  BY <1>1 DEF CoverOK, Covers, IsImage, Chain
<1>. QED BY <1>1, <1>4, <1>5, VariantOn

LEMMA VariantStore ==
  ASSUME BaseInv, VariantInv, NEW r \in Req, Apart(r), HeadersOK(r), KeysOK(r), CoverOK(r), MadeOK(r), Store(r)
  PROVE  /\ (HeadersOK(r) /\ KeysOK(r) /\ CoverOK(r) /\ MadeOK(r))'
         /\ \A k \in DOMAIN store' : StoredOK(k, store'[k])
<1>0. /\ RequestsOK /\ Views /\ pc[r] = "store" /\ pc'[r] = "response" /\ ~ctx[r].hit
      /\ UNCHANGED <<setup, head, asked, ctx>>
  BY DEF BaseInv, OInv, IInv, RequestsOK, AnswersOK, Store, Goto
<1>1. PICK p, key : /\ p = IF ctx[r].upstreamBody = "" THEN resp[r]
                           ELSE [resp[r] EXCEPT !.body.format = ctx[r].upstreamBody]
                    /\ key = CacheKey(ctx[r], head[r].method, head[r])
  OBVIOUS
<1>2. store' = store \/ (ctx[r].caching /\ store' = Put(store, key, p))
  BY <1>1 DEF Store
<1>3. MadeOK(r)'
  BY <1>0 DEF MadeOK
<1>4. /\ Parts(resp[r]) /\ resp[r].body.format = setup.upstream.format /\ resp[r].body.vary = VaryOf(head[r])
      /\ ctx[r].upstreamBody \in {"", setup.upstream.format} \cup (F \cap Elements(ctx[r].keys))
  BY <1>0 DEF MadeOK
<1>5. /\ Parts(p) /\ p.body.vary = VaryOf(head[r])
      /\ p.body.format \in {setup.upstream.format} \cup (F \cap Elements(ctx[r].keys))
  <2>1. CASE ctx[r].upstreamBody = ""
    BY <1>1, <1>4, <2>1
  <2>2. CASE ctx[r].upstreamBody # ""
    <3>1. Parts(p) /\ p.body.vary = resp[r].body.vary /\ p.body.format = ctx[r].upstreamBody
      BY <1>1, <1>4, <2>2 DEF Parts
    <3>. QED BY <1>4, <2>2, <3>1
  <2>. QED BY <2>1, <2>2
<1>6. ASSUME ctx[r].caching
      PROVE  StoredOK(key, p)
  <2>1. key[2] = ctx[r].keys
    BY <1>1 DEF CacheKey
  <2>2. ASSUME NEW i \in DOMAIN Vary
        PROVE  GetHeader(head[r], Vary[i]).text = VKey(ctx[r].keys)
    <3>1. Vary[i] \in Elements(Vary)
      BY DEF Elements
    <3>. QED BY <1>6, <3>1 DEF KeysOK
  <2>3. VaryOf(head[r]) = [i \in DOMAIN Vary |-> VKey(key[2])]
    BY <2>1, <2>2 DEF VaryOf, Vary
  <2>. QED BY <1>5, <2>1, <2>3 DEF StoredOK
<1>7. \A k \in DOMAIN store : StoredOK(k, store[k])
  BY DEF VariantInv
<1>8. \A k \in DOMAIN store' : StoredOK(k, store'[k])
  <2>1. CASE store' = store
    BY <1>7, <2>1
  <2>2. CASE ctx[r].caching /\ store' = Put(store, key, p)
    <3>1. ASSUME NEW k \in DOMAIN store'
          PROVE  StoredOK(k, store'[k])
      <4>1. (k = key /\ store'[k] = p) \/ (k \in DOMAIN store /\ store'[k] = store[k])
        BY <2>2, <3>1 DEF Put
      <4>. QED BY <1>6, <1>7, <2>2, <4>1
    <3>. QED BY <3>1
  <2>. QED BY <1>2, <2>1, <2>2
<1>. QED BY <1>0, <1>3, <1>8, VariantOn DEF CoverOK

LEMMA VariantServe ==
  ASSUME BaseInv, VariantInv, NEW r \in Req, Serve(r)
  PROVE  /\ InFlight(r)' /\ pc'[r] # "logging" => (HeadersOK(r) /\ KeysOK(r) /\ CoverOK(r) /\ MadeOK(r))'
         /\ \A k \in DOMAIN store' : StoredOK(k, store'[k])
         /\ \A v \in issued' : v.text \in {"jwt", "token"}
<1>0. RequestsOK /\ TableOK /\ Views /\ Apart(r) /\ Shape(r) /\ InFlight(r)
  BY ServeShape, ServeTo DEF BaseInv, OInv, IInv, InFlight
<1>1. pc[r] # "logging" => HeadersOK(r) /\ KeysOK(r) /\ CoverOK(r) /\ MadeOK(r)
  BY <1>0 DEF VariantInv
<1>2. \A k \in DOMAIN store : StoredOK(k, store[k])
  BY DEF VariantInv
<1>3. \A v \in issued' : v.text \in {"jwt", "token"}
  <2>1. \A t, k : Signed("token", t, k).text = "token" /\ Signed("jwt", t, k).text = "jwt"
    BY DEF Signed
  <2>2. \A v \in issued : v.text \in {"jwt", "token"}
    BY DEF VariantInv
  <2>3. CASE Ends(r)
    BY <2>1, <2>2, <2>3 DEF Ends
  <2>4. CASE Body(r)
    BY <2>1, <2>2, <2>4 DEF Body
  <2>. QED BY <2>2, <2>3, <2>4, IssuedBy
<1>4. CASE \E h, c : Passes(r, h, c) /\ HeadChange(r, h) /\ CtxChange(r, c)
  <2>1. PICK h, c : Passes(r, h, c) /\ HeadChange(r, h) /\ CtxChange(r, c)
    BY <1>4
  <2>2. pc[r] # "logging" /\ store' = store
    BY <2>1 DEF Passes, RequestStep
  <2>. QED BY <1>0, <1>1, <1>2, <1>3, <2>1, <2>2, VariantPass
<1>5. CASE Ends(r)
  <2>1. \A k \in DOMAIN store' : k \in DOMAIN store /\ store'[k] = store[k]
    BY <1>5 DEF Ends, Drop
  <2>. QED BY <1>2, <1>3, <1>5, <2>1 DEF Ends
<1>6. CASE Waits(r)
  <2>1. pc'[r] \in LoginStep /\ UNCHANGED <<head, asked, ctx, store>> /\ pc[r] \in LoginStep \cup {"request"}
    BY <1>6, WaitsFrom DEF Waits
  <2>2. HeadersOK(r) /\ KeysOK(r) /\ MadeOK(r) /\ ctx[r].upstreamBody = ""
    BY <1>1, <2>1 DEF LoginStep, MadeOK
  <2>3. (CoverOK(r) /\ MadeOK(r))'
    BY <2>1, <2>2 DEF CoverOK, MadeOK, LoginStep
  <2>. QED BY <1>0, <1>2, <1>3, <2>1, <2>2, <2>3, VariantOn DEF LoginStep
<1>7. CASE (Response(r) \/ Skip(r)) /\ \E p, c : Responds(r, p, c)
  <2>1. PICK p, c : Responds(r, p, c)
    BY <1>7
  <2>2. pc[r] \in {"upstream_response", "response"} /\ store' = store
    BY <2>1 DEF Responds, ResponseStep
  <2>. QED BY <1>0, <1>1, <1>2, <1>3, <1>7, <2>1, <2>2, VariantRespond, VariantUpstream
<1>8. CASE StepEnd(r)
  <2>1. store' = store /\ pc[r] # "logging"
    BY <1>0, <1>8, StepEnds
  <2>. QED BY <1>0, <1>1, <1>2, <1>3, <1>8, <2>1, VariantStepEnd
<1>9. CASE Lookup(r)
  <2>1. store' = store /\ pc[r] # "logging"
    BY <1>9 DEF Lookup, shared
  <2>. QED BY <1>0, <1>1, <1>2, <1>3, <1>9, <2>1, VariantLookup
<1>10. CASE Upstream(r)
  <2>1. store' = store /\ pc[r] # "logging"
    BY <1>10 DEF Upstream, shared
  <2>. QED BY <1>0, <1>1, <1>2, <1>3, <1>10, <2>1, VariantFetch
<1>11. CASE Store(r)
  <2>1. pc[r] # "logging"
    BY <1>11 DEF Store
  <2>. QED BY <1>0, <1>1, <1>3, <1>11, <2>1, VariantStore
<1>12. CASE Body(r) \/ Logging(r)
  <2>1. store' = store /\ pc'[r] \in {"logging", "done"}
    BY <1>0, <1>12 DEF Body, Logging, Goto, RequestsOK
  <2>. QED BY <1>2, <1>3, <2>1 DEF InFlight
<1>. QED BY <1>0, <1>4, <1>5, <1>6, <1>7, <1>8, <1>9, <1>10, <1>11, <1>12 DEF Shape

\* A client sends no formats as header values, and tokens are none.
LEMMA VariantArrive ==
  ASSUME BaseInv, VariantInv, NEW r \in Req, Arrive(r)
  PROVE  Apart(r) /\ UNCHANGED <<store, issued>> /\ (HeadersOK(r) /\ KeysOK(r) /\ CoverOK(r) /\ MadeOK(r))'
<1>0. RequestsOK /\ Views /\ setup \in Setup
  BY DEF BaseInv, OInv, IInv, TableOK
<1>1. /\ Apart(r) /\ UNCHANGED <<ctx, store, issued>> /\ pc[r] = "idle" /\ pc'[r] = "early_request"
      /\ at'[r] = 1
  BY <1>0, Arrives
<1>2. PICK h \in setup.inputs, token \in issued \cup {Signed("token", clock, "forged")} :
        head'[r] = Carry(h, token) /\ asked'[r] = [head |-> Carry(h, token), at |-> clock]
  BY <1>0, Arrives
<1>3. PICK g : g = Carry(h, token)
  OBVIOUS
<1>4. token.text \in {"jwt", "token"} /\ token.text \notin F
  <2>1. Signed("token", clock, "forged").text = "token"
    BY DEF Signed
  <2>2. token.text \in {"jwt", "token"}
    BY <1>2, <2>1 DEF VariantInv
  <2>. QED BY <2>2 DEF VariantInv, VariantsTold, F
<1>5. \A n \in DOMAIN h.headers : h.headers[n].text \notin F
  BY <1>2 DEF VariantInv, VariantsTold, ValuesOf, F
<1>6. \A n \in DOMAIN g.headers : g.headers[n].text \notin F
  <2>1. g.headers = h.headers \/ g.headers = Put(h.headers, h.token, token)
    <3>1. DOMAIN h = HeadFields
      BY <1>0, <1>2, ChainAssumption
    <3>. QED BY <1>3, <3>1 DEF Carry, HeadFields
  <2>2. \A n \in DOMAIN g.headers : g.headers[n] = token \/ (n \in DOMAIN h.headers /\ g.headers[n] = h.headers[n])
    BY <2>1 DEF Put
  <2>. QED BY <1>4, <1>5, <2>2
<1>7. head'[r] = g /\ asked'[r].head = g /\ F' = F
  BY <1>1, <1>2, <1>3 DEF Apart, F
<1>8. HeadersOK(r)'
  BY <1>6, <1>7 DEF HeadersOK
<1>9. ctx'[r] = NewCtx
  BY <1>1 DEF BaseInv, NewOK
<1>10. NewCtx.keys = <<>> /\ ~NewCtx.caching /\ NewCtx.upstreamBody = ""
  BY DEF NewCtx
<1>11. KeysOK(r)'
  <2>1. <<>> \in Seq(Elements(<<>>)) /\ Elements(<<>>) = {}
    BY DEF Elements
  <2>2. (VKey(ctx[r].keys))' = ""
    BY <1>9, <1>10 DEF VKey
  <2>. QED BY <1>1, <1>9, <1>10, <2>1, <2>2 DEF KeysOK
<1>12. (CoverOK(r) /\ MadeOK(r))'
  BY <1>1, <1>9, <1>10 DEF CoverOK, MadeOK
<1>. QED BY <1>1, <1>8, <1>11, <1>12

LEMMA StoredKept ==
  ASSUME setup' = setup, \A k \in DOMAIN store' : StoredOK(k, store'[k])
  PROVE  \A k \in DOMAIN store' : StoredOK(k, store[k])'
<1>1. F' = F /\ Vary' = Vary
  BY DEF F, Vary
<1>. SUFFICES ASSUME NEW k \in DOMAIN store'
              PROVE  StoredOK(k, store[k])'
  OBVIOUS
<1>2. PICK p, x : p = store'[k] /\ x = k[2]
  OBVIOUS
<1>3. VKey(x)' = VKey(x)
  BY <1>1 DEF VKey
<1>4. Parts(p) /\ p.body.vary = [i \in DOMAIN Vary |-> VKey(x)]
      /\ p.body.format \in {setup.upstream.format} \cup (F \cap Elements(x))
  BY <1>2 DEF StoredOK
<1>5. (p.body.vary = [i \in DOMAIN Vary |-> VKey(x)])'
  BY <1>1, <1>3, <1>4
<1>. QED BY <1>1, <1>2, <1>4, <1>5 DEF StoredOK, Parts

LEMMA VariantNext ==
  ASSUME BaseInv, VariantInv, [Next]_vars
  PROVE  VariantInv'
<1>0. RequestsOK /\ TableOK /\ Views /\ Len(Chain) \in Nat /\ \A s \in Req : at[s] \in 1..(Len(Chain) + 1)
  BY ChainLength DEF BaseInv, OInv, IInv, RequestsOK
<1>1. CASE \E r \in Req : Arrive(r) \/ Serve(r)
  <2>1. PICK r \in Req : Arrive(r) \/ Serve(r)
    BY <1>1
  <2>2. /\ Apart(r)
        /\ InFlight(r)' /\ pc'[r] # "logging" => (HeadersOK(r) /\ KeysOK(r) /\ CoverOK(r) /\ MadeOK(r))'
        /\ \A k \in DOMAIN store' : StoredOK(k, store'[k])
        /\ \A v \in issued' : v.text \in {"jwt", "token"}
    <3>1. CASE Serve(r)
      BY <1>0, <3>1, ServeShape, VariantServe DEF BaseInv
    <3>2. CASE Arrive(r)
      BY <3>2, VariantArrive DEF VariantInv
    <3>. QED BY <2>1, <3>1, <3>2
  <2>3. setup' = setup /\ plugins' = plugins
    BY <2>2 DEF Apart
  <2>4. \A i \in 1..Len(Chain) : IsImage(i)' => IsImage(i) /\ plugins'[Chain[i]].conf = plugins[Chain[i]].conf
    BY <2>3 DEF IsImage, Chain
  <2>5. ASSUME NEW s \in Req \ {r}, InFlight(s)', pc'[s] # "logging"
        PROVE  (HeadersOK(s) /\ KeysOK(s) /\ CoverOK(s) /\ MadeOK(s))'
    <3>1. /\ pc'[s] = pc[s] /\ at'[s] = at[s] /\ head'[s] = head[s] /\ asked'[s] = asked[s]
          /\ ctx'[s] = ctx[s] /\ resp'[s] = resp[s]
      BY <2>2, <2>5 DEF Apart
    <3>2. HeadersOK(s) /\ KeysOK(s) /\ CoverOK(s) /\ MadeOK(s)
      BY <2>5, <3>1 DEF InFlight, VariantInv
    <3>. QED BY <1>0, <2>3, <2>4, <3>1, <3>2, VariantLeft
  <2>6. VariantsTold(setup') /\ ImagesOK'
    BY <2>3 DEF VariantInv, ImagesOK, Chain
  <2>7. \A k \in DOMAIN store' : StoredOK(k, store[k])'
    <3>1. \A k \in DOMAIN store' : StoredOK(k, store'[k])
      BY <2>2
    <3>. QED BY <2>3, <3>1, StoredKept
  <2>. QED BY <2>2, <2>5, <2>6, <2>7 DEF VariantInv
<1>2. CASE Reload \/ Tick \/ UNCHANGED vars
  <2>1. UNCHANGED <<setup, pc, at, head, asked, ctx, resp, store, issued>>
    BY <1>0, <1>2, Reloads DEF Tick, vars
  <2>2. /\ ImagesOK'
        /\ \A i \in 1..Len(Chain) : IsImage(i)' => IsImage(i) /\ plugins'[Chain[i]].conf = plugins[Chain[i]].conf
    <3>1. CASE Reload
      BY <3>1, ImagesKept
    <3>2. CASE Tick \/ UNCHANGED vars
      <4>1. setup' = setup /\ plugins' = plugins
        BY <3>2 DEF Tick, vars
      <4>. QED BY <4>1 DEF VariantInv, ImagesOK, IsImage, Chain
    <3>. QED BY <1>2, <3>1, <3>2
  <2>3. ASSUME NEW s \in Req, InFlight(s)', pc'[s] # "logging"
        PROVE  (HeadersOK(s) /\ KeysOK(s) /\ CoverOK(s) /\ MadeOK(s))'
    <3>1. HeadersOK(s) /\ KeysOK(s) /\ CoverOK(s) /\ MadeOK(s)
      BY <2>1, <2>3 DEF InFlight, VariantInv
    <3>. QED BY <1>0, <2>1, <2>2, <3>1, VariantLeft
  <2>4. \A k \in DOMAIN store' : StoredOK(k, store[k])'
    <3>1. \A k \in DOMAIN store' : StoredOK(k, store'[k])
      BY <2>1 DEF VariantInv
    <3>. QED BY <2>1, <3>1, StoredKept
  <2>5. VariantsTold(setup') /\ \A v \in issued' : v.text \in {"jwt", "token"}
    BY <2>1 DEF VariantInv
  <2>. QED BY <2>2, <2>3, <2>4, <2>5 DEF VariantInv
<1>. QED BY <1>1, <1>2 DEF Next

\* A hit is the response the upstream would have made for this client, in the original format
\* or in one it accepts: get_cache_key tells variants apart when the cache plugin is configured
\* with the header the upstream varies by, that header is left alone by the other plugins, and
\* the formats of image_optim come behind it in the keys and cannot be mistaken for its values.
THEOREM VariantsServed == Spec /\ VariantsTold(setup) => []VariantServed
<1>1. Init /\ VariantsTold(setup) => VariantInv
  BY VariantInit
<1>2. BaseInv /\ VariantInv /\ [Next]_vars => VariantInv'
  BY VariantNext
<1>3. VariantInv => VariantServed
  BY DEF VariantInv, MadeOK, VariantServed, InFlight
<1>. QED BY <1>1, <1>2, <1>3, BaseInvariance, PTL DEF Spec
=============================================================================
