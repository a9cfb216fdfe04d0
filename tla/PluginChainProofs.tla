------------------------- MODULE PluginChainProofs -------------------------
(***************************************************************************)
(* The plugins at work, for any chain of plugins, any configurations,      *)
(* reloads and requests: the types, the limit of requests in flight, one   *)
(* answer per request, and the limit of wrong logins.                      *)
(***************************************************************************)
EXTENDS PluginChain, FiniteSetTheorems, SequenceTheorems, TLAPS

CtxFields == {"ip", "id", "ns", "keys", "caching", "hit", "guard", "body", "upstreamBody",
              "level", "admitted"}
Places == Handled \cup {"idle", "done"}

\* The table: an object has the generation its name was given last, and what is not
\* loaded has none.
TableOK ==
  /\ setup \in Setup /\ DOMAIN plugins = DOMAIN setup.start
  /\ gens \in [DOMAIN setup.start -> 0..MaxGen]
  /\ \A n \in DOMAIN setup.start :
       /\ plugins[n].conf = NoConf => plugins[n].gen = 0
       /\ plugins[n].conf # NoConf => plugins[n].gen = gens[n] /\ gens[n] >= 1
       /\ Numbers(plugins[n].conf)

RequestsOK ==
  /\ clock \in 1..setup.seconds
  /\ pc \in [Req -> Places]
  /\ at \in [Req -> 1..(Len(Chain) + 1)] /\ sent \in [Req -> Nat]
  /\ DOMAIN head = Req /\ DOMAIN ctx = Req
  /\ \A r \in Req : /\ IF InFlight(r) THEN DOMAIN head[r] = HeadFields ELSE head[r] = None
                    /\ DOMAIN ctx[r] = CtxFields

\* A counter was made by a limiter of the table or by one that is gone.
Origin(o) ==
  \E n \in DOMAIN setup.start, g \in Nat :
    /\ \E k : o = <<n, g, k>>
    /\ g >= 1 /\ g <= gens[n]
    /\ g = plugins[n].gen => plugins[n].conf # NoConf /\ plugins[n].conf.category = "limit"

\* The counters are the Guards there are, and a limiter that has let a request pass has
\* its Guard, unless a second limiter took its place.
Holders(o) == {r \in Req : ctx[r].guard = o}
Admitted(o) == {r \in Req : o \in ctx[r].admitted}
GuardsOK ==
  /\ \A o \in DOMAIN inflight : o # <<>> /\ Origin(o) /\ inflight[o] = Cardinality(Holders(o))
  /\ \A r \in Req : /\ ctx[r].guard = <<>> \/ ctx[r].guard \in DOMAIN inflight
                    /\ \A o \in ctx[r].admitted \ odd : o # <<>> /\ ctx[r].guard = o

IInv == TableOK /\ RequestsOK /\ GuardsOK /\ InflightBound

-----------------------------------------------------------------------------
(* Steps of one request that have nothing to do with the limiters.           *)

\* A context that has the same Guard.
SameGuard(c, d) == DOMAIN c = CtxFields /\ c.guard = d.guard /\ c.admitted = d.admitted

Moves(r) ==
  /\ UNCHANGED <<setup, plugins, gens, clock>>
  /\ pc' \in [Req -> Places] /\ pc'[r] \in Handled /\ \A s \in Req \ {r} : pc'[s] = pc[s]
  /\ at' \in [Req -> 1..(Len(Chain) + 1)] /\ sent' \in [Req -> Nat]
  /\ DOMAIN head' = Req /\ DOMAIN head'[r] = HeadFields
  /\ \A s \in Req \ {r} : head'[s] = head[s]
Local(r) ==
  /\ Moves(r)
  /\ inflight' = inflight /\ odd \subseteq odd'
  /\ DOMAIN ctx' = Req /\ \A s \in Req : SameGuard(ctx'[s], ctx[s])

\* The places of a request.
LEMMA PlaceFacts ==
  /\ Handled \subseteq Places /\ PluginStep \subseteq Handled /\ RequestStep \subseteq PluginStep
  /\ {"logging", "reset", "login", "failed", "request", "lookup", "upstream", "store", "body",
      "response", "upstream_response", "proxy_upstream", "early_request"} \subseteq Handled
  /\ "idle" \notin Handled /\ "done" \notin Handled /\ "done" \in Places
BY DEF Handled, Places, PluginStep, RequestStep, ResponseStep

\* The length of a chain.
LEMMA ChainLength ==
  ASSUME TableOK
  PROVE  Len(Chain) \in Nat /\ Chain \in Seq(DOMAIN setup.start)
         /\ \A i \in 1..Len(Chain) : Chain[i] \in DOMAIN setup.start
BY ChainAssumption DEF TableOK, Chain

\* What a request in flight has.
LEMMA Flying ==
  ASSUME RequestsOK, NEW r \in Req, pc[r] \in Handled
  PROVE  DOMAIN head[r] = HeadFields /\ DOMAIN ctx[r] = CtxFields
BY PlaceFacts DEF RequestsOK, InFlight

\* A plugin that is called.
LEMMA Called ==
  ASSUME NEW r \in Req, NEW category, NEW step, Calls(r, category, step)
  PROVE  pc[r] = step /\ at[r] <= Len(Chain) /\ Plugin(r) # NoConf
BY DEF Calls

\* The ends of a handler.
LEMMA RewriteLocal ==
  ASSUME TableOK, RequestsOK, NEW r \in Req, pc[r] \in Handled, at[r] <= Len(Chain),
         NEW h, NEW c, DOMAIN h = HeadFields, SameGuard(c, ctx[r]), Rewrite(r, h, c)
  PROVE  Local(r)
<1>1. at' \in [Req -> 1..(Len(Chain) + 1)]
  <2>1. at[r] + 1 \in 1..(Len(Chain) + 1) /\ at \in [Req -> 1..(Len(Chain) + 1)]
    BY ChainLength DEF RequestsOK
  <2>. QED BY <2>1 DEF Rewrite, Continue
<1>2. Moves(r)
  BY <1>1, PlaceFacts DEF Moves, Rewrite, Continue, RequestsOK
<1>3. DOMAIN ctx' = Req /\ \A s \in Req : SameGuard(ctx'[s], ctx[s])
  BY DEF Rewrite, RequestsOK, SameGuard
<1>. QED BY <1>2, <1>3 DEF Local, Rewrite, shared, history

LEMMA PassLocal ==
  ASSUME TableOK, RequestsOK, NEW r \in Req, pc[r] \in Handled, at[r] <= Len(Chain), Pass(r)
  PROVE  Local(r)
<1>1. SameGuard(ctx[r], ctx[r]) /\ DOMAIN head[r] = HeadFields
  BY Flying DEF SameGuard
<1>. QED BY <1>1, RewriteLocal DEF Pass

LEMMA AnsweredMoves ==
  ASSUME TableOK, RequestsOK, NEW r \in Req, pc[r] \in Handled,
         NEW written \in Nat, NEW status, AnsweredAfter(r, written, status), head' = head
  PROVE  Moves(r)
<1>1. sent' \in [Req -> Nat]
  <2>1. PICK i \in {0, 1} : i = IF status < 900 THEN 1 ELSE 0
    OBVIOUS
  <2>2. sent[r] \in Nat /\ sent[r] + written + i \in Nat
    BY DEF RequestsOK
  <2>3. sent' = [sent EXCEPT ![r] = @ + written + i]
    BY <2>1 DEF AnsweredAfter
  <2>. QED BY <2>2, <2>3 DEF RequestsOK
<1>2. at' \in [Req -> 1..(Len(Chain) + 1)]
  <2>1. 1 \in 1..(Len(Chain) + 1)
    BY ChainLength
  <2>. QED BY <2>1 DEF AnsweredAfter, RequestsOK
<1>3. \/ pc' = [pc EXCEPT ![r] = "request"]
      \/ pc' = [pc EXCEPT ![r] = "logging"]
  BY DEF AnsweredAfter
<1>4. pc' \in [Req -> Places] /\ pc'[r] \in Handled /\ \A s \in Req \ {r} : pc'[s] = pc[s]
  BY <1>3, PlaceFacts DEF RequestsOK
<1>5. DOMAIN head' = Req /\ DOMAIN head'[r] = HeadFields
  BY Flying DEF RequestsOK
<1>. QED BY <1>1, <1>2, <1>4, <1>5 DEF Moves, AnsweredAfter

\* Nothing of the limiters changes.
LEMMA MovesLocal ==
  ASSUME RequestsOK, NEW r \in Req, Moves(r), inflight' = inflight, odd \subseteq odd', ctx' = ctx
  PROVE  Local(r)
BY DEF Local, RequestsOK, SameGuard

LEMMA AnswerLocal ==
  ASSUME TableOK, RequestsOK, NEW r \in Req, pc[r] \in Handled, NEW status, Answer(r, status)
  PROVE  Local(r)
<1>1. Moves(r)
  BY AnsweredMoves DEF Answer, Answered
<1>. QED BY <1>1, MovesLocal DEF Answer, shared, history

LEMMA FailLocal ==
  ASSUME TableOK, RequestsOK, NEW r \in Req, pc[r] \in Handled, NEW status, Fail(r, status)
  PROVE  Local(r)
<1>1. Moves(r)
  BY Flying, PlaceFacts DEF Fail, Moves, RequestsOK
<1>. QED BY <1>1, MovesLocal DEF Fail, shared, history

LEMMA RespondLocal ==
  ASSUME TableOK, RequestsOK, NEW r \in Req, pc[r] \in Handled, at[r] <= Len(Chain),
         NEW p, NEW c, SameGuard(c, ctx[r]), Respond(r, p, c)
  PROVE  Local(r)
<1>1. at' \in [Req -> 1..(Len(Chain) + 1)]
  <2>1. at[r] + 1 \in 1..(Len(Chain) + 1) /\ at \in [Req -> 1..(Len(Chain) + 1)]
    BY ChainLength DEF RequestsOK
  <2>. QED BY <2>1 DEF Respond
<1>2. Moves(r)
  BY <1>1, Flying, PlaceFacts DEF Moves, Respond, RequestsOK
<1>3. DOMAIN ctx' = Req /\ \A s \in Req : SameGuard(ctx'[s], ctx[s])
  BY DEF Respond, RequestsOK, SameGuard
<1>. QED BY <1>2, <1>3 DEF Local, Respond, shared, history

\* A step that has nothing to do with the limiters keeps the invariant.
LEMMA LocalKeeps ==
  ASSUME IInv, NEW r \in Req, Local(r)
  PROVE  IInv'
<1>1. UNCHANGED <<setup, plugins, gens, clock, Chain, inflight>>
  BY DEF Local, Moves, Chain
<1>2. TableOK'
  BY <1>1 DEF IInv, TableOK
<1>3. RequestsOK'
  <2>1. ASSUME NEW s \in Req
        PROVE  (IF InFlight(s) THEN DOMAIN head[s] = HeadFields ELSE head[s] = None)'
    <3>1. CASE s = r
      BY <3>1, PlaceFacts DEF Local, Moves, InFlight
    <3>2. CASE s # r
      BY <3>2 DEF Local, Moves, InFlight, IInv, RequestsOK
    <3>. QED BY <3>1, <3>2
  <2>2. (clock \in 1..setup.seconds)'
    BY <1>1 DEF IInv, RequestsOK
  <2>3. \A s \in Req : DOMAIN ctx'[s] = CtxFields
    BY DEF Local, SameGuard
  <2>. QED BY <1>1, <2>1, <2>2, <2>3 DEF RequestsOK, Local, Moves
<1>4. \A s \in Req : ctx'[s].guard = ctx[s].guard /\ ctx'[s].admitted = ctx[s].admitted
  BY DEF Local, SameGuard
<1>5. \A o : Holders(o)' = Holders(o)
  BY <1>4 DEF Holders
<1>6. \A o : {s \in Req : o \in ctx'[s].admitted} = {s \in Req : o \in ctx[s].admitted}
  BY <1>4
<1>7. GuardsOK'
  <2>1. \A o : Origin(o) => Origin(o)'
    BY <1>1 DEF Origin
  <2>2. \A o \in DOMAIN inflight' : o # <<>> /\ Origin(o)' /\ inflight'[o] = Cardinality(Holders(o)')
    BY <1>1, <1>5, <2>1 DEF IInv, GuardsOK
  <2>3. \A s \in Req : /\ ctx'[s].guard = <<>> \/ ctx'[s].guard \in DOMAIN inflight'
                       /\ \A o \in ctx'[s].admitted \ odd' : o # <<>> /\ ctx'[s].guard = o
    BY <1>1, <1>4 DEF IInv, GuardsOK, Local
  <2>. QED BY <2>2, <2>3 DEF GuardsOK
<1>8. InflightBound'
  <2>1. \A n \in DOMAIN plugins, o \in DOMAIN inflight \ odd :
          o[1] = n /\ o[2] = plugins[n].gen =>
            Cardinality({s \in Req : o \in ctx[s].admitted}) <= plugins[n].conf.max
    BY DEF IInv, InflightBound, Names
  <2>2. odd \subseteq odd'
    BY DEF Local
  <2>3. \A n \in DOMAIN plugins', o \in DOMAIN inflight' \ odd' :
          o[1] = n /\ o[2] = plugins'[n].gen =>
            Cardinality({s \in Req : o \in ctx'[s].admitted}) <= plugins'[n].conf.max
    BY <1>1, <1>6, <2>1, <2>2
  <2>. QED BY <2>3 DEF InflightBound, Names
<1>. QED BY <1>2, <1>3, <1>7, <1>8 DEF IInv

\* What the handler of a plugin may do.
LEMMA HandlerEnds ==
  ASSUME TableOK, RequestsOK, NEW r \in Req, NEW category, NEW step \in Handled,
         Calls(r, category, step)
  PROVE  /\ pc[r] \in Handled /\ at[r] <= Len(Chain)
         /\ DOMAIN head[r] = HeadFields /\ DOMAIN ctx[r] = CtxFields
         /\ Pass(r) => Local(r)
         /\ \A s : Answer(r, s) => Local(r)
         /\ \A s : Fail(r, s) => Local(r)
<1>1. pc[r] \in Handled /\ at[r] <= Len(Chain)
  BY Called
<1>2. DOMAIN head[r] = HeadFields /\ DOMAIN ctx[r] = CtxFields
  BY <1>1, Flying
<1>. QED BY <1>1, <1>2, PassLocal, AnswerLocal, FailLocal

LEMMA GuardLocal ==
  ASSUME TableOK, RequestsOK, NEW r \in Req, Guard(r)
  PROVE  Local(r)
<1>0. "request" \in Handled
  BY PlaceFacts
<1>1. CASE BasicAuth(r)
  <2>1. Calls(r, "basic_auth", "request")
    BY <1>1 DEF BasicAuth
  <2>2. PICK h : \/ Answer(r, 401)
                 \/ Rewrite(r, h, ctx[r]) /\ h \in {RemoveHeader(head[r], "authorization"), head[r]}
    BY <1>1 DEF BasicAuth
  <2>3. CASE Answer(r, 401)
    BY <1>0, <2>1, <2>3, HandlerEnds
  <2>4. CASE Rewrite(r, h, ctx[r]) /\ h \in {RemoveHeader(head[r], "authorization"), head[r]}
    <3>1. DOMAIN h = HeadFields /\ SameGuard(ctx[r], ctx[r])
      BY <1>0, <2>1, <2>4, HandlerEnds DEF RemoveHeader, SameGuard
    <3>. QED BY <1>0, <2>1, <2>4, <3>1, HandlerEnds, RewriteLocal
  <2>. QED BY <2>2, <2>3, <2>4
<1>2. CASE KeyAuth(r)
  <2>1. Calls(r, "key_auth", "request")
    BY <1>2 DEF KeyAuth
  <2>. DEFINE Cut == {RemoveQuery(head[r], Plugin(r).query), RemoveHeader(head[r], Plugin(r).header),
                      head[r]}
  <2>2. PICK h : Answer(r, 401) \/ (Rewrite(r, h, ctx[r]) /\ h \in Cut)
    BY <1>2 DEF KeyAuth
  <2>3. CASE Answer(r, 401)
    BY <1>0, <2>1, <2>3, HandlerEnds
  <2>4. CASE Rewrite(r, h, ctx[r]) /\ h \in Cut
    <3>1. DOMAIN h = HeadFields /\ SameGuard(ctx[r], ctx[r])
      BY <1>0, <2>1, <2>4, HandlerEnds DEF RemoveHeader, RemoveQuery, SameGuard
    <3>. QED BY <1>0, <2>1, <2>4, <3>1, HandlerEnds, RewriteLocal
  <2>. QED BY <2>2, <2>3, <2>4
<1>3. CASE JwtAuth(r)
  BY <1>0, <1>3, HandlerEnds DEF JwtAuth
<1>4. CASE CombinedAuth(r)
  BY <1>0, <1>4, HandlerEnds DEF CombinedAuth
<1>5. CASE CsrfToken(r)
  <2>1. Calls(r, "csrf", "request")
    BY <1>5 DEF CsrfToken
  <2>2. CASE Fail(r, 400)
    BY <1>0, <2>1, <2>2, HandlerEnds
  <2>3. CASE ~Fail(r, 400)
    <3>1. AnsweredAfter(r, 0, 204) /\ head' = head /\ ctx' = ctx /\ inflight' = inflight /\ odd' = odd
      BY <1>5, <2>3 DEF CsrfToken, Answered, history
    <3>2. pc[r] \in Handled
      BY <1>0, <2>1, HandlerEnds
    <3>3. Moves(r)
      BY <3>1, <3>2, AnsweredMoves
    <3>. QED BY <3>1, <3>3, MovesLocal
  <2>. QED BY <2>2, <2>3
<1>6. CASE Csrf(r)
  BY <1>0, <1>6, HandlerEnds DEF Csrf
<1>7. CASE IpRestriction(r)
  <2>1. Calls(r, "ip_restriction", "request")
    BY <1>7 DEF IpRestriction
  <2>2. PICK ip : Answer(r, 400) \/ Answer(r, 403) \/ Rewrite(r, head[r], [ctx[r] EXCEPT !.ip = ip])
    BY <1>7 DEF IpRestriction
  <2>3. SameGuard([ctx[r] EXCEPT !.ip = ip], ctx[r])
    BY <1>0, <2>1, HandlerEnds DEF SameGuard, CtxFields
  <2>. QED BY <1>0, <2>1, <2>2, <2>3, HandlerEnds, RewriteLocal
<1>8. CASE UaRestriction(r)
  BY <1>0, <1>8, HandlerEnds DEF UaRestriction
<1>9. CASE RefererRestriction(r)
  BY <1>0, <1>9, HandlerEnds DEF RefererRestriction
<1>. QED BY <1>1, <1>2, <1>3, <1>4, <1>5, <1>6, <1>7, <1>8, <1>9 DEF Guard

\* The plugins that answer by themselves.
LEMMA AnswersLocal ==
  ASSUME TableOK, RequestsOK, NEW r \in Req,
         \/ Redirect(r) \/ Ping(r) \/ Mock(r) \/ Stats(r) \/ Directory(r) \/ Cors(r)
  PROVE  Local(r)
<1>0. "request" \in Handled /\ RequestStep \subseteq Handled
  BY PlaceFacts
<1>1. CASE Redirect(r)
  BY <1>0, <1>1, HandlerEnds DEF Redirect
<1>2. CASE Ping(r)
  BY <1>0, <1>2, HandlerEnds DEF Ping
<1>3. CASE Mock(r)
  BY <1>0, <1>3, HandlerEnds DEF Mock
<1>4. CASE Stats(r)
  BY <1>0, <1>4, HandlerEnds DEF Stats
<1>5. CASE Cors(r)
  BY <1>0, <1>5, HandlerEnds DEF Cors
<1>6. CASE Directory(r)
  <2>1. pc[r] \in Handled /\ Calls(r, "directory", pc[r])
    BY <1>0, <1>6 DEF Directory
  <2>2. \/ Pass(r) \/ Answer(r, 200) \/ Answer(r, 404) \/ Answer(r, 500) \/ Answer(r, 400)
        \/ Fail(r, 400)
        \/ /\ AnsweredAfter(r, 1, IgnoreResponse)
           /\ UNCHANGED <<head, ctx, shared, history, seen>>
    BY <1>6 DEF Directory
  <2>3. CASE /\ AnsweredAfter(r, 1, IgnoreResponse)
             /\ UNCHANGED <<head, ctx, shared, history, seen>>
    <3>1. Moves(r)
      BY <2>1, <2>3, AnsweredMoves
    <3>. QED BY <2>3, <3>1, MovesLocal DEF shared, history
  <2>. QED BY <2>1, <2>2, <2>3, HandlerEnds
<1>. QED BY <1>1, <1>2, <1>3, <1>4, <1>5, <1>6

\* The login of the admin plugin.
LEMMA AdminLocal ==
  ASSUME TableOK, RequestsOK, NEW r \in Req,
         AdminValidate(r) \/ AdminReset(r) \/ AdminLogin(r) \/ AdminInc(r)
  PROVE  Local(r)
<1>0. {"request", "reset", "login", "failed"} \subseteq Handled
  BY PlaceFacts
<1>a. ASSUME pc[r] \in Handled, NEW p \in Handled, pc' = [pc EXCEPT ![r] = p], ctx' = ctx,
             inflight' = inflight, odd \subseteq odd',
             UNCHANGED <<setup, plugins, gens, clock, at, head, sent>>
      PROVE  Local(r)
  <2>1. Moves(r)
    BY <1>a, Flying, PlaceFacts DEF Moves, RequestsOK, Chain
  <2>. QED BY <1>a, <2>1, MovesLocal
<1>1. CASE AdminValidate(r)
  <2>1. Calls(r, "admin", "request")
    BY <1>1 DEF AdminValidate
  <2>2. \/ Pass(r) \/ Answer(r, 403)
        \/ /\ pc' = [pc EXCEPT ![r] = "reset"] \/ pc' = [pc EXCEPT ![r] = "login"]
           /\ odd \subseteq odd' /\ ctx' = ctx /\ inflight' = inflight
           /\ UNCHANGED <<setup, plugins, gens, clock, at, head, sent>>
    BY <1>1 DEF AdminValidate, shared
  <2>. QED BY <1>0, <1>a, <2>1, <2>2, HandlerEnds
<1>2. CASE AdminReset(r)
  BY <1>0, <1>2, <1>a DEF AdminReset, PutLimit
<1>3. CASE AdminLogin(r)
  <2>1. \/ Answer(r, 307) \/ Answer(r, 200)
        \/ /\ pc' = [pc EXCEPT ![r] = "failed"]
           /\ odd' = odd /\ ctx' = ctx /\ inflight' = inflight
           /\ UNCHANGED <<setup, plugins, gens, clock, at, head, sent>>
    BY <1>3 DEF AdminLogin, shared, history
  <2>2. pc[r] \in Handled
    BY <1>0, <1>3 DEF AdminLogin
  <2>. QED BY <1>0, <1>a, <2>1, <2>2, AnswerLocal
<1>4. CASE AdminInc(r)
  <2>1. pc[r] \in Handled /\ AnsweredAfter(r, 0, 401) /\ head' = head /\ ctx' = ctx
        /\ inflight' = inflight /\ odd \subseteq odd'
    BY <1>0, <1>4 DEF AdminInc, PutLimit, Answered
  <2>2. Moves(r)
    BY <2>1, AnsweredMoves
  <2>. QED BY <2>1, <2>2, MovesLocal
<1>. QED BY <1>1, <1>2, <1>3, <1>4

\* The plugins that change the request or the Ctx.
LEMMA ChangesLocal ==
  ASSUME TableOK, RequestsOK, NEW r \in Req,
         \/ RequestId(r) \/ Compression(r) \/ AcceptEncoding(r) \/ CachePurge(r)
         \/ CacheEnable(r) \/ ImageOptim(r)
  PROVE  Local(r)
<1>0. {"request", "early_request"} \subseteq Handled /\ RequestStep \subseteq Handled
  BY PlaceFacts
<1>1. CASE RequestId(r)
  <2>1. pc[r] \in Handled /\ Calls(r, "request_id", pc[r])
    BY <1>0, <1>1 DEF RequestId
  <2>2. PICK h, i : \/ Pass(r)
                    \/ /\ Rewrite(r, h, [ctx[r] EXCEPT !.id = i])
                       /\ \/ h = head[r]
                          \/ \E x : h = [head[r] EXCEPT !.headers = x]
    BY <1>1 DEF RequestId
  <2>3. CASE Pass(r)
    BY <2>1, <2>3, HandlerEnds
  <2>4. CASE /\ Rewrite(r, h, [ctx[r] EXCEPT !.id = i])
             /\ h = head[r] \/ \E x : h = [head[r] EXCEPT !.headers = x]
    <3>1. DOMAIN h = HeadFields
      BY <2>1, <2>4, HandlerEnds
    <3>2. SameGuard([ctx[r] EXCEPT !.id = i], ctx[r])
      BY <2>1, HandlerEnds DEF SameGuard, CtxFields
    <3>. QED BY <2>1, <2>4, <3>1, <3>2, HandlerEnds, RewriteLocal
  <2>. QED BY <2>2, <2>3, <2>4
<1>2. CASE Compression(r)
  <2>1. Calls(r, "compression", "early_request")
    BY <1>2 DEF Compression
  <2>2. PICK l : Rewrite(r, head[r], [ctx[r] EXCEPT !.level = l])
    BY <1>2 DEF Compression
  <2>3. SameGuard([ctx[r] EXCEPT !.level = l], ctx[r])
    BY <1>0, <2>1, HandlerEnds DEF SameGuard, CtxFields
  <2>. QED BY <1>0, <2>1, <2>2, <2>3, HandlerEnds, RewriteLocal
<1>3. CASE AcceptEncoding(r)
  <2>1. Calls(r, "accept_encoding", "early_request")
    BY <1>3 DEF AcceptEncoding
  <2>2. PICK e : Rewrite(r, [head[r] EXCEPT !.encodings = e], ctx[r])
    BY <1>3 DEF AcceptEncoding
  <2>3. DOMAIN [head[r] EXCEPT !.encodings = e] = HeadFields /\ SameGuard(ctx[r], ctx[r])
    BY <1>0, <2>1, HandlerEnds DEF SameGuard
  <2>. QED BY <1>0, <2>1, <2>2, <2>3, HandlerEnds, RewriteLocal
<1>c. ASSUME DOMAIN ctx[r] = CtxFields
      PROVE  SameGuard(CacheCtx(r), ctx[r]) /\ SameGuard([CacheCtx(r) EXCEPT !.caching = TRUE], ctx[r])
  <2>1. PICK x, y : CacheCtx(r) = [ctx[r] EXCEPT !.ns = x, !.keys = y]
    BY DEF CacheCtx
  <2>2. SameGuard(CacheCtx(r), ctx[r])
    BY <1>c, <2>1 DEF SameGuard, CtxFields
  <2>. QED BY <2>2 DEF SameGuard, CtxFields
<1>4. CASE CachePurge(r)
  <2>1. Calls(r, "cache", "request") /\ head' = head /\ inflight' = inflight /\ odd' = odd
        /\ ctx' = [ctx EXCEPT ![r] = CacheCtx(r)]
    BY <1>4 DEF CachePurge, history
  <2>2. PICK s : AnsweredAfter(r, 0, s)
    BY <1>4 DEF CachePurge, Answered
  <2>3. pc[r] \in Handled /\ SameGuard(CacheCtx(r), ctx[r])
    BY <1>0, <1>c, <2>1, HandlerEnds
  <2>4. Moves(r)
    BY <2>1, <2>2, <2>3, AnsweredMoves
  <2>5. DOMAIN ctx' = Req /\ \A q \in Req : SameGuard(ctx'[q], ctx[q])
    BY <2>1, <2>3 DEF RequestsOK, SameGuard
  <2>. QED BY <2>1, <2>4, <2>5 DEF Local
<1>5. CASE CacheEnable(r)
  <2>1. Calls(r, "cache", "request")
    BY <1>5 DEF CacheEnable
  <2>2. Pass(r) \/ Rewrite(r, head[r], [CacheCtx(r) EXCEPT !.caching = TRUE])
    BY <1>5 DEF CacheEnable
  <2>. QED BY <1>0, <1>c, <2>1, <2>2, HandlerEnds, RewriteLocal
<1>6. CASE ImageOptim(r)
  <2>1. Calls(r, "image_optim", "request")
    BY <1>6 DEF ImageOptim
  <2>2. PICK k : Rewrite(r, head[r], [ctx[r] EXCEPT !.keys = k])
    BY <1>6 DEF ImageOptim
  <2>3. SameGuard([ctx[r] EXCEPT !.keys = k], ctx[r])
    BY <1>0, <2>1, HandlerEnds DEF SameGuard, CtxFields
  <2>. QED BY <1>0, <2>1, <2>2, <2>3, HandlerEnds, RewriteLocal
<1>. QED BY <1>1, <1>2, <1>3, <1>4, <1>5, <1>6

\* The handlers of responses.
LEMMA ResponseLocal ==
  ASSUME TableOK, RequestsOK, NEW r \in Req, Response(r)
  PROVE  Local(r)
<1>0. {"response", "upstream_response"} \subseteq Handled
  BY PlaceFacts
<1>a. ASSUME pc[r] \in Handled, at[r] <= Len(Chain), NEW p, Respond(r, p, ctx[r])
      PROVE  Local(r)
  <2>1. SameGuard(ctx[r], ctx[r])
    BY <1>a, Flying DEF SameGuard
  <2>. QED BY <1>a, <2>1, RespondLocal
<1>1. CASE JwtAuthResponse(r)
  <2>1. Calls(r, "jwt", "response")
    BY <1>1 DEF JwtAuthResponse
  <2>2. PICK p, m : Respond(r, resp[r], ctx[r]) \/ Respond(r, p, [ctx[r] EXCEPT !.body = m])
    BY <1>1 DEF JwtAuthResponse
  <2>3. SameGuard([ctx[r] EXCEPT !.body = m], ctx[r])
    BY <1>0, <2>1, HandlerEnds DEF SameGuard, CtxFields
  <2>. QED BY <1>0, <1>a, <2>1, <2>2, <2>3, HandlerEnds, RespondLocal
<1>2. CASE CorsResponse(r)
  <2>1. Calls(r, "cors", "response")
    BY <1>2 DEF CorsResponse
  <2>2. PICK p : Respond(r, p, ctx[r]) \/ Fail(r, 400)
    BY <1>2 DEF CorsResponse
  <2>. QED BY <1>0, <1>a, <2>1, <2>2, HandlerEnds
<1>3. CASE ImageOptimResponse(r)
  <2>1. Calls(r, "image_optim", "upstream_response")
    BY <1>3 DEF ImageOptimResponse
  <2>2. PICK p, m : \/ Respond(r, resp[r], ctx[r])
                    \/ Respond(r, p, [ctx[r] EXCEPT !.upstreamBody = m])
    BY <1>3 DEF ImageOptimResponse
  <2>3. SameGuard([ctx[r] EXCEPT !.upstreamBody = m], ctx[r])
    BY <1>0, <2>1, HandlerEnds DEF SameGuard, CtxFields
  <2>. QED BY <1>0, <1>a, <2>1, <2>2, <2>3, HandlerEnds, RespondLocal
<1>4. CASE ResponseHeaders(r)
  <2>1. Calls(r, "response_headers", "response")
    BY <1>4 DEF ResponseHeaders
  <2>2. PICK p : Respond(r, p, ctx[r])
    BY <1>4 DEF ResponseHeaders
  <2>. QED BY <1>0, <1>a, <2>1, <2>2, HandlerEnds
<1>5. CASE SubFilter(r)
  <2>1. Calls(r, "sub_filter", "response")
    BY <1>5 DEF SubFilter
  <2>2. PICK p, m : Respond(r, resp[r], ctx[r]) \/ Respond(r, p, [ctx[r] EXCEPT !.body = m])
    BY <1>5 DEF SubFilter
  <2>3. SameGuard([ctx[r] EXCEPT !.body = m], ctx[r])
    BY <1>0, <2>1, HandlerEnds DEF SameGuard, CtxFields
  <2>. QED BY <1>0, <1>a, <2>1, <2>2, <2>3, HandlerEnds, RespondLocal
<1>. QED BY <1>1, <1>2, <1>3, <1>4, <1>5 DEF Response

\* A step of the server from one place to another.
LEMMA GotoMoves ==
  ASSUME TableOK, RequestsOK, NEW r \in Req, pc[r] \in Handled, NEW p \in Handled, Goto(r, p),
         UNCHANGED <<setup, plugins, gens, clock, head>>, sent' \in [Req -> Nat]
  PROVE  Moves(r)
<1>1. at' \in [Req -> 1..(Len(Chain) + 1)]
  <2>1. 1 \in 1..(Len(Chain) + 1)
    BY ChainLength
  <2>. QED BY <2>1 DEF Goto, RequestsOK
<1>. QED BY <1>1, Flying, PlaceFacts DEF Moves, Goto, RequestsOK

LEMMA ServerLocal ==
  ASSUME TableOK, RequestsOK, NEW r \in Req,
         \/ Skip(r) \/ StepEnd(r) \/ Lookup(r) \/ Upstream(r) \/ UpstreamFail(r) \/ Store(r)
         \/ Body(r)
  PROVE  Local(r)
<1>0. /\ PluginStep \subseteq Handled
      /\ {"request", "lookup", "proxy_upstream", "upstream", "store", "body", "response",
          "upstream_response", "logging"} \subseteq Handled
  BY PlaceFacts
<1>1. CASE Skip(r)
  <2>1. pc[r] \in Handled /\ at[r] <= Len(Chain)
    BY <1>0, <1>1 DEF Skip
  <2>2. at' \in [Req -> 1..(Len(Chain) + 1)]
    <3>1. at[r] + 1 \in 1..(Len(Chain) + 1) /\ at \in [Req -> 1..(Len(Chain) + 1)]
      BY <2>1, ChainLength DEF RequestsOK
    <3>. QED BY <1>1, <3>1 DEF Skip
  <2>3. Moves(r)
    BY <1>1, <2>1, <2>2, Flying, PlaceFacts DEF Moves, Skip, RequestsOK
  <2>. QED BY <1>1, <2>3, MovesLocal DEF Skip, shared
<1>2. CASE StepEnd(r)
  <2>1. pc[r] \in PluginStep /\ UNCHANGED <<setup, plugins, gens, clock, head, ctx, sent, inflight, odd>>
    BY <1>2 DEF StepEnd, shared
  <2>2. PICK p : /\ Goto(r, p)
                 /\ p = CASE pc[r] = "early_request" -> "request"
                          [] pc[r] = "request" ->
                               IF ctx[r].caching THEN "lookup" ELSE "proxy_upstream"
                          [] pc[r] = "proxy_upstream" -> "upstream"
                          [] pc[r] = "upstream_response" -> "store"
                          [] pc[r] = "response" -> "body"
    BY <1>2 DEF StepEnd
  <2>3. p \in {"request", "lookup", "proxy_upstream", "upstream", "store", "body"}
    BY <2>1, <2>2 DEF PluginStep, RequestStep, ResponseStep
  <2>4. Moves(r)
    BY <1>0, <2>1, <2>2, <2>3, GotoMoves DEF RequestsOK
  <2>. QED BY <2>1, <2>4, MovesLocal
<1>3. CASE Lookup(r)
  <2>1. pc[r] \in Handled /\ UNCHANGED <<setup, plugins, gens, clock, head, sent, inflight, odd>>
    BY <1>0, <1>3 DEF Lookup, shared
  <2>2. PICK p \in Handled : Goto(r, p)
    BY <1>0, <1>3 DEF Lookup
  <2>3. Moves(r)
    BY <2>1, <2>2, GotoMoves DEF RequestsOK
  <2>4. CASE ctx' = ctx
    BY <2>1, <2>3, <2>4, MovesLocal
  <2>5. CASE ctx' = [ctx EXCEPT ![r].hit = TRUE]
    <3>1. PICK c : c = [ctx[r] EXCEPT !.hit = TRUE] /\ ctx' = [ctx EXCEPT ![r] = c]
      BY <2>5
    <3>2. SameGuard(c, ctx[r])
      BY <3>1 DEF RequestsOK, SameGuard, CtxFields
    <3>3. DOMAIN ctx' = Req /\ \A s \in Req : SameGuard(ctx'[s], ctx[s])
      BY <3>1, <3>2 DEF RequestsOK, SameGuard
    <3>. QED BY <2>1, <2>3, <3>3 DEF Local
  <2>. QED BY <1>3, <2>4, <2>5 DEF Lookup
<1>4. CASE Upstream(r)
  <2>1. pc[r] \in Handled /\ Goto(r, "upstream_response")
        /\ UNCHANGED <<setup, plugins, gens, clock, head, ctx, sent, inflight, odd>>
    BY <1>0, <1>4 DEF Upstream, shared
  <2>2. Moves(r)
    BY <1>0, <2>1, GotoMoves DEF RequestsOK
  <2>. QED BY <2>1, <2>2, MovesLocal
<1>5. CASE UpstreamFail(r)
  BY <1>0, <1>5, FailLocal DEF UpstreamFail
<1>6. CASE Store(r)
  <2>1. pc[r] \in Handled /\ Goto(r, "response")
        /\ UNCHANGED <<setup, plugins, gens, clock, head, ctx, sent, inflight, odd>>
    BY <1>0, <1>6 DEF Store
  <2>2. Moves(r)
    BY <1>0, <2>1, GotoMoves DEF RequestsOK
  <2>. QED BY <2>1, <2>2, MovesLocal
<1>7. CASE Body(r)
  <2>1. pc[r] \in Handled /\ Goto(r, "logging") /\ sent' = [sent EXCEPT ![r] = @ + 1]
        /\ UNCHANGED <<setup, plugins, gens, clock, head, ctx, inflight, odd>>
    BY <1>0, <1>7 DEF Body
  <2>2. sent' \in [Req -> Nat]
    BY <2>1 DEF RequestsOK
  <2>3. Moves(r)
    BY <1>0, <2>1, <2>2, GotoMoves
  <2>. QED BY <2>1, <2>3, MovesLocal
<1>. QED BY <1>1, <1>2, <1>3, <1>4, <1>5, <1>6, <1>7

-----------------------------------------------------------------------------
(* The limiters.                                                             *)

LEMMA LimitCtxGuard ==
  ASSUME NEW r \in Req, DOMAIN ctx[r] = CtxFields
  PROVE  SameGuard(LimitCtx(r), ctx[r])
<1>1. CASE Plugin(r).tag = "ip"
  BY <1>1 DEF LimitCtx, SameGuard, CtxFields
<1>2. CASE Plugin(r).tag # "ip"
  BY <1>2 DEF LimitCtx, SameGuard
<1>. QED BY <1>1, <1>2

\* The request goes on or is refused.
LEMMA LimitMoves ==
  ASSUME TableOK, RequestsOK, NEW r \in Req, pc[r] \in Handled, at[r] <= Len(Chain),
         head' = head, Answered(r, 429) \/ Continue(r)
  PROVE  Moves(r)
<1>1. CASE Answered(r, 429)
  BY <1>1, AnsweredMoves DEF Answered
<1>2. CASE Continue(r)
  <2>1. at' \in [Req -> 1..(Len(Chain) + 1)]
    <3>1. at[r] + 1 \in 1..(Len(Chain) + 1) /\ at \in [Req -> 1..(Len(Chain) + 1)]
      BY ChainLength DEF RequestsOK
    <3>. QED BY <1>2, <3>1 DEF Continue
  <2>. QED BY <1>2, <2>1, Flying, PlaceFacts DEF Moves, Continue, RequestsOK
<1>. QED BY <1>1, <1>2

\* A limiter that counts nothing in flight.
LEMMA LimitLocal ==
  ASSUME TableOK, RequestsOK, NEW r \in Req, Limit(r)
  PROVE  \/ Local(r)
         \/ /\ LimitInflight(r) /\ pc[r] \in Handled /\ at[r] <= Len(Chain)
            /\ Plugin(r) # NoConf /\ Plugin(r).category = "limit"
<1>1. pc[r] \in Handled /\ Calls(r, "limit", pc[r])
  BY PlaceFacts DEF Limit
<1>2. at[r] <= Len(Chain) /\ Plugin(r) # NoConf /\ Plugin(r).category = "limit"
  BY <1>1 DEF Calls
<1>3. DOMAIN head[r] = HeadFields /\ SameGuard(LimitCtx(r), ctx[r])
  BY <1>1, HandlerEnds, LimitCtxGuard
<1>4. Pass(r) \/ Rewrite(r, head[r], LimitCtx(r)) \/ LimitInflight(r) \/ LimitRate(r)
  BY DEF Limit
<1>5. CASE LimitRate(r)
  <2>1. /\ head' = head /\ inflight' = inflight /\ odd' = odd
        /\ ctx' = [ctx EXCEPT ![r] = LimitCtx(r)] /\ (Answered(r, 429) \/ Continue(r))
    BY <1>5 DEF LimitRate, history
  <2>2. Moves(r)
    BY <1>1, <1>2, <2>1, LimitMoves
  <2>3. DOMAIN ctx' = Req /\ \A q \in Req : SameGuard(ctx'[q], ctx[q])
    BY <1>3, <2>1 DEF RequestsOK, SameGuard
  <2>. QED BY <2>1, <2>2, <2>3 DEF Local
<1>. QED BY <1>1, <1>2, <1>3, <1>4, <1>5, HandlerEnds, RewriteLocal

\* The requests that hold a Guard.
LEMMA HolderFacts ==
  ASSUME NEW o
  PROVE  /\ IsFiniteSet(Holders(o)) /\ Cardinality(Holders(o)) \in Nat
         /\ \A r : /\ IsFiniteSet(Holders(o) \cup {r})
                   /\ r \in Holders(o) => Cardinality(Holders(o) \ {r}) = Cardinality(Holders(o)) - 1
                   /\ r \notin Holders(o) => Cardinality(Holders(o) \cup {r}) = Cardinality(Holders(o)) + 1
<1>1. IsFiniteSet(Holders(o))
  BY ChainAssumption, FS_Subset DEF Holders
<1>. QED BY <1>1, FS_CardinalityType, FS_AddElement, FS_RemoveElement

\* The counter of a limiter's object and a key.
LEMMA AppendKey ==
  ASSUME NEW a, NEW b, NEW c
  PROVE  Append(<<a, b>>, c) = <<a, b, c>>
<1>1. PICK S : a \in S /\ b \in S /\ c \in S
  <2>1. a \in {a, b, c} /\ b \in {a, b, c} /\ c \in {a, b, c}
    OBVIOUS
  <2>. QED BY <2>1
<1>2. <<a, b>> \in Seq(S) /\ <<a, b, c>> \in Seq(S) /\ Len(<<a, b, c>>) = 3
  BY <1>1
<1>3. Append(<<a, b>>, c) \in Seq(S) /\ Len(Append(<<a, b>>, c)) = 3
  BY <1>1, <1>2
<1>4. \A i \in 1..3 : Append(<<a, b>>, c)[i] = <<a, b, c>>[i]
  BY <1>2
<1>. QED BY <1>2, <1>3, <1>4, SeqEqual

\* What an inflight limiter works with.
LEMMA LimiterFacts ==
  ASSUME TableOK, RequestsOK, NEW r \in Req, at[r] <= Len(Chain), Plugin(r) # NoConf,
         Plugin(r).category = "limit", NEW k
  PROVE  /\ Name(r) \in DOMAIN setup.start /\ Plugin(r) = plugins[Name(r)].conf
         /\ Plugin(r).max \in Nat
         /\ plugins[Name(r)].gen \in Nat /\ Append(Object(r), k) = <<Name(r), plugins[Name(r)].gen, k>>
         /\ Append(Object(r), k) # <<>> /\ Origin(Append(Object(r), k))
<1>1. Name(r) \in DOMAIN setup.start
  <2>1. at[r] \in 1..Len(Chain)
    BY ChainLength DEF RequestsOK
  <2>. QED BY <2>1, ChainLength DEF Name
<1>2. PICK n : n = Name(r)
  OBVIOUS
<1>3. plugins[n].conf # NoConf /\ plugins[n].conf.category = "limit" /\ Plugin(r) = plugins[n].conf
  BY <1>2 DEF Plugin
<1>4. plugins[n].gen = gens[n] /\ gens[n] >= 1 /\ gens[n] \in Nat /\ plugins[n].conf.max \in Nat
  BY <1>1, <1>2, <1>3, ChainAssumption DEF TableOK, Numbers
<1>5. PICK g : g = plugins[n].gen
  OBVIOUS
<1>6. Append(Object(r), k) = <<n, g, k>>
  <2>1. Object(r) = <<n, g>>
    BY <1>2, <1>5 DEF Object
  <2>. QED BY <2>1, AppendKey
<1>7. Origin(<<n, g, k>>)
  BY <1>1, <1>2, <1>3, <1>4, <1>5 DEF Origin
<1>8. <<n, g, k>> # <<>>
  OBVIOUS
<1>. QED BY <1>1, <1>2, <1>3, <1>4, <1>5, <1>6, <1>7, <1>8

\* A limiter counts a request in.
LEMMA InflightKeeps ==
  ASSUME IInv, NEW r \in Req, LimitInflight(r), pc[r] \in Handled, at[r] <= Len(Chain),
         Plugin(r) # NoConf, Plugin(r).category = "limit"
  PROVE  IInv'
<1>. USE DEF IInv
<1>1. PICK k : k = LimitKey(Plugin(r), head[r])
  OBVIOUS
<1>2. PICK n, o, old, max :
        /\ n = Name(r) /\ o = Append(Object(r), k) /\ old = ctx[r].guard /\ max = Plugin(r).max
  OBVIOUS
<1>3. /\ n \in DOMAIN setup.start /\ max = plugins[n].conf.max /\ max \in Nat
      /\ o = <<n, plugins[n].gen, k>> /\ o # <<>> /\ Origin(o)
  BY <1>2, LimiterFacts
<1>a. PICK over \in BOOLEAN : over <=> Count(o) + 1 > max
  BY Zenon
<1>b. Exceeds(Count(o) + 1, max) <=> over
  BY <1>a DEF Exceeds
<1>c. PICK c : c = [LimitCtx(r) EXCEPT !.guard = o, !.admitted = IF over THEN @ ELSE @ \cup {o}]
  OBVIOUS
<1>4. /\ c = [LimitCtx(r) EXCEPT !.guard = o, !.admitted = IF over THEN @ ELSE @ \cup {o}]
      /\ ctx' = [ctx EXCEPT ![r] = c]
  BY <1>1, <1>2, <1>b, <1>c DEF LimitInflight
<1>h. /\ Cardinality(Holders(o)) \in Nat
      /\ r \in Holders(o) => Cardinality(Holders(o) \ {r}) = Cardinality(Holders(o)) - 1
      /\ r \notin Holders(o) => Cardinality(Holders(o) \cup {r}) = Cardinality(Holders(o)) + 1
  BY HolderFacts, Zenon
<1>5. /\ DOMAIN c = CtxFields /\ c.guard = o
      /\ c.admitted = IF over THEN ctx[r].admitted ELSE ctx[r].admitted \cup {o}
  <2>1. SameGuard(LimitCtx(r), ctx[r])
    BY LimitCtxGuard DEF RequestsOK
  <2>. QED BY <1>4, <2>1 DEF SameGuard, CtxFields
<1>6. /\ DOMAIN ctx' = Req /\ ctx'[r] = c
      /\ \A s \in Req \ {r} : ctx'[s] = ctx[s]
  BY <1>4 DEF RequestsOK
<1>7. Moves(r)
  BY LimitMoves DEF LimitInflight
<1>8. inflight' = Release(Put(inflight, o, Count(o) + 1), old)
      /\ odd' = IF old = <<>> THEN odd ELSE odd \cup {old}
  BY <1>1, <1>2 DEF LimitInflight
<1>9. UNCHANGED <<setup, plugins, gens, clock, Chain>>
  BY <1>7 DEF Moves, Chain
<1>10. TableOK'
  BY <1>9 DEF TableOK
<1>11. RequestsOK'
  <2>1. ASSUME NEW s \in Req
        PROVE  (IF InFlight(s) THEN DOMAIN head[s] = HeadFields ELSE head[s] = None)'
    <3>1. CASE s = r
      BY <1>7, <3>1, PlaceFacts DEF Moves, InFlight
    <3>2. CASE s # r
      BY <1>7, <3>2 DEF Moves, InFlight, RequestsOK
    <3>. QED BY <3>1, <3>2
  <2>2. (clock \in 1..setup.seconds)'
    BY <1>9 DEF RequestsOK
  <2>3. \A s \in Req : DOMAIN ctx'[s] = CtxFields
    BY <1>5, <1>6 DEF RequestsOK
  <2>. QED BY <1>6, <1>7, <1>9, <2>1, <2>2, <2>3 DEF RequestsOK, Moves
<1>12. old = <<>> \/ old \in DOMAIN inflight
  BY <1>2 DEF GuardsOK
<1>13. Count(o) = Cardinality(Holders(o))
  <2>1. CASE o \in DOMAIN inflight
    BY <2>1 DEF Count, GuardsOK
  <2>2. CASE o \notin DOMAIN inflight
    <3>1. Holders(o) = {}
      BY <1>3, <2>2 DEF Holders, GuardsOK
    <3>. QED BY <2>2, <3>1, FS_EmptySet DEF Count
  <2>. QED BY <2>1, <2>2
<1>14. /\ Holders(o)' = Holders(o) \cup {r}
       /\ \A q : q # o => Holders(q)' = Holders(q) \ {r}
  BY <1>5, <1>6 DEF Holders
<1>15. DOMAIN inflight' = DOMAIN inflight \cup {o}
  BY <1>8, <1>12 DEF Release, Put
<1>16. /\ r \in Holders(old) /\ \A q : r \in Holders(q) => q = old
  BY <1>2 DEF Holders
<1>17. ASSUME NEW q \in DOMAIN inflight'
       PROVE  inflight'[q] = Cardinality(Holders(q)')
  <2>1. CASE q = o /\ old = o
    <3>0. PICK x : x = Count(o) + 1
      OBVIOUS
    <3>1. inflight'[o] = x - 1
      BY <1>3, <1>8, <2>1, <3>0 DEF Release, Put
    <3>2. Holders(o)' = Holders(o)
      BY <1>14, <1>16, <2>1
    <3>. QED BY <1>h, <1>13, <2>1, <3>0, <3>1, <3>2
  <2>2. CASE q = o /\ old # o
    <3>1. inflight'[o] = Count(o) + 1
      BY <1>8, <2>2 DEF Release, Put
    <3>2. r \notin Holders(o)
      BY <1>16, <2>2
    <3>. QED BY <1>13, <1>14, <2>2, <3>1, <3>2, HolderFacts
  <2>3. CASE q # o /\ q = old
    <3>1. q \in DOMAIN inflight /\ q # <<>>
      BY <1>15, <2>3 DEF GuardsOK
    <3>2. inflight'[q] = inflight[q] - 1
      BY <1>8, <2>3, <3>1 DEF Release, Put
    <3>. QED BY <1>14, <1>16, <2>3, <3>1, <3>2, HolderFacts DEF GuardsOK
  <2>4. CASE q # o /\ q # old
    <3>1. q \in DOMAIN inflight
      BY <1>15, <2>4
    <3>2. inflight'[q] = inflight[q]
      BY <1>8, <2>4, <3>1 DEF Release, Put
    <3>3. Holders(q)' = Holders(q)
      BY <1>14, <1>16, <2>4
    <3>. QED BY <3>1, <3>2, <3>3 DEF GuardsOK
  <2>. QED BY <2>1, <2>2, <2>3, <2>4
<1>18. ASSUME NEW s \in Req
       PROVE  /\ ctx'[s].guard = <<>> \/ ctx'[s].guard \in DOMAIN inflight'
              /\ \A q \in ctx'[s].admitted \ odd' : q # <<>> /\ ctx'[s].guard = q
  <2>1. CASE s = r
    <3>1. ASSUME NEW q \in ctx'[s].admitted \ odd', q # o
          PROVE  FALSE
      <4>1. q \in ctx[r].admitted \ odd
        BY <1>5, <1>6, <1>8, <2>1, <3>1
      <4>2. q # <<>> /\ old = q
        BY <1>2, <4>1 DEF GuardsOK
      <4>. QED BY <1>8, <3>1, <4>2
    <3>. QED BY <1>3, <1>5, <1>6, <1>15, <2>1, <3>1
  <2>2. CASE s # r
    BY <1>6, <1>8, <1>15, <2>2 DEF GuardsOK
  <2>. QED BY <2>1, <2>2
<1>19. GuardsOK'
  <2>1. \A q : Origin(q) => Origin(q)'
    BY <1>9 DEF Origin
  <2>2. \A q \in DOMAIN inflight' : q # <<>> /\ Origin(q)'
    BY <1>3, <1>15, <2>1 DEF GuardsOK
  <2>. QED BY <1>17, <1>18, <2>2 DEF GuardsOK
<1>20. InflightBound'
  <2>1. SUFFICES ASSUME NEW m \in DOMAIN plugins', NEW q \in DOMAIN inflight' \ odd',
                        q[1] = m, q[2] = plugins'[m].gen
                 PROVE  Cardinality({s \in Req : q \in ctx'[s].admitted}) <= plugins'[m].conf.max
    BY DEF InflightBound, Names
  <2>2. q \notin odd
    BY <1>8
  <2>3. CASE q # o
    <3>1. {s \in Req : q \in ctx'[s].admitted} = {s \in Req : q \in ctx[s].admitted}
      BY <1>5, <1>6, <2>3
    <3>. QED BY <1>9, <1>15, <2>1, <2>2, <2>3, <3>1 DEF InflightBound, Names
  <2>4. CASE q = o /\ over
    <3>1. {s \in Req : q \in ctx'[s].admitted} = {s \in Req : q \in ctx[s].admitted}
      BY <1>5, <1>6, <2>4
    <3>2. CASE o \in DOMAIN inflight
      BY <1>9, <2>1, <2>2, <2>4, <3>1, <3>2 DEF InflightBound, Names
    <3>3. CASE o \notin DOMAIN inflight
      <4>1. {s \in Req : q \in ctx[s].admitted} = {}
        BY <1>3, <2>2, <2>4, <3>3 DEF GuardsOK
      <4>2. m = n
        BY <1>3, <2>1, <2>4
      <4>3. Cardinality({s \in Req : q \in ctx'[s].admitted}) = 0
        BY <3>1, <4>1, FS_EmptySet
      <4>. QED BY <1>3, <1>9, <4>2, <4>3
    <3>. QED BY <3>2, <3>3
  <2>5. CASE q = o /\ ~over
    <3>1. {s \in Req : q \in ctx'[s].admitted} \subseteq Holders(o) \cup {r}
      BY <1>14, <1>18, <2>5 DEF Holders
    <3>2. Cardinality({s \in Req : q \in ctx'[s].admitted}) <= Cardinality(Holders(o) \cup {r})
          /\ Cardinality({s \in Req : q \in ctx'[s].admitted}) \in Nat
      BY <3>1, HolderFacts, FS_Subset, FS_CardinalityType
    <3>3. Cardinality(Holders(o) \cup {r}) <= Cardinality(Holders(o)) + 1
          /\ Cardinality(Holders(o) \cup {r}) \in Nat
      <4>1. CASE r \in Holders(o)
        <5>1. Holders(o) \cup {r} = Holders(o)
          BY <4>1
        <5>2. Cardinality(Holders(o) \cup {r}) = Cardinality(Holders(o))
          BY <5>1
        <5>. QED BY <1>h, <5>2
      <4>2. CASE r \notin Holders(o)
        BY <1>h, <4>2
      <4>. QED BY <4>1, <4>2
    <3>4. Cardinality(Holders(o)) + 1 <= max
      BY <1>h, <1>3, <1>a, <1>13, <2>5
    <3>5. m = n
      BY <1>3, <2>1, <2>5
    <3>. QED BY <1>3, <1>9, <3>2, <3>3, <3>4, <3>5, <1>h
  <2>. QED BY <2>3, <2>4, <2>5
<1>. QED BY <1>10, <1>11, <1>19, <1>20

\* The Ctx of a request is dropped, and its Guard with it.
LEMMA LoggingKeeps ==
  ASSUME IInv, NEW r \in Req, Logging(r)
  PROVE  IInv'
<1>. USE DEF IInv
<1>1. PICK old : old = ctx[r].guard
  OBVIOUS
<1>2. inflight' = Release(inflight, old) /\ UNCHANGED <<setup, plugins, gens, clock, Chain, sent, odd>>
  BY <1>1 DEF Logging, DropGuard, Chain
<1>3. NewCtx.guard = <<>> /\ NewCtx.admitted = {} /\ DOMAIN NewCtx = CtxFields
  BY DEF NewCtx, CtxFields
<1>4. DOMAIN ctx' = Req /\ ctx'[r] = NewCtx /\ \A s \in Req \ {r} : ctx'[s] = ctx[s]
  BY DEF Logging, RequestsOK
<1>5. TableOK'
  BY <1>2 DEF TableOK
<1>6. RequestsOK'
  <2>1. ASSUME NEW s \in Req
        PROVE  (IF InFlight(s) THEN DOMAIN head[s] = HeadFields ELSE head[s] = None)'
    <3>1. CASE s = r
      BY <3>1 DEF Logging, InFlight, RequestsOK
    <3>2. CASE s # r
      BY <3>2 DEF Logging, InFlight, RequestsOK
    <3>. QED BY <3>1, <3>2
  <2>2. (clock \in 1..setup.seconds)' /\ sent' \in [Req -> Nat]
    BY <1>2 DEF RequestsOK
  <2>3. \A s \in Req : DOMAIN ctx'[s] = CtxFields
    BY <1>3, <1>4 DEF RequestsOK
  <2>4. pc' \in [Req -> Places] /\ DOMAIN head' = Req
    BY PlaceFacts DEF Logging, RequestsOK
  <2>5. at' \in [Req -> 1..(Len(Chain) + 1)]
    <3>1. 1 \in 1..(Len(Chain) + 1)
      BY ChainLength
    <3>. QED BY <3>1 DEF Logging, RequestsOK
  <2>. QED BY <1>2, <1>4, <2>1, <2>2, <2>3, <2>4, <2>5 DEF RequestsOK
<1>7. old = <<>> \/ old \in DOMAIN inflight
  BY <1>1 DEF GuardsOK
<1>8. DOMAIN inflight' = DOMAIN inflight
  BY <1>2, <1>7 DEF Release
<1>9. r \in Holders(old) /\ \A q : r \in Holders(q) => q = old
  BY <1>1 DEF Holders
<1>10. \A q : q # <<>> => Holders(q)' = Holders(q) \ {r}
  BY <1>3, <1>4 DEF Holders
<1>11. ASSUME NEW q \in DOMAIN inflight'
       PROVE  inflight'[q] = Cardinality(Holders(q)')
  <2>0. q \in DOMAIN inflight /\ q # <<>> /\ inflight[q] = Cardinality(Holders(q))
    BY <1>8 DEF GuardsOK
  <2>1. CASE q = old
    <3>1. inflight'[q] = inflight[q] - 1
      BY <1>2, <2>0, <2>1 DEF Release
    <3>. QED BY <1>9, <1>10, <2>0, <2>1, <3>1, HolderFacts
  <2>2. CASE q # old
    <3>1. inflight'[q] = inflight[q]
      BY <1>2, <2>0, <2>2 DEF Release
    <3>2. Holders(q)' = Holders(q)
      BY <1>9, <1>10, <2>0, <2>2
    <3>. QED BY <2>0, <3>1, <3>2
  <2>. QED BY <2>1, <2>2
<1>12. ASSUME NEW s \in Req
       PROVE  /\ ctx'[s].guard = <<>> \/ ctx'[s].guard \in DOMAIN inflight'
              /\ \A q \in ctx'[s].admitted \ odd' : q # <<>> /\ ctx'[s].guard = q
  <2>1. CASE s = r
    BY <1>3, <1>4, <2>1
  <2>2. CASE s # r
    BY <1>2, <1>4, <1>8, <2>2 DEF GuardsOK
  <2>. QED BY <2>1, <2>2
<1>13. GuardsOK'
  <2>1. \A q : Origin(q) => Origin(q)'
    BY <1>2 DEF Origin
  <2>2. \A q \in DOMAIN inflight' : q # <<>> /\ Origin(q)'
    BY <1>8, <2>1 DEF GuardsOK
  <2>. QED BY <1>11, <1>12, <2>2 DEF GuardsOK
<1>14. InflightBound'
  <2>1. SUFFICES ASSUME NEW m \in DOMAIN plugins', NEW q \in DOMAIN inflight' \ odd',
                        q[1] = m, q[2] = plugins'[m].gen
                 PROVE  Cardinality({s \in Req : q \in ctx'[s].admitted}) <= plugins'[m].conf.max
    BY DEF InflightBound, Names
  <2>2. Cardinality({s \in Req : q \in ctx[s].admitted}) <= plugins[m].conf.max
    BY <1>2, <1>8, <2>1 DEF InflightBound, Names
  <2>3. plugins[m].conf.max \in Nat
    <3>1. Origin(q)
      BY <1>8 DEF GuardsOK
    <3>2. PICK n \in DOMAIN setup.start, g \in Nat :
            /\ \E k : q = <<n, g, k>>
            /\ g = plugins[n].gen => plugins[n].conf # NoConf /\ plugins[n].conf.category = "limit"
      BY <3>1 DEF Origin
    <3>3. n = m /\ g = plugins[m].gen
      BY <1>2, <2>1, <3>2
    <3>. QED BY <3>2, <3>3 DEF TableOK, Numbers
  <2>4. {s \in Req : q \in ctx'[s].admitted} \subseteq {s \in Req : q \in ctx[s].admitted}
    BY <1>3, <1>4
  <2>5. IsFiniteSet({s \in Req : q \in ctx[s].admitted})
    BY ChainAssumption, FS_Subset
  <2>6. /\ Cardinality({s \in Req : q \in ctx'[s].admitted})
             <= Cardinality({s \in Req : q \in ctx[s].admitted})
        /\ Cardinality({s \in Req : q \in ctx'[s].admitted}) \in Nat
        /\ Cardinality({s \in Req : q \in ctx[s].admitted}) \in Nat
    BY <2>4, <2>5, FS_Subset, FS_CardinalityType
  <2>. QED BY <1>2, <2>2, <2>3, <2>6
<1>. QED BY <1>5, <1>6, <1>13, <1>14

-----------------------------------------------------------------------------
(* Steps of nobody, and the start.                                           *)

\* A request arrives with a header of a client.
LEMMA ArriveLocal ==
  ASSUME TableOK, RequestsOK, NEW r \in Req, Arrive(r)
  PROVE  Local(r)
<1>1. PICK h \in setup.inputs, token \in issued \cup {Signed("token", clock, "forged")} :
        head' = [head EXCEPT ![r] = Carry(h, token)]
  BY DEF Arrive
<1>2. DOMAIN Carry(h, token) = HeadFields
  <2>1. DOMAIN h = HeadFields
    BY ChainAssumption DEF TableOK
  <2>. QED BY <2>1 DEF Carry
<1>3. at' \in [Req -> 1..(Len(Chain) + 1)]
  <2>1. 1 \in 1..(Len(Chain) + 1)
    BY ChainLength
  <2>. QED BY <2>1 DEF Arrive, Goto, RequestsOK
<1>4. Moves(r)
  BY <1>1, <1>2, <1>3, PlaceFacts DEF Moves, Arrive, Goto, RequestsOK
<1>. QED BY <1>4, MovesLocal DEF Arrive, shared

LEMMA TickKeeps ==
  ASSUME IInv, Tick
  PROVE  IInv'
<1>1. UNCHANGED <<setup, plugins, gens, pc, at, head, ctx, sent, inflight, odd, Chain>>
  BY DEF Tick, Chain
<1>2. (clock \in 1..setup.seconds)'
  <2>1. setup.seconds \in Nat
    BY ChainAssumption DEF IInv, TableOK
  <2>. QED BY <1>1, <2>1 DEF Tick, IInv, RequestsOK
<1>3. TableOK' /\ RequestsOK'
  BY <1>1, <1>2 DEF IInv, TableOK, RequestsOK, InFlight
<1>4. GuardsOK'
  <2>1. \A o : (Origin(o) => Origin(o)') /\ Holders(o)' = Holders(o)
    BY <1>1 DEF Origin, Holders
  <2>. QED BY <1>1, <2>1 DEF IInv, GuardsOK
<1>5. InflightBound'
  BY <1>1 DEF IInv, InflightBound, Names
<1>. QED BY <1>3, <1>4, <1>5 DEF IInv

\* A reload gives what it builds anew a new generation: no counter is of that object.
LEMMA ReloadKeeps ==
  ASSUME IInv, Reload
  PROVE  IInv'
<1>. USE DEF IInv
<1>1. PICK t \in setup.tables : TryInitPlugins(t)
  BY DEF Reload
<1>2. /\ UNCHANGED <<setup, clock, pc, at, head, ctx, sent, inflight, Chain>> /\ odd \subseteq odd'
  BY <1>1 DEF TryInitPlugins, Chain
<1>3. PICK D : D = DOMAIN setup.start
  OBVIOUS
<1>4. DOMAIN plugins = D /\ \A n \in D : Numbers(t[n])
  BY <1>3, ChainAssumption DEF TableOK
<1>5. PICK changed, fresh :
        /\ changed = {n \in D : plugins[n].conf # t[n]}
        /\ fresh = {n \in changed : Loaded(t[n])}
        /\ \A n \in fresh : gens[n] < MaxGen
        /\ gens' = [n \in D |-> IF n \in fresh THEN gens[n] + 1 ELSE gens[n]]
        /\ plugins' = [n \in D |->
                         IF n \in fresh THEN [conf |-> t[n], gen |-> gens[n] + 1]
                         ELSE IF n \in changed THEN [conf |-> NoConf, gen |-> 0]
                         ELSE plugins[n]]
  BY <1>1, <1>4 DEF TryInitPlugins, Names
<1>6. \A n \in D : gens[n] \in Nat /\ gens[n] <= MaxGen /\ MaxGen \in Nat
  BY <1>3, ChainAssumption DEF TableOK
<1>7. \A n \in fresh : t[n] # NoConf
  BY <1>5 DEF Loaded
<1>8. TableOK'
  <2>1. gens' \in [D -> 0..MaxGen]
    BY <1>5, <1>6
  <2>2. ASSUME NEW n \in D
        PROVE  /\ plugins'[n].conf = NoConf => plugins'[n].gen = 0
               /\ plugins'[n].conf # NoConf => plugins'[n].gen = gens'[n] /\ gens'[n] >= 1
               /\ Numbers(plugins'[n].conf)
    <3>1. CASE n \in fresh
      BY <1>4, <1>5, <1>6, <1>7, <3>1
    <3>2. CASE n \in changed \ fresh
      BY <1>5, <3>2 DEF Numbers
    <3>3. CASE n \notin changed
      <4>1. plugins'[n] = plugins[n] /\ gens'[n] = gens[n]
        BY <1>5, <3>3
      <4>. QED BY <1>3, <4>1 DEF TableOK
    <3>. QED BY <3>1, <3>2, <3>3
  <2>3. setup' \in Setup /\ DOMAIN plugins' = D /\ D = DOMAIN setup'.start
    BY <1>2, <1>3, <1>5 DEF TableOK
  <2>. QED BY <1>2, <1>3, <2>1, <2>2, <2>3 DEF TableOK
<1>9. RequestsOK'
  BY <1>2 DEF RequestsOK, InFlight
<1>10. ASSUME NEW n \in D, NEW g \in Nat, g >= 1, g <= gens[n]
       PROVE  g <= gens'[n] /\ (g = plugins'[n].gen => plugins'[n] = plugins[n])
  <2>1. CASE n \in fresh
    BY <1>5, <1>6, <1>10, <2>1
  <2>2. CASE n \in changed \ fresh
    BY <1>5, <1>6, <1>10, <2>2
  <2>3. CASE n \notin changed
    BY <1>5, <1>6, <1>10, <2>3
  <2>. QED BY <2>1, <2>2, <2>3
<1>11. ASSUME NEW o, Origin(o)
       PROVE  Origin(o)'
  <2>1. PICK n \in D, g \in Nat :
          /\ (\E k : o = <<n, g, k>>) /\ g >= 1 /\ g <= gens[n]
          /\ g = plugins[n].gen => plugins[n].conf # NoConf /\ plugins[n].conf.category = "limit"
    BY <1>3, <1>11 DEF Origin
  <2>2. g <= gens'[n] /\ (g = plugins'[n].gen => plugins'[n] = plugins[n])
    BY <1>10, <2>1
  <2>. QED BY <1>2, <1>3, <2>1, <2>2 DEF Origin
<1>12. GuardsOK'
  BY <1>2, <1>11 DEF GuardsOK, Holders
<1>13. InflightBound'
  <2>1. SUFFICES ASSUME NEW m \in DOMAIN plugins', NEW q \in DOMAIN inflight' \ odd',
                        q[1] = m, q[2] = plugins'[m].gen
                 PROVE  Cardinality({s \in Req : q \in ctx'[s].admitted}) <= plugins'[m].conf.max
    BY DEF InflightBound, Names
  <2>2. Origin(q)
    BY <1>2 DEF GuardsOK
  <2>3. PICK n \in D, g \in Nat : (\E k : q = <<n, g, k>>) /\ g >= 1 /\ g <= gens[n]
    BY <1>3, <2>2 DEF Origin
  <2>4. n = m /\ g = plugins'[m].gen
    BY <2>1, <2>3
  <2>5. plugins'[m] = plugins[m]
    BY <1>10, <2>3, <2>4
  <2>. QED BY <1>2, <1>4, <2>1, <2>3, <2>4, <2>5 DEF InflightBound, Names
<1>. QED BY <1>8, <1>9, <1>12, <1>13

LEMMA InitIInv ==
  ASSUME Init
  PROVE  IInv
<1>1. setup \in Setup /\ setup.seconds \in Nat \ {0}
      /\ \A n \in DOMAIN setup.start : Numbers(setup.start[n])
  BY ChainAssumption DEF Init
<1>2. TableOK
  <2>1. \A n \in DOMAIN setup.start : Loaded(setup.start[n]) => setup.start[n] # NoConf
    BY DEF Loaded
  <2>2. ASSUME NEW n \in DOMAIN setup.start
        PROVE  /\ plugins[n].conf = NoConf => plugins[n].gen = 0
               /\ plugins[n].conf # NoConf => plugins[n].gen = gens[n] /\ gens[n] >= 1
               /\ Numbers(plugins[n].conf)
               /\ gens[n] \in 0..MaxGen
    <3>1. CASE Loaded(setup.start[n])
      <4>1. plugins[n] = [conf |-> setup.start[n], gen |-> 1] /\ gens[n] = 1
        BY <3>1 DEF Init
      <4>. QED BY <1>1, <2>1, <3>1, <4>1, ChainAssumption
    <3>2. CASE ~Loaded(setup.start[n])
      <4>1. plugins[n] = [conf |-> NoConf, gen |-> 0] /\ gens[n] = 0
        BY <3>2 DEF Init
      <4>. QED BY <4>1, ChainAssumption DEF Numbers
    <3>. QED BY <3>1, <3>2
  <2>3. DOMAIN plugins = DOMAIN setup.start /\ gens \in [DOMAIN setup.start -> 0..MaxGen]
    BY <2>2 DEF Init
  <2>. QED BY <1>1, <2>2, <2>3 DEF TableOK
<1>3. DOMAIN NewCtx = CtxFields /\ NewCtx.guard = <<>> /\ NewCtx.admitted = {}
  BY DEF NewCtx, CtxFields
<1>4. RequestsOK
  <2>1. 1 \in 1..(Len(Chain) + 1)
    BY <1>2, ChainLength
  <2>2. at \in [Req -> 1..(Len(Chain) + 1)]
    BY <2>1 DEF Init
  <2>3. clock \in 1..setup.seconds
    BY <1>1 DEF Init
  <2>. QED BY <1>3, <2>2, <2>3 DEF RequestsOK, Init, InFlight, Places
<1>5. DOMAIN inflight = {}
  BY DEF Init
<1>6. GuardsOK
  BY <1>3, <1>5 DEF GuardsOK, Init
<1>7. InflightBound
  BY <1>5 DEF InflightBound
<1>. QED BY <1>2, <1>4, <1>6, <1>7 DEF IInv

LEMMA NextKeeps ==
  ASSUME IInv, [Next]_vars
  PROVE  IInv'
<1>0. TableOK /\ RequestsOK
  BY DEF IInv
<1>1. ASSUME NEW r \in Req, Arrive(r) \/ Serve(r)
      PROVE  IInv'
  <2>1. CASE Arrive(r)
    BY <1>0, <2>1, ArriveLocal, LocalKeeps
  <2>2. CASE Guard(r)
    BY <1>0, <2>2, GuardLocal, LocalKeeps
  <2>3. CASE Response(r)
    BY <1>0, <2>3, ResponseLocal, LocalKeeps
  <2>4. CASE Traffic(r)
    <3>1. CASE \/ Redirect(r) \/ Ping(r) \/ Mock(r) \/ Stats(r) \/ Directory(r) \/ Cors(r)
      BY <1>0, <3>1, AnswersLocal, LocalKeeps
    <3>2. CASE AdminValidate(r) \/ AdminReset(r) \/ AdminLogin(r) \/ AdminInc(r)
      BY <1>0, <3>2, AdminLocal, LocalKeeps
    <3>3. CASE \/ RequestId(r) \/ Compression(r) \/ AcceptEncoding(r) \/ CachePurge(r)
               \/ CacheEnable(r) \/ ImageOptim(r)
      BY <1>0, <3>3, ChangesLocal, LocalKeeps
    <3>4. CASE Limit(r)
      BY <1>0, <3>4, LimitLocal, LocalKeeps, InflightKeeps
    <3>. QED BY <2>4, <3>1, <3>2, <3>3, <3>4 DEF Traffic
  <2>5. CASE Server(r)
    <3>1. CASE Logging(r)
      BY <3>1, LoggingKeeps
    <3>2. CASE ~Logging(r)
      BY <1>0, <2>5, <3>2, ServerLocal, LocalKeeps DEF Server
    <3>. QED BY <3>1, <3>2
  <2>. QED BY <1>1, <2>1, <2>2, <2>3, <2>4, <2>5 DEF Serve
<1>2. CASE UNCHANGED vars
  <2>1. UNCHANGED <<setup, plugins, gens, clock, pc, at, head, ctx, sent, inflight, odd, Chain>>
    BY <1>2 DEF vars, Chain
  <2>2. TableOK' /\ RequestsOK'
    BY <2>1 DEF IInv, TableOK, RequestsOK, InFlight
  <2>3. GuardsOK'
    <3>1. \A o : (Origin(o) => Origin(o)') /\ Holders(o)' = Holders(o)
      BY <2>1 DEF Origin, Holders
    <3>. QED BY <2>1, <3>1 DEF IInv, GuardsOK
  <2>4. InflightBound'
    BY <2>1 DEF IInv, InflightBound, Names
  <2>. QED BY <2>2, <2>3, <2>4 DEF IInv
<1>. QED BY <1>1, <1>2, TickKeeps, ReloadKeeps DEF Next

-----------------------------------------------------------------------------
\* The invariant of the table, the requests, the Guards and their limit.
THEOREM ChainInvariance == Spec => []IInv
<1>1. Init => IInv
  BY InitIInv
<1>2. IInv /\ [Next]_vars => IInv'
  BY NextKeeps
<1>. QED BY <1>1, <1>2, PTL DEF Spec

\* Every request is at a step of the server, with the header its client sent until it is
\* done, and the counters of the limiters count the Guards there are (Inflight::incr and
\* the Drop of its Guard).
THEOREM ChainTypes == Spec => []TypeOK
<1>1. IInv => TypeOK
  <2>. SUFFICES ASSUME IInv PROVE TypeOK
    OBVIOUS
  <2>1. ASSUME NEW n \in Names
        PROVE  plugins[n].gen \in {0, gens[n]} /\ gens[n] <= MaxGen
    BY ChainAssumption DEF IInv, TableOK, Names
  <2>2. \A r \in Req : at[r] \in 1..(Len(Chain) + 1) /\ sent[r] \in Nat
    BY DEF IInv, RequestsOK
  <2>3. \A o \in DOMAIN inflight : inflight[o] = Cardinality({r \in Req : ctx[r].guard = o})
    BY DEF IInv, GuardsOK, Holders
  <2>. QED BY <2>1, <2>2, <2>3 DEF TypeOK, IInv, TableOK, RequestsOK, Places
<1>. QED BY <1>1, ChainInvariance, PTL

\* The requests in flight that an inflight limiter has let pass are never more than its
\* max: for every chain of plugins and every number of requests, over every answer, error
\* and reload of the plugins.
THEOREM InflightLimit == Spec => []InflightBound
<1>1. IInv => InflightBound
  BY DEF IInv
<1>. QED BY <1>1, ChainInvariance, PTL

-----------------------------------------------------------------------------
(* One answer per request: the chain implements the gate with no guard in it, *)
(* for every chain and every configuration.                                  *)

Once == INSTANCE RequestGate WITH outcome <- Outcome, allowed <- Req, silent <- Silent

\* What is loaded was accepted by its constructor, and a request was answered at most
\* once, at its end; only one that the cache has answered is a hit.
ValidOK == \A n \in DOMAIN setup.start : plugins[n].conf # NoConf => Valid(plugins[n].conf)
AnswersOK ==
  \A r \in Req :
    /\ sent[r] \in {0, 1} /\ (pc[r] \notin {"logging", "done"} => sent[r] = 0)
    /\ ctx[r].hit \in BOOLEAN /\ (pc[r] \notin {"response", "body", "logging"} => ~ctx[r].hit)
OInv == IInv /\ ValidOK /\ AnswersOK

\* The outcome of a request by its place, the responses it got and whether it is a hit.
What(p, n, h) ==
  IF n = 1 THEN "answered"
  ELSE IF p = "idle" THEN "none"
  ELSE IF p \in {"logging", "done"} THEN "ignored"
  ELSE IF p \in {"upstream", "upstream_response", "store"} \/ (p \in {"response", "body"} /\ ~h)
  THEN "forwarded" ELSE "waiting"

LEMMA OutcomeIs ==
  ASSUME AnswersOK
  PROVE  Outcome = [r \in Req |-> What(pc[r], sent[r], ctx[r].hit)]
<1>1. ASSUME NEW r \in Req
      PROVE  (IF sent[r] > 1 THEN "answered twice"
              ELSE IF sent[r] = 1 /\ Forwarded(r) THEN "answered and forwarded"
              ELSE IF sent[r] = 1 THEN "answered"
              ELSE CASE Forwarded(r) -> "forwarded"
                     [] pc[r] = "idle" -> "none"
                     [] pc[r] \in {"logging", "done"} -> "ignored"
                     [] OTHER -> "waiting") = What(pc[r], sent[r], ctx[r].hit)
  <2>1. CASE sent[r] = 1
    <3>1. ~(sent[r] > 1) /\ pc[r] \in {"logging", "done"} /\ ~Forwarded(r)
      BY <2>1 DEF AnswersOK, Forwarded
    <3>2. What(pc[r], sent[r], ctx[r].hit) = "answered"
      BY <2>1 DEF What
    <3>. QED BY <2>1, <3>1, <3>2
  <2>2. CASE sent[r] = 0
    BY <2>2 DEF AnswersOK, What, Forwarded
  <2>. QED BY <2>1, <2>2 DEF AnswersOK
<1>. QED BY <1>1 DEF Outcome

LEMMA OutcomeWillBe ==
  ASSUME AnswersOK'
  PROVE  Outcome' = [r \in Req |-> What(pc'[r], sent'[r], ctx'[r].hit)]
<1>1. ASSUME NEW r \in Req
      PROVE  (IF sent'[r] > 1 THEN "answered twice"
              ELSE IF sent'[r] = 1 /\ Forwarded(r)' THEN "answered and forwarded"
              ELSE IF sent'[r] = 1 THEN "answered"
              ELSE CASE Forwarded(r)' -> "forwarded"
                     [] pc'[r] = "idle" -> "none"
                     [] pc'[r] \in {"logging", "done"} -> "ignored"
                     [] OTHER -> "waiting") = What(pc'[r], sent'[r], ctx'[r].hit)
  <2>1. CASE sent'[r] = 1
    <3>1. ~(sent'[r] > 1) /\ pc'[r] \in {"logging", "done"} /\ ~Forwarded(r)'
      BY <2>1 DEF AnswersOK, Forwarded
    <3>2. What(pc'[r], sent'[r], ctx'[r].hit) = "answered"
      BY <2>1 DEF What
    <3>. QED BY <2>1, <3>1, <3>2
  <2>2. CASE sent'[r] = 0
    BY <2>2 DEF AnswersOK, What, Forwarded
  <2>. QED BY <2>1, <2>2 DEF AnswersOK
<1>. QED BY <1>1 DEF Outcome

\* A step of one request, to a place, with so many responses sent.
Flow(r, p, n, h) ==
  /\ \A s \in Req \ {r} : pc'[s] = pc[s] /\ sent'[s] = sent[s] /\ ctx'[s].hit = ctx[s].hit
  /\ pc'[r] = p /\ sent'[r] = n /\ ctx'[r].hit = h
Transitions ==
  {<<"idle", "early_request">>, <<"early_request", "request">>, <<"request", "lookup">>,
   <<"request", "proxy_upstream">>, <<"lookup", "proxy_upstream">>,
   <<"proxy_upstream", "upstream">>, <<"upstream", "upstream_response">>,
   <<"upstream_response", "store">>, <<"store", "response">>, <<"response", "body">>,
   <<"request", "reset">>, <<"request", "login">>, <<"reset", "login">>, <<"login", "failed">>}
Stays(r) == Flow(r, pc[r], sent[r], ctx[r].hit)
Sends(r) == Flow(r, "logging", sent[r] + 1, ctx[r].hit) /\ pc[r] \notin {"idle", "logging", "done"}
Ignores(r) == Flow(r, "logging", sent[r], ctx[r].hit) /\ pc[r] = "request" /\ r \in Silent
Walks(r) == \E p : Flow(r, p, sent[r], ctx[r].hit) /\ <<pc[r], p>> \in Transitions
Hits(r) == Flow(r, "response", sent[r], TRUE) /\ pc[r] = "lookup"
Leaves(r) == Flow(r, "done", sent[r], FALSE) /\ pc[r] = "logging"
OneStep(r) == Stays(r) \/ Sends(r) \/ Ignores(r) \/ Walks(r) \/ Hits(r) \/ Leaves(r)

\* What becomes of a request in such a step.
LEMMA OneStepRefines ==
  ASSUME AnswersOK, NEW r \in Req, OneStep(r)
  PROVE  AnswersOK' /\ (Once!Next \/ Outcome' = Outcome)
<1>1. PICK p, n, h : Flow(r, p, n, h)
  BY DEF OneStep, Stays, Sends, Ignores, Walks, Hits, Leaves
<1>2. /\ n \in {0, 1} /\ (p \notin {"logging", "done"} => n = 0)
      /\ h \in BOOLEAN /\ (p \notin {"response", "body", "logging"} => ~h)
  <2>1. CASE Stays(r)
    BY <1>1, <2>1 DEF Stays, Flow, AnswersOK
  <2>2. CASE Sends(r)
    BY <1>1, <2>2 DEF Sends, Flow, AnswersOK
  <2>3. CASE Ignores(r)
    BY <1>1, <2>3 DEF Ignores, Flow, AnswersOK
  <2>4. CASE Walks(r)
    BY <1>1, <2>4 DEF Walks, Flow, AnswersOK, Transitions
  <2>5. CASE Hits(r)
    BY <1>1, <2>5 DEF Hits, Flow, AnswersOK
  <2>6. CASE Leaves(r)
    BY <1>1, <2>6 DEF Leaves, Flow, AnswersOK
  <2>. QED BY <2>1, <2>2, <2>3, <2>4, <2>5, <2>6 DEF OneStep
<1>3. AnswersOK'
  BY <1>1, <1>2 DEF AnswersOK, Flow
<1>4. PICK old, new : old = What(pc[r], sent[r], ctx[r].hit) /\ new = What(p, n, h)
  OBVIOUS
<1>5. Outcome[r] = old /\ Outcome' = [Outcome EXCEPT ![r] = new]
  BY <1>1, <1>3, <1>4, OutcomeIs, OutcomeWillBe DEF Flow
<1>6. \/ new = old
      \/ old = "none" /\ new = "waiting"
      \/ old \in {"waiting", "forwarded"} /\ new = "answered"
      \/ old = "waiting" /\ new = "forwarded"
      \/ old = "waiting" /\ new = "ignored" /\ r \in Silent
  <2>1. CASE Stays(r)
    BY <1>1, <1>4, <2>1 DEF Stays, Flow
  <2>2. CASE Sends(r)
    <3>1. p = "logging" /\ n = 1 /\ sent[r] = 0
      BY <1>1, <2>2 DEF Sends, Flow, AnswersOK
    <3>. QED BY <1>1, <1>4, <2>2, <3>1 DEF Sends, What
  <2>3. CASE Ignores(r)
    <3>1. p = "logging" /\ n = 0 /\ sent[r] = 0
      BY <1>1, <2>3 DEF Ignores, Flow, AnswersOK
    <3>. QED BY <1>1, <1>4, <2>3, <3>1 DEF Ignores, What
  <2>4. CASE Walks(r)
    <3>1. <<pc[r], p>> \in Transitions /\ n = sent[r] /\ h = ctx[r].hit
      BY <1>1, <2>4 DEF Walks, Flow
    <3>2. n = 0
      BY <3>1 DEF Transitions, AnswersOK
    <3>3. pc[r] # "response" => ~h
      BY <3>1 DEF Transitions, AnswersOK
    <3>. QED BY <1>4, <3>1, <3>2, <3>3 DEF Transitions, What
  <2>5. CASE Hits(r)
    <3>1. pc[r] = "lookup" /\ p = "response" /\ n = 0 /\ sent[r] = 0 /\ h
      BY <1>1, <2>5 DEF Hits, Flow, AnswersOK
    <3>. QED BY <1>4, <3>1 DEF What
  <2>6. CASE Leaves(r)
    <3>1. pc[r] = "logging" /\ p = "done" /\ n = sent[r]
      BY <1>1, <2>6 DEF Leaves, Flow
    <3>. QED BY <1>4, <3>1 DEF What
  <2>. QED BY <2>1, <2>2, <2>3, <2>4, <2>5, <2>6 DEF OneStep
<1>7. new = old => Outcome' = Outcome
  BY <1>5, OutcomeIs
<1>8. new # old => Once!Next
  <2>1. Once!Arrive(r) \/ Once!Serve(r) => Once!Next
    BY DEF Once!Next
  <2>. QED BY <1>5, <1>6, <2>1 DEF Once!Arrive, Once!Serve, Once!Reply, Once!Relay, Once!Forward,
                                   Once!Ignore
<1>. QED BY <1>3, <1>7, <1>8

\* The ends of a handler.
LEMMA RewriteFlow ==
  ASSUME RequestsOK, NEW r \in Req, NEW h, NEW c, c.hit = ctx[r].hit, Rewrite(r, h, c)
  PROVE  Stays(r)
BY DEF RequestsOK, Rewrite, Continue, Stays, Flow

LEMMA AnsweredFlow ==
  ASSUME RequestsOK, NEW r \in Req, NEW written \in {0, 1}, NEW status \in Nat,
         AnsweredAfter(r, written, status), pc[r] \notin {"early_request", "idle", "logging", "done"},
         (written = 0 /\ status < 900) \/ (written = 1 /\ status >= 900),
         DOMAIN ctx' = Req, \A s \in Req : ctx'[s].hit = ctx[s].hit
  PROVE  Sends(r)
<1>1. pc' = [pc EXCEPT ![r] = "logging"]
  BY DEF AnsweredAfter
<1>2. sent[r] \in Nat /\ sent' = [sent EXCEPT ![r] = sent[r] + 1]
  <2>1. PICK i \in {0, 1} : i = IF status < 900 THEN 1 ELSE 0
    OBVIOUS
  <2>2. written + i = 1
    BY <2>1
  <2>3. sent[r] \in Nat
    BY DEF RequestsOK
  <2>4. sent' = [sent EXCEPT ![r] = sent[r] + written + i]
    BY <2>1 DEF AnsweredAfter
  <2>5. sent[r] + written + i = sent[r] + 1
    BY <2>2, <2>3
  <2>. QED BY <2>3, <2>4, <2>5
<1>. QED BY <1>1, <1>2 DEF RequestsOK, Sends, Flow

LEMMA RespondFlow ==
  ASSUME RequestsOK, NEW r \in Req, NEW p, NEW c, c.hit = ctx[r].hit, Respond(r, p, c)
  PROVE  Stays(r)
BY DEF RequestsOK, Respond, Stays, Flow

LEMMA EndFlows ==
  ASSUME RequestsOK, NEW r \in Req, pc[r] \in Handled, pc[r] \notin {"early_request", "logging"}
  PROVE  /\ Pass(r) => OneStep(r)
         /\ \A s \in Nat : s < 900 /\ Answer(r, s) => OneStep(r)
         /\ \A s : Fail(r, s) => OneStep(r)
<1>0. pc[r] \notin {"early_request", "idle", "logging", "done"}
  BY PlaceFacts
<1>1. Pass(r) => Stays(r)
  BY RewriteFlow DEF Pass
<1>2. ASSUME NEW s \in Nat, s < 900, Answer(r, s)
      PROVE  Sends(r)
  <2>1. AnsweredAfter(r, 0, s) /\ ctx' = ctx
    BY <1>2 DEF Answer, Answered
  <2>. QED BY <1>0, <1>2, <2>1, AnsweredFlow DEF RequestsOK
<1>3. ASSUME NEW s, Fail(r, s)
      PROVE  Sends(r)
  BY <1>0, <1>3 DEF Fail, RequestsOK, Sends, Flow, history
<1>. QED BY <1>1, <1>2, <1>3 DEF OneStep

\* A plugin that passes in the first step.
LEMMA PassFlow ==
  ASSUME RequestsOK, NEW r \in Req, Pass(r)
  PROVE  OneStep(r)
BY RewriteFlow DEF Pass, OneStep

\* A plugin that answers in a step was configured for that step, and that is not the first.
LEMMA StepsValid ==
  ASSUME TableOK, RequestsOK, ValidOK, NEW r \in Req,
         NEW category \in {"limit", "request_id", "directory", "stats"},
         Calls(r, category, pc[r])
  PROVE  Plugin(r).step # "early_request"
<1>1. at[r] \in 1..Len(Chain) /\ Plugin(r) # NoConf /\ Plugin(r).category = category
  BY ChainLength DEF Calls, RequestsOK
<1>2. Name(r) \in DOMAIN setup.start
  BY <1>1, ChainLength DEF Name
<1>3. Valid(Plugin(r))
  BY <1>1, <1>2 DEF ValidOK, Plugin
<1>4. StepValid(Plugin(r))
  BY <1>1, <1>3 DEF Valid, LimitValid, RequestIdValid, DirectoryValid, StatsValid
<1>. QED BY <1>4 DEF StepValid

LEMMA GuardFlow ==
  ASSUME TableOK, RequestsOK, NEW r \in Req, Guard(r)
  PROVE  OneStep(r)
<1>0. pc[r] = "request" /\ pc[r] \in Handled /\ pc[r] \notin {"early_request", "logging"}
  BY PlaceFacts DEF Guard, BasicAuth, KeyAuth, JwtAuth, CombinedAuth, CsrfToken, Csrf,
                    IpRestriction, UaRestriction, RefererRestriction, Calls
<1>1. \A h : Rewrite(r, h, ctx[r]) => OneStep(r)
  BY RewriteFlow DEF OneStep
<1>2. Pass(r) \/ Answer(r, 401) \/ Answer(r, 403) \/ Answer(r, 400) \/ Fail(r, 400) => OneStep(r)
  BY <1>0, EndFlows
<1>3. CASE BasicAuth(r)
  BY <1>1, <1>2, <1>3 DEF BasicAuth
<1>4. CASE KeyAuth(r)
  BY <1>1, <1>2, <1>4 DEF KeyAuth
<1>5. CASE JwtAuth(r)
  BY <1>2, <1>5 DEF JwtAuth
<1>6. CASE CombinedAuth(r)
  BY <1>2, <1>6 DEF CombinedAuth
<1>7. CASE CsrfToken(r)
  <2>1. CASE ~Fail(r, 400)
    <3>1. AnsweredAfter(r, 0, 204) /\ ctx' = ctx
      BY <1>7, <2>1 DEF CsrfToken, Answered
    <3>2. pc[r] \notin {"early_request", "idle", "logging", "done"} /\ DOMAIN ctx' = Req
      BY <1>0, <3>1 DEF RequestsOK
    <3>. QED BY <3>1, <3>2, AnsweredFlow DEF OneStep
  <2>. QED BY <1>2, <2>1
<1>8. CASE Csrf(r)
  BY <1>2, <1>8 DEF Csrf
<1>9. CASE IpRestriction(r)
  <2>1. PICK ip : Answer(r, 400) \/ Answer(r, 403) \/ Rewrite(r, head[r], [ctx[r] EXCEPT !.ip = ip])
    BY <1>9 DEF IpRestriction
  <2>2. [ctx[r] EXCEPT !.ip = ip].hit = ctx[r].hit
    BY DEF RequestsOK, CtxFields
  <2>. QED BY <1>2, <2>1, <2>2, RewriteFlow DEF OneStep
<1>10. CASE UaRestriction(r)
  BY <1>2, <1>10 DEF UaRestriction
<1>11. CASE RefererRestriction(r)
  BY <1>2, <1>11 DEF RefererRestriction
<1>. QED BY <1>3, <1>4, <1>5, <1>6, <1>7, <1>8, <1>9, <1>10, <1>11 DEF Guard

LEMMA AnswersFlow ==
  ASSUME TableOK, RequestsOK, ValidOK, NEW r \in Req,
         \/ Redirect(r) \/ Ping(r) \/ Mock(r) \/ Stats(r) \/ Directory(r) \/ Cors(r)
  PROVE  OneStep(r)
<1>0. ASSUME pc[r] \in RequestStep, pc[r] # "early_request"
      PROVE  /\ pc[r] \notin {"early_request", "idle", "logging", "done"}
             /\ Pass(r) \/ Answer(r, 200) \/ Answer(r, 204) \/ Answer(r, 307) \/ Answer(r, 400)
                \/ Answer(r, 404) \/ Answer(r, 500) \/ Fail(r, 400) => OneStep(r)
  <2>1. pc[r] \in Handled /\ pc[r] \notin {"early_request", "logging", "idle", "done"}
    BY <1>0, PlaceFacts DEF RequestStep
  <2>. QED BY <2>1, EndFlows
<1>1. CASE Redirect(r)
  BY <1>0, <1>1 DEF Redirect, Calls, RequestStep
<1>2. CASE Ping(r)
  BY <1>0, <1>2 DEF Ping, Calls, RequestStep
<1>3. CASE Cors(r)
  BY <1>0, <1>3 DEF Cors, Calls, RequestStep
<1>4. CASE Stats(r)
  <2>1. pc[r] \in RequestStep /\ Calls(r, "stats", pc[r])
    BY <1>4 DEF Stats
  <2>2. Plugin(r).step # "early_request"
    BY <2>1, StepsValid
  <2>3. CASE Pass(r)
    BY <2>3, PassFlow
  <2>4. CASE Answer(r, 200) /\ pc[r] = Plugin(r).step
    BY <1>0, <2>1, <2>2, <2>4
  <2>. QED BY <1>4, <2>3, <2>4 DEF Stats
<1>5. CASE Directory(r)
  <2>1. pc[r] \in RequestStep /\ Calls(r, "directory", pc[r])
    BY <1>5 DEF Directory
  <2>2. Plugin(r).step # "early_request"
    BY <2>1, StepsValid
  <2>3. CASE Pass(r)
    BY <2>3, PassFlow
  <2>4. CASE pc[r] = Plugin(r).step
    <3>1. pc[r] \notin {"early_request", "idle", "logging", "done"}
      BY <1>0, <2>1, <2>2, <2>4
    <3>2. \/ Answer(r, 200) \/ Answer(r, 404) \/ Answer(r, 500) \/ Answer(r, 400) \/ Fail(r, 400)
          \/ AnsweredAfter(r, 1, 999) /\ ctx' = ctx
      BY <1>5, <2>4 DEF Directory, IgnoreResponse
    <3>3. CASE AnsweredAfter(r, 1, 999) /\ ctx' = ctx
      BY <3>1, <3>3, AnsweredFlow DEF RequestsOK, OneStep
    <3>. QED BY <1>0, <2>1, <3>1, <3>2, <3>3
  <2>. QED BY <1>5, <2>3, <2>4 DEF Directory
<1>6. CASE Mock(r)
  <2>1. Calls(r, "mock", "request") /\ pc[r] = "request"
    BY <1>6 DEF Mock, Calls
  <2>2. Pass(r) \/ Answer(r, Plugin(r).status)
    BY <1>6 DEF Mock
  <2>3. at[r] \in 1..Len(Chain) /\ Plugin(r) # NoConf /\ Plugin(r).category = "mock"
    BY <2>1, ChainLength DEF Calls, RequestsOK
  <2>4. Name(r) \in DOMAIN setup.start /\ Name(r) \in Elements(Chain)
    BY <2>3, ChainLength DEF Name, Elements
  <2>5. Plugin(r).status \in Nat
    BY <2>3, <2>4 DEF TableOK, Plugin, Numbers
  <2>6. CASE Answer(r, Plugin(r).status) /\ Plugin(r).status < 900
    BY <2>1, <2>5, <2>6, EndFlows, PlaceFacts
  <2>7. CASE Answer(r, Plugin(r).status) /\ ~(Plugin(r).status < 900)
    <3>1. r \in Silent
      BY <2>3, <2>4, <2>5, <2>7 DEF Silent, Plugin
    <3>2. ctx' = ctx /\ pc' = [pc EXCEPT ![r] = "logging"]
      BY <2>1, <2>7 DEF Answer, Answered, AnsweredAfter
    <3>3. sent' = [sent EXCEPT ![r] = sent[r]]
      <4>1. sent[r] \in Nat /\ sent[r] + 0 + 0 = sent[r]
        BY DEF RequestsOK
      <4>2. sent' = [sent EXCEPT ![r] = sent[r] + 0 + 0]
        BY <2>7 DEF Answer, Answered, AnsweredAfter
      <4>. QED BY <4>1, <4>2
    <3>4. Ignores(r)
      BY <2>1, <3>1, <3>2, <3>3 DEF RequestsOK, Ignores, Flow
    <3>. QED BY <3>4 DEF OneStep
  <2>. QED BY <2>2, <2>6, <2>7, PassFlow
<1>. QED BY <1>1, <1>2, <1>3, <1>4, <1>5, <1>6

LEMMA AdminFlow ==
  ASSUME TableOK, RequestsOK, NEW r \in Req,
         AdminValidate(r) \/ AdminReset(r) \/ AdminLogin(r) \/ AdminInc(r)
  PROVE  OneStep(r)
<1>0. pc[r] \in {"request", "reset", "login", "failed"} /\ pc[r] \in Handled
      /\ pc[r] \notin {"early_request", "idle", "logging", "done"}
  BY PlaceFacts DEF AdminValidate, AdminReset, AdminLogin, AdminInc, Calls
<1>1. Pass(r) \/ Answer(r, 403) \/ Answer(r, 307) \/ Answer(r, 200) => OneStep(r)
  BY <1>0, EndFlows
<1>a. ASSUME NEW p, pc' = [pc EXCEPT ![r] = p], <<pc[r], p>> \in Transitions, ctx' = ctx, sent' = sent
      PROVE  OneStep(r)
  BY <1>a DEF RequestsOK, OneStep, Walks, Flow
<1>2. CASE AdminValidate(r)
  <2>1. \/ Pass(r) \/ Answer(r, 403)
        \/ /\ pc' = [pc EXCEPT ![r] = "reset"] \/ pc' = [pc EXCEPT ![r] = "login"]
           /\ ctx' = ctx /\ sent' = sent
    BY <1>2 DEF AdminValidate
  <2>2. <<pc[r], "reset">> \in Transitions /\ <<pc[r], "login">> \in Transitions
    BY <1>2 DEF AdminValidate, Calls, Transitions
  <2>. QED BY <1>1, <1>a, <2>1, <2>2
<1>3. CASE AdminReset(r)
  BY <1>3, <1>a DEF AdminReset, Transitions
<1>4. CASE AdminLogin(r)
  <2>1. \/ Answer(r, 307) \/ Answer(r, 200)
        \/ pc' = [pc EXCEPT ![r] = "failed"] /\ ctx' = ctx /\ sent' = sent
    BY <1>4 DEF AdminLogin
  <2>2. <<pc[r], "failed">> \in Transitions
    BY <1>4 DEF AdminLogin, Transitions
  <2>. QED BY <1>1, <1>a, <2>1, <2>2
<1>5. CASE AdminInc(r)
  <2>1. AnsweredAfter(r, 0, 401) /\ ctx' = ctx
    BY <1>5 DEF AdminInc, Answered
  <2>. QED BY <1>0, <2>1, AnsweredFlow DEF RequestsOK, OneStep
<1>. QED BY <1>2, <1>3, <1>4, <1>5

LEMMA ChangesFlow ==
  ASSUME TableOK, RequestsOK, NEW r \in Req,
         \/ RequestId(r) \/ Compression(r) \/ AcceptEncoding(r) \/ CachePurge(r)
         \/ CacheEnable(r) \/ ImageOptim(r)
  PROVE  OneStep(r)
<1>0. DOMAIN ctx[r] = CtxFields
  BY DEF RequestsOK
<1>a. \A h, c : c.hit = ctx[r].hit /\ Rewrite(r, h, c) => OneStep(r)
  BY RewriteFlow DEF OneStep
<1>c. CacheCtx(r).hit = ctx[r].hit /\ [CacheCtx(r) EXCEPT !.caching = TRUE].hit = ctx[r].hit
  <2>1. PICK x, y : CacheCtx(r) = [ctx[r] EXCEPT !.ns = x, !.keys = y]
    BY DEF CacheCtx
  <2>2. CacheCtx(r).hit = ctx[r].hit /\ DOMAIN CacheCtx(r) = CtxFields
    BY <1>0, <2>1 DEF CtxFields
  <2>. QED BY <2>2 DEF CtxFields
<1>1. CASE RequestId(r)
  <2>1. PICK h, i : Pass(r) \/ Rewrite(r, h, [ctx[r] EXCEPT !.id = i])
    BY <1>1 DEF RequestId
  <2>2. [ctx[r] EXCEPT !.id = i].hit = ctx[r].hit
    BY <1>0 DEF CtxFields
  <2>. QED BY <1>a, <2>1, <2>2, PassFlow
<1>2. CASE Compression(r)
  <2>1. PICK l : Rewrite(r, head[r], [ctx[r] EXCEPT !.level = l])
    BY <1>2 DEF Compression
  <2>2. [ctx[r] EXCEPT !.level = l].hit = ctx[r].hit
    BY <1>0 DEF CtxFields
  <2>. QED BY <1>a, <2>1, <2>2
<1>3. CASE AcceptEncoding(r)
  BY <1>3, <1>a DEF AcceptEncoding
<1>4. CASE CachePurge(r)
  <2>1. pc[r] \notin {"early_request", "idle", "logging", "done"}
        /\ ctx' = [ctx EXCEPT ![r] = CacheCtx(r)]
    BY <1>4 DEF CachePurge, Calls
  <2>2. \/ AnsweredAfter(r, 0, 204) \/ AnsweredAfter(r, 0, 500)
        \/ AnsweredAfter(r, 0, 400) \/ AnsweredAfter(r, 0, 403)
    BY <1>4 DEF CachePurge, Answered
  <2>3. DOMAIN ctx' = Req /\ \A s \in Req : ctx'[s].hit = ctx[s].hit
    BY <1>c, <2>1 DEF RequestsOK
  <2>. QED BY <2>1, <2>2, <2>3, AnsweredFlow DEF OneStep
<1>5. CASE CacheEnable(r)
  BY <1>5, <1>a, <1>c, PassFlow DEF CacheEnable
<1>6. CASE ImageOptim(r)
  <2>1. PICK k : Rewrite(r, head[r], [ctx[r] EXCEPT !.keys = k])
    BY <1>6 DEF ImageOptim
  <2>2. [ctx[r] EXCEPT !.keys = k].hit = ctx[r].hit
    BY <1>0 DEF CtxFields
  <2>. QED BY <1>a, <2>1, <2>2
<1>. QED BY <1>1, <1>2, <1>3, <1>4, <1>5, <1>6

LEMMA LimitFlow ==
  ASSUME TableOK, RequestsOK, ValidOK, NEW r \in Req, Limit(r)
  PROVE  OneStep(r)
<1>1. pc[r] \in RequestStep /\ Calls(r, "limit", pc[r])
  BY DEF Limit
<1>2. Plugin(r).step # "early_request"
  BY <1>1, StepsValid
<1>3. DOMAIN LimitCtx(r) = CtxFields /\ LimitCtx(r).hit = ctx[r].hit
  <2>1. CASE Plugin(r).tag = "ip"
    BY <2>1 DEF LimitCtx, RequestsOK, CtxFields
  <2>2. CASE Plugin(r).tag # "ip"
    BY <2>2 DEF LimitCtx, RequestsOK
  <2>. QED BY <2>1, <2>2
<1>4. CASE Pass(r)
  BY <1>4, PassFlow
<1>5. CASE Rewrite(r, head[r], LimitCtx(r))
  BY <1>3, <1>5, RewriteFlow DEF OneStep
<1>6. CASE pc[r] = Plugin(r).step /\ (LimitRate(r) \/ LimitInflight(r))
  <2>1. pc[r] \notin {"early_request", "idle", "logging", "done"}
    BY <1>1, <1>2, <1>6 DEF RequestStep
  <2>2. (Answered(r, 429) \/ Continue(r))
    BY <1>6 DEF LimitRate, LimitInflight
  <2>3. PICK c : ctx' = [ctx EXCEPT ![r] = c] /\ c.hit = ctx[r].hit
    <3>1. CASE LimitRate(r)
      BY <1>3, <3>1 DEF LimitRate
    <3>2. CASE LimitInflight(r)
      <4>1. PICK x, y : ctx' = [ctx EXCEPT ![r] = [LimitCtx(r) EXCEPT !.guard = x, !.admitted = y]]
        BY <3>2 DEF LimitInflight
      <4>2. [LimitCtx(r) EXCEPT !.guard = x, !.admitted = y].hit = ctx[r].hit
        BY <1>3 DEF CtxFields
      <4>. QED BY <4>1, <4>2
    <3>. QED BY <1>6, <3>1, <3>2
  <2>4. DOMAIN ctx' = Req /\ \A s \in Req : ctx'[s].hit = ctx[s].hit
    BY <2>3 DEF RequestsOK
  <2>5. CASE Answered(r, 429)
    BY <2>1, <2>4, <2>5, AnsweredFlow DEF Answered, OneStep
  <2>6. CASE Continue(r)
    BY <2>4, <2>6 DEF Continue, OneStep, Stays, Flow
  <2>. QED BY <2>2, <2>5, <2>6
<1>. QED BY <1>4, <1>5, <1>6 DEF Limit

LEMMA ResponseFlow ==
  ASSUME TableOK, RequestsOK, NEW r \in Req, Response(r)
  PROVE  OneStep(r)
<1>0. DOMAIN ctx[r] = CtxFields
  BY DEF RequestsOK
<1>1. \A p, c : c.hit = ctx[r].hit /\ Respond(r, p, c) => OneStep(r)
  BY RespondFlow DEF OneStep
<1>2. \A x : [ctx[r] EXCEPT !.body = x].hit = ctx[r].hit
  BY <1>0 DEF CtxFields
<1>3. CASE JwtAuthResponse(r)
  BY <1>1, <1>2, <1>3 DEF JwtAuthResponse
<1>4. CASE CorsResponse(r)
  <2>1. pc[r] \in Handled /\ pc[r] \notin {"early_request", "logging"}
    BY <1>4, PlaceFacts DEF CorsResponse, Calls
  <2>2. PICK p : Respond(r, p, ctx[r]) \/ Fail(r, 400)
    BY <1>4 DEF CorsResponse
  <2>. QED BY <1>1, <2>1, <2>2, EndFlows
<1>5. CASE ImageOptimResponse(r)
  <2>1. PICK p, m : \/ Respond(r, resp[r], ctx[r])
                    \/ Respond(r, p, [ctx[r] EXCEPT !.upstreamBody = m])
    BY <1>5 DEF ImageOptimResponse
  <2>2. [ctx[r] EXCEPT !.upstreamBody = m].hit = ctx[r].hit
    BY <1>0 DEF CtxFields
  <2>. QED BY <1>1, <2>1, <2>2
<1>6. CASE ResponseHeaders(r)
  BY <1>1, <1>6 DEF ResponseHeaders
<1>7. CASE SubFilter(r)
  BY <1>1, <1>2, <1>7 DEF SubFilter
<1>. QED BY <1>3, <1>4, <1>5, <1>6, <1>7 DEF Response

LEMMA ServerFlow ==
  ASSUME TableOK, RequestsOK, NEW r \in Req, Server(r)
  PROVE  OneStep(r)
<1>a. ASSUME NEW p, Goto(r, p), <<pc[r], p>> \in Transitions, ctx' = ctx, sent' = sent
      PROVE  OneStep(r)
  BY <1>a DEF RequestsOK, OneStep, Walks, Flow, Goto
<1>1. CASE Skip(r)
  BY <1>1 DEF Skip, OneStep, Stays, Flow
<1>2. CASE StepEnd(r)
  <2>1. pc[r] \in PluginStep /\ ctx' = ctx /\ sent' = sent
    BY <1>2 DEF StepEnd
  <2>2. PICK p : /\ Goto(r, p)
                 /\ p = CASE pc[r] = "early_request" -> "request"
                          [] pc[r] = "request" ->
                               IF ctx[r].caching THEN "lookup" ELSE "proxy_upstream"
                          [] pc[r] = "proxy_upstream" -> "upstream"
                          [] pc[r] = "upstream_response" -> "store"
                          [] pc[r] = "response" -> "body"
    BY <1>2 DEF StepEnd
  <2>3. <<pc[r], p>> \in Transitions
    BY <2>1, <2>2 DEF PluginStep, RequestStep, ResponseStep, Transitions
  <2>. QED BY <1>a, <2>1, <2>2, <2>3
<1>3. CASE Lookup(r)
  <2>1. CASE Goto(r, "proxy_upstream") /\ ctx' = ctx
    BY <1>3, <1>a, <2>1 DEF Lookup, Transitions
  <2>2. CASE Goto(r, "response") /\ ctx' = [ctx EXCEPT ![r].hit = TRUE]
    <3>1. pc' = [pc EXCEPT ![r] = "response"] /\ sent' = sent /\ pc[r] = "lookup"
      BY <1>3, <2>2 DEF Goto, Lookup
    <3>2. DOMAIN ctx' = Req /\ ctx'[r].hit = TRUE /\ \A s \in Req \ {r} : ctx'[s] = ctx[s]
      <4>1. DOMAIN ctx[r] = CtxFields /\ DOMAIN ctx = Req
        BY DEF RequestsOK
      <4>. QED BY <2>2, <4>1 DEF CtxFields
    <3>3. Hits(r)
      BY <3>1, <3>2 DEF RequestsOK, Hits, Flow
    <3>. QED BY <3>3 DEF OneStep
  <2>. QED BY <1>3, <2>1, <2>2 DEF Lookup
<1>4. CASE Upstream(r)
  BY <1>4, <1>a DEF Upstream, Transitions
<1>5. CASE UpstreamFail(r)
  BY <1>5, EndFlows, PlaceFacts DEF UpstreamFail
<1>6. CASE Store(r)
  BY <1>6, <1>a DEF Store, Transitions
<1>7. CASE Body(r)
  <2>1. pc[r] = "body" /\ pc' = [pc EXCEPT ![r] = "logging"] /\ sent' = [sent EXCEPT ![r] = @ + 1]
        /\ ctx' = ctx
    BY <1>7 DEF Body, Goto
  <2>2. Sends(r)
    BY <2>1 DEF RequestsOK, Sends, Flow
  <2>. QED BY <2>2 DEF OneStep
<1>8. CASE Logging(r)
  <2>1. pc[r] = "logging" /\ pc' = [pc EXCEPT ![r] = "done"] /\ sent' = sent
        /\ ctx' = [ctx EXCEPT ![r] = NewCtx] /\ NewCtx.hit = FALSE
    BY <1>8 DEF Logging, NewCtx
  <2>2. Leaves(r)
    BY <2>1 DEF RequestsOK, Leaves, Flow
  <2>. QED BY <2>2 DEF OneStep
<1>. QED BY <1>1, <1>2, <1>3, <1>4, <1>5, <1>6, <1>7, <1>8 DEF Server

\* Every step of a request.
LEMMA RequestFlow ==
  ASSUME TableOK, RequestsOK, ValidOK, NEW r \in Req, Arrive(r) \/ Serve(r)
  PROVE  OneStep(r) /\ UNCHANGED <<setup, plugins>>
<1>1. CASE Arrive(r)
  <2>1. pc[r] = "idle" /\ pc' = [pc EXCEPT ![r] = "early_request"] /\ UNCHANGED <<sent, ctx>>
    BY <1>1 DEF Arrive, Goto
  <2>2. Walks(r)
    BY <2>1 DEF RequestsOK, Walks, Flow, Transitions
  <2>. QED BY <1>1, <2>2 DEF OneStep, Arrive
<1>2. CASE Guard(r)
  BY <1>2, GuardFlow, GuardLocal DEF Local, Moves
<1>3. CASE Response(r)
  BY <1>3, ResponseFlow, ResponseLocal DEF Local, Moves
<1>4. CASE Traffic(r)
  <2>1. CASE \/ Redirect(r) \/ Ping(r) \/ Mock(r) \/ Stats(r) \/ Directory(r) \/ Cors(r)
    BY <2>1, AnswersFlow, AnswersLocal DEF Local, Moves
  <2>2. CASE AdminValidate(r) \/ AdminReset(r) \/ AdminLogin(r) \/ AdminInc(r)
    BY <2>2, AdminFlow, AdminLocal DEF Local, Moves
  <2>3. CASE \/ RequestId(r) \/ Compression(r) \/ AcceptEncoding(r) \/ CachePurge(r)
             \/ CacheEnable(r) \/ ImageOptim(r)
    BY <2>3, ChangesFlow, ChangesLocal DEF Local, Moves
  <2>4. CASE Limit(r)
    <3>1. CASE Local(r)
      BY <2>4, <3>1, LimitFlow DEF Local, Moves
    <3>2. CASE LimitInflight(r)
      BY <2>4, <3>2, LimitFlow DEF LimitInflight, Answered, AnsweredAfter, Continue
    <3>. QED BY <2>4, <3>1, <3>2, LimitLocal
  <2>. QED BY <1>4, <2>1, <2>2, <2>3, <2>4 DEF Traffic
<1>5. CASE Server(r)
  <2>1. CASE Logging(r)
    BY <1>5, <2>1, ServerFlow DEF Logging
  <2>2. CASE ~Logging(r)
    BY <1>5, <2>2, ServerFlow, ServerLocal DEF Server, Local, Moves
  <2>. QED BY <2>1, <2>2
<1>. QED BY <1>1, <1>2, <1>3, <1>4, <1>5 DEF Serve

\* A reload only puts in place what its constructor accepts.
LEMMA ReloadValid ==
  ASSUME TableOK, ValidOK, Reload
  PROVE  ValidOK'
<1>1. PICK t \in setup.tables : TryInitPlugins(t)
  BY DEF Reload
<1>2. PICK changed, fresh :
        /\ fresh = {n \in changed : Loaded(t[n])}
        /\ plugins' = [n \in DOMAIN plugins |->
                         IF n \in fresh THEN [conf |-> t[n], gen |-> gens[n] + 1]
                         ELSE IF n \in changed THEN [conf |-> NoConf, gen |-> 0]
                         ELSE plugins[n]]
  BY <1>1 DEF TryInitPlugins, Names
<1>3. \A n \in fresh : Valid(t[n])
  BY <1>2 DEF Loaded
<1>4. setup' = setup /\ DOMAIN plugins = DOMAIN setup.start
  BY <1>1 DEF TryInitPlugins, TableOK
<1>. QED BY <1>2, <1>3, <1>4 DEF ValidOK

LEMMA InitOInv ==
  ASSUME Init
  PROVE  OInv /\ Once!Init
<1>1. ValidOK
  <2>1. ASSUME NEW n \in DOMAIN setup.start, plugins[n].conf # NoConf
        PROVE  Valid(plugins[n].conf)
    <3>1. Loaded(setup.start[n]) /\ plugins[n].conf = setup.start[n]
      BY <2>1 DEF Init
    <3>. QED BY <3>1 DEF Loaded
  <2>. QED BY <2>1 DEF ValidOK
<1>2. NewCtx.hit = FALSE
  BY DEF NewCtx
<1>3. AnswersOK
  BY <1>2 DEF AnswersOK, Init
<1>4. Outcome = [r \in Req |-> "none"]
  <2>1. ASSUME NEW r \in Req
        PROVE  What(pc[r], sent[r], ctx[r].hit) = "none"
    BY DEF What, Init
  <2>. QED BY <1>3, <2>1, OutcomeIs
<1>. QED BY <1>1, <1>3, <1>4, InitIInv DEF OInv, Once!Init

LEMMA NextOnce ==
  ASSUME OInv, [Next]_vars
  PROVE  OInv' /\ (Once!Next \/ Outcome' = Outcome)
<1>0. IInv' /\ TableOK /\ RequestsOK /\ ValidOK /\ AnswersOK
  BY NextKeeps DEF OInv, IInv
<1>1. CASE \E r \in Req : Arrive(r) \/ Serve(r)
  <2>1. PICK r \in Req : Arrive(r) \/ Serve(r)
    BY <1>1
  <2>2. OneStep(r) /\ UNCHANGED <<setup, plugins>>
    BY <1>0, <2>1, RequestFlow
  <2>3. ValidOK'
    BY <1>0, <2>2 DEF ValidOK
  <2>. QED BY <1>0, <2>2, <2>3, OneStepRefines DEF OInv
<1>2. CASE Tick \/ Reload \/ UNCHANGED vars
  <2>1. UNCHANGED <<pc, sent, ctx>>
    BY <1>2 DEF Tick, Reload, TryInitPlugins, vars
  <2>2. ValidOK'
    <3>1. CASE Reload
      BY <1>0, <3>1, ReloadValid
    <3>2. CASE Tick \/ UNCHANGED vars
      BY <1>0, <3>2 DEF Tick, vars, ValidOK
    <3>. QED BY <1>2, <3>1, <3>2
  <2>3. AnswersOK'
    BY <1>0, <2>1 DEF AnswersOK
  <2>4. Outcome' = Outcome
    BY <2>1 DEF Outcome, Forwarded
  <2>. QED BY <1>0, <2>2, <2>3, <2>4 DEF OInv
<1>. QED BY <1>1, <1>2 DEF Next

\* A request is answered exactly once, by a plugin, the cache, the upstream or an error
\* (or by no one, if a mock plugin is configured so): a plugin that could answer before
\* request_filter, where the server does not stop, is refused by its constructor.
THEOREM AnsweredOnce == Spec => Once!Spec
<1>1. Init => OInv /\ Once!Init
  BY InitOInv
<1>2. OInv /\ [Next]_vars => OInv' /\ [Once!Next]_Outcome
  BY NextOnce
<1>. QED BY <1>1, <1>2, PTL DEF Spec, Once!Spec
-----------------------------------------------------------------------------
(* Wrong logins: what an entry of TtlLruLimit says of them.                   *)

LoginStep == {"reset", "login", "failed"}
Even(ip) == <<"login", ip>> \notin odd
Address(r) == GetClientIp(head[r])
Fails(ip) == {f \in fails : f[2] = ip}
Entry(ip) == IF ip \in DOMAIN logins THEN logins[ip] ELSE NoLimit
IsAdmin(n) == plugins[n].conf # NoConf /\ plugins[n].conf.category = "admin"

\* What is loaded comes from a table; so there is one admin plugin at most.
FromTables ==
  \A n \in DOMAIN setup.start :
    plugins[n].conf # NoConf => \E t \in setup.tables \cup {setup.start} : plugins[n].conf = t[n]

\* What an entry e says of the failures F of an address at time t: it began with the first
\* of its failures, A, and counts them.  Of the failures before it all but those in D,
\* less than failLimit, are past their time: an entry is given up when its first failure
\* is, and the failures of the entries before it came earlier.
Epochs(F, e, t, c) ==
  /\ e.count \in 0..c.failLimit /\ e.created \in Nat
  /\ e.count = 0 <=> e.created = 0
  /\ \E A \in SUBSET F, D \in SUBSET F :
       /\ Cardinality(A) <= e.count /\ Cardinality(D) <= c.failLimit - 1
       /\ e.count > 0 => \E f \in A : f[3] = e.created
       /\ \A f \in F \ A : /\ e.count > 0 => f[3] <= e.created
                           /\ f \in D \/ t - f[3] > c.failTtl

\* A login works with the plugin that is loaded and with an entry that is not full.
Works(r) ==
  /\ at[r] <= Len(Chain) /\ IsAdmin(Name(r))
  /\ DOMAIN seen[r] = {"conf", "gen", "limit"}
  /\ seen[r].conf = Plugin(r) /\ seen[r].gen = plugins[Name(r)].gen
  /\ pc[r] = "reset" => Address(r) \in DOMAIN logins /\ Expired(Plugin(r), Entry(Address(r)))
  /\ pc[r] \in {"login", "failed"} => Entry(Address(r)).count < Plugin(r).failLimit
  /\ pc[r] = "failed" => seen[r].limit = Entry(Address(r))

\* An address whose logins never overlapped and met no reload, and whose entry was never
\* lost to a full table.
AddressOK(ip) ==
  /\ (\A n \in DOMAIN setup.start : ~IsAdmin(n)) \/ ip \notin DOMAIN logins => Fails(ip) = {}
  /\ (\A n \in DOMAIN setup.start : ~IsAdmin(n)) => ip \notin DOMAIN logins
  /\ \A n \in DOMAIN setup.start : IsAdmin(n) => Epochs(Fails(ip), Entry(ip), clock, plugins[n].conf)
  /\ \A r \in Req : pc[r] \in LoginStep /\ Address(r) = ip =>
       Works(r) /\ \A s \in Req : pc[s] \in LoginStep /\ Address(s) = ip => s = r

LoginInv ==
  /\ FromTables /\ DOMAIN seen = Req
  /\ IsFiniteSet(fails) /\ \A f \in fails : f[3] \in 1..clock
  /\ \A ip : Even(ip) => AddressOK(ip)

-----------------------------------------------------------------------------
(* Failures and entries.                                                     *)

Limited(c) == c.failLimit \in Nat /\ c.failLimit >= 1 /\ c.failTtl \in Nat

\* A new entry.
LEMMA EpochsNone ==
  ASSUME NEW c, Limited(c), NEW t
  PROVE  Epochs({}, NoLimit, t, c)
<1>1. Cardinality({}) = 0
  BY FS_EmptySet
<1>2. NoLimit.count = 0 /\ NoLimit.created = 0
  BY DEF NoLimit
<1>3. /\ {} \in SUBSET {} /\ 0 <= c.failLimit - 1 /\ 0 \in 0..c.failLimit
  BY DEF Limited
<1>. QED BY <1>1, <1>2, <1>3 DEF Epochs

\* Time passes.
LEMMA EpochsLater ==
  ASSUME NEW c, Limited(c), NEW F, NEW e, NEW t \in Nat, \A f \in F : f[3] \in 1..t,
         Epochs(F, e, t, c)
  PROVE  Epochs(F, e, t + 1, c)
<1>1. PICK A \in SUBSET F, D \in SUBSET F :
        /\ Cardinality(A) <= e.count /\ Cardinality(D) <= c.failLimit - 1
        /\ e.count > 0 => \E f \in A : f[3] = e.created
        /\ \A f \in F \ A : /\ e.count > 0 => f[3] <= e.created
                            /\ f \in D \/ t - f[3] > c.failTtl
  BY DEF Epochs
<1>2. \A f \in F : t - f[3] > c.failTtl => (t + 1) - f[3] > c.failTtl
  BY DEF Limited
<1>. QED BY <1>1, <1>2 DEF Epochs

\* validate gives up an entry whose first failure is past its time.
LEMMA EpochsReset ==
  ASSUME NEW c, Limited(c), NEW F, IsFiniteSet(F), NEW e, NEW t \in Nat,
         \A f \in F : f[3] \in 1..t, Epochs(F, e, t, c), t - e.created > c.failTtl
  PROVE  Epochs(F, NoLimit, t, c)
<1>1. PICK A \in SUBSET F, D \in SUBSET F :
        /\ Cardinality(A) <= e.count /\ Cardinality(D) <= c.failLimit - 1
        /\ e.count > 0 => \E f \in A : f[3] = e.created
        /\ \A f \in F \ A : /\ e.count > 0 => f[3] <= e.created
                            /\ f \in D \/ t - f[3] > c.failTtl
  BY DEF Epochs
<1>2. /\ e.count \in Nat /\ e.count <= c.failLimit /\ e.created \in Nat
      /\ c.failLimit \in Nat /\ c.failLimit >= 1 /\ c.failTtl \in Nat
  BY DEF Epochs, Limited
<1>3. NoLimit.count = 0 /\ NoLimit.created = 0
  BY DEF NoLimit
<1>4. Cardinality({}) = 0 /\ IsFiniteSet(A) /\ Cardinality(A) \in Nat
  BY FS_EmptySet, FS_Subset, FS_CardinalityType
<1>5. CASE e.count = 0
  <2>1. Cardinality(A) = 0
    BY <1>1, <1>4, <1>5
  <2>2. A = {}
    BY <1>4, <2>1, FS_EmptySet
  <2>3. 0 \in 0..c.failLimit /\ Cardinality(A) <= 0
    BY <1>2, <2>1
  <2>. QED BY <1>1, <1>3, <1>5, <2>2, <2>3 DEF Epochs
<1>6. CASE e.count > 0
  <2>1. PICK f0 \in A : f0[3] = e.created
    BY <1>1, <1>6
  <2>2. Cardinality(A \ {f0}) = Cardinality(A) - 1
    BY <1>4, FS_RemoveElement
  <2>3. Cardinality(A \ {f0}) <= c.failLimit - 1
    BY <1>1, <1>2, <1>4, <2>2
  <2>4. ASSUME NEW f \in F
        PROVE  f \in A \ {f0} \/ t - f[3] > c.failTtl
    <3>1. CASE f \in A
      BY <2>1, <3>1
    <3>2. CASE f \notin A
      <4>1. f[3] <= e.created /\ f[3] \in Nat
        BY <1>1, <1>6, <3>2
      <4>. QED BY <1>2, <4>1
    <3>. QED BY <3>1, <3>2
  <2>5. 0 \in 0..c.failLimit /\ Cardinality({}) <= 0 /\ {} \in SUBSET F /\ A \ {f0} \in SUBSET F
    BY <1>2, <1>4
  <2>. QED BY <1>3, <2>3, <2>4, <2>5 DEF Epochs
<1>. QED BY <1>2, <1>5, <1>6

\* inc counts a failure, and an entry begins with its first one.
LEMMA EpochsInc ==
  ASSUME NEW c, Limited(c), NEW F, IsFiniteSet(F), NEW e, NEW t \in Nat, t >= 1,
         \A f \in F : f[3] \in 1..t, Epochs(F, e, t, c), e.count < c.failLimit,
         NEW x, x[3] = t
  PROVE  Epochs(F \cup {x}, [count |-> e.count + 1,
                             created |-> IF e.created = 0 THEN t ELSE e.created], t, c)
<1>1. PICK A \in SUBSET F, D \in SUBSET F :
        /\ Cardinality(A) <= e.count /\ Cardinality(D) <= c.failLimit - 1
        /\ e.count > 0 => \E f \in A : f[3] = e.created
        /\ \A f \in F \ A : /\ e.count > 0 => f[3] <= e.created
                            /\ f \in D \/ t - f[3] > c.failTtl
  BY DEF Epochs
<1>2. /\ e.count \in Nat /\ e.count < c.failLimit /\ e.created \in Nat
      /\ c.failLimit \in Nat /\ (e.count = 0 <=> e.created = 0)
  BY DEF Epochs, Limited
<1>3. IsFiniteSet(A) /\ Cardinality(A) \in Nat
  BY FS_Subset, FS_CardinalityType
<1>4. Cardinality(A \cup {x}) <= e.count + 1
  <2>1. CASE x \in A
    <3>1. Cardinality(A \cup {x}) = Cardinality(A)
      BY <1>3, <2>1, FS_AddElement
    <3>. QED BY <1>1, <1>2, <1>3, <3>1
  <2>2. CASE x \notin A
    <3>1. Cardinality(A \cup {x}) = Cardinality(A) + 1
      BY <1>3, <2>2, FS_AddElement
    <3>. QED BY <1>1, <1>2, <1>3, <3>1
  <2>. QED BY <2>1, <2>2
<1>5. PICK n, m : n = e.count + 1 /\ m = IF e.created = 0 THEN t ELSE e.created
  OBVIOUS
<1>6. n \in 0..c.failLimit /\ n > 0 /\ n # 0 /\ m \in Nat /\ m # 0
  BY <1>2, <1>5
<1>7. \E f \in A \cup {x} : f[3] = m
  BY <1>1, <1>2, <1>5
<1>8. ASSUME NEW f \in (F \cup {x}) \ (A \cup {x})
      PROVE  f[3] <= m /\ (f \in D \/ t - f[3] > c.failTtl)
  <2>1. f \in F \ A /\ f[3] \in Nat /\ f[3] <= t
    BY <1>8
  <2>. QED BY <1>1, <1>2, <1>5, <2>1
<1>9. A \cup {x} \in SUBSET (F \cup {x}) /\ D \in SUBSET (F \cup {x})
  OBVIOUS
<1>10. Epochs(F \cup {x}, [count |-> n, created |-> m], t, c)
  BY <1>1, <1>4, <1>5, <1>6, <1>7, <1>8, <1>9 DEF Epochs
<1>. QED BY <1>5, <1>10

\* The failures within the time of the limit.
LEMMA EpochsBound ==
  ASSUME NEW c, Limited(c), NEW F, IsFiniteSet(F), NEW e, NEW t \in Nat,
         \A f \in F : f[3] \in 1..t, Epochs(F, e, t, c)
  PROVE  Cardinality({f \in F : t - f[3] <= c.failTtl}) <= 2 * c.failLimit - 1
<1>. DEFINE W == {f \in F : t - f[3] <= c.failTtl}
<1>1. PICK A \in SUBSET F, D \in SUBSET F :
        /\ Cardinality(A) <= e.count /\ Cardinality(D) <= c.failLimit - 1
        /\ \A f \in F \ A : f \in D \/ t - f[3] > c.failTtl
  BY DEF Epochs
<1>2. e.count \in Nat /\ e.count <= c.failLimit /\ c.failLimit \in Nat /\ c.failTtl \in Nat
  BY DEF Epochs, Limited
<1>3. W \subseteq A \cup D
  BY <1>1, <1>2
<1>4. IsFiniteSet(A) /\ IsFiniteSet(D)
  BY FS_Subset
<1>5. /\ IsFiniteSet(A \cup D) /\ IsFiniteSet(A \cap D)
      /\ Cardinality(A \cup D) = Cardinality(A) + Cardinality(D) - Cardinality(A \cap D)
  BY <1>4, FS_Union, FS_Subset
<1>6. Cardinality(W) <= Cardinality(A \cup D) /\ IsFiniteSet(W)
  BY <1>3, <1>5, FS_Subset
<1>7. {Cardinality(A), Cardinality(D), Cardinality(A \cap D), Cardinality(W)} \subseteq Nat
  BY <1>4, <1>5, <1>6, FS_CardinalityType
<1>. HIDE DEF W
<1>8. Cardinality(W) <= 2 * c.failLimit - 1
  BY <1>1, <1>2, <1>5, <1>6, <1>7
<1>. QED BY <1>8 DEF W

-----------------------------------------------------------------------------
(* Steps that have nothing to do with logins, and the logins of others.      *)

Quiet(r) ==
  /\ UNCHANGED <<setup, plugins, clock, logins, fails>> /\ odd \subseteq odd'
  /\ DOMAIN seen' = DOMAIN seen
  /\ \A s \in Req \ {r} : /\ pc'[s] = pc[s] /\ at'[s] = at[s]
                          /\ seen'[s] = seen[s] /\ head'[s] = head[s]
  /\ pc[r] \notin LoginStep /\ pc'[r] \notin LoginStep

LEMMA QuietKeeps ==
  ASSUME LoginInv, NEW r \in Req, Quiet(r)
  PROVE  LoginInv'
<1>1. UNCHANGED <<setup, plugins, clock, logins, fails>> /\ odd \subseteq odd'
  BY DEF Quiet
<1>2. \A n : IsAdmin(n)' = IsAdmin(n)
  BY <1>1 DEF IsAdmin
<1>3. \A ip : Fails(ip)' = Fails(ip) /\ Entry(ip)' = Entry(ip)
  BY <1>1 DEF Fails, Entry, NoLimit
<1>4. \A s \in Req \ {r} : Works(s)' = Works(s) /\ Address(s)' = Address(s)
  BY <1>1, <1>2, <1>3 DEF Quiet, Works, Address, Chain, Name, Plugin, Expired
<1>5. ASSUME NEW ip, Even(ip)'
      PROVE  AddressOK(ip)'
  <2>1. AddressOK(ip)
    BY <1>1, <1>5 DEF LoginInv, Even
  <2>2. ASSUME NEW s \in Req, pc'[s] \in LoginStep, Address(s)' = ip
        PROVE  s # r /\ pc[s] \in LoginStep /\ Address(s) = ip
    BY <1>4, <2>2 DEF Quiet
  <2>3. \A s \in Req : pc'[s] \in LoginStep /\ Address(s)' = ip =>
          Works(s)' /\ \A q \in Req : pc'[q] \in LoginStep /\ Address(q)' = ip => q = s
    BY <1>4, <2>1, <2>2 DEF AddressOK
  <2>4. \A n \in DOMAIN setup'.start :
          IsAdmin(n)' => Epochs(Fails(ip)', Entry(ip)', clock', plugins'[n].conf)
    BY <1>1, <1>2, <1>3, <2>1 DEF AddressOK
  <2>. QED BY <1>1, <1>2, <1>3, <2>1, <2>3, <2>4 DEF AddressOK
<1>. QED BY <1>1, <1>5 DEF LoginInv, FromTables, Quiet

\* The step of a login leaves the other addresses alone, but for one whose entry the
\* table has no room for.
Alone(r) ==
  /\ UNCHANGED <<setup, plugins, clock, head>> /\ odd \subseteq odd'
  /\ DOMAIN seen' = DOMAIN seen
  /\ \A s \in Req \ {r} : pc'[s] = pc[s] /\ at'[s] = at[s] /\ seen'[s] = seen[s]
  /\ \A ip : ip # Address(r) /\ <<"login", ip>> \notin odd' =>
       /\ ip \in DOMAIN logins' <=> ip \in DOMAIN logins
       /\ ip \in DOMAIN logins => logins'[ip] = logins[ip]
  /\ fails' = fails \/ fails' = fails \cup {<<r, Address(r), clock>>}

LEMMA AloneKeeps ==
  ASSUME RequestsOK, LoginInv, NEW r \in Req, Alone(r), Even(Address(r))' => AddressOK(Address(r))'
  PROVE  LoginInv'
<1>1. UNCHANGED <<setup, plugins, clock, head>> /\ odd \subseteq odd'
  BY DEF Alone
<1>2. \A n : IsAdmin(n)' = IsAdmin(n)
  BY <1>1 DEF IsAdmin
<1>3. \A s : Address(s)' = Address(s)
  BY <1>1 DEF Address
<1>4. ASSUME NEW ip, ip # Address(r), <<"login", ip>> \notin odd'
      PROVE  Fails(ip)' = Fails(ip) /\ Entry(ip)' = Entry(ip)
  BY <1>4 DEF Alone, Fails, Entry, NoLimit
<1>5. \A s \in Req \ {r} : Address(s) # Address(r) /\ <<"login", Address(s)>> \notin odd' =>
        Works(s)' = Works(s)
  BY <1>1, <1>2, <1>3, <1>4 DEF Alone, Works, Chain, Name, Plugin, Expired
<1>6. ASSUME NEW ip, Even(ip)', ip # Address(r)
      PROVE  AddressOK(ip)'
  <2>1. AddressOK(ip)
    BY <1>1, <1>6 DEF LoginInv, Even
  <2>2. ASSUME NEW s \in Req, pc'[s] \in LoginStep, Address(s)' = ip
        PROVE  s # r /\ pc[s] \in LoginStep /\ Address(s) = ip
    BY <1>3, <1>6, <2>2 DEF Alone
  <2>3. \A s \in Req : pc'[s] \in LoginStep /\ Address(s)' = ip =>
          Works(s)' /\ \A q \in Req : pc'[q] \in LoginStep /\ Address(q)' = ip => q = s
    BY <1>3, <1>5, <1>6, <2>1, <2>2 DEF AddressOK, Even
  <2>4. \A n \in DOMAIN setup'.start :
          IsAdmin(n)' => Epochs(Fails(ip)', Entry(ip)', clock', plugins'[n].conf)
    BY <1>1, <1>2, <1>4, <1>6, <2>1 DEF AddressOK, Even
  <2>5. Fails(ip)' = Fails(ip) /\ (ip \in DOMAIN logins' <=> ip \in DOMAIN logins)
    BY <1>4, <1>6 DEF Alone, Even
  <2>. QED BY <1>1, <1>2, <2>1, <2>3, <2>4, <2>5 DEF AddressOK
<1>7. IsFiniteSet(fails') /\ \A f \in fails' : f[3] \in 1..clock'
  <2>1. clock \in 1..clock
    <3>1. clock \in Nat /\ clock >= 1
      BY DEF RequestsOK
    <3>. QED BY <3>1
  <2>2. <<r, Address(r), clock>>[3] = clock
    OBVIOUS
  <2>. QED BY <1>1, <2>1, <2>2, FS_AddElement DEF Alone, LoginInv
<1>8. ASSUME NEW ip, Even(ip)', ip = Address(r)
      PROVE  AddressOK(ip)'
  <2>1. ip = Address(r)'
    BY <1>3, <1>8
  <2>2. Even(Address(r))'
    BY <1>8, <2>1 DEF Even
  <2>3. AddressOK(Address(r))'
    BY <2>2
  <2>. QED BY <2>1, <2>3 DEF AddressOK, Fails, Entry
<1>9. FromTables' /\ DOMAIN seen' = Req
  BY <1>1 DEF LoginInv, FromTables, Alone
<1>. QED BY <1>6, <1>7, <1>8, <1>9 DEF LoginInv

\* There is one admin plugin at most, with its limits.
LEMMA OneAdmin ==
  ASSUME TableOK, FromTables, NEW m \in DOMAIN setup.start, NEW n \in DOMAIN setup.start,
         IsAdmin(m), IsAdmin(n)
  PROVE  m = n /\ Limited(plugins[n].conf)
<1>1. m \in Admins(setup) /\ n \in Admins(setup)
  BY DEF FromTables, IsAdmin, Admins
<1>2. Limited(plugins[n].conf)
  BY DEF TableOK, Numbers, IsAdmin, Limited
<1>. QED BY <1>1, <1>2, ChainAssumption DEF TableOK

\* The address of a login after a step of it.
LEMMA AddressKeeps ==
  ASSUME NEW r \in Req, Alone(r),
         \A s \in Req \ {r} : pc[s] \in LoginStep => Address(s) # Address(r),
         pc'[r] \in LoginStep => Works(r)',
         NEW m \in DOMAIN setup.start, IsAdmin(m),
         Address(r) \in DOMAIN logins' \/ Fails(Address(r))' = {},
         \A n \in DOMAIN setup.start : IsAdmin(n) =>
           Epochs(Fails(Address(r))', Entry(Address(r))', clock, plugins[n].conf)
  PROVE  AddressOK(Address(r))'
<1>1. UNCHANGED <<setup, plugins, clock, head>>
  BY DEF Alone
<1>2. \A n : IsAdmin(n)' = IsAdmin(n)
  BY <1>1 DEF IsAdmin
<1>3. \A s : Address(s)' = Address(s)
  BY <1>1 DEF Address
<1>4. \A s \in Req : pc'[s] \in LoginStep /\ Address(s)' = Address(r)' => s = r
  BY <1>3 DEF Alone
<1>5. \A n \in DOMAIN setup'.start : IsAdmin(n)' =>
        Epochs(Fails(Address(r))', Entry(Address(r))', clock', plugins'[n].conf)
  BY <1>1, <1>2
<1>. QED BY <1>1, <1>2, <1>3, <1>4, <1>5 DEF AddressOK

\* A login that is under way.
LEMMA Working ==
  ASSUME TableOK, RequestsOK, LoginInv, NEW r \in Req, pc[r] \in LoginStep, Even(Address(r))
  PROVE  /\ Works(r) /\ AddressOK(Address(r))
         /\ \A s \in Req \ {r} : pc[s] \in LoginStep => Address(s) # Address(r)
         /\ Name(r) \in DOMAIN setup.start /\ IsAdmin(Name(r)) /\ Limited(Plugin(r))
         /\ Epochs(Fails(Address(r)), Entry(Address(r)), clock, Plugin(r))
         /\ \A n \in DOMAIN setup.start : IsAdmin(n) => n = Name(r)
         /\ clock \in Nat /\ clock >= 1 /\ IsFiniteSet(Fails(Address(r)))
         /\ \A f \in Fails(Address(r)) : f[3] \in 1..clock
<1>1. AddressOK(Address(r))
  BY DEF LoginInv
<1>2. Works(r) /\ \A s \in Req \ {r} : pc[s] \in LoginStep => Address(s) # Address(r)
  BY <1>1 DEF AddressOK
<1>3. at[r] \in 1..Len(Chain)
  BY <1>2, ChainLength DEF Works, RequestsOK
<1>4. Name(r) \in DOMAIN setup.start /\ IsAdmin(Name(r))
  BY <1>2, <1>3, ChainLength DEF Works, Name
<1>5. Limited(Plugin(r)) /\ \A n \in DOMAIN setup.start : IsAdmin(n) => n = Name(r)
  BY <1>4, OneAdmin DEF LoginInv, Plugin
<1>6. Epochs(Fails(Address(r)), Entry(Address(r)), clock, Plugin(r))
  BY <1>1, <1>4 DEF AddressOK, Plugin
<1>7. clock \in Nat /\ clock >= 1
  BY DEF RequestsOK
<1>8. IsFiniteSet(Fails(Address(r))) /\ \A f \in Fails(Address(r)) : f[3] \in 1..clock
  BY FS_Subset DEF LoginInv, Fails
<1>. QED BY <1>1, <1>2, <1>4, <1>5, <1>6, <1>7, <1>8

\* What ends a handler.
LEMMA QuietEnds ==
  ASSUME RequestsOK, DOMAIN seen = Req, NEW r \in Req, pc[r] \notin LoginStep
  PROVE  /\ \A h, c : Rewrite(r, h, c) => Quiet(r)
         /\ \A n, s : AnsweredAfter(r, n, s) /\ UNCHANGED <<head, logins, seen, fails, odd>> => Quiet(r)
         /\ \A s : Answer(r, s) => Quiet(r)
         /\ \A s : Fail(r, s) => Quiet(r)
         /\ \A p, c : Respond(r, p, c) => Quiet(r)
<1>1. "request" \notin LoginStep /\ "logging" \notin LoginStep
  BY DEF LoginStep
<1>2. ASSUME NEW h, NEW c, Rewrite(r, h, c) PROVE Quiet(r)
  BY <1>2 DEF Rewrite, Continue, Quiet, RequestsOK, shared, history
<1>3. ASSUME NEW n, NEW s, AnsweredAfter(r, n, s), UNCHANGED <<head, logins, seen, fails, odd>>
      PROVE  Quiet(r)
  BY <1>1, <1>3 DEF AnsweredAfter, Quiet, RequestsOK
<1>4. ASSUME NEW s, Answer(r, s) PROVE Quiet(r)
  BY <1>3, <1>4 DEF Answer, Answered, shared, history
<1>5. ASSUME NEW s, Fail(r, s) PROVE Quiet(r)
  BY <1>1, <1>5 DEF Fail, Quiet, RequestsOK, shared, history
<1>6. ASSUME NEW p, NEW c, Respond(r, p, c) PROVE Quiet(r)
  BY <1>6 DEF Respond, Quiet, RequestsOK, shared, history
<1>. QED BY <1>2, <1>3, <1>4, <1>5, <1>6

\* validate lets a login go on when its entry is not full, or is to be given up.
LEMMA ValidateKeeps ==
  ASSUME TableOK, RequestsOK, LoginInv, NEW r \in Req, AdminValidate(r)
  PROVE  LoginInv'
<1>0. /\ pc[r] = "request" /\ at[r] <= Len(Chain) /\ Plugin(r) # NoConf
      /\ Plugin(r).category = "admin" /\ pc[r] \notin LoginStep /\ DOMAIN seen = Req
  BY DEF AdminValidate, Calls, LoginStep, LoginInv
<1>1. CASE Pass(r) \/ Answer(r, 403)
  BY <1>0, <1>1, QuietEnds, QuietKeeps DEF Pass
<1>2. CASE ~(Pass(r) \/ Answer(r, 403))
  <2>. DEFINE ip == Address(r)
              p == Plugin(r)
              old == ip \in DOMAIN logins /\ Expired(p, logins[ip])
  <2>1. /\ pc' = [pc EXCEPT ![r] = IF old THEN "reset" ELSE "login"]
        /\ seen' = [seen EXCEPT ![r] = [conf |-> p, gen |-> Object(r)[2], limit |-> NoLimit]]
        /\ odd' = IF ip \in LoggingIn(Req \ {r}) THEN odd \cup {<<"login", ip>>} ELSE odd
        /\ UNCHANGED <<setup, plugins, clock, at, head, logins, fails>>
        /\ ip \in DOMAIN logins /\ ~old => ~Full(p, logins[ip])
    BY <1>2 DEF AdminValidate, Address, shared
  <2>2. Alone(r)
    BY <1>0, <2>1 DEF Alone, RequestsOK
  <2>3. ASSUME Even(Address(r))'
        PROVE  AddressOK(Address(r))'
    <3>1. <<"login", ip>> \notin odd' /\ Even(ip)
      BY <2>1, <2>3 DEF Even, Address
    <3>2. AddressOK(ip)
      BY <3>1 DEF LoginInv
    <3>3. \A s \in Req \ {r} : pc[s] \in LoginStep => Address(s) # ip
      BY <2>1, <3>1 DEF LoggingIn, LoginStep, Address
    <3>4. at[r] \in 1..Len(Chain) /\ Name(r) \in DOMAIN setup.start /\ IsAdmin(Name(r))
      BY <1>0, ChainLength DEF RequestsOK, Name, Plugin, IsAdmin
    <3>5. Limited(p) /\ Epochs(Fails(ip), Entry(ip), clock, p)
      BY <3>2, <3>4, OneAdmin DEF LoginInv, AddressOK, Plugin
    <3>6. Entry(ip).count \in Nat /\ (~old => Entry(ip).count < p.failLimit)
      <4>1. Entry(ip).count \in Nat /\ p.failLimit \in Nat /\ p.failLimit >= 1
        BY <3>5 DEF Epochs, Limited
      <4>2. CASE ip \in DOMAIN logins
        BY <2>1, <4>1, <4>2 DEF Full, Entry
      <4>3. CASE ip \notin DOMAIN logins
        BY <4>1, <4>3 DEF Entry, NoLimit
      <4>. QED BY <4>1, <4>2, <4>3
    <3>7. Works(r)'
      <4>1. /\ at'[r] = at[r] /\ Chain' = Chain /\ Name(r)' = Name(r) /\ Plugin(r)' = p
            /\ IsAdmin(Name(r))' /\ Address(r)' = ip /\ Entry(ip)' = Entry(ip)
        BY <2>1, <3>4 DEF Chain, Name, Plugin, IsAdmin, Address, Entry, NoLimit
      <4>2. seen'[r] = [conf |-> p, gen |-> Object(r)[2], limit |-> NoLimit]
            /\ Object(r)[2] = plugins[Name(r)].gen
        BY <1>0, <2>1 DEF Object
      <4>3. pc'[r] = IF old THEN "reset" ELSE "login"
        BY <2>1 DEF RequestsOK
      <4>4. old => Expired(p, Entry(ip))
        BY DEF Entry
      <4>. QED BY <2>1, <3>4, <3>6, <4>1, <4>2, <4>3, <4>4 DEF Works, Expired
    <3>8. Fails(ip)' = Fails(ip) /\ Entry(ip)' = Entry(ip)
      BY <2>1 DEF Fails, Entry, NoLimit, Address
    <3>. QED BY <2>1, <2>2, <3>2, <3>3, <3>4, <3>7, <3>8, AddressKeeps DEF AddressOK
  <2>. QED BY <2>2, <2>3, AloneKeeps
<1>. QED BY <1>1, <1>2

\* An entry that is put is that of the address, and of the plugin that is loaded; an
\* address whose entry is lost to a full table is odd.
LEMMA PutLogin ==
  ASSUME NEW r \in Req, NEW e, PutLimit(r, e), head' = head
  PROVE  /\ odd \subseteq odd'
         /\ \A ip : ip # Address(r) /\ <<"login", ip>> \notin odd' =>
              /\ ip \in DOMAIN logins' <=> ip \in DOMAIN logins
              /\ ip \in DOMAIN logins => logins'[ip] = logins[ip]
         /\ Object(r)[2] = seen[r].gen /\ <<"login", Address(r)>> \notin odd' =>
              Address(r) \in DOMAIN logins' /\ Entry(Address(r))' = e
<1>. DEFINE put == Put(logins, Address(r), e)
<1>1. CASE Object(r)[2] = seen[r].gen
  <2>1. Address(r)' = Address(r)
    BY DEF Address
  <2>2. /\ Address(r) \in DOMAIN put /\ put[Address(r)] = e
        /\ \A ip : ip # Address(r) => /\ ip \in DOMAIN put <=> ip \in DOMAIN logins
                                      /\ ip \in DOMAIN logins => put[ip] = logins[ip]
    BY DEF Put
  <2>. HIDE DEF put
  <2>3. CASE logins' = put /\ odd' = odd
    BY <2>1, <2>2, <2>3 DEF Entry
  <2>4. CASE \E lost \in DOMAIN put : logins' = Drop(put, lost) /\ odd' = odd \cup {<<"login", lost>>}
    <3>1. PICK lost \in DOMAIN put : logins' = Drop(put, lost) /\ odd' = odd \cup {<<"login", lost>>}
      BY <2>4
    <3>2. \A ip : <<"login", ip>> \notin odd' =>
            /\ ip \in DOMAIN logins' <=> ip \in DOMAIN put
            /\ ip \in DOMAIN put => logins'[ip] = put[ip]
      BY <3>1 DEF Drop
    <3>. QED BY <2>1, <2>2, <3>1, <3>2 DEF Entry
  <2>. QED BY <1>1, <2>3, <2>4 DEF PutLimit, Address, put
<1>2. CASE Object(r)[2] # seen[r].gen
  BY <1>2 DEF PutLimit
<1>. QED BY <1>1, <1>2

\* validate puts the entry it gives up.
LEMMA ResetKeeps ==
  ASSUME TableOK, RequestsOK, LoginInv, NEW r \in Req, AdminReset(r)
  PROVE  LoginInv'
<1>1. /\ pc[r] = "reset" /\ pc' = [pc EXCEPT ![r] = "login"] /\ PutLimit(r, NoLimit)
      /\ UNCHANGED <<setup, plugins, clock, at, head, seen, fails>>
      /\ pc[r] \in LoginStep
  BY DEF AdminReset, LoginStep
<1>2. Alone(r) /\ odd \subseteq odd'
  BY <1>1, PutLogin DEF Alone, RequestsOK
<1>3. ASSUME Even(Address(r))'
      PROVE  AddressOK(Address(r))'
  <2>. DEFINE ip == Address(r)
              p == Plugin(r)
  <2>1. Even(ip) /\ <<"login", ip>> \notin odd'
    BY <1>1, <1>2, <1>3 DEF Even, Address
  <2>2. /\ Works(r) /\ Name(r) \in DOMAIN setup.start /\ IsAdmin(Name(r)) /\ Limited(p)
        /\ Epochs(Fails(ip), Entry(ip), clock, p) /\ clock \in Nat
        /\ IsFiniteSet(Fails(ip)) /\ \A f \in Fails(ip) : f[3] \in 1..clock
    BY <1>1, <2>1, Working
  <2>3. Object(r)[2] = seen[r].gen /\ clock - Entry(ip).created > p.failTtl
    BY <1>1, <2>2 DEF Works, Object, Expired
  <2>4. ip \in DOMAIN logins' /\ Entry(ip)' = NoLimit /\ Address(r)' = ip
    BY <1>1, <2>1, <2>3, PutLogin DEF Address
  <2>5. Fails(ip)' = Fails(ip)
    BY <1>1, <2>4 DEF Fails
  <2>6. Epochs(Fails(ip), NoLimit, clock, p)
    BY <2>2, <2>3, EpochsReset
  <2>7. Works(r)'
    <3>1. /\ at'[r] = at[r] /\ Chain' = Chain /\ Name(r)' = Name(r) /\ Plugin(r)' = p
          /\ IsAdmin(Name(r))' /\ seen'[r] = seen[r] /\ plugins' = plugins
      BY <1>1, <2>2 DEF Chain, Name, Plugin, IsAdmin
    <3>2. pc'[r] = "login"
      BY <1>1 DEF RequestsOK
    <3>3. Entry(Address(r))'.count < p.failLimit
      BY <2>2, <2>4 DEF NoLimit, Limited
    <3>. QED BY <2>2, <3>1, <3>2, <3>3 DEF Works
  <2>8. /\ \A s \in Req \ {r} : pc[s] \in LoginStep => Address(s) # ip
        /\ \A n \in DOMAIN setup.start : IsAdmin(n) => n = Name(r)
    BY <1>1, <2>1, Working
  <2>9. \A n \in DOMAIN setup.start : IsAdmin(n) =>
          Epochs(Fails(ip)', Entry(ip)', clock, plugins[n].conf)
    BY <2>4, <2>5, <2>6, <2>8 DEF Plugin
  <2>. QED BY <1>2, <2>2, <2>4, <2>7, <2>8, <2>9, AddressKeeps
<1>. QED BY <1>2, <1>3, AloneKeeps

\* The credentials: the entry is read when they are wrong.
LEMMA CredentialsKeep ==
  ASSUME TableOK, RequestsOK, LoginInv, NEW r \in Req, AdminLogin(r)
  PROVE  LoginInv'
<1>1. pc[r] = "login" /\ pc[r] \in LoginStep /\ DOMAIN seen = Req
  BY DEF AdminLogin, LoginStep, LoginInv
<1>2. \/ /\ pc' = [pc EXCEPT ![r] = "logging"] /\ seen' = seen
         /\ UNCHANGED <<setup, plugins, clock, at, head, logins, fails, odd>>
      \/ /\ seen' = [seen EXCEPT ![r].limit = Entry(Address(r))] /\ pc' = [pc EXCEPT ![r] = "failed"]
         /\ UNCHANGED <<setup, plugins, clock, at, head, logins, fails, odd>>
  BY <1>1 DEF AdminLogin, Answer, Answered, AnsweredAfter, shared, history, Entry, Address
<1>3. UNCHANGED <<setup, plugins, clock, at, head, logins, fails, odd>>
  BY <1>2
<1>4. Alone(r)
  BY <1>1, <1>2 DEF Alone, RequestsOK
<1>5. ASSUME Even(Address(r))'
      PROVE  AddressOK(Address(r))'
  <2>. DEFINE ip == Address(r)
              p == Plugin(r)
  <2>1. Even(ip) /\ Address(r)' = ip
    BY <1>3, <1>5 DEF Even, Address
  <2>2. /\ Works(r) /\ AddressOK(ip) /\ Name(r) \in DOMAIN setup.start /\ IsAdmin(Name(r))
        /\ \A s \in Req \ {r} : pc[s] \in LoginStep => Address(s) # ip
    BY <1>1, <2>1, Working
  <2>3. Fails(ip)' = Fails(ip) /\ Entry(ip)' = Entry(ip)
    BY <1>3, <2>1 DEF Fails, Entry, NoLimit
  <2>4. ASSUME pc'[r] \in LoginStep
        PROVE  Works(r)'
    <3>1. pc'[r] = "failed" /\ seen' = [seen EXCEPT ![r].limit = Entry(ip)]
      BY <1>2, <2>4 DEF RequestsOK, LoginStep
    <3>2. DOMAIN seen[r] = {"conf", "gen", "limit"}
      BY <2>2 DEF Works
    <3>3. /\ DOMAIN seen'[r] = DOMAIN seen[r] /\ seen'[r].conf = seen[r].conf
          /\ seen'[r].gen = seen[r].gen /\ seen'[r].limit = Entry(ip)
      BY <1>1, <3>1, <3>2
    <3>4. /\ at'[r] = at[r] /\ Chain' = Chain /\ Name(r)' = Name(r) /\ Plugin(r)' = p
          /\ IsAdmin(Name(r))' /\ plugins' = plugins /\ Entry(Address(r))' = Entry(ip)
      BY <1>3, <2>1, <2>2, <2>3 DEF Chain, Name, Plugin, IsAdmin
    <3>. QED BY <1>1, <2>2, <3>1, <3>3, <3>4 DEF Works
  <2>5. /\ ip \in DOMAIN logins' \/ Fails(ip)' = {}
        /\ \A n \in DOMAIN setup.start : IsAdmin(n) =>
             Epochs(Fails(ip)', Entry(ip)', clock, plugins[n].conf)
    BY <1>3, <2>2, <2>3 DEF AddressOK
  <2>. QED BY <1>4, <2>2, <2>4, <2>5, AddressKeeps
<1>. QED BY <1>4, <1>5, AloneKeeps

\* inc puts the entry with one failure more.
LEMMA IncKeeps ==
  ASSUME TableOK, RequestsOK, LoginInv, NEW r \in Req, AdminInc(r)
  PROVE  LoginInv'
<1>. DEFINE e == seen[r].limit
            x == <<r, Address(r), clock>>
            next == [count |-> e.count + 1, created |-> IF e.created = 0 THEN clock ELSE e.created]
<1>1. /\ pc[r] = "failed" /\ pc' = [pc EXCEPT ![r] = "logging"] /\ PutLimit(r, next)
      /\ fails' = fails \cup {x} /\ seen' = [seen EXCEPT ![r] = None]
      /\ UNCHANGED <<setup, plugins, clock, at, head>> /\ pc[r] \in LoginStep /\ DOMAIN seen = Req
  BY DEF AdminInc, Answered, AnsweredAfter, LoginStep, LoginInv, Address
<1>. HIDE DEF next
<1>2. Alone(r) /\ odd \subseteq odd'
  BY <1>1, PutLogin DEF Alone, RequestsOK
<1>3. ASSUME Even(Address(r))'
      PROVE  AddressOK(Address(r))'
  <2>. DEFINE ip == Address(r)
              p == Plugin(r)
  <2>1. Even(ip) /\ <<"login", ip>> \notin odd'
    BY <1>1, <1>2, <1>3 DEF Even, Address
  <2>2. /\ Works(r) /\ Name(r) \in DOMAIN setup.start /\ IsAdmin(Name(r)) /\ Limited(p)
        /\ Epochs(Fails(ip), Entry(ip), clock, p) /\ clock \in Nat /\ clock >= 1
        /\ IsFiniteSet(Fails(ip)) /\ \A f \in Fails(ip) : f[3] \in 1..clock
    BY <1>1, <2>1, Working
  <2>3. Object(r)[2] = seen[r].gen /\ e = Entry(ip) /\ Entry(ip).count < p.failLimit
    BY <1>1, <2>2 DEF Works, Object
  <2>4. ip \in DOMAIN logins' /\ Entry(ip)' = next /\ Address(r)' = ip
    BY <1>1, <2>1, <2>3, PutLogin DEF Address
  <2>5. x[2] = ip /\ x[3] = clock
    OBVIOUS
  <2>6. Fails(ip)' = Fails(ip) \cup {x}
    BY <1>1, <2>4, <2>5 DEF Fails
  <2>7. Epochs(Fails(ip) \cup {x}, next, clock, p)
    BY <2>2, <2>3, <2>5, EpochsInc DEF next
  <2>8. /\ \A s \in Req \ {r} : pc[s] \in LoginStep => Address(s) # ip
        /\ \A n \in DOMAIN setup.start : IsAdmin(n) => n = Name(r)
    BY <1>1, <2>1, Working
  <2>9. \A n \in DOMAIN setup.start : IsAdmin(n) =>
          Epochs(Fails(ip)', Entry(ip)', clock, plugins[n].conf)
    BY <2>4, <2>6, <2>7, <2>8 DEF Plugin
  <2>10. pc'[r] \notin LoginStep
    BY <1>1 DEF RequestsOK, LoginStep
  <2>. QED BY <1>2, <2>2, <2>4, <2>8, <2>9, <2>10, AddressKeeps
<1>. QED BY <1>2, <1>3, AloneKeeps

-----------------------------------------------------------------------------
(* The other steps.                                                          *)

LEMMA GuardQuiet ==
  ASSUME RequestsOK, DOMAIN seen = Req, NEW r \in Req, Guard(r)
  PROVE  Quiet(r)
<1>0. pc[r] \notin LoginStep
  BY DEF Guard, BasicAuth, KeyAuth, JwtAuth, CombinedAuth, CsrfToken, Csrf,
         IpRestriction, UaRestriction, RefererRestriction, Calls, LoginStep
<1>1. \A s, h, c : Pass(r) \/ Answer(r, s) \/ Fail(r, s) \/ Rewrite(r, h, c) => Quiet(r)
  BY <1>0, QuietEnds DEF Pass
<1>2. CASE BasicAuth(r)
  BY <1>1, <1>2 DEF BasicAuth
<1>3. CASE KeyAuth(r)
  BY <1>1, <1>3 DEF KeyAuth
<1>4. CASE JwtAuth(r)
  BY <1>1, <1>4 DEF JwtAuth
<1>5. CASE CombinedAuth(r)
  BY <1>1, <1>5 DEF CombinedAuth
<1>6. CASE CsrfToken(r)
  <2>1. CASE Fail(r, 400)
    BY <1>1, <2>1
  <2>2. CASE ~Fail(r, 400)
    BY <1>0, <1>6, <2>2, QuietEnds DEF CsrfToken, Answered, history
  <2>. QED BY <2>1, <2>2
<1>7. CASE Csrf(r)
  BY <1>1, <1>7 DEF Csrf
<1>8. CASE IpRestriction(r)
  BY <1>1, <1>8 DEF IpRestriction
<1>9. CASE UaRestriction(r)
  BY <1>1, <1>9 DEF UaRestriction
<1>10. CASE RefererRestriction(r)
  BY <1>1, <1>10 DEF RefererRestriction
<1>. QED BY <1>2, <1>3, <1>4, <1>5, <1>6, <1>7, <1>8, <1>9, <1>10 DEF Guard

LEMMA TrafficQuiet ==
  ASSUME RequestsOK, DOMAIN seen = Req, NEW r \in Req, Traffic(r),
         ~AdminValidate(r), ~AdminReset(r), ~AdminLogin(r), ~AdminInc(r)
  PROVE  Quiet(r)
<1>0. pc[r] \notin LoginStep
  BY DEF Traffic, Redirect, Ping, Mock, Stats, Directory, RequestId, Cors, Compression,
         AcceptEncoding, Limit, CachePurge, CacheEnable, ImageOptim, Calls, LoginStep, RequestStep
<1>1. \A s, h, c : Pass(r) \/ Answer(r, s) \/ Fail(r, s) \/ Rewrite(r, h, c) => Quiet(r)
  BY <1>0, QuietEnds DEF Pass
<1>2. CASE Redirect(r)
  BY <1>1, <1>2 DEF Redirect
<1>3. CASE Ping(r)
  BY <1>1, <1>3 DEF Ping
<1>4. CASE Mock(r)
  BY <1>1, <1>4 DEF Mock
<1>5. CASE Stats(r)
  BY <1>1, <1>5 DEF Stats
<1>6. CASE Directory(r)
  <2>1. AnsweredAfter(r, 1, IgnoreResponse) /\ UNCHANGED <<head, ctx, shared, history, seen>> => Quiet(r)
    BY <1>0, QuietEnds DEF shared, history
  <2>2. Pass(r) \/ Answer(r, 200) \/ Answer(r, 400) \/ Answer(r, 404) \/ Answer(r, 500)
        \/ Fail(r, 400) => Quiet(r)
    BY <1>1
  <2>3. \/ Pass(r) \/ Answer(r, 200) \/ Answer(r, 400) \/ Answer(r, 404) \/ Answer(r, 500)
        \/ Fail(r, 400)
        \/ AnsweredAfter(r, 1, IgnoreResponse) /\ UNCHANGED <<head, ctx, shared, history, seen>>
    BY <1>6 DEF Directory
  <2>. QED BY <2>1, <2>2, <2>3
<1>7. CASE RequestId(r)
  BY <1>1, <1>7 DEF RequestId
<1>8. CASE Cors(r)
  BY <1>1, <1>8 DEF Cors
<1>9. CASE Compression(r)
  BY <1>1, <1>9 DEF Compression
<1>10. CASE AcceptEncoding(r)
  BY <1>1, <1>10 DEF AcceptEncoding
<1>11. CASE Limit(r)
  <2>1. ASSUME LimitInflight(r) \/ LimitRate(r)
        PROVE  Quiet(r)
    <3>1. UNCHANGED <<head, logins, seen, fails>> /\ odd \subseteq odd'
          /\ (AnsweredAfter(r, 0, 429) \/ Continue(r))
      BY <2>1 DEF LimitInflight, LimitRate, Answered, Continue, history
    <3>2. pc' = pc \/ pc' = [pc EXCEPT ![r] = "request"] \/ pc' = [pc EXCEPT ![r] = "logging"]
      BY <3>1 DEF AnsweredAfter, Continue
    <3>3. pc'[r] \notin LoginStep /\ \A s \in Req \ {r} : pc'[s] = pc[s]
      BY <1>0, <3>2 DEF RequestsOK, LoginStep
    <3>4. UNCHANGED <<setup, plugins, clock>> /\ \A s \in Req \ {r} : at'[s] = at[s]
      BY <3>1 DEF AnsweredAfter, Continue, RequestsOK
    <3>. QED BY <1>0, <3>1, <3>3, <3>4 DEF Quiet
  <2>. QED BY <1>1, <1>11, <2>1 DEF Limit
<1>12. CASE CachePurge(r)
  <2>1. PICK s : AnsweredAfter(r, 0, s)
    BY <1>12 DEF CachePurge, Answered
  <2>2. UNCHANGED <<head, logins, seen, fails, odd>>
    BY <1>12 DEF CachePurge, history
  <2>. QED BY <1>0, <2>1, <2>2, QuietEnds
<1>13. CASE CacheEnable(r)
  BY <1>1, <1>13 DEF CacheEnable
<1>14. CASE ImageOptim(r)
  BY <1>1, <1>14 DEF ImageOptim
<1>. QED BY <1>2, <1>3, <1>4, <1>5, <1>6, <1>7, <1>8, <1>9, <1>10, <1>11, <1>12, <1>13, <1>14
         DEF Traffic

LEMMA ResponseQuiet ==
  ASSUME RequestsOK, DOMAIN seen = Req, NEW r \in Req, Response(r)
  PROVE  Quiet(r)
<1>0. pc[r] \notin LoginStep
  BY DEF Response, JwtAuthResponse, CorsResponse, ImageOptimResponse, ResponseHeaders, SubFilter,
         Calls, LoginStep
<1>1. \A p, c : Respond(r, p, c) => Quiet(r)
  BY <1>0, QuietEnds
<1>2. \A s : Fail(r, s) => Quiet(r)
  BY <1>0, QuietEnds
<1>3. CASE JwtAuthResponse(r)
  BY <1>1, <1>2, <1>3 DEF JwtAuthResponse
<1>4. CASE CorsResponse(r)
  BY <1>1, <1>2, <1>4 DEF CorsResponse
<1>5. CASE ImageOptimResponse(r)
  BY <1>1, <1>2, <1>5 DEF ImageOptimResponse
<1>6. CASE ResponseHeaders(r)
  BY <1>1, <1>2, <1>6 DEF ResponseHeaders
<1>7. CASE SubFilter(r)
  BY <1>1, <1>2, <1>7 DEF SubFilter
<1>. QED BY <1>3, <1>4, <1>5, <1>6, <1>7 DEF Response

LEMMA ServerQuiet ==
  ASSUME RequestsOK, DOMAIN seen = Req, NEW r \in Req, Server(r) \/ Arrive(r)
  PROVE  Quiet(r)
<1>. USE DEF RequestsOK, Quiet, LoginStep, shared, history
<1>1. CASE Skip(r)
  BY <1>1 DEF Skip, PluginStep, RequestStep, ResponseStep
<1>2. CASE StepEnd(r)
  <2>1. PICK p : /\ Goto(r, p)
                 /\ p = CASE pc[r] = "early_request" -> "request"
                          [] pc[r] = "request" ->
                               IF ctx[r].caching THEN "lookup" ELSE "proxy_upstream"
                          [] pc[r] = "proxy_upstream" -> "upstream"
                          [] pc[r] = "upstream_response" -> "store"
                          [] pc[r] = "response" -> "body"
    BY <1>2 DEF StepEnd
  <2>2. pc[r] \in PluginStep
    BY <1>2 DEF StepEnd
  <2>3. p \notin LoginStep /\ pc[r] \notin LoginStep
    BY <2>1, <2>2 DEF PluginStep, RequestStep, ResponseStep
  <2>. HIDE DEF LoginStep
  <2>. QED BY <1>2, <2>1, <2>3 DEF StepEnd, Goto
<1>3. CASE Lookup(r)
  BY <1>3 DEF Lookup, Goto
<1>4. CASE Upstream(r)
  BY <1>4 DEF Upstream, Goto
<1>5. CASE UpstreamFail(r)
  BY <1>5 DEF UpstreamFail, Fail
<1>6. CASE Store(r)
  BY <1>6 DEF Store, Goto
<1>7. CASE Body(r)
  BY <1>7 DEF Body, Goto
<1>8. CASE Logging(r)
  BY <1>8 DEF Logging
<1>9. CASE Arrive(r)
  <2>1. \A s \in Req \ {r} : head'[s] = head[s]
    BY <1>9 DEF Arrive
  <2>. QED BY <1>9, <2>1 DEF Arrive, Goto
<1>. QED BY <1>1, <1>2, <1>3, <1>4, <1>5, <1>6, <1>7, <1>8, <1>9 DEF Server

\* Time passes: what is past its time stays so.
LEMMA TickLogins ==
  ASSUME TableOK, RequestsOK, LoginInv, Tick
  PROVE  LoginInv'
<1>1. clock \in Nat /\ clock' = clock + 1
      /\ UNCHANGED <<setup, plugins, pc, at, head, logins, seen, fails, odd>>
  BY DEF Tick, RequestsOK
<1>2. /\ \A n : IsAdmin(n)' = IsAdmin(n)
      /\ \A ip : Fails(ip)' = Fails(ip) /\ Entry(ip)' = Entry(ip) /\ Even(ip)' = Even(ip)
      /\ \A s : Address(s)' = Address(s)
  BY <1>1 DEF IsAdmin, Fails, Entry, NoLimit, Even, Address
<1>3. \A f \in fails' : f[3] \in 1..clock'
  BY <1>1 DEF LoginInv
<1>4. ASSUME NEW ip, Even(ip)'
      PROVE  AddressOK(ip)'
  <2>1. AddressOK(ip)
    BY <1>2, <1>4 DEF LoginInv
  <2>2. \A f \in Fails(ip) : f[3] \in 1..clock
    BY DEF LoginInv, Fails
  <2>3. ASSUME NEW n \in DOMAIN setup.start, IsAdmin(n)
        PROVE  Epochs(Fails(ip), Entry(ip), clock + 1, plugins[n].conf)
    BY <1>1, <2>1, <2>2, <2>3, OneAdmin, EpochsLater DEF AddressOK, LoginInv
  <2>4. ASSUME NEW r \in Req, pc[r] \in LoginStep, Address(r) = ip
        PROVE  Works(r)'
    <3>1. Works(r) /\ Even(Address(r))
      BY <1>2, <1>4, <2>1, <2>4 DEF AddressOK
    <3>2. Entry(ip).created \in Nat /\ Plugin(r).failTtl \in Nat
      BY <2>4, <3>1, Working DEF Epochs, Limited
    <3>3. Expired(Plugin(r), Entry(ip)) => Expired(Plugin(r), Entry(ip))'
      <4>1. Plugin(r)' = Plugin(r)
        BY <1>1 DEF Plugin, Name, Chain
      <4>. QED BY <1>1, <1>2, <3>2, <4>1 DEF Expired
    <3>. QED BY <1>1, <1>2, <2>4, <3>1, <3>3 DEF Works, Name, Chain, Plugin
  <2>. QED BY <1>1, <1>2, <2>1, <2>3, <2>4 DEF AddressOK
<1>. QED BY <1>1, <1>3, <1>4 DEF LoginInv, FromTables

\* A reload that touches the admin plugin gives its failures up, and every address that
\* has some, or is about to, is odd from then on.
LEMMA ReloadLogins ==
  ASSUME IInv, LoginInv, Reload
  PROVE  LoginInv'
<1>0. TableOK /\ RequestsOK /\ DOMAIN plugins = DOMAIN setup.start
  BY DEF IInv, TableOK
<1>1. PICK t \in setup.tables : TryInitPlugins(t)
  BY DEF Reload
<1>2. UNCHANGED <<setup, clock, pc, at, head, seen, fails>>
  BY <1>1 DEF TryInitPlugins
<1>. DEFINE changed == {n \in DOMAIN setup.start : plugins[n].conf # t[n]}
            fresh == {n \in changed : Loaded(t[n])}
            admin == {n \in changed : plugins[n].conf # NoConf
                                      /\ plugins[n].conf.category = "admin"}
<1>3. /\ plugins' = [n \in DOMAIN setup.start |->
                       IF n \in fresh THEN [conf |-> t[n], gen |-> gens[n] + 1]
                       ELSE IF n \in changed THEN [conf |-> NoConf, gen |-> 0]
                       ELSE plugins[n]]
      /\ logins' = IF admin # {} THEN <<>> ELSE logins
      /\ odd' = IF admin = {} THEN odd
                ELSE odd \cup {<<"login", ip>> : ip \in DOMAIN logins \cup LoggingIn(Req)}
  <2>1. DOMAIN plugins = DOMAIN setup.start
    BY <1>0
  <2>. QED BY <1>1, <2>1 DEF TryInitPlugins, Names
<1>a. /\ \A n : n \in changed <=> n \in DOMAIN setup.start /\ plugins[n].conf # t[n]
      /\ fresh \subseteq changed
      /\ \A n : n \in admin <=> n \in changed /\ IsAdmin(n)
  BY DEF IsAdmin
<1>. HIDE DEF changed, fresh, admin
<1>4. FromTables'
  <2>1. ASSUME NEW n \in DOMAIN setup.start, plugins'[n].conf # NoConf
        PROVE  \E q \in setup.tables \cup {setup.start} : plugins'[n].conf = q[n]
    <3>1. CASE n \in fresh
      BY <1>0, <1>3, <1>a, <3>1
    <3>2. CASE n \in changed \ fresh
      BY <1>0, <1>3, <1>a, <2>1, <3>2
    <3>3. CASE n \notin changed
      BY <1>0, <1>3, <1>a, <2>1, <3>3 DEF LoginInv, FromTables
    <3>. QED BY <1>0, <1>3, <1>a, <3>1, <3>2, <3>3
  <2>. QED BY <1>2, <2>1 DEF FromTables
<1>5. \A ip : Even(ip)' => Even(ip)
  BY <1>3 DEF Even
<1>6. \A ip : Fails(ip)' = Fails(ip) /\ \A s : Address(s)' = Address(s)
  BY <1>2 DEF Fails, Address
<1>7. TableOK'
  BY ReloadKeeps DEF IInv
<1>8. ASSUME NEW ip, Fails(ip) = {}, ip \notin DOMAIN logins',
             \A r \in Req : pc[r] \in LoginStep => Address(r) # ip
      PROVE  AddressOK(ip)'
  <2>1. ASSUME NEW n \in DOMAIN setup.start, IsAdmin(n)'
        PROVE  Epochs(Fails(ip), Entry(ip), clock, plugins[n].conf)'
    <3>1. Limited(plugins'[n].conf)
      BY <1>2, <1>7, <2>1 DEF TableOK, Numbers, IsAdmin, Limited
    <3>2. Entry(ip)' = NoLimit /\ Fails(ip)' = {}
      BY <1>6, <1>8 DEF Entry, NoLimit
    <3>. QED BY <3>1, <3>2, EpochsNone
  <2>. QED BY <1>2, <1>6, <1>8, <2>1 DEF AddressOK
<1>9. ASSUME NEW ip, Even(ip)'
      PROVE  AddressOK(ip)'
  <2>1. AddressOK(ip)
    BY <1>5, <1>9 DEF LoginInv
  <2>2. CASE admin # {}
    <3>1. ip \notin DOMAIN logins /\ ip \notin LoggingIn(Req)
      BY <1>0, <1>3, <1>a, <1>9, <2>2 DEF Even
    <3>2. Fails(ip) = {} /\ ip \notin DOMAIN logins'
      BY <1>0, <1>3, <1>a, <2>1, <2>2, <3>1 DEF AddressOK
    <3>3. \A r \in Req : pc[r] \in LoginStep => Address(r) # ip
      BY <3>1 DEF LoggingIn, LoginStep, Address
    <3>. QED BY <1>8, <3>2, <3>3
  <2>3. CASE admin = {} /\ \A n \in DOMAIN setup.start : ~IsAdmin(n)
    <3>1. Fails(ip) = {} /\ ip \notin DOMAIN logins'
      BY <1>0, <1>3, <1>a, <2>1, <2>3 DEF AddressOK
    <3>2. ASSUME NEW r \in Req, pc[r] \in LoginStep, Address(r) = ip
          PROVE  FALSE
      <4>1. IsAdmin(Name(r)) /\ Name(r) \in DOMAIN setup.start
        BY <1>0, <1>5, <1>9, <3>2, Working
      <4>. QED BY <2>3, <4>1
    <3>. QED BY <1>8, <3>1, <3>2
  <2>4. CASE admin = {} /\ \E n \in DOMAIN setup.start : IsAdmin(n)
    <3>1. PICK m \in DOMAIN setup.start : IsAdmin(m)
      BY <2>4
    <3>2. plugins'[m] = plugins[m] /\ IsAdmin(m)'
      BY <1>0, <1>3, <1>a, <2>4, <3>1 DEF IsAdmin
    <3>3. \A n \in DOMAIN setup.start : IsAdmin(n) \/ IsAdmin(n)' => n = m
      <4>1. \A n \in DOMAIN setup.start : IsAdmin(n) => n = m
        BY <1>0, <3>1, OneAdmin DEF LoginInv
      <4>2. \A n \in DOMAIN setup.start : IsAdmin(n)' => n \in Admins(setup)
        BY <1>2, <1>4 DEF FromTables, IsAdmin, Admins
      <4>3. m \in Admins(setup)
        BY <3>2, <4>2
      <4>. QED BY <1>0, <4>1, <4>2, <4>3, ChainAssumption DEF TableOK
    <3>4. logins' = logins /\ Entry(ip)' = Entry(ip)
      BY <1>0, <1>3, <1>a, <2>4 DEF Entry, NoLimit
    <3>5. ASSUME NEW r \in Req, pc[r] \in LoginStep, Address(r) = ip
          PROVE  Works(r)'
      <4>1. Works(r) /\ Name(r) = m
        BY <1>0, <1>5, <1>9, <3>3, <3>5, Working
      <4>2. Name(r)' = m /\ Plugin(r)' = Plugin(r) /\ Chain' = Chain /\ Address(r)' = ip
        BY <1>2, <3>2, <3>5, <4>1 DEF Name, Plugin, Chain, Address
      <4>. QED BY <1>2, <3>2, <3>4, <3>5, <4>1, <4>2 DEF Works, Expired
    <3>6. \A n \in DOMAIN setup'.start :
            IsAdmin(n)' => Epochs(Fails(ip)', Entry(ip)', clock', plugins'[n].conf)
      BY <1>2, <1>6, <2>1, <3>1, <3>2, <3>3, <3>4 DEF AddressOK
    <3>. QED BY <1>2, <1>6, <2>1, <3>1, <3>2, <3>4, <3>5, <3>6 DEF AddressOK
  <2>. QED BY <2>2, <2>3, <2>4
<1>. QED BY <1>2, <1>4, <1>9 DEF LoginInv

LEMMA InitLogins ==
  ASSUME Init
  PROVE  LoginInv
<1>1. TableOK
  BY InitIInv DEF IInv
<1>2. FromTables /\ DOMAIN seen = Req
  BY DEF Init, FromTables
<1>3. IsFiniteSet(fails) /\ \A f \in fails : f[3] \in 1..clock
  BY FS_EmptySet DEF Init
<1>4. ASSUME NEW ip
      PROVE  AddressOK(ip)
  <2>1. Fails(ip) = {} /\ Entry(ip) = NoLimit /\ ip \notin DOMAIN logins
    BY DEF Init, Fails, Entry
  <2>2. \A n \in DOMAIN setup.start : IsAdmin(n) =>
          Epochs(Fails(ip), Entry(ip), clock, plugins[n].conf)
    BY <1>1, <1>2, <2>1, OneAdmin, EpochsNone
  <2>3. \A r \in Req : pc[r] \notin LoginStep
    BY DEF Init, LoginStep
  <2>. QED BY <2>1, <2>2, <2>3 DEF AddressOK
<1>. QED BY <1>2, <1>3, <1>4 DEF LoginInv

LEMMA NextLogins ==
  ASSUME IInv, LoginInv, [Next]_vars
  PROVE  LoginInv'
<1>0. TableOK /\ RequestsOK /\ DOMAIN seen = Req
  BY DEF IInv, LoginInv
<1>1. ASSUME NEW r \in Req, Arrive(r) \/ Serve(r)
      PROVE  LoginInv'
  <2>1. CASE AdminValidate(r)
    BY <1>0, <2>1, ValidateKeeps
  <2>2. CASE AdminReset(r)
    BY <1>0, <2>2, ResetKeeps
  <2>3. CASE AdminLogin(r)
    BY <1>0, <2>3, CredentialsKeep
  <2>4. CASE AdminInc(r)
    BY <1>0, <2>4, IncKeeps
  <2>5. CASE ~(AdminValidate(r) \/ AdminReset(r) \/ AdminLogin(r) \/ AdminInc(r))
    <3>1. Quiet(r)
      BY <1>0, <1>1, <2>5, GuardQuiet, TrafficQuiet, ResponseQuiet, ServerQuiet DEF Serve
    <3>. QED BY <3>1, QuietKeeps
  <2>. QED BY <2>1, <2>2, <2>3, <2>4, <2>5
<1>2. CASE Tick
  BY <1>0, <1>2, TickLogins
<1>3. CASE Reload
  BY <1>3, ReloadLogins
<1>4. CASE UNCHANGED vars
  <2>1. UNCHANGED <<setup, plugins, clock, pc, at, head, logins, seen, fails, odd>>
    BY <1>4 DEF vars
  <2>2. /\ \A n : IsAdmin(n)' = IsAdmin(n)
        /\ \A ip : Fails(ip)' = Fails(ip) /\ Entry(ip)' = Entry(ip) /\ Even(ip)' = Even(ip)
        /\ \A s : Address(s)' = Address(s)
    BY <2>1 DEF IsAdmin, Fails, Entry, NoLimit, Even, Address
  <2>3. \A s \in Req : Works(s)' = Works(s)
    BY <2>1, <2>2 DEF Works, Name, Plugin, Chain, Expired
  <2>4. \A ip : AddressOK(ip)' = AddressOK(ip)
    BY <2>1, <2>2, <2>3 DEF AddressOK
  <2>. QED BY <2>1, <2>2, <2>4 DEF LoginInv, FromTables
<1>. QED BY <1>1, <1>2, <1>3, <1>4 DEF Next

\* The invariant of the failed logins holds in every behaviour, for every address whose
\* entry the table has not lost (TtlLruLimit).
THEOREM LoginInvariance == Spec => []LoginInv
<1>1. Init => IInv /\ LoginInv
  BY InitIInv, InitLogins
<1>2. (IInv /\ LoginInv) /\ [Next]_vars => (IInv /\ LoginInv)'
  BY NextKeeps, NextLogins
<1>. QED BY <1>1, <1>2, PTL DEF Spec

\* The admin plugin answers less than twice ip_fail_limit wrong logins of an address within
\* the time of the limit (TtlLruLimit::validate and inc), for any limits, addresses and
\* number of requests and any size of the table, unless logins of the address overlapped, the
\* full table has lost its entry or the plugin was reloaded.
THEOREM LoginLimit == Spec => []LoginBound
<1>1. ASSUME IInv, LoginInv
      PROVE  LoginBound
  <2>1. SUFFICES ASSUME NEW n \in DOMAIN setup.start, IsAdmin(n), NEW ip, Even(ip)
                 PROVE  Cardinality({f \in fails : f[2] = ip /\ clock - f[3] <= plugins[n].conf.failTtl})
                          <= 2 * plugins[n].conf.failLimit - 1
    BY <1>1 DEF LoginBound, Names, IInv, TableOK, IsAdmin, Even
  <2>2. Limited(plugins[n].conf) /\ Epochs(Fails(ip), Entry(ip), clock, plugins[n].conf)
    BY <1>1, <2>1, OneAdmin DEF LoginInv, AddressOK, IInv
  <2>3. IsFiniteSet(Fails(ip)) /\ \A f \in Fails(ip) : f[3] \in 1..clock
    BY <1>1, FS_Subset DEF LoginInv, Fails
  <2>4. clock \in Nat
    BY <1>1 DEF IInv, RequestsOK
  <2>5. {f \in fails : f[2] = ip /\ clock - f[3] <= plugins[n].conf.failTtl}
          = {f \in Fails(ip) : clock - f[3] <= plugins[n].conf.failTtl}
    BY DEF Fails
  <2>. QED BY <2>2, <2>3, <2>4, <2>5, EpochsBound
<1>. QED BY <1>1, ChainInvariance, LoginInvariance, PTL
=============================================================================
