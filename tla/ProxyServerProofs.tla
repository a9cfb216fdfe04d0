------------------------- MODULE ProxyServerProofs -------------------------
(***************************************************************************)
(* Proofs about ProxyServer for any finite set of requests, any locations, *)
(* upstreams and configurations, and any number of reloads.                *)
(***************************************************************************)
EXTENDS ProxyServer, FiniteSetTheorems, SequenceTheorems, TLAPS

Shape == TypeOK /\ HeapOK /\ ControlOK

\* Startup leaves the maps, the objects and the contexts well formed.
LEMMA InitShape == Init => Shape
<1>. USE ConstAssumption DEF Init, Shape
<1>. SUFFICES ASSUME Init PROVE Shape
  OBVIOUS
<1>1. TypeOK
  <2>1. PICK t \in LocTable :
          /\ locMap = [n \in LocName |-> IF t[n] = NoConf THEN 0 ELSE 1]
          /\ locConf = [o \in Loc |-> IF o[2] = 1 THEN t[o[1]] ELSE NoConf]
    OBVIOUS
  <2>2. PICK ut \in UpTable :
          /\ upMap = [n \in UpName |-> IF ut[n] = NoConf THEN 0 ELSE 1]
          /\ upConf = [o \in Up |-> IF o[2] = 1 THEN ut[o[1]] ELSE NoConf]
    OBVIOUS
  <2>3. locMap \in [LocName -> 0..MaxGen] /\ upMap \in [UpName -> 0..MaxGen]
    BY <2>1, <2>2
  <2>4. locConf \in [Loc -> LocConf \cup {NoConf}]
    BY <2>1 DEF Loc
  <2>5. upConf \in [Up -> UpConf \cup {NoConf}]
    BY <2>2 DEF Up
  <2>6. QED
    BY <2>3, <2>4, <2>5 DEF TypeOK, MapTypeOK, CounterTypeOK, RequestTypeOK, Phase
<1>2. HeapOK
  BY DEF HeapOK, Loc, Up, LocOf
<1>3. ControlOK
  BY DEF ControlOK
<1>. QED
  BY <1>1, <1>2, <1>3


-----------------------------------------------------------------------------
\* Every step of a request keeps Shape.
LEMMA AcceptShape ==
  ASSUME Shape, NEW r \in Req, Accept(r)
  PROVE  Shape'
<1>. USE DEF Shape, TypeOK
<1>1. /\ UNCHANGED <<serverList, locMap, locLast, locConf, upMap, upLast, upConf>>
      /\ UNCHANGED <<processing, upProcessing, drifted, upDrifted>>
      /\ UNCHANGED <<current, location, upstream, status, attempts>>
  BY DEF Accept, mapVars, locVars, upVars, history
<1>2. MapTypeOK' /\ HeapOK'
  BY <1>1 DEF MapTypeOK, HeapOK, LocOf
<1>3. CounterTypeOK'
  BY <1>1 DEF Accept, CounterTypeOK
<1>4. RequestTypeOK'
  <2>1. PICK i \in Input : input' = [input EXCEPT ![r] = i]
    BY DEF Accept
  <2>2. PICK p \in {"request", "scan"} : pc' = [pc EXCEPT ![r] = p]
    BY DEF Accept, Goto
  <2>3. names' \in [Req -> Seq(LocName)]
    BY DEF Accept, RequestTypeOK, MapTypeOK
  <2>. QED BY <1>1, <2>1, <2>2, <2>3 DEF RequestTypeOK, Phase
<1>5. ControlOK'
  <2>2. PICK p \in {"request", "scan"} : pc' = [pc EXCEPT ![r] = p]
    BY DEF Accept, Goto
  <2>3. pc[r] = "idle"
    BY DEF Accept
  <2>. QED BY <1>1, <2>2, <2>3 DEF ControlOK, RequestTypeOK
<1>. QED BY <1>1, <1>2, <1>3, <1>4, <1>5

\* A step that only moves a request on and perhaps decides its status keeps its
\* context well formed when the conditions of ControlOK hold at the new point.
LEMMA MoveCtx ==
  ASSUME Shape, NEW r \in Req, NEW p \in Phase \ {"idle", "scan", "done"},
         pc' = [pc EXCEPT ![r] = p],
         status' \in [Req -> Nat], \A q \in Req \ {r} : status'[q] = status[q],
         UNCHANGED ctxVars, UNCHANGED locConf,
         p = "charge" => current[r] # None /\ location[r] = None,
         p \in {"charge", "request"} => upstream[r] = None,
         p \in {"peer", "proxying"} => location[r] # None,
         p = "proxying" => upstream[r] # None,
         status'[r] = 429 => p \in {"fail", "logging"} /\ upstream[r] = None
  PROVE  RequestTypeOK' /\ ControlOK'
<1>1. UNCHANGED <<input, names, current, location, upstream, attempts, locConf>>
  BY DEF ctxVars
<1>2. RequestTypeOK'
  BY <1>1 DEF RequestTypeOK, Shape, TypeOK, Phase
<1>3. ControlOK'
  BY <1>1 DEF ControlOK, RequestTypeOK, Shape, TypeOK, Phase
<1>. QED BY <1>2, <1>3

\* The loop over the location names, and its end, keep Shape.
LEMMA ScanShape ==
  ASSUME Shape, NEW r \in Req, ScanNext(r)
  PROVE  Shape'
<1>. USE DEF Shape, TypeOK
<1>. DEFINE n == Head(names[r])
<1>1. /\ UNCHANGED <<serverList, locMap, locLast, locConf, upMap, upLast, upConf>>
      /\ UNCHANGED <<processing, upProcessing, serverProcessing, drifted, upDrifted>>
      /\ UNCHANGED <<input, upstream, status, attempts>>
      /\ names' = [names EXCEPT ![r] = Tail(names[r])]
      /\ pc[r] = "scan"
  BY DEF ScanNext, mapVars, locVars, upVars, counters, history
<1>2. n \in LocName /\ Tail(names[r]) \in Seq(LocName)
  BY HeadTailProperties DEF ScanNext, RequestTypeOK
<1>3. MapTypeOK' /\ CounterTypeOK' /\ HeapOK'
  BY <1>1 DEF MapTypeOK, CounterTypeOK, HeapOK, LocOf
<1>4. CASE ~HasLocation(n)
  <2>1. UNCHANGED <<current, location, pc>>
    BY <1>4 DEF ScanNext
  <2>. QED BY <1>1, <1>2, <1>3, <2>1 DEF RequestTypeOK, ControlOK
<1>5. CASE HasLocation(n)
  <2>1. LocOf(n) \in Loc /\ LocOf(n) # None /\ locConf[LocOf(n)] \in LocConf
    BY <1>2, <1>5, ConstAssumption DEF HasLocation, LocOf, Loc, MapTypeOK, HeapOK
  <2>2. current' = [current EXCEPT ![r] = LocOf(n)]
    BY <1>5 DEF ScanNext
  <2>3. PICK l \in LocName \cup {None} : location' = [location EXCEPT ![r] = l]
    BY <1>2, <1>5 DEF ScanNext, RequestTypeOK
  <2>4. PICK p \in {"scan", "charge"} : pc' = [pc EXCEPT ![r] = p]
    BY <1>1, <1>2, <1>5 DEF ScanNext, RequestTypeOK, Goto
  <2>5. /\ p = "scan" => location' = location
        /\ p = "charge" => location'[r] = LocOf(n)[1]
    BY <1>1, <1>5, <2>4 DEF ScanNext, RequestTypeOK, Goto, LocOf
  <2>6. RequestTypeOK'
    BY <1>1, <1>2, <2>1, <2>2, <2>3, <2>4 DEF RequestTypeOK, Phase
  <2>7. ControlOK'
    BY <1>1, <2>1, <2>2, <2>3, <2>4, <2>5 DEF RequestTypeOK, ControlOK
  <2>. QED BY <1>1, <1>3, <2>6, <2>7
<1>. QED BY <1>4, <1>5

\* The steps that touch no shared state.
LEMMA LocalShape ==
  ASSUME Shape, NEW r \in Req,
         \/ ScanEnd(r) \/ RequestFilter(r) \/ NoUpstream(r) \/ BodyTooLarge(r)
         \/ UpstreamAnswer(r) \/ UpstreamError(r) \/ FailToProxy(r)
  PROVE  Shape'
<1>1. Local(r)
  BY DEF ScanEnd, RequestFilter, RequestFilterAnswer, LocationNotFound,
     RequestFilterContinue, RequestFilterError, NoUpstream, BodyTooLarge,
     UpstreamAnswer, UpstreamError, FailToProxy
<1>2. /\ UNCHANGED <<serverList, locMap, locLast, locConf, upMap, upLast, upConf>>
      /\ UNCHANGED <<processing, upProcessing, serverProcessing, drifted, upDrifted>>
      /\ UNCHANGED ctxVars
  BY <1>1 DEF Local, mapVars, locVars, upVars, counters, history
<1>3. MapTypeOK' /\ CounterTypeOK' /\ HeapOK' /\ (drifted \subseteq LocName)' /\ (upDrifted \subseteq UpName)'
  BY <1>2 DEF Shape, TypeOK, MapTypeOK, CounterTypeOK, HeapOK, LocOf
<1>4. status \in [Req -> Nat]
  BY DEF Shape, TypeOK, RequestTypeOK
<1>5. RequestTypeOK' /\ ControlOK'
  <2>1. CASE ScanEnd(r)
    <3>. DEFINE p == IF current[r] = None THEN "request" ELSE "charge"
    <3>1. pc' = [pc EXCEPT ![r] = p] /\ status' = status /\ pc[r] = "scan"
      BY <2>1 DEF ScanEnd, Goto
    <3>2. p \in Phase \ {"idle", "scan", "done"} BY DEF Phase
    <3>3. upstream[r] = None /\ location[r] = None /\ status[r] # 429
      BY <3>1 DEF Shape, ControlOK
    <3>4. p = "charge" => current[r] # None OBVIOUS
    <3>5. p \notin {"peer", "proxying"} OBVIOUS
    <3>. HIDE DEF p
    <3>. QED BY <1>2, <1>4, <3>1, <3>2, <3>3, <3>4, <3>5, MoveCtx
  <2>2. CASE RequestFilter(r)
    <3>1. pc[r] = "request"
      BY <2>2 DEF RequestFilter, RequestFilterAnswer, LocationNotFound,
         RequestFilterContinue, RequestFilterError
    <3>2. upstream[r] = None /\ status[r] # 429 BY <3>1 DEF Shape, ControlOK
    <3>3. \/ \E p \in {"logging", "fail"} : pc' = [pc EXCEPT ![r] = p]
          \/ pc' = [pc EXCEPT ![r] = "peer"] /\ location[r] # None
      BY <2>2 DEF RequestFilter, RequestFilterAnswer, LocationNotFound,
         RequestFilterContinue, RequestFilterError, Goto, HasLocation
    <3>4. /\ status' \in [Req -> Nat] /\ status'[r] # 429
          /\ \A q \in Req \ {r} : status'[q] = status[q]
      BY <1>4, <2>2, <3>2 DEF RequestFilter, RequestFilterAnswer, LocationNotFound,
         RequestFilterContinue, RequestFilterError, Status
    <3>. QED BY <1>2, <3>2, <3>3, <3>4, MoveCtx DEF Phase
  <2>3. CASE NoUpstream(r) \/ BodyTooLarge(r) \/ UpstreamAnswer(r) \/ UpstreamError(r)
    <3>1. \E p \in {"logging", "fail"} : pc' = [pc EXCEPT ![r] = p]
      BY <2>3 DEF NoUpstream, BodyTooLarge, UpstreamAnswer, UpstreamError, Goto
    <3>2. /\ status' \in [Req -> Nat] /\ status'[r] # 429
          /\ \A q \in Req \ {r} : status'[q] = status[q]
      BY <1>4, <2>3 DEF NoUpstream, BodyTooLarge, UpstreamAnswer, UpstreamError, Status
    <3>. QED BY <1>2, <3>1, <3>2, MoveCtx DEF Phase
  <2>4. CASE FailToProxy(r)
    <3>1. pc' = [pc EXCEPT ![r] = "logging"] /\ status' = status
      BY <2>4 DEF FailToProxy, Goto
    <3>2. status[r] = 429 => upstream[r] = None BY DEF Shape, ControlOK
    <3>. QED BY <1>2, <1>4, <3>1, <3>2, MoveCtx DEF Phase
  <2>. QED BY <2>1, <2>2, <2>3, <2>4
<1>. QED BY <1>3, <1>5 DEF Shape, TypeOK

\* The steps that count in and out.
LEMMA CountShape ==
  ASSUME Shape, NEW r \in Req,
         TooLarge(r) \/ AddProcessing(r) \/ UpstreamPeer(r) \/ Retry(r) \/ Logging(r)
  PROVE  Shape'
<1>1. CASE TooLarge(r)
  <2>1. /\ UNCHANGED <<serverList, locMap, locLast, locConf, upMap, upLast, upConf>>
        /\ UNCHANGED <<processing, upProcessing, serverProcessing, upDrifted>>
        /\ UNCHANGED ctxVars
        /\ pc' = [pc EXCEPT ![r] = "fail"]
        /\ drifted' = drifted \cup ({location[r]} \ {None})
    BY <1>1 DEF TooLarge, mapVars, locVars, upVars, counters, Goto, Status
  <2>2. RequestTypeOK' /\ ControlOK'
    <3>1. /\ status' \in [Req -> Nat] /\ status'[r] # 429
          /\ \A q \in Req \ {r} : status'[q] = status[q]
      BY <1>1 DEF TooLarge, Status, Shape, TypeOK, RequestTypeOK
    <3>. QED BY <2>1, <3>1, MoveCtx DEF Phase
  <2>3. HeapOK' BY <2>1 DEF Shape, HeapOK, LocOf
  <2>4. MapTypeOK' /\ CounterTypeOK'
    BY <2>1 DEF Shape, TypeOK, MapTypeOK, CounterTypeOK
  <2>5. (drifted \subseteq LocName)' /\ (upDrifted \subseteq UpName)'
    BY <2>1 DEF Shape, TypeOK, RequestTypeOK
  <2>. QED
    BY <2>2, <2>3, <2>4, <2>5 DEF Shape, TypeOK
<1>2. CASE AddProcessing(r)
  <2>1. /\ UNCHANGED <<serverList, locMap, locLast, locConf, upMap, upLast, upConf>>
        /\ UNCHANGED <<upProcessing, serverProcessing, upDrifted>>
        /\ UNCHANGED ctxVars
        /\ processing' = [processing EXCEPT ![current[r]] = processing[current[r]] + 1]
        /\ drifted' = IF location[r] = None THEN drifted \cup {current[r][1]} ELSE drifted
        /\ pc[r] = "charge"
    BY <1>2 DEF AddProcessing, mapVars, locVars, upVars
  <2>2. upstream[r] = None /\ status[r] # 429
    BY <2>1 DEF Shape, ControlOK
  <2>3. /\ status' \in [Req -> Nat] /\ \A q \in Req \ {r} : status'[q] = status[q]
        /\ \E p \in {"fail", "request"} : pc' = [pc EXCEPT ![r] = p]
        /\ pc'[r] = "request" => status'[r] = status[r]
    <3>1. \/ Goto(r, "fail") /\ Status(r, 429)
          \/ Goto(r, "fail") /\ Status(r, 500)
          \/ Goto(r, "request") /\ UNCHANGED status
      BY <1>2 DEF AddProcessing
    <3>2. pc \in [Req -> Phase] /\ status \in [Req -> Nat]
      BY DEF Shape, TypeOK, RequestTypeOK
    <3>. QED BY <3>1, <3>2 DEF Goto, Status
  <2>4. RequestTypeOK' /\ ControlOK'
    <3>1. pc'[r] = "request" => status'[r] # 429
      BY <2>2, <2>3
    <3>2. PICK p \in {"fail", "request"} : pc' = [pc EXCEPT ![r] = p]
      BY <2>3
    <3>3. p = pc'[r]
      BY <3>2 DEF Shape, TypeOK, RequestTypeOK
    <3>4. p \in Phase \ {"idle", "scan", "done"} /\ p \notin {"charge", "peer", "proxying"}
      BY DEF Phase
    <3>. QED BY <2>1, <2>2, <2>3, <3>1, <3>2, <3>3, <3>4, MoveCtx
  <2>5. current[r] \in Loc /\ current[r][1] \in LocName
    BY <2>1 DEF Shape, ControlOK, TypeOK, RequestTypeOK, Loc
  <2>6. processing' \in [Loc -> Int]
    BY <2>1, <2>5 DEF Shape, TypeOK, CounterTypeOK
  <2>7. \A o \in Loc : o[2] > locLast[o[1]] => o # current[r]
    <3>1. locConf[current[r]] \in LocConf
      BY <2>1 DEF Shape, ControlOK
    <3>. QED BY <2>5, <3>1, ConstAssumption DEF Shape, HeapOK
  <2>8. HeapOK'
    BY <2>1, <2>5, <2>6, <2>7 DEF Shape, HeapOK, LocOf, TypeOK, CounterTypeOK
  <2>9. MapTypeOK' /\ CounterTypeOK'
    BY <2>1, <2>6 DEF Shape, TypeOK, MapTypeOK, CounterTypeOK
  <2>10. (drifted \subseteq LocName)' /\ (upDrifted \subseteq UpName)'
    BY <2>1, <2>5 DEF Shape, TypeOK
  <2>. QED
    BY <2>4, <2>8, <2>9, <2>10 DEF Shape, TypeOK
<1>3. CASE UpstreamPeer(r)
  <2>1. /\ UNCHANGED <<serverList, locMap, locLast, locConf, upMap, upLast, upConf>>
        /\ UNCHANGED <<processing, serverProcessing, drifted, upDrifted>>
        /\ UNCHANGED <<input, names, current, location, attempts>>
        /\ pc[r] = "peer" /\ HasLocation(location[r])
    BY <1>3 DEF UpstreamPeer, NewHttpPeer, mapVars, locVars, upVars, history
  <2>2. PICK u \in locConf[LocOf(location[r])].upstreams :
          /\ HasUpstream(u)
          /\ upProcessing' = [upProcessing EXCEPT ![UpOf(u)] = upProcessing[UpOf(u)] + 1]
          /\ upstream' = [upstream EXCEPT ![r] = u]
    BY <1>3 DEF UpstreamPeer, NewHttpPeer
  <2>3. u \in UpName /\ u # None
    <3>1. location[r] \in LocName /\ locConf[LocOf(location[r])] \in LocConf
      BY <2>1 DEF Shape, HeapOK, TypeOK, RequestTypeOK, HasLocation
    <3>. QED BY <3>1, ConstAssumption
  <2>4. UpOf(u) \in Up /\ UpOf(u)[1] = u /\ UpOf(u)[2] = upMap[u]
    BY <2>2, <2>3 DEF UpOf, Up, HasUpstream, Shape, TypeOK, MapTypeOK
  <2>5. pc \in [Req -> Phase] /\ status \in [Req -> Nat] /\ status[r] # 429
    BY <2>1 DEF Shape, TypeOK, RequestTypeOK, ControlOK
  <2>6. /\ \E p \in {"proxying", "fail"} : pc' = [pc EXCEPT ![r] = p]
        /\ status' \in [Req -> Nat] /\ status'[r] # 429
        /\ \A q \in Req \ {r} : status'[q] = status[q]
    <3>1. \/ Goto(r, "proxying") /\ UNCHANGED status
          \/ Goto(r, "fail") /\ Status(r, 503)
      BY <1>3 DEF UpstreamPeer, NewHttpPeer
    <3>. QED BY <2>5, <3>1 DEF Goto, Status
  <2>7. RequestTypeOK'
    <3>1. upstream' \in [Req -> UpName \cup {None}]
      BY <2>2, <2>3 DEF Shape, TypeOK, RequestTypeOK
    <3>2. pc' \in [Req -> Phase]
      BY <2>5, <2>6 DEF Phase
    <3>. QED BY <2>1, <2>6, <3>1, <3>2 DEF Shape, TypeOK, RequestTypeOK
  <2>8. ControlOK'
    BY <2>1, <2>2, <2>3, <2>6 DEF Shape, TypeOK, RequestTypeOK, ControlOK
  <2>9. MapTypeOK' /\ CounterTypeOK'
    BY <2>1, <2>2, <2>4 DEF Shape, TypeOK, MapTypeOK, CounterTypeOK
  <2>10. HeapOK'
    <3>1. \A o \in Up : o[2] > upLast[o[1]] => o # UpOf(u)
      BY <2>3, <2>4 DEF Shape, HeapOK, TypeOK, MapTypeOK
    <3>2. \A o \in Up : o[2] > upLast[o[1]] => upProcessing'[o] = upProcessing[o]
      BY <2>2, <2>4, <3>1 DEF Shape, TypeOK, CounterTypeOK
    <3>. QED BY <2>1, <3>2 DEF Shape, HeapOK, LocOf
  <2>. QED BY <2>1, <2>7, <2>8, <2>9, <2>10 DEF Shape, TypeOK
<1>4. CASE Retry(r)
  <2>1. /\ UNCHANGED <<serverList, locMap, locLast, locConf, upMap, upLast, upConf>>
        /\ UNCHANGED <<processing, upProcessing, serverProcessing, drifted>>
        /\ UNCHANGED <<input, names, current, location, upstream, status>>
        /\ pc' = [pc EXCEPT ![r] = "peer"] /\ pc[r] = "proxying"
        /\ attempts[r] < MaxAttempts
        /\ attempts' = [attempts EXCEPT ![r] = attempts[r] + 1]
        /\ upDrifted' = upDrifted \cup {upstream[r]}
    BY <1>4 DEF Retry, mapVars, locVars, upVars, counters, Goto
  <2>2. RequestTypeOK'
    BY <2>1, ConstAssumption DEF Shape, TypeOK, RequestTypeOK, Phase
  <2>3. ControlOK'
    BY <2>1 DEF Shape, TypeOK, RequestTypeOK, ControlOK
  <2>4. HeapOK' BY <2>1 DEF Shape, HeapOK, LocOf
  <2>5. MapTypeOK' /\ CounterTypeOK'
    BY <2>1 DEF Shape, TypeOK, MapTypeOK, CounterTypeOK
  <2>6. upstream[r] \in UpName
    BY <2>1 DEF Shape, TypeOK, RequestTypeOK, ControlOK
  <2>. QED BY <2>1, <2>2, <2>3, <2>4, <2>5, <2>6 DEF Shape, TypeOK
<1>5. CASE Logging(r)
  <2>1. /\ UNCHANGED <<serverList, locMap, locLast, locConf, upMap, upLast, upConf>>
        /\ UNCHANGED <<drifted, upDrifted>>
        /\ pc' = [pc EXCEPT ![r] = "done"] /\ pc[r] = "logging"
        /\ DropCtx(r)
        /\ serverProcessing' = serverProcessing - 1
    BY <1>5 DEF Logging, mapVars, locVars, upVars, history, Goto
  <2>2. RequestTypeOK'
    BY <2>1, ConstAssumption DEF Shape, TypeOK, RequestTypeOK, Phase, DropCtx
  <2>3. ControlOK'
    BY <2>1 DEF Shape, TypeOK, RequestTypeOK, ControlOK, DropCtx
  <2>4. /\ processing' \in [Loc -> Int]
        /\ \A o \in Loc : o[2] > locLast[o[1]] => processing'[o] = processing[o]
    <3>1. CASE HasLocation(location[r])
      <4>1. LocOf(location[r]) \in Loc /\ ~(LocOf(location[r])[2] > locLast[LocOf(location[r])[1]])
        BY <3>1 DEF Shape, TypeOK, MapTypeOK, RequestTypeOK, HeapOK, LocOf, Loc, HasLocation
      <4>2. processing' = [processing EXCEPT ![LocOf(location[r])] = processing[LocOf(location[r])] - 1]
        BY <1>5, <3>1 DEF Logging
      <4>. QED BY <4>1, <4>2 DEF Shape, TypeOK, CounterTypeOK
    <3>2. CASE ~HasLocation(location[r])
      BY <1>5, <3>2 DEF Logging, Shape, TypeOK, CounterTypeOK
    <3>. QED BY <3>1, <3>2
  <2>5. /\ upProcessing' \in [Up -> Int]
        /\ \A o \in Up : o[2] > upLast[o[1]] => upProcessing'[o] = upProcessing[o]
    <3>1. CASE HasUpstream(upstream[r])
      <4>1. UpOf(upstream[r]) \in Up /\ ~(UpOf(upstream[r])[2] > upLast[UpOf(upstream[r])[1]])
        BY <3>1 DEF Shape, TypeOK, MapTypeOK, RequestTypeOK, HeapOK, UpOf, Up, HasUpstream
      <4>2. upProcessing' = [upProcessing EXCEPT ![UpOf(upstream[r])] = upProcessing[UpOf(upstream[r])] - 1]
        BY <1>5, <3>1 DEF Logging
      <4>. QED BY <4>1, <4>2 DEF Shape, TypeOK, CounterTypeOK
    <3>2. CASE ~HasUpstream(upstream[r])
      BY <1>5, <3>2 DEF Logging, Shape, TypeOK, CounterTypeOK
    <3>. QED BY <3>1, <3>2
  <2>6. HeapOK' BY <2>1, <2>4, <2>5 DEF Shape, HeapOK, LocOf
  <2>7. MapTypeOK' /\ CounterTypeOK'
    BY <2>1, <2>4, <2>5 DEF Shape, TypeOK, MapTypeOK, CounterTypeOK
  <2>. QED BY <2>1, <2>2, <2>3, <2>6, <2>7 DEF Shape, TypeOK
<1>. QED BY <1>1, <1>2, <1>3, <1>4, <1>5

\* A reload keeps Shape: objects in use are never recycled.
LEMMA ReloadLocShape ==
  ASSUME Shape, NEW t \in LocTable, TryInitLocations(t)
  PROVE  Shape'
<1>. DEFINE fresh == {n \in LocChanged(t) : t[n] # NoConf}
<1>1. /\ UNCHANGED <<serverList, upMap, upLast, upConf>>
      /\ UNCHANGED <<processing, upProcessing, serverProcessing, upDrifted>>
      /\ UNCHANGED <<pc, input, names, current, location, upstream, attempts, status>>
  BY DEF TryInitLocations, upVars, counters, ctxVars
<1>2. /\ \A n \in fresh : locLast[n] < MaxGen
      /\ locLast' = [n \in LocName |-> IF n \in fresh THEN locLast[n] + 1 ELSE locLast[n]]
      /\ locMap' = [n \in LocName |-> IF n \in fresh THEN locLast[n] + 1
                                      ELSE IF n \in LocChanged(t) THEN 0 ELSE locMap[n]]
      /\ locConf' = [o \in Loc |-> IF o[1] \in fresh /\ o[2] = locLast[o[1]] + 1
                                   THEN t[o[1]] ELSE locConf[o]]
      /\ (drifted \subseteq LocName)'
  BY DEF TryInitLocations, LocChanged, Shape, TypeOK
<1>3. fresh \subseteq LocName /\ \A n \in fresh : t[n] \in LocConf
  BY ConstAssumption DEF LocChanged
<1>4. /\ locMap \in [LocName -> 0..MaxGen] /\ locLast \in [LocName -> 0..MaxGen]
      /\ locConf \in [Loc -> LocConf \cup {NoConf}] /\ MaxGen \in Nat
      /\ \A n \in LocName : locMap[n] <= locLast[n]
  BY ConstAssumption DEF Shape, TypeOK, MapTypeOK, HeapOK
<1>5. \A o \in Loc : o[1] \in LocName /\ o[2] \in 1..MaxGen /\ o = <<o[1], o[2]>>
  BY DEF Loc
<1>. HIDE DEF fresh
<1>6. MapTypeOK'
  BY <1>1, <1>2, <1>3, <1>4, <1>5 DEF Shape, TypeOK, MapTypeOK
<1>7. HeapOK'
  <2>1. ASSUME NEW n \in LocName
        PROVE  locMap'[n] <= locLast'[n] /\ (locMap'[n] # 0 => locConf'[<<n, locMap'[n]>>] \in LocConf)
    <3>1. CASE n \in fresh
      <4>1. <<n, locLast[n] + 1>> \in Loc
        BY <1>2, <1>4, <3>1 DEF Loc
      <4>. QED BY <1>2, <1>3, <1>4, <3>1, <4>1
    <3>2. CASE n \notin fresh
      <4>1. locLast'[n] = locLast[n] /\ (locMap'[n] = 0 \/ locMap'[n] = locMap[n])
        BY <1>2, <3>2
      <4>2. ASSUME locMap'[n] # 0
            PROVE  locConf'[<<n, locMap[n]>>] = locConf[<<n, locMap[n]>>]
        <5>1. <<n, locMap[n]>> \in Loc
          BY <1>4, <4>1, <4>2 DEF Loc
        <5>. QED BY <1>2, <3>2, <5>1
      <4>. QED BY <1>4, <4>1, <4>2 DEF Shape, HeapOK, LocOf
    <3>. QED BY <3>1, <3>2
  <2>2. ASSUME NEW o \in Loc, o[2] > locLast'[o[1]]
        PROVE  processing'[o] = 0 /\ locConf'[o] = NoConf
    <3>1. o[2] > locLast[o[1]] /\ ~(o[1] \in fresh /\ o[2] = locLast[o[1]] + 1)
      BY <1>2, <1>4, <1>5, <2>2
    <3>. QED BY <1>1, <1>2, <3>1 DEF Shape, HeapOK
  <2>. QED BY <1>1, <2>1, <2>2 DEF Shape, HeapOK, LocOf
<1>8. ControlOK'
  <2>1. ASSUME NEW q \in Req, current[q] # None
        PROVE  locConf'[current[q]] = locConf[current[q]]
    <3>1. current[q] \in Loc /\ locConf[current[q]] \in LocConf
      BY <2>1 DEF Shape, TypeOK, RequestTypeOK, ControlOK
    <3>2. ~(current[q][2] > locLast[current[q][1]])
      BY <3>1, ConstAssumption DEF Shape, HeapOK
    <3>. QED BY <1>2, <1>4, <1>5, <3>1, <3>2
  <2>. QED BY <1>1, <2>1 DEF Shape, ControlOK
<1>9. CounterTypeOK' /\ RequestTypeOK' /\ (upDrifted \subseteq UpName)'
  BY <1>1 DEF Shape, TypeOK, CounterTypeOK, RequestTypeOK
<1>. QED BY <1>2, <1>6, <1>7, <1>8, <1>9 DEF Shape, TypeOK

\* A reload of the upstreams keeps Shape.
LEMMA ReloadUpShape ==
  ASSUME Shape, NEW t \in UpTable, TryUpdateUpstreams(t)
  PROVE  Shape'
<1>. DEFINE fresh == {u \in UpChanged(t) : t[u] # NoConf}
<1>1. /\ UNCHANGED <<serverList, locMap, locLast, locConf>>
      /\ UNCHANGED <<processing, upProcessing, serverProcessing, drifted>>
      /\ UNCHANGED <<pc, input, names, current, location, upstream, attempts, status>>
  BY DEF TryUpdateUpstreams, locVars, counters, ctxVars
<1>2. /\ \A u \in fresh : upLast[u] < MaxGen
      /\ upLast' = [u \in UpName |-> IF u \in fresh THEN upLast[u] + 1 ELSE upLast[u]]
      /\ upMap' = [u \in UpName |-> IF u \in fresh THEN upLast[u] + 1
                                    ELSE IF u \in UpChanged(t) THEN 0 ELSE upMap[u]]
      /\ upConf' = [o \in Up |-> IF o[1] \in fresh /\ o[2] = upLast[o[1]] + 1
                                 THEN t[o[1]] ELSE upConf[o]]
      /\ (upDrifted \subseteq UpName)'
  BY DEF TryUpdateUpstreams, UpChanged, Shape, TypeOK
<1>3. fresh \subseteq UpName /\ \A u \in fresh : t[u] \in UpConf
  BY ConstAssumption DEF UpChanged
<1>4. /\ upMap \in [UpName -> 0..MaxGen] /\ upLast \in [UpName -> 0..MaxGen]
      /\ upConf \in [Up -> UpConf \cup {NoConf}] /\ MaxGen \in Nat
      /\ \A u \in UpName : upMap[u] <= upLast[u]
  BY ConstAssumption DEF Shape, TypeOK, MapTypeOK, HeapOK
<1>5. \A o \in Up : o[1] \in UpName /\ o[2] \in 1..MaxGen
  BY DEF Up
<1>. HIDE DEF fresh
<1>6. MapTypeOK'
  BY <1>1, <1>2, <1>3, <1>4, <1>5 DEF Shape, TypeOK, MapTypeOK
<1>7. HeapOK'
  <2>1. \A u \in UpName : upMap'[u] <= upLast'[u]
    BY <1>2, <1>4
  <2>2. ASSUME NEW o \in Up, o[2] > upLast'[o[1]]
        PROVE  upProcessing'[o] = 0
    <3>1. o[2] > upLast[o[1]]
      BY <1>2, <1>4, <1>5, <2>2
    <3>. QED BY <1>1, <3>1 DEF Shape, HeapOK
  <2>. QED BY <1>1, <2>1, <2>2 DEF Shape, HeapOK, LocOf
<1>8. ControlOK'
  BY <1>1 DEF Shape, ControlOK
<1>9. CounterTypeOK' /\ RequestTypeOK' /\ (drifted \subseteq LocName)'
  BY <1>1 DEF Shape, TypeOK, CounterTypeOK, RequestTypeOK
<1>. QED BY <1>2, <1>6, <1>7, <1>8, <1>9 DEF Shape, TypeOK

\* Shape is inductive.
LEMMA NextShape == Shape /\ [Next]_vars => Shape'
<1>. SUFFICES ASSUME Shape, [Next]_vars PROVE Shape'
  OBVIOUS
<1>1. CASE \E r \in Req : Accept(r) \/ Serve(r)
  BY <1>1, AcceptShape, ScanShape, LocalShape, CountShape
  DEF Serve, EarlyRequestFilter, Proxying
<1>2. CASE Reload
  <2>1. CASE \E l \in ServerList : TryInitServerLocations(l)
    BY <2>1, ConstAssumption DEF TryInitServerLocations, locVars, upVars, counters,
       ctxVars, history, Shape, TypeOK, MapTypeOK, CounterTypeOK, RequestTypeOK,
       HeapOK, ControlOK, LocOf
  <2>. QED BY <1>2, <2>1, ReloadLocShape, ReloadUpShape DEF Reload
<1>3. CASE UNCHANGED vars
  BY <1>3 DEF vars, Shape, TypeOK, MapTypeOK, CounterTypeOK, RequestTypeOK,
     HeapOK, ControlOK, LocOf
<1>. QED BY <1>1, <1>2, <1>3 DEF Next

\* The type invariant holds in every reachable state, for any number of
\* requests, names, configurations, reloads and retries.
THEOREM TypeCorrect == Spec => []TypeOK
<1>1. Spec => []Shape
  BY InitShape, NextShape, PTL DEF Spec
<1>2. Shape => TypeOK
  BY DEF Shape
<1>. QED BY <1>1, <1>2, PTL

-----------------------------------------------------------------------------
(* The counters are exact, and the concurrency limit of a location is kept,  *)
(* as long as no drift event has hit the name.                               *)

\* A step of request r leaves the other requests alone.
LEMMA OthersUntouched ==
  ASSUME Shape, NEW r \in Req, Accept(r) \/ Serve(r)
  PROVE  \A q \in Req \ {r} :
           /\ pc'[q] = pc[q] /\ location'[q] = location[q]
           /\ upstream'[q] = upstream[q] /\ current'[q] = current[q]
<1>1. /\ pc \in [Req -> Phase] /\ location \in [Req -> LocName \cup {None}]
      /\ upstream \in [Req -> UpName \cup {None}] /\ current \in [Req -> Loc \cup {None}]
  BY DEF Shape, TypeOK, RequestTypeOK
<1>. USE DEF Goto, Local, ctxVars
<1>2. CASE Accept(r)
  BY <1>1, <1>2 DEF Accept
<1>3. CASE EarlyRequestFilter(r)
  BY <1>1, <1>3 DEF EarlyRequestFilter, ScanNext, ScanEnd, TooLarge, AddProcessing
<1>4. CASE RequestFilter(r)
  BY <1>1, <1>4 DEF RequestFilter, RequestFilterAnswer, LocationNotFound,
     RequestFilterContinue, RequestFilterError
<1>5. CASE Proxying(r)
  BY <1>1, <1>5 DEF Proxying, UpstreamPeer, NewHttpPeer, NoUpstream, BodyTooLarge,
     UpstreamAnswer, UpstreamError, Retry
<1>6. CASE FailToProxy(r) \/ Logging(r)
  BY <1>1, <1>6 DEF FailToProxy, Logging, DropCtx
<1>. QED BY <1>2, <1>3, <1>4, <1>5, <1>6 DEF Serve

\* Adding or taking one request changes the size of a set of requests by one.
LEMMA OneMore ==
  ASSUME NEW S, NEW T, NEW r, S \subseteq Req, r \in T, r \notin S, T = S \cup {r}
  PROVE  Cardinality(T) = Cardinality(S) + 1 /\ Cardinality(S) \in Nat
<1>1. IsFiniteSet(S)
  BY ConstAssumption, FS_Subset
<1>. QED BY <1>1, FS_AddElement, FS_CardinalityType

\* A set of requests has no more members than one that contains it.
LEMMA Fewer ==
  ASSUME NEW S, NEW T, S \subseteq T, T \subseteq Req
  PROVE  Cardinality(S) <= Cardinality(T) /\ Cardinality(S) \in Nat /\ Cardinality(T) \in Nat
<1>1. IsFiniteSet(T) /\ IsFiniteSet(S)
  BY ConstAssumption, FS_Subset
<1>. QED BY <1>1, FS_Subset, FS_CardinalityType

-----------------------------------------------------------------------------
\* Server.processing counts the requests in flight.
LEMMA ServerCountStep ==
  ASSUME Shape, ServerCountExact, [Next]_vars
  PROVE  ServerCountExact'
<1>. DEFINE S == {q \in Req : InFlight(q)}
<1>0. /\ pc \in [Req -> Phase] /\ serverProcessing \in Int
      /\ serverProcessing = Cardinality(S) /\ S' = {q \in Req : pc'[q] \notin {"idle", "done"}}
      /\ S = {q \in Req : pc[q] \notin {"idle", "done"}}
  BY DEF Shape, TypeOK, RequestTypeOK, CounterTypeOK, ServerCountExact, InFlight
<1>. HIDE DEF S
<1>1. ASSUME NEW r \in Req, Accept(r) PROVE serverProcessing' = Cardinality(S')
  <2>1. \A q \in Req \ {r} : pc'[q] = pc[q]
    BY <1>1, OthersUntouched
  <2>2. serverProcessing' = serverProcessing + 1 /\ pc[r] = "idle" /\ pc'[r] \in {"request", "scan"}
    BY <1>0, <1>1 DEF Accept, Goto
  <2>3. S' = S \cup {r} /\ r \notin S /\ S \subseteq Req /\ r \in S'
    BY <1>0, <2>1, <2>2
  <2>. QED BY <1>0, <2>2, <2>3, OneMore
<1>2. ASSUME NEW r \in Req, Serve(r), ~Logging(r) PROVE serverProcessing' = Cardinality(S')
  <2>1. \A q \in Req \ {r} : pc'[q] = pc[q]
    BY <1>2, OthersUntouched
  <2>2. serverProcessing' = serverProcessing
    BY <1>2 DEF Serve, EarlyRequestFilter, ScanNext, ScanEnd, TooLarge, AddProcessing,
       RequestFilter, RequestFilterAnswer, LocationNotFound, RequestFilterContinue,
       RequestFilterError, Proxying, UpstreamPeer, NewHttpPeer, NoUpstream, BodyTooLarge,
       UpstreamAnswer, UpstreamError, Retry, FailToProxy, Local, counters
  <2>3. pc[r] \notin {"idle", "done"}
    BY <1>2 DEF Serve, EarlyRequestFilter, ScanNext, ScanEnd, TooLarge, AddProcessing,
       RequestFilter, RequestFilterAnswer, LocationNotFound, RequestFilterContinue,
       RequestFilterError, Proxying, UpstreamPeer, NewHttpPeer, NoUpstream, BodyTooLarge,
       UpstreamAnswer, UpstreamError, Retry, FailToProxy
  <2>4. pc'[r] \notin {"idle", "done"}
    <3>1. CASE EarlyRequestFilter(r)
      BY <1>0, <3>1, <2>3 DEF EarlyRequestFilter, ScanNext, ScanEnd, TooLarge, AddProcessing, Goto
    <3>2. CASE RequestFilter(r)
      BY <1>0, <3>2 DEF RequestFilter, RequestFilterAnswer, LocationNotFound,
         RequestFilterContinue, RequestFilterError, Goto
    <3>3. CASE Proxying(r)
      BY <1>0, <3>3 DEF Proxying, UpstreamPeer, NewHttpPeer, NoUpstream, BodyTooLarge,
         UpstreamAnswer, UpstreamError, Retry, Goto
    <3>4. CASE FailToProxy(r)
      BY <1>0, <3>4 DEF FailToProxy, Goto
    <3>. QED BY <1>2, <3>1, <3>2, <3>3, <3>4 DEF Serve
  <2>. QED BY <1>0, <2>1, <2>2, <2>3, <2>4
<1>3. ASSUME NEW r \in Req, Logging(r) PROVE serverProcessing' = Cardinality(S')
  <2>1. \A q \in Req \ {r} : pc'[q] = pc[q]
    BY <1>3, OthersUntouched DEF Serve
  <2>2. serverProcessing' = serverProcessing - 1 /\ pc[r] = "logging" /\ pc'[r] = "done"
    BY <1>0, <1>3 DEF Logging, Goto
  <2>3. S = S' \cup {r} /\ r \notin S' /\ S' \subseteq Req /\ r \in S
    BY <1>0, <2>1, <2>2
  <2>. QED BY <1>0, <2>2, <2>3, OneMore
<1>4. ASSUME Reload \/ UNCHANGED vars PROVE serverProcessing' = Cardinality(S')
  <2>1. serverProcessing' = serverProcessing /\ pc' = pc
    BY <1>4 DEF Reload, TryInitLocations, TryUpdateUpstreams, TryInitServerLocations,
       counters, vars
  <2>. QED BY <1>0, <2>1
<1>5. serverProcessing' = Cardinality(S')
  BY <1>1, <1>2, <1>3, <1>4 DEF Next
<1>. QED BY <1>0, <1>5 DEF ServerCountExact, InFlight

-----------------------------------------------------------------------------
\* The maps change only in a reload, and names never stop being drifted.
LEMMA RequestFrame ==
  ASSUME Shape, NEW r \in Req, Accept(r) \/ Serve(r)
  PROVE  /\ UNCHANGED <<locMap, locLast, locConf, upMap, upLast>>
         /\ drifted \subseteq drifted' /\ upDrifted \subseteq upDrifted'
<1>. USE DEF mapVars, locVars, upVars, history, Local
<1>1. CASE Accept(r)
  BY <1>1 DEF Accept
<1>2. CASE EarlyRequestFilter(r)
  BY <1>2 DEF EarlyRequestFilter, ScanNext, ScanEnd, TooLarge, AddProcessing
<1>3. CASE RequestFilter(r)
  BY <1>3 DEF RequestFilter, RequestFilterAnswer, LocationNotFound,
     RequestFilterContinue, RequestFilterError
<1>4. CASE Proxying(r)
  BY <1>4 DEF Proxying, UpstreamPeer, NewHttpPeer, NoUpstream, BodyTooLarge,
     UpstreamAnswer, UpstreamError, Retry
<1>5. CASE FailToProxy(r) \/ Logging(r)
  BY <1>5 DEF FailToProxy, Logging
<1>. QED BY <1>1, <1>2, <1>3, <1>4, <1>5 DEF Serve

Let == {"request", "peer", "proxying"}    \* let through by its location

\* Apart from counting in and out, no step changes a location counter, or where
\* a request that has a location stands with respect to it.
LEMMA Silent ==
  ASSUME Shape, NEW r \in Req,
         \/ Accept(r) \/ ScanEnd(r) \/ RequestFilter(r) \/ Proxying(r) \/ FailToProxy(r)
  PROVE  /\ UNCHANGED <<processing, drifted>> /\ location'[r] = location[r]
         /\ \/ location[r] = None
            \/ /\ pc[r] \in AfterCharge /\ pc'[r] \in AfterCharge
               /\ pc'[r] \in Let => pc[r] \in Let
<1>0. pc \in [Req -> Phase] /\ location \in [Req -> LocName \cup {None}]
  BY DEF Shape, TypeOK, RequestTypeOK
<1>. USE DEF counters, history, ctxVars, Local, AfterCharge, Let
<1>1. CASE Accept(r)
  BY <1>1 DEF Accept, Shape, ControlOK
<1>2. CASE ScanEnd(r)
  BY <1>2 DEF ScanEnd, Shape, ControlOK
<1>3. CASE RequestFilter(r)
  BY <1>0, <1>3 DEF RequestFilter, RequestFilterAnswer, LocationNotFound,
     RequestFilterContinue, RequestFilterError, Goto
<1>4. CASE Proxying(r)
  BY <1>0, <1>4 DEF Proxying, UpstreamPeer, NewHttpPeer, NoUpstream, BodyTooLarge,
     UpstreamAnswer, UpstreamError, Retry, Goto
<1>5. CASE FailToProxy(r)
  BY <1>0, <1>5 DEF FailToProxy, Goto
<1>. QED BY <1>1, <1>2, <1>3, <1>4, <1>5

\* A request's location stays in the map until it drifts.
LEMMA HoldLocStep ==
  ASSUME Shape, HoldLoc, [Next]_vars
  PROVE  HoldLoc'
<1>0. /\ pc \in [Req -> Phase] /\ location \in [Req -> LocName \cup {None}]
      /\ current \in [Req -> Loc \cup {None}] /\ names \in [Req -> Seq(LocName)]
      /\ locMap \in [LocName -> 0..MaxGen]
  BY DEF Shape, TypeOK, RequestTypeOK, MapTypeOK
<1>1. ASSUME NEW r \in Req, Accept(r) \/ Serve(r) PROVE HoldLoc'
  <2>1. UNCHANGED locMap /\ drifted \subseteq drifted'
    BY <1>1, RequestFrame
  <2>2. \A q \in Req \ {r} : /\ pc'[q] = pc[q] /\ location'[q] = location[q]
                            /\ current'[q] = current[q]
    BY <1>1, OthersUntouched
  <2>3. location'[r] \in LocName =>
          \/ location'[r] = location[r] /\ pc'[r] # "charge"
          \/ locMap[location'[r]] # 0 /\ current'[r] = LocOf(location'[r])
    <3>1. CASE \/ Accept(r) \/ ScanEnd(r) \/ RequestFilter(r) \/ Proxying(r) \/ FailToProxy(r)
      BY <3>1, Silent, ConstAssumption DEF AfterCharge
    <3>2. CASE ScanNext(r)
      <4>1. pc[r] = "scan" /\ location[r] = None
        BY <3>2 DEF ScanNext, Shape, ControlOK
      <4>2. CASE ~HasLocation(Head(names[r]))
        BY <3>2, <4>1, <4>2, ConstAssumption DEF ScanNext
      <4>3. CASE HasLocation(Head(names[r])) /\ ~MatchHostPath(LocOf(Head(names[r])), input[r])
        BY <3>2, <4>1, <4>3, ConstAssumption DEF ScanNext
      <4>4. CASE HasLocation(Head(names[r])) /\ MatchHostPath(LocOf(Head(names[r])), input[r])
        BY <1>0, <3>2, <4>4 DEF ScanNext, HasLocation
      <4>. QED BY <4>2, <4>3, <4>4
    <3>3. CASE TooLarge(r)
      BY <1>0, <3>3 DEF TooLarge, Goto, ctxVars
    <3>4. CASE AddProcessing(r)
      BY <1>0, <3>4 DEF AddProcessing, Goto, ctxVars
    <3>5. CASE Logging(r)
      BY <1>0, <3>5, ConstAssumption DEF Logging, DropCtx
    <3>. QED BY <1>1, <3>1, <3>2, <3>3, <3>4, <3>5 DEF Serve, EarlyRequestFilter
  <2>. QED BY <2>1, <2>2, <2>3 DEF HoldLoc, LocOf
<1>2. ASSUME NEW t \in LocTable, TryInitLocations(t) PROVE HoldLoc'
  <2>1. /\ UNCHANGED <<pc, location, current>>
        /\ \A n \in LocName : n \notin LocChanged(t) => locMap'[n] = locMap[n]
        /\ drifted' = drifted \cup
             {n \in LocChanged(t) : \E q \in Req : InFlight(q) /\ location[q] = n}
    BY <1>2 DEF TryInitLocations, ctxVars, LocChanged
  <2>2. \A q \in Req : location[q] \in LocName => InFlight(q)
    BY ConstAssumption DEF Shape, ControlOK, InFlight
  <2>3. \A q \in Req : location[q] \in LocName \ drifted' =>
           location[q] \notin LocChanged(t) /\ location[q] \notin drifted
    BY <2>1, <2>2
  <2>. QED BY <2>1, <2>3 DEF HoldLoc, LocOf
<1>3. ASSUME UNCHANGED <<pc, location, current, locMap, drifted>> PROVE HoldLoc'
  BY <1>3 DEF HoldLoc, LocOf
<1>. QED
  BY <1>1, <1>2, <1>3 DEF Next, Reload, TryUpdateUpstreams, TryInitServerLocations,
     locVars, ctxVars, history, vars

-----------------------------------------------------------------------------
\* Location.processing counts the requests that matched the name, and the limit
\* is kept, unless the name has drifted.
LocInv == HoldLoc /\ LocCountExact /\ AdmittedBound

\* Every step keeps the counter and the limit of the locations that have not drifted.
LEMMA LocCountStep ==
  ASSUME Shape, LocInv, [Next]_vars
  PROVE  LocCountExact' /\ AdmittedBound'
<1>0. /\ pc \in [Req -> Phase] /\ location \in [Req -> LocName \cup {None}]
      /\ current \in [Req -> Loc \cup {None}] /\ processing \in [Loc -> Int]
      /\ locMap \in [LocName -> 0..MaxGen] /\ None \notin LocName
  BY ConstAssumption DEF Shape, TypeOK, RequestTypeOK, MapTypeOK, CounterTypeOK
<1>. DEFINE C(n) == {q \in Req : location[q] = n /\ pc[q] \in AfterCharge}
            A(n) == {q \in Req : location[q] = n /\ pc[q] \in Let}
            Max(n) == locConf[LocOf(n)].max
            OK(n) == /\ processing[LocOf(n)] = Cardinality(C(n))
                     /\ Max(n) # 0 => Cardinality(A(n)) <= Max(n)
<1>1. \A n \in LocName \ drifted : locMap[n] # 0 => OK(n)
  BY DEF LocInv, LocCountExact, AdmittedBound, Charged, Admitted, Let
<1>2. SUFFICES ASSUME NEW n \in LocName \ drifted', locMap'[n] # 0
               PROVE  OK(n)'
  BY DEF LocCountExact, AdmittedBound, Charged, Admitted, Let
<1>3. ASSUME NEW r \in Req, Accept(r) \/ Serve(r) PROVE OK(n)'
  <2>1. /\ UNCHANGED <<locMap, locConf>> /\ n \notin drifted
        /\ LocOf(n)' = LocOf(n) /\ Max(n)' = Max(n) /\ OK(n)
    BY <1>1, <1>2, <1>3, RequestFrame DEF LocOf
  <2>2. \A q \in Req \ {r} : pc'[q] = pc[q] /\ location'[q] = location[q]
    BY <1>3, OthersUntouched
  <2>3. ASSUME processing'[LocOf(n)] = processing[LocOf(n)], C(n)' = C(n), A(n)' \subseteq A(n)
        PROVE  OK(n)'
    <3>1. Cardinality(A(n)') <= Cardinality(A(n)) /\ Cardinality(A(n)') \in Nat /\ Cardinality(A(n)) \in Nat
      BY <2>3, Fewer
    <3>2. Max(n) \in Nat
      BY <1>2, <2>1, ConstAssumption DEF Shape, HeapOK
    <3>. HIDE DEF C, A, Max
    <3>. QED BY <2>1, <2>3, <3>1, <3>2
  <2>4. CASE \/ Accept(r) \/ ScanEnd(r) \/ RequestFilter(r) \/ Proxying(r) \/ FailToProxy(r)
    <3>1. /\ processing' = processing /\ location'[r] = location[r]
          /\ \/ location[r] = None
             \/ /\ pc[r] \in AfterCharge /\ pc'[r] \in AfterCharge
                /\ pc'[r] \in Let => pc[r] \in Let
      BY <2>4, Silent
    <3>2. C(n)' = C(n) /\ A(n)' \subseteq A(n)
      BY <1>0, <2>2, <3>1
    <3>. QED BY <2>3, <3>1, <3>2
  <2>5. CASE ScanNext(r)
    <3>1. pc[r] = "scan" /\ pc'[r] \in {"scan", "charge"} /\ processing' = processing
      BY <1>0, <2>5 DEF ScanNext, Goto, counters
    <3>2. C(n)' = C(n) /\ A(n)' \subseteq A(n)
      BY <2>2, <3>1 DEF AfterCharge, Let
    <3>. QED BY <2>3, <3>1, <3>2
  <2>6. CASE TooLarge(r)
    <3>1. /\ pc'[r] = "fail" /\ processing' = processing
          /\ location' = location /\ location[r] # n
      BY <1>0, <1>2, <2>6 DEF TooLarge, Goto, counters, ctxVars
    <3>2. C(n)' = C(n) /\ A(n)' \subseteq A(n)
      BY <2>2, <3>1
    <3>. QED BY <2>3, <3>1, <3>2
  <2>7. CASE AddProcessing(r)
    <3>1. /\ pc[r] = "charge" /\ pc'[r] \in {"fail", "request"} /\ location' = location
          /\ processing' = [processing EXCEPT ![current[r]] = processing[current[r]] + 1]
          /\ location[r] = None => current[r][1] \in drifted'
          /\ pc'[r] = "request" =>
               \/ locConf[current[r]].max = 0
               \/ ~(processing[current[r]] + 1 > locConf[current[r]].max)
      BY <1>0, <2>7 DEF AddProcessing, OverLimit, Goto, ctxVars
    <3>2. current[r] \in Loc /\ LocOf(n) \in Loc
      BY <1>0, <1>2, <2>1, <3>1 DEF Shape, ControlOK, Loc, LocOf
    <3>3. CASE location[r] # n
      <4>1. current[r] # LocOf(n)
        <5>1. CASE location[r] = None
          BY <1>2, <3>1, <5>1 DEF LocOf
        <5>2. CASE location[r] # None
          BY <3>1, <3>3, <5>2 DEF LocOf, Shape, ControlOK
        <5>. QED BY <5>1, <5>2
      <4>2. processing'[LocOf(n)] = processing[LocOf(n)]
        BY <1>0, <3>1, <3>2, <4>1
      <4>3. C(n)' = C(n) /\ A(n)' \subseteq A(n)
        BY <2>2, <3>1, <3>3
      <4>. QED BY <2>3, <4>2, <4>3
    <3>4. CASE location[r] = n
      <4>1. current[r] = LocOf(n)
        BY <1>0, <1>2, <2>1, <3>1, <3>4 DEF LocInv, HoldLoc
      <4>2. C(n)' = C(n) \cup {r} /\ r \notin C(n) /\ C(n) \subseteq Req /\ r \in C(n)'
        BY <2>2, <3>1, <3>4 DEF AfterCharge
      <4>3. Cardinality(C(n)') = Cardinality(C(n)) + 1
        <5>. HIDE DEF C
        <5>. QED BY <4>2, OneMore
      <4>4. processing'[LocOf(n)] = Cardinality(C(n)')
        BY <1>0, <2>1, <3>1, <3>2, <4>1, <4>3
      <4>5. CASE pc'[r] = "fail"
        <5>1. A(n)' \subseteq A(n)
          BY <2>2, <3>1, <4>5 DEF Let
        <5>2. Cardinality(A(n)') <= Cardinality(A(n)) /\ Cardinality(A(n)') \in Nat /\ Cardinality(A(n)) \in Nat
          BY <5>1, Fewer
        <5>3. Max(n) \in Nat
          BY <1>2, <2>1, ConstAssumption DEF Shape, HeapOK
        <5>. HIDE DEF C, A, Max
        <5>. QED BY <2>1, <4>4, <5>2, <5>3
      <4>6. CASE pc'[r] = "request"
        <5>1. A(n)' \subseteq C(n)' /\ C(n)' \subseteq Req
          BY DEF Let, AfterCharge
        <5>2. Cardinality(A(n)') <= Cardinality(C(n)') /\ Cardinality(A(n)') \in Nat /\ Cardinality(C(n)') \in Nat
          <6>. HIDE DEF C, A
          <6>. QED BY <5>1, Fewer
        <5>3. Max(n) \in Nat
          BY <1>2, <2>1, ConstAssumption DEF Shape, HeapOK
        <5>4. Max(n) # 0 => processing'[LocOf(n)] <= Max(n)
          BY <1>0, <3>1, <3>2, <4>1, <4>6, <5>3
        <5>. HIDE DEF C, A, Max
        <5>. QED BY <2>1, <4>4, <5>2, <5>3, <5>4
      <4>. QED BY <3>1, <4>5, <4>6
    <3>. QED BY <3>3, <3>4
  <2>8. CASE Logging(r)
    <3>1. /\ pc[r] = "logging" /\ pc'[r] = "done"
          /\ processing' = IF HasLocation(location[r])
                           THEN [processing EXCEPT ![LocOf(location[r])] = processing[LocOf(location[r])] - 1]
                           ELSE processing
      BY <1>0, <2>8 DEF Logging, Goto
    <3>2. LocOf(n) \in Loc
      BY <1>0, <1>2, <2>1 DEF Loc, LocOf
    <3>3. A(n)' \subseteq A(n)
      BY <2>2, <3>1 DEF Let
    <3>4. CASE location[r] # n
      <4>1. processing'[LocOf(n)] = processing[LocOf(n)]
        BY <1>0, <3>1, <3>2, <3>4 DEF LocOf
      <4>2. C(n)' = C(n)
        BY <2>2, <3>1, <3>4 DEF AfterCharge
      <4>. QED BY <2>3, <3>3, <4>1, <4>2
    <3>5. CASE location[r] = n
      <4>1. processing'[LocOf(n)] = processing[LocOf(n)] - 1
        BY <1>0, <1>2, <2>1, <3>1, <3>2, <3>5 DEF HasLocation
      <4>2. C(n) = C(n)' \cup {r} /\ r \notin C(n)' /\ C(n)' \subseteq Req /\ r \in C(n)
        BY <2>2, <3>1, <3>5 DEF AfterCharge
      <4>3. Cardinality(C(n)) = Cardinality(C(n)') + 1 /\ Cardinality(C(n)') \in Nat
        <5>. HIDE DEF C
        <5>. QED BY <4>2, OneMore
      <4>4. Cardinality(A(n)') <= Cardinality(A(n)) /\ Cardinality(A(n)') \in Nat /\ Cardinality(A(n)) \in Nat
        BY <3>3, Fewer
      <4>5. Max(n) \in Nat
        BY <1>2, <2>1, ConstAssumption DEF Shape, HeapOK
      <4>. HIDE DEF C, A, Max
      <4>. QED BY <2>1, <4>1, <4>3, <4>4, <4>5
    <3>. QED BY <3>4, <3>5
  <2>. QED BY <1>3, <2>4, <2>5, <2>6, <2>7, <2>8 DEF Serve, EarlyRequestFilter
<1>4. ASSUME NEW t \in LocTable, TryInitLocations(t) PROVE OK(n)'
  <2>1. UNCHANGED <<pc, location, processing>>
    BY <1>4 DEF TryInitLocations, ctxVars, counters
  <2>2. n \notin drifted /\ (n \in LocChanged(t) => \A q \in Req : ~(InFlight(q) /\ location[q] = n))
    BY <1>2, <1>4 DEF TryInitLocations
  <2>3. locConf' = [o \in Loc |-> IF o[1] \in LocChanged(t) /\ t[o[1]] # NoConf /\ o[2] = locLast[o[1]] + 1
                                  THEN t[o[1]] ELSE locConf[o]]
    BY <1>4 DEF TryInitLocations
  <2>4. CASE n \in LocChanged(t)
    <3>1. C(n)' = {} /\ A(n)' = {}
      BY <2>1, <2>2, <2>4 DEF InFlight, AfterCharge, Let
    <3>2. t[n] # NoConf /\ locMap'[n] = locLast[n] + 1
      BY <1>2, <1>4, <2>4 DEF TryInitLocations
    <3>3. locLast[n] + 1 \in 1..MaxGen
      BY <1>4, <2>4, <3>2, ConstAssumption DEF TryInitLocations, Shape, TypeOK, MapTypeOK
    <3>4. <<n, locLast[n] + 1>> \in Loc
      BY <3>3 DEF Loc
    <3>5. processing[<<n, locLast[n] + 1>>] = 0
      <4>1. locLast[n] \in 0..MaxGen
        BY DEF Shape, TypeOK, MapTypeOK
      <4>. QED BY <3>4, <4>1 DEF Shape, HeapOK
    <3>6. Max(n)' \in Nat
      <4>1. locConf'[<<n, locLast[n] + 1>>] = t[n] /\ t[n] \in LocConf
        BY <2>3, <2>4, <3>2, <3>4, ConstAssumption DEF LocChanged
      <4>. QED BY <3>2, <4>1, ConstAssumption DEF LocOf
    <3>. HIDE DEF C, A, Max
    <3>. QED BY <2>1, <3>1, <3>2, <3>5, <3>6, FS_EmptySet DEF LocOf
  <2>5. CASE n \notin LocChanged(t)
    <3>1. locMap'[n] = locMap[n]
      BY <1>4, <2>5 DEF TryInitLocations
    <3>2. LocOf(n)' = LocOf(n) /\ locConf'[LocOf(n)] = locConf[LocOf(n)]
      BY <1>0, <1>2, <2>3, <2>5, <3>1 DEF LocOf, Loc
    <3>3. C(n)' = C(n) /\ A(n)' = A(n) /\ Max(n)' = Max(n)
      BY <2>1, <3>2
    <3>4. OK(n)
      BY <1>1, <1>2, <2>2, <3>1
    <3>. HIDE DEF C, A, Max
    <3>. QED BY <2>1, <3>2, <3>3, <3>4
  <2>. QED BY <2>4, <2>5
<1>5. ASSUME UNCHANGED <<pc, location, current, locMap, locConf, processing, drifted>> PROVE OK(n)'
  <2>1. OK(n)
    BY <1>1, <1>2, <1>5
  <2>. QED BY <1>5, <2>1 DEF LocOf
<1>. HIDE DEF OK
<1>. QED
  BY <1>3, <1>4, <1>5 DEF Next, Reload, TryUpdateUpstreams, TryInitServerLocations,
     locVars, ctxVars, history, counters, vars

-----------------------------------------------------------------------------
\* Upstream.processing counts the requests that chose the name, unless it has
\* drifted.
UpInv == HoldUp /\ UpCountExact

\* Every step keeps the counter of the upstreams that have not drifted.
LEMMA UpCountStep ==
  ASSUME Shape, UpInv, [Next]_vars
  PROVE  UpInv'
<1>0. /\ pc \in [Req -> Phase] /\ upstream \in [Req -> UpName \cup {None}]
      /\ upProcessing \in [Up -> Int] /\ upMap \in [UpName -> 0..MaxGen]
      /\ None \notin UpName /\ \A q \in Req : upstream[q] # None => InFlight(q)
  BY ConstAssumption DEF Shape, TypeOK, RequestTypeOK, MapTypeOK, CounterTypeOK, ControlOK, InFlight
<1>. DEFINE U(u) == {q \in Req : upstream[q] = u}
            Exact == \A u \in UpName \ upDrifted :
                       upMap[u] # 0 => upProcessing[UpOf(u)] = Cardinality(U(u))
<1>1. HoldUp /\ Exact
  <2>1. \A u \in UpName : Using(u) = U(u)
    BY <1>0 DEF Using
  <2>. QED BY <2>1 DEF UpInv, UpCountExact
<1>2. ASSUME NEW r \in Req, \/ Accept(r) \/ EarlyRequestFilter(r) \/ RequestFilter(r)
                            \/ NoUpstream(r) \/ BodyTooLarge(r) \/ UpstreamAnswer(r)
                            \/ UpstreamError(r) \/ FailToProxy(r)
      PROVE  HoldUp' /\ Exact'
  <2>1. UNCHANGED <<upProcessing, upstream, upDrifted>>
    <3>. USE DEF Local, counters, history, ctxVars
    <3>1. CASE EarlyRequestFilter(r)
      BY <3>1 DEF EarlyRequestFilter, ScanNext, ScanEnd, TooLarge, AddProcessing
    <3>2. CASE RequestFilter(r)
      BY <3>2 DEF RequestFilter, RequestFilterAnswer, LocationNotFound,
         RequestFilterContinue, RequestFilterError
    <3>. QED BY <1>2, <3>1, <3>2 DEF Accept, NoUpstream, BodyTooLarge,
         UpstreamAnswer, UpstreamError, FailToProxy
  <2>2. pc'[r] = "peer" => upstream[r] = None
    <3>1. CASE EarlyRequestFilter(r)
      BY <1>0, <3>1 DEF EarlyRequestFilter, ScanNext, ScanEnd, TooLarge, AddProcessing, Goto
    <3>2. CASE RequestFilter(r)
      <4>1. pc[r] = "request"
        BY <3>2 DEF RequestFilter, RequestFilterAnswer, LocationNotFound,
           RequestFilterContinue, RequestFilterError
      <4>. QED BY <4>1 DEF Shape, ControlOK
    <3>3. CASE Accept(r)
      BY <1>0, <3>3 DEF Accept, Goto
    <3>. QED BY <1>0, <1>2, <3>1, <3>2, <3>3 DEF NoUpstream, BodyTooLarge,
         UpstreamAnswer, UpstreamError, FailToProxy, Goto
  <2>3. upMap' = upMap /\ \A q \in Req \ {r} : pc'[q] = pc[q]
    BY <1>2, RequestFrame, OthersUntouched DEF Serve, Proxying
  <2>. QED BY <1>1, <2>1, <2>2, <2>3 DEF HoldUp, UpOf
<1>3. ASSUME NEW r \in Req, Retry(r) PROVE HoldUp' /\ Exact'
  <2>1. /\ UNCHANGED <<upProcessing, upstream, upMap>>
        /\ upDrifted' = upDrifted \cup {upstream[r]}
        /\ \A q \in Req \ {r} : pc'[q] = pc[q]
    BY <1>0, <1>3 DEF Retry, counters, mapVars, upVars, Goto
  <2>. QED BY <1>1, <2>1 DEF HoldUp, UpOf
<1>4. ASSUME NEW r \in Req, UpstreamPeer(r) PROVE HoldUp' /\ Exact'
  <2>1. /\ UNCHANGED <<upMap, upDrifted>> /\ pc[r] = "peer" /\ pc'[r] # "peer"
        /\ \A q \in Req \ {r} : upstream'[q] = upstream[q] /\ pc'[q] = pc[q]
    <3>1. UNCHANGED <<upMap, upDrifted>> /\ pc[r] = "peer" /\ pc'[r] # "peer"
      BY <1>0, <1>4 DEF UpstreamPeer, NewHttpPeer, mapVars, upVars, history, Goto
    <3>. QED BY <1>4, <3>1, OthersUntouched DEF Serve, Proxying
  <2>2. PICK u : /\ HasUpstream(u)
                 /\ u \in locConf[LocOf(location[r])].upstreams
                 /\ upProcessing' = [upProcessing EXCEPT ![UpOf(u)] = upProcessing[UpOf(u)] + 1]
                 /\ upstream' = [upstream EXCEPT ![r] = u]
    BY <1>4 DEF UpstreamPeer, NewHttpPeer
  <2>3. u \in UpName /\ u # None /\ upMap[u] # 0 /\ upstream'[r] = u
    <3>1. location[r] \in LocName /\ locConf[LocOf(location[r])] \in LocConf
      BY <1>4 DEF UpstreamPeer, NewHttpPeer, Shape, HeapOK, TypeOK, RequestTypeOK, HasLocation
    <3>. QED BY <1>0, <2>2, <3>1, ConstAssumption DEF HasUpstream
  <2>4. UpOf(u) \in Up /\ UpOf(u)[1] = u
    BY <1>0, <2>3 DEF Up, UpOf
  <2>5. upstream[r] \in upDrifted \cup {None}
    BY <1>1, <2>1 DEF HoldUp
  <2>6. HoldUp'
    BY <1>1, <2>1, <2>3 DEF HoldUp
  <2>7. ASSUME NEW w \in UpName \ upDrifted, upMap[w] # 0
        PROVE  upProcessing'[UpOf(w)] = Cardinality(U(w)')
    <3>1. upProcessing[UpOf(w)] = Cardinality(U(w)) /\ UpOf(w) \in Up
      BY <1>0, <1>1, <2>7 DEF UpOf, Up
    <3>2. CASE w = u
      <4>1. U(w)' = U(w) \cup {r} /\ r \notin U(w) /\ U(w) \subseteq Req /\ r \in U(w)'
        BY <1>0, <2>1, <2>3, <2>5, <2>7, <3>2
      <4>2. upProcessing'[UpOf(w)] = upProcessing[UpOf(w)] + 1
        BY <1>0, <2>2, <2>4, <3>2
      <4>. HIDE DEF U
      <4>. QED BY <3>1, <4>1, <4>2, OneMore
    <3>3. CASE w # u
      <4>1. U(w)' = U(w)
        BY <1>0, <2>1, <2>3, <2>5, <2>7, <3>3
      <4>2. UpOf(w) # UpOf(u)
        BY <3>3 DEF UpOf
      <4>3. upProcessing'[UpOf(w)] = upProcessing[UpOf(w)]
        BY <1>0, <2>2, <2>4, <3>1, <4>2
      <4>. QED BY <3>1, <4>1, <4>3
    <3>. QED BY <3>2, <3>3
  <2>8. \A w : UpOf(w)' = UpOf(w)
    BY <2>1 DEF UpOf
  <2>9. Exact'
    <3>. HIDE DEF U
    <3>. QED BY <2>1, <2>7, <2>8
  <2>. QED BY <2>6, <2>9
<1>5. ASSUME NEW r \in Req, Logging(r) PROVE HoldUp' /\ Exact'
  <2>1. /\ UNCHANGED <<upMap, upDrifted>> /\ pc'[r] = "done" /\ upstream'[r] = None
        /\ \A q \in Req \ {r} : upstream'[q] = upstream[q] /\ pc'[q] = pc[q]
    <3>1. UNCHANGED <<upMap, upDrifted>> /\ pc'[r] = "done" /\ upstream'[r] = None
      BY <1>0, <1>5 DEF Logging, DropCtx, mapVars, upVars, history, Goto
    <3>. QED BY <1>5, <3>1, OthersUntouched DEF Serve
  <2>2. HoldUp'
    BY <1>0, <1>1, <2>1 DEF HoldUp
  <2>3. upProcessing' = IF HasUpstream(upstream[r])
                        THEN [upProcessing EXCEPT ![UpOf(upstream[r])] = upProcessing[UpOf(upstream[r])] - 1]
                        ELSE upProcessing
    BY <1>5 DEF Logging
  <2>4. ASSUME NEW w \in UpName \ upDrifted, upMap[w] # 0
        PROVE  upProcessing'[UpOf(w)] = Cardinality(U(w)')
    <3>1. upProcessing[UpOf(w)] = Cardinality(U(w)) /\ UpOf(w) \in Up
      BY <1>0, <1>1, <2>4 DEF UpOf, Up
    <3>2. CASE upstream[r] = w
      <4>1. U(w) = U(w)' \cup {r} /\ r \notin U(w)' /\ U(w)' \subseteq Req /\ r \in U(w)
        BY <1>0, <2>1, <3>2
      <4>2. upProcessing'[UpOf(w)] = upProcessing[UpOf(w)] - 1
        BY <1>0, <2>3, <2>4, <3>1, <3>2 DEF HasUpstream
      <4>. HIDE DEF U
      <4>. QED BY <3>1, <4>1, <4>2, OneMore
    <3>3. CASE upstream[r] # w
      <4>1. U(w)' = U(w)
        BY <1>0, <2>1, <3>3
      <4>2. upProcessing'[UpOf(w)] = upProcessing[UpOf(w)]
        BY <1>0, <2>3, <3>1, <3>3 DEF UpOf
      <4>. QED BY <3>1, <4>1, <4>2
    <3>. QED BY <3>2, <3>3
  <2>5. \A w : UpOf(w)' = UpOf(w)
    BY <2>1 DEF UpOf
  <2>6. Exact'
    <3>. HIDE DEF U
    <3>. QED BY <2>1, <2>4, <2>5
  <2>. QED BY <2>2, <2>6
<1>6. ASSUME NEW t \in UpTable, TryUpdateUpstreams(t) PROVE HoldUp' /\ Exact'
  <2>1. /\ UNCHANGED <<pc, upstream, upProcessing>>
        /\ \A u \in UpName : u \notin UpChanged(t) => upMap'[u] = upMap[u]
        /\ upDrifted' = upDrifted \cup
             {u \in UpChanged(t) : \E q \in Req : InFlight(q) /\ upstream[q] = u}
        /\ \A u \in UpChanged(t) : upMap'[u] # 0 => upMap'[u] = upLast[u] + 1 /\ upLast[u] < MaxGen
    BY <1>6 DEF TryUpdateUpstreams, ctxVars, counters, UpChanged
  <2>2. \A q \in Req : upstream[q] \in UpName \ upDrifted' =>
           upstream[q] \notin UpChanged(t) /\ upstream[q] \notin upDrifted
    BY <1>0, <2>1
  <2>3. HoldUp'
    BY <1>1, <2>1, <2>2 DEF HoldUp
  <2>4. ASSUME NEW w \in UpName \ upDrifted', upMap'[w] # 0
        PROVE  upProcessing'[<<w, upMap'[w]>>] = Cardinality(U(w)')
    <3>1. CASE w \in UpChanged(t)
      <4>1. U(w)' = {}
        BY <1>0, <2>1, <2>4, <3>1
      <4>2. upMap'[w] = upLast[w] + 1 /\ upLast[w] \in 0..MaxGen /\ upLast[w] < MaxGen
        BY <2>1, <2>4, <3>1 DEF Shape, TypeOK, MapTypeOK
      <4>3. upProcessing[<<w, upLast[w] + 1>>] = 0
        <5>1. <<w, upLast[w] + 1>> \in Up
          BY <4>2, ConstAssumption DEF Up
        <5>. QED BY <4>2, <5>1 DEF Shape, HeapOK
      <4>. HIDE DEF U
      <4>. QED BY <2>1, <4>1, <4>2, <4>3, FS_EmptySet
    <3>2. CASE w \notin UpChanged(t)
      BY <1>1, <2>1, <2>4, <3>2 DEF UpOf
    <3>. QED BY <3>1, <3>2
  <2>5. \A w : UpOf(w)' = <<w, upMap'[w]>>
    BY DEF UpOf
  <2>6. Exact'
    <3>. HIDE DEF U
    <3>. QED BY <2>4, <2>5
  <2>. QED BY <2>3, <2>6
<1>7. ASSUME UNCHANGED <<pc, upstream, upMap, upProcessing, upDrifted>> PROVE HoldUp' /\ Exact'
  BY <1>1, <1>7 DEF HoldUp, UpOf
<1>8. HoldUp' /\ Exact'
  <2>. HIDE DEF Exact
  <2>1. CASE \E r \in Req : Accept(r) \/ Serve(r)
    BY <2>1, <1>2, <1>3, <1>4, <1>5 DEF Serve, Proxying
  <2>2. CASE Reload \/ UNCHANGED vars
    BY <2>2, <1>6, <1>7 DEF Reload, TryInitLocations, TryInitServerLocations,
       upVars, counters, ctxVars, history, vars
  <2>. QED BY <2>1, <2>2 DEF Next
<1>9. ASSUME NEW u \in UpName \ upDrifted', upMap'[u] # 0
      PROVE  upProcessing'[UpOf(u)'] = Cardinality(Using(u)')
  <2>1. Shape'
    BY NextShape
  <2>2. (\A q \in Req : upstream[q] # None => InFlight(q))'
    BY <2>1 DEF Shape, ControlOK, InFlight
  <2>3. Using(u)' = U(u)'
    BY <1>0, <2>2 DEF Using
  <2>4. upProcessing'[UpOf(u)'] = Cardinality(U(u)')
    BY <1>8, <1>9
  <2>. QED BY <2>3, <2>4
<1>. QED BY <1>8, <1>9 DEF UpInv, UpCountExact

-----------------------------------------------------------------------------
\* The inductive invariant of the specification.
LEMMA InitIInv == Init => IInv
<1>. SUFFICES ASSUME Init PROVE IInv
  OBVIOUS
<1>1. Shape
  BY InitShape
<1>2. HoldLoc /\ HoldUp
  BY ConstAssumption DEF Init, HoldLoc, HoldUp
<1>3. ServerCountExact
  <2>1. {r \in Req : InFlight(r)} = {}
    BY DEF Init, InFlight
  <2>. QED BY <2>1, FS_EmptySet DEF ServerCountExact, Init
<1>4. \A n \in LocName : Charged(n) = {} /\ Admitted(n) = {}
  BY ConstAssumption DEF Init, Charged, Admitted
<1>5. LocCountExact
  <2>1. \A n \in LocName : locMap[n] # 0 => LocOf(n) \in Loc
    BY <1>1 DEF LocOf, Loc, Shape, TypeOK, MapTypeOK
  <2>. QED BY <1>4, <2>1, FS_EmptySet DEF LocCountExact, Init
<1>6. AdmittedBound
  <2>1. \A n \in LocName : locMap[n] # 0 => locConf[LocOf(n)].max \in Nat
    BY <1>1, ConstAssumption DEF Shape, HeapOK
  <2>. QED BY <1>4, <2>1, FS_EmptySet DEF AdmittedBound
<1>7. UpCountExact
  <2>1. \A u \in UpName : Using(u) = {}
    BY ConstAssumption DEF Init, Using
  <2>2. \A u \in UpName : upMap[u] # 0 => UpOf(u) \in Up
    BY <1>1 DEF UpOf, Up, Shape, TypeOK, MapTypeOK
  <2>. QED BY <2>1, <2>2, FS_EmptySet DEF UpCountExact, Init
<1>. QED BY <1>1, <1>2, <1>3, <1>5, <1>6, <1>7 DEF IInv, Shape

\* Each step keeps it.
LEMMA NextIInv == IInv /\ [Next]_vars => IInv'
<1>. SUFFICES ASSUME IInv, [Next]_vars PROVE IInv'
  OBVIOUS
<1>1. Shape /\ LocInv /\ UpInv /\ ServerCountExact
  BY DEF IInv, Shape, LocInv, UpInv
<1>2. Shape' BY <1>1, NextShape
<1>3. ServerCountExact' BY <1>1, ServerCountStep
<1>4. HoldLoc' BY <1>1, HoldLocStep DEF LocInv
<1>5. LocCountExact' /\ AdmittedBound' BY <1>1, LocCountStep
<1>6. UpInv' BY <1>1, UpCountStep
<1>. QED BY <1>2, <1>3, <1>4, <1>5, <1>6 DEF IInv, Shape, UpInv

\* IInv holds in every reachable state.
THEOREM Invariance == Spec => []IInv
BY InitIInv, NextIInv, PTL DEF Spec

\* Server.processing is exactly the number of requests in flight.
THEOREM ServerCount == Spec => []ServerCountExact
<1>1. IInv => ServerCountExact
  BY DEF IInv
<1>. QED BY <1>1, Invariance, PTL

\* Location.processing is exactly the number of requests that matched the name
\* and are in flight, until a drift event hits the name.
THEOREM LocationCount == Spec => []LocCountExact
<1>1. IInv => LocCountExact
  BY DEF IInv
<1>. QED BY <1>1, Invariance, PTL

\* A location never lets more than max_processing requests through at a time,
\* until a drift event hits its name.
THEOREM LocationLimit == Spec => []AdmittedBound
<1>1. IInv => AdmittedBound
  BY DEF IInv
<1>. QED BY <1>1, Invariance, PTL

\* Upstream.processing is exactly the number of requests in flight that chose
\* the upstream, until a drift event hits its name.
THEOREM UpstreamCount == Spec => []UpCountExact
<1>1. IInv => UpCountExact
  BY DEF IInv
<1>. QED BY <1>1, Invariance, PTL

\* Requests without a location or over its limit never take an upstream.
THEOREM RejectedStaysOut == Spec => []RejectedNeverProxied
<1>1. IInv => RejectedNeverProxied
  BY DEF IInv, ControlOK, RejectedNeverProxied
<1>. QED BY <1>1, Invariance, PTL
=============================================================================
