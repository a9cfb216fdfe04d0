------------------------- MODULE CertificatesProofs -------------------------
(***************************************************************************)
(* The certificates for any configurations, reloads, handshakes and days:  *)
(* what a handshake gets, that nothing that has ended is served unnoticed, *)
(* and that a renewal is not asked for again before it is due.             *)
(***************************************************************************)
EXTENDS Certificates, FiniteSetTheorems, WellFoundedInduction, TLAPS

USE DEF confVars

Key == STRING \X Name
FitType == [name : STRING, ver : {0, 1}, unable : BOOLEAN]
ItemType == [name : STRING, names : Seq(Name) \ {<<>>}, buffer : Nat]
AnyMap == UNION {[K -> Leaf] : K \in SUBSET Key}
HandType == [pc : {"idle", "leaf", "create", "add", "done"}, sni : Name, cert : LiveType \cup {None},
             leaf : Leaf \cup {None}, map : AnyMap, fit : SUBSET FitType, at : Nat]
Working == {"order", "token", "ready", "poll", "finalize", "certificate", "save"}

Tasks ==
  /\ task \in {"idle", "sweep", "store", "renew", "next", "set", "apply", "dead"} \cup Working
  /\ tokens \subseteq DOMAIN challenge /\ tries \in 0..Tries
  /\ todo \in Seq(ItemType) /\ (task \in Working \cup {"set", "apply"} => todo # <<>>)
  /\ last \in [DOMAIN last -> LastType \cup {None}]

Types ==
  /\ setup \in Setup
  /\ day \in Nat /\ day >= 1 /\ day <= setup.days
  /\ daily \in BOOLEAN /\ stuck \in BOOLEAN
  /\ object \in [Leaf -> LeafType \cup {None}]
  /\ leafs \in AnyMap /\ kept \in AnyMap
  /\ hs \in [Handshake -> HandType]

\* The configurations, and where the current one, what a reload has read of it and what the
\* map was made of agree: everywhere but between the steps of a reload or a renewal, and
\* after the two have overlapped.
Confs ==
  /\ IsConf(stored) /\ IsConf(conf) /\ IsConf(applied) /\ IsConf(renewed)
  /\ reload = [pc |-> reload.pc, new |-> reload.new, base |-> reload.base]
  /\ reload.pc \in {"idle", "diff", "apply", "commit"}
  /\ IsConf(reload.new) /\ IsConf(reload.base)
  /\ enabled \in BOOLEAN /\ crossed \in BOOLEAN
Agreement ==
  ~crossed =>
    /\ reload.pc \in {"idle", "diff", "apply"} /\ task # "apply" => applied = conf
    /\ task = "apply" => reload.pc = "idle" /\ renewed = conf
    /\ reload.pc \in {"apply", "commit"} => reload.base = conf
    /\ reload.pc = "commit" => applied = HotReloadConfig(reload.new, reload.base)
\* A process whose servers do not answer challenges has nothing to renew.
Answers ==
  ~enabled => /\ ~EnabledLetsEncrypt(conf) /\ ~EnabledLetsEncrypt(reload.base)
              /\ todo = <<>>
Configs == Confs /\ Agreement /\ Answers

\* A leaf that is not old is of a CA the map was made of.
Signed ==
  \A l \in Leaf : object[l] # None =>
    object[l].old \/ Signer(applied, object[l].by, object[l].ver)

\* The map of the handshakes is made of a configuration.
Covered(cs) == UNION {Domains(cs[n]) : n \in Parsed(cs)}
Agrees(c, cs) ==
  /\ c.ver = cs[c.name].ver /\ c.until = cs[c.name].until
  /\ c.ca = cs[c.name].ca /\ c.signs = cs[c.name].signs
LiveOK ==
  /\ DOMAIN live = Covered(applied)
  /\ \A d \in DOMAIN live :
       live[d] \in LiveType /\ live[d].name \in Claims(applied, d) /\ Agrees(live[d], applied)

\* What a map of leaves has under a key is a leaf of this CA for this name.
LeafAt(l, k) == /\ object[l] # None /\ object[l].key = k
                /\ object[l].by = k[1] /\ object[l].cn = k[2]
MapOK(m) == \A k \in DOMAIN m : LeafAt(m[k], k)
Maps == MapOK(leafs) /\ MapOK(kept) /\ \A h \in Handshake : MapOK(hs[h].map)

\* What a handshake has chosen fitted best when it began; a leaf it got is of that CA.
Fit(x) == /\ x.cert # None
          /\ \E f \in x.fit : /\ f.name = x.cert.name /\ f.ver = x.cert.ver
                              /\ f.unable = (x.cert.ca /\ ~x.cert.signs)
Own(x) == x.leaf \in Leaf /\ LeafAt(x.leaf, <<x.cert.name, CommonName(x.sni)>>)
Chosen(x) ==
  /\ x.pc # "idle" => x.at = day
  /\ x.pc \in {"leaf", "create", "add"} => Fit(x) /\ x.cert.ca
  /\ x.pc = "add" => Own(x)
  /\ x.pc = "done" => IF x.cert = None THEN x.fit = {} \/ \E f \in x.fit : f.unable
                      ELSE Fit(x) /\ (x.cert.ca => Own(x))
Hands == \A h \in Handshake : Chosen(hs[h])

\* The validity checker and the sweep have seen everything up to a day.
CheckedDay == IF daily \/ task \in {"sweep", "store"} THEN day ELSE day - 1
SweptDay == IF daily THEN day ELSE day - 1
Reported(c) == c.since < CheckedDay /\ c.until <= CheckedDay => <<c.name, c.ver>> \in warned
Recent(o) == o.back \/ o.until >= SweptDay - ExpiryDays \/ o.caUntil < day
Young(o) == o.until >= day \/ o.caUntil < day
Seen(x) ==
  /\ x.pc = "add" => Young(object[x.leaf])
  /\ x.pc = "done" /\ x.cert # None =>
       IF x.cert.ca THEN Recent(object[x.leaf]) \/ Young(object[x.leaf]) ELSE Reported(x.cert)
Watch ==
  /\ task # "store" => DOMAIN kept = {}
  /\ task = "store" => \A k \in DOMAIN kept : object[kept[k]].until >= day - ExpiryDays
  /\ ~stuck => /\ \A d \in DOMAIN live : Reported(live[d])
               /\ \A k \in DOMAIN leafs : Recent(object[leafs[k]])
               /\ \A h \in Handshake : Seen(hs[h])

\* A certificate that was renewed is stored as it was renewed; so it is in what a renewal has
\* loaded and in the current configuration, unless it is just to be set there or a reload has
\* undone it; a reload that does not overlap a renewal has seen it.  The one that is being
\* renewed has a reason for it.
Due(item) ==
  LET r == last[item.name]
  IN \/ item.names # r.names
     \/ Cardinality(Range(item.names)) # Len(item.names)
     \/ day - r.day >= CertDays - Buffer(item)
JustSaved(n) == task = "set" /\ n = todo[1].name
Placed(n) ==
  /\ InPlace(stored, n, last[n])
  /\ task \in {"save", "set"} => InPlace(renewed, n, last[n])
  /\ last[n].undone \/ JustSaved(n) \/ InPlace(conf, n, last[n])
  /\ reload.pc # "idle" /\ ~crossed =>
       JustSaved(n) \/ (n \in DOMAIN reload.new /\ reload.new[n].acme)
HasDue ==
  task \in Working /\ todo[1].name \in DOMAIN last /\ last[todo[1].name] # None =>
    Due(todo[1]) \/ last[todo[1].name].undone
Renewals == HasDue /\ \A n \in DOMAIN last : last[n] # None => Placed(n)

IInv == Tasks /\ Types /\ Configs /\ Signed /\ LiveOK /\ Maps /\ Hands /\ Watch /\ Renewals

-----------------------------------------------------------------------------
(* Maps and their maxima.                                                    *)

\* A set of numbers up to a bound has a greatest one.
LEMMA Greatest ==
  ASSUME NEW N \in Nat, NEW T, T \subseteq 0..N, T # {}
  PROVE  \E x \in T : \A y \in T : y <= x
<1>. DEFINE S == {N - x : x \in T}
<1>1. S \subseteq Nat /\ S # {}
  <2>1. \A x \in T : x \in 0..N /\ N - x \in Nat
    OBVIOUS
  <2>2. S \subseteq Nat
    BY <2>1
  <2>3. PICK x \in T : TRUE
    OBVIOUS
  <2>4. N - x \in S
    BY <2>3
  <2>. QED BY <2>2, <2>4
<1>2. PICK z \in S : \A y \in S : ~(<<y, z>> \in OpToRel(<, Nat))
  BY <1>1, WFMin, NatLessThanWellFounded
<1>3. PICK x \in T : z = N - x
  OBVIOUS
<1>4. ASSUME NEW y \in T PROVE y <= x
  <2>1. N - y \in S /\ N - y \in Nat /\ z \in Nat
    BY <1>1
  <2>2. ~(N - y < z)
    BY <1>2, <2>1 DEF OpToRel
  <2>. QED BY <1>3, <2>1, <2>2
<1>. QED BY <1>4

\* parse_certificates finds for every name that is covered one of the certificates that
\* have it.
LEMMA Parse ==
  ASSUME NEW cs, IsConf(cs), NEW order \in Bijection(DOMAIN cs, 1..Cardinality(DOMAIN cs)),
         day \in Nat
  PROVE  LET m == ParseCertificates(cs, order)
         IN /\ DOMAIN m = Covered(cs)
            /\ \A d \in DOMAIN m :
                 /\ m[d] \in LiveType /\ m[d].name \in Claims(cs, d) /\ Agrees(m[d], cs)
                 /\ m[d].since = day
<1>. DEFINE m == ParseCertificates(cs, order)
            N == Cardinality(DOMAIN cs)
<1>1. DOMAIN m = Covered(cs)
  BY DEF ParseCertificates, Covered
<1>2. N \in Nat /\ order \in [DOMAIN cs -> 1..N]
  BY FS_CardinalityType DEF IsConf, Bijection, Injection, Surjection
<1>3. ASSUME NEW d \in Covered(cs)
      PROVE  /\ m[d] \in LiveType /\ m[d].name \in Claims(cs, d) /\ Agrees(m[d], cs)
             /\ m[d].since = day
  <2>. DEFINE C == Claims(cs, d)
              x == CHOOSE x \in C : \A y \in C : order[y] <= order[x]
  <2>1. C # {} /\ C \subseteq DOMAIN cs
    BY DEF Covered, Claims, Parsed
  <2>2. \E a \in C : \A y \in C : order[y] <= order[a]
    <3>. DEFINE T == {order[y] : y \in C}
    <3>1. T \subseteq 0..N /\ T # {}
      BY <1>2, <2>1
    <3>2. PICK t \in T : \A u \in T : u <= t
      BY <1>2, <3>1, Greatest
    <3>. QED BY <3>2
  <2>3. x \in C
    BY <2>2
  <2>4. m[d] = [name |-> x, ver |-> cs[x].ver, until |-> cs[x].until, from |-> cs[x].from,
                ca |-> cs[x].ca, signs |-> cs[x].signs, buffer |-> cs[x].buffer, since |-> day]
    BY <1>3 DEF ParseCertificates, Covered
  <2>. HIDE DEF x
  <2>5. cs[x] \in CertType /\ x \in STRING
    BY <2>1, <2>3 DEF IsConf
  <2>6. m[d] \in LiveType /\ m[d].name = x /\ m[d].since = day
    BY <2>4, <2>5 DEF LiveType, CertType
  <2>. QED BY <2>3, <2>4, <2>6 DEF Agrees
<1>. QED BY <1>1, <1>3

\* try_update_certificates makes the map of the new configuration; what it keeps keeps its
\* day, what is new has this one.
LEMMA Updated ==
  ASSUME NEW cs, IsConf(cs), TryUpdateCertificates(cs), day \in Nat,
         \A d \in DOMAIN live : live[d] \in LiveType
  PROVE  /\ applied' = cs /\ DOMAIN live' = Covered(cs)
         /\ \A d \in DOMAIN live' :
              /\ live'[d] \in LiveType /\ live'[d].name \in Claims(cs, d) /\ Agrees(live'[d], cs)
              /\ (d \in DOMAIN live /\ live'[d] = live[d]) \/ live'[d].since = day
<1>1. PICK order \in Bijection(DOMAIN cs, 1..Cardinality(DOMAIN cs)) :
        live' = LET m == ParseCertificates(cs, order)
                IN [d \in DOMAIN m |->
                      IF d \in DOMAIN live /\ live[d] = [m[d] EXCEPT !.since = live[d].since]
                      THEN live[d] ELSE m[d]]
  BY DEF TryUpdateCertificates
<1>. DEFINE m == ParseCertificates(cs, order)
<1>2. /\ DOMAIN m = Covered(cs)
      /\ \A d \in DOMAIN m :
           /\ m[d] \in LiveType /\ m[d].name \in Claims(cs, d) /\ Agrees(m[d], cs)
           /\ m[d].since = day
  BY Parse
<1>3. live' = [d \in DOMAIN m |->
                 IF d \in DOMAIN live /\ live[d] = [m[d] EXCEPT !.since = live[d].since]
                 THEN live[d] ELSE m[d]]
  BY <1>1
<1>. HIDE DEF m
<1>4. ASSUME NEW d \in DOMAIN live'
      PROVE  /\ live'[d] \in LiveType /\ live'[d].name \in Claims(cs, d) /\ Agrees(live'[d], cs)
             /\ (d \in DOMAIN live /\ live'[d] = live[d]) \/ live'[d].since = day
  <2>1. d \in DOMAIN m
    BY <1>3
  <2>2. CASE d \in DOMAIN live /\ live[d] = [m[d] EXCEPT !.since = live[d].since]
    <3>1. live'[d] = live[d]
      BY <1>3, <2>1, <2>2
    <3>. QED BY <1>2, <2>1, <2>2, <3>1 DEF LiveType, Agrees
  <2>3. CASE ~(d \in DOMAIN live /\ live[d] = [m[d] EXCEPT !.since = live[d].since])
    <3>1. live'[d] = m[d]
      BY <1>3, <2>1, <2>3
    <3>. QED BY <1>2, <2>1, <3>1
  <2>. QED BY <2>2, <2>3
<1>5. applied' = cs
  BY DEF TryUpdateCertificates
<1>. QED BY <1>2, <1>3, <1>4, <1>5


\* The empty map, and a handshake that has not begun.
LEMMA EmptyMap == <<>> \in AnyMap /\ DOMAIN <<>> = {} /\ IsConf(<<>>)
<1>1. DOMAIN <<>> = {}
  OBVIOUS
<1>2. <<>> \in [{} -> Leaf] /\ {} \in SUBSET Key
  OBVIOUS
<1>3. IsConf(<<>>)
  <2>1. <<>> \in [{} -> CertType] /\ IsFiniteSet({})
    BY FS_EmptySet
  <2>. QED BY <1>1, <2>1 DEF IsConf
<1>. QED BY <1>1, <1>2, <1>3 DEF AnyMap

LEMMA NoReloading ==
  /\ NoReload.pc = "idle" /\ NoReload.new = <<>> /\ NoReload.base = <<>>
  /\ NoReload = [pc |-> NoReload.pc, new |-> NoReload.new, base |-> NoReload.base]
  /\ ~EnabledLetsEncrypt(<<>>)
<1>1. ~EnabledLetsEncrypt(<<>>)
  BY EmptyMap DEF EnabledLetsEncrypt
<1>. QED BY <1>1 DEF NoReload

LEMMA NoHand == NoHandshake \in HandType /\ NoHandshake.pc = "idle" /\ NoHandshake.map = <<>>
<1>1. <<>> \in Name /\ {} \in SUBSET FitType
  BY DEF Name
<1>. QED BY <1>1, EmptyMap DEF NoHandshake, HandType

\* The program starts in such a state.
LEMMA InitIInv == Init => IInv
<1>. SUFFICES ASSUME Init PROVE IInv
  OBVIOUS
<1>1. /\ setup \in Setup /\ IsConf(conf) /\ setup.days \in Nat \ {0} /\ Tries \in Nat
      /\ stored = conf /\ applied = conf
  BY CertAssumption DEF Init
<1>2. Tasks
  BY <1>1 DEF Tasks, Init, Working
<1>3. \A h \in Handshake : hs[h] = NoHandshake /\ hs[h].pc = "idle" /\ hs[h].map = <<>>
  BY NoHand DEF Init
<1>4. Types
  <2>1. hs \in [Handshake -> HandType]
    BY NoHand DEF Init
  <2>2. object \in [Leaf -> LeafType \cup {None}]
    BY DEF Init
  <2>3. leafs \in AnyMap /\ kept \in AnyMap
    BY EmptyMap DEF Init
  <2>4. day = 1 /\ daily \in BOOLEAN /\ stuck \in BOOLEAN
    BY DEF Init
  <2>5. day \in Nat /\ day >= 1 /\ day <= setup.days
    BY <1>1, <2>4
  <2>. QED BY <1>1, <2>1, <2>2, <2>3, <2>4, <2>5 DEF Types
<1>5. LiveOK /\ \A d \in DOMAIN live : live[d].since = 1
  <2>1. PICK order \in Bijection(DOMAIN conf, 1..Cardinality(DOMAIN conf)) :
          live = ParseCertificates(conf, order)
    BY DEF Init
  <2>2. day \in Nat /\ day = 1
    BY DEF Init
  <2>. QED BY <1>1, <2>1, <2>2, Parse DEF LiveOK
<1>51. Configs
  <2>1. enabled = EnabledLetsEncrypt(conf) /\ enabled \in BOOLEAN
    BY DEF Init, EnabledLetsEncrypt
  <2>2. reload = NoReload /\ renewed = <<>> /\ crossed = FALSE /\ todo = <<>> /\ task = "idle"
    BY DEF Init
  <2>3. Confs
    BY <1>1, <2>1, <2>2, EmptyMap, NoReloading DEF Confs
  <2>4. Agreement
    BY <1>1, <2>2, NoReloading DEF Agreement
  <2>5. Answers
    BY <2>1, <2>2, NoReloading DEF Answers
  <2>. QED BY <2>3, <2>4, <2>5 DEF Configs
<1>52. Signed
  BY DEF Signed, Init
<1>6. Maps
  BY <1>3, EmptyMap DEF Maps, MapOK, Init
<1>7. Hands
  BY <1>3 DEF Hands, Chosen
<1>8. Watch
  <2>1. \A h \in Handshake : Seen(hs[h])
    BY <1>3 DEF Seen
  <2>2. CheckedDay = 0
    BY DEF CheckedDay, Init
  <2>3. \A d \in DOMAIN live : Reported(live[d])
    BY <1>5, <2>2 DEF Reported
  <2>4. DOMAIN kept = {} /\ DOMAIN leafs = {} /\ task = "idle"
    BY EmptyMap DEF Init
  <2>. QED BY <2>1, <2>3, <2>4 DEF Watch
<1>9. Renewals
  BY DEF Renewals, HasDue, Init, Working
<1>. QED BY <1>2, <1>4, <1>5, <1>51, <1>52, <1>6, <1>7, <1>8, <1>9 DEF IInv
-----------------------------------------------------------------------------
(* The renewals, up to the certificate.                                      *)

\* An entry of the list has its type.
LEMMA ItemTyped ==
  ASSUME IsConf(conf), NEW n \in AcmeNames
  PROVE  Item(n) \in ItemType
BY DEF AcmeNames, IsConf, CertType, Item, ItemType

\* What is left of a list.
LEMMA Rest ==
  ASSUME todo \in Seq(ItemType), todo # <<>>
  PROVE  Tail(todo) \in Seq(ItemType) /\ todo[1] \in ItemType
OBVIOUS

\* A step of the service that is about its list and its order only.
LEMMA OrderKeeps ==
  ASSUME IInv, Tasks',
         UNCHANGED <<setup, confVars, leafs, object, hs, kept, day, daily, stuck, warned, last>>,
         task \notin {"sweep", "store", "set", "apply"},
         task' \notin {"sweep", "store", "set", "apply"},
         IsConf(renewed'), ~enabled => todo' = <<>>,
         task' = "save" => renewed' = stored \/ (task = "save" /\ renewed' = renewed),
         task' \in Working =>
           /\ todo' = todo
           /\ \/ task \in Working
              \/ todo[1].name \in DOMAIN last /\ last[todo[1].name] # None =>
                   Due(todo[1]) \/ last[todo[1].name].undone
  PROVE  IInv'
<1>1. Types' /\ LiveOK' /\ Maps' /\ Hands'
  <2>1. Types'
    BY DEF IInv, Types
  <2>2. LiveOK'
    BY DEF IInv, LiveOK
  <2>3. Maps'
    BY DEF IInv, Maps, MapOK, LeafAt
  <2>4. Hands'
    BY DEF IInv, Hands, Chosen, Fit, Own, LeafAt
  <2>. QED BY <2>1, <2>2, <2>3, <2>4
<1>2. Watch'
  BY DEF IInv, Watch, Reported, Recent, Young, Seen, CheckedDay, SweptDay
<1>3. Configs'
  <2>1. Confs'
    BY DEF IInv, Configs, Confs
  <2>2. Agreement'
    BY DEF IInv, Configs, Agreement
  <2>3. Answers'
    BY DEF IInv, Configs, Answers
  <2>. QED BY <2>1, <2>2, <2>3 DEF Configs
<1>4. Signed'
  BY DEF IInv, Signed
<1>5. Renewals'
  <2>1. ASSUME NEW n \in DOMAIN last, last[n] # None PROVE Placed(n)'
    <3>1. Placed(n) /\ ~JustSaved(n) /\ ~JustSaved(n)'
      BY <2>1 DEF IInv, Renewals, JustSaved
    <3>2. task' = "save" => InPlace(renewed', n, last[n])
      BY <3>1 DEF Placed
    <3>. QED BY <3>1, <3>2 DEF Placed
  <2>2. HasDue'
    BY DEF IInv, Renewals, HasDue, Due, Buffer
  <2>. QED BY <2>1, <2>2 DEF Renewals
<1>. QED BY <1>1, <1>2, <1>3, <1>4, <1>5 DEF IInv

\* RenewStart makes a list of what is configured for ACME.
LEMMA RenewStartKeeps == IInv /\ RenewStart => IInv'
<1>. SUFFICES ASSUME IInv, RenewStart PROVE IInv'
  OBVIOUS
<1>. DEFINE N == Cardinality(AcmeNames)
<1>1. N \in Nat
  BY FS_Subset, FS_CardinalityType DEF AcmeNames, IInv, Configs, Confs, IsConf
<1>2. PICK order \in Bijection(1..N, AcmeNames) : todo' = [i \in 1..N |-> Item(order[i])]
  BY DEF RenewStart
<1>3. todo' \in Seq(ItemType)
  <2>1. \A i \in 1..N : order[i] \in AcmeNames
    BY DEF Bijection, Injection
  <2>2. \A i \in 1..N : Item(order[i]) \in ItemType
    BY <2>1, ItemTyped DEF IInv, Configs, Confs
  <2>. QED BY <1>1, <1>2, <2>2
<1>4. /\ task \in {"renew", "idle"} /\ task' \in {"idle", "next"}
      /\ UNCHANGED <<setup, confVars, leafs, object, hs, kept, day, daily, stuck, warned,
                     last, tokens, challenge, tries, renewed>>
  BY DEF RenewStart, Tick, acmeSame
<1>5. Tasks'
  BY <1>3, <1>4 DEF IInv, Tasks, Working
<1>6. ~enabled => todo' = <<>>
  <2>1. ASSUME ~enabled PROVE AcmeNames = {}
    BY <2>1 DEF AcmeNames, EnabledLetsEncrypt, IInv, Configs, Answers
  <2>2. AcmeNames = {} => N = 0
    BY FS_EmptySet
  <2>. QED BY <1>2, <2>1, <2>2
<1>7. IsConf(renewed')
  BY <1>4 DEF IInv, Configs, Confs
<1>. QED BY <1>4, <1>5, <1>6, <1>7, OrderKeeps DEF Working

\* What the service decides to renew is due: the last renewal is in place.
LEMMA RenewNextKeeps == IInv /\ RenewNext => IInv'
<1>. SUFFICES ASSUME IInv, RenewNext PROVE IInv'
  OBVIOUS
<1>1. /\ task = "next" /\ todo \in Seq(ItemType)
      /\ UNCHANGED <<setup, confVars, leafs, object, hs, kept, day, daily, stuck, warned,
                     last, tokens, challenge, tries, renewed>>
  BY DEF RenewNext, acmeSame, IInv, Tasks
<1>0. IsConf(renewed') /\ (~enabled => todo = <<>>)
  BY <1>1 DEF IInv, Configs, Confs, Answers
<1>2. CASE todo = <<>> /\ task' = "idle" /\ UNCHANGED todo
  <2>1. Tasks'
    BY <1>1, <1>2 DEF IInv, Tasks, Working
  <2>. QED BY <1>0, <1>1, <1>2, <2>1, OrderKeeps DEF Working
<1>3. CASE todo # <<>> /\ ShouldRenew(todo[1]) /\ task' = "order" /\ UNCHANGED todo
  <2>1. Tasks'
    BY <1>1, <1>3 DEF IInv, Tasks, Working
  <2>2. ASSUME todo[1].name \in DOMAIN last, last[todo[1].name] # None,
               ~last[todo[1].name].undone
        PROVE  Due(todo[1])
    <3>. DEFINE n == todo[1].name
    <3>1. /\ n \in DOMAIN conf /\ conf[n].has /\ conf[n].ok
          /\ conf[n].pem = Range(last[n].names) /\ conf[n].until = last[n].day + CertDays
      BY <1>1, <2>2 DEF IInv, Renewals, Placed, JustSaved, InPlace
    <3>2. CASE ~(conf[n].until - day > Buffer(todo[1]))
      <4>1. todo[1] \in ItemType /\ last[n] \in LastType
        BY <1>1, <1>3, <2>2 DEF IInv, Tasks
      <4>2. todo[1].buffer \in Nat /\ last[n].day \in Nat /\ RenewDays \in Nat
        BY <4>1, CertAssumption DEF ItemType, LastType
      <4>3. Buffer(todo[1]) \in Nat /\ day \in Nat /\ CertDays \in Nat
        BY <4>2, CertAssumption DEF Buffer, IInv, Types
      <4>. QED BY <3>1, <3>2, <4>2, <4>3 DEF Due
    <3>3. CASE Cardinality(Range(todo[1].names)) # Len(todo[1].names)
      BY <3>3 DEF Due
    <3>4. CASE Range(todo[1].names) # conf[n].pem
      BY <3>1, <3>4 DEF Due
    <3>. QED BY <1>3, <3>1, <3>2, <3>3, <3>4 DEF ShouldRenew
  <2>. QED BY <1>0, <1>1, <1>3, <2>1, <2>2, OrderKeeps DEF Working
<1>4. CASE todo # <<>> /\ task' = "next" /\ todo' = Tail(todo)
  <2>1. todo' \in Seq(ItemType)
    BY <1>1, <1>4, Rest
  <2>2. Tasks'
    BY <1>1, <1>4, <2>1 DEF IInv, Tasks, Working
  <2>. QED BY <1>0, <1>1, <1>4, <2>2, OrderKeeps DEF Working
<1>. QED BY <1>2, <1>3, <1>4 DEF RenewNext

\* A renewal that fails.
LEMMA FailedKeeps == IInv /\ task \in Working /\ Failed => IInv'
<1>. SUFFICES ASSUME IInv, task \in Working, Failed PROVE IInv'
  OBVIOUS
<1>1. todo' \in Seq(ItemType)
  BY Rest DEF IInv, Tasks, Failed
<1>2. Tasks'
  <2>1. tokens' \subseteq DOMAIN challenge' /\ tries' \in 0..Tries
    BY CertAssumption DEF Failed
  <2>. QED BY <1>1, <2>1 DEF IInv, Tasks, Working, Failed
<1>3. IsConf(renewed') /\ enabled
  BY EmptyMap DEF Failed, IInv, Tasks, Configs, Answers
<1>. QED BY <1>2, <1>3, OrderKeeps DEF Working, Failed, acmeSame

\* A step of an order that goes on, or ends with the service.
LEMMA StepKeeps ==
  ASSUME IInv, NEW from \in Working \ {"save"}, NEW to \in (Working \ {"save"}) \cup {"dead"},
         Step(from, to), tokens' \subseteq DOMAIN challenge', tries' \in 0..Tries
  PROVE  IInv'
<1>1. Tasks'
  BY DEF IInv, Tasks, Step, Working
<1>2. IsConf(renewed') /\ enabled
  BY DEF Step, IInv, Tasks, Configs, Confs, Answers
<1>. QED BY <1>1, <1>2, OrderKeeps DEF Working, Step, acmeSame

\* The steps of an order, and the questions of Let's Encrypt.
LEMMA AcmeKeeps ==
  ASSUME IInv,
         \/ AcmeFails \/ AcmeOrder \/ AcmePanics \/ AcmePoll \/ AcmeFinalize \/ AcmeLoad
         \/ LetsEncrypt \/ \E d \in DOMAIN challenge : AcmeToken(d) \/ AcmeReady(d)
  PROVE  IInv'
<1>. USE DEF Working
<1>0. tokens \subseteq DOMAIN challenge /\ tries \in 0..Tries /\ Tries \in Nat \ {0}
  BY CertAssumption DEF IInv, Tasks
<1>1. CASE AcmeFails
  BY <1>1, FailedKeeps DEF AcmeFails
<1>2. CASE AcmeOrder
  <2>1. tokens' \subseteq DOMAIN challenge' /\ tries' \in 0..Tries /\ Step("order", "token")
    BY <1>0, <1>2 DEF AcmeOrder
  <2>. QED BY <2>1, StepKeeps
<1>3. CASE AcmePoll
  <2>1. CASE Failed
    BY <1>3, <2>1, FailedKeeps DEF AcmePoll
  <2>2. CASE Step("poll", "finalize") /\ UNCHANGED <<tokens, challenge, tries>>
    BY <1>0, <2>2, StepKeeps
  <2>3. CASE /\ tries + 1 < Tries /\ tries' = tries + 1
             /\ Step("poll", "poll") /\ UNCHANGED <<tokens, challenge>>
    <3>1. tries' \in 0..Tries
      BY <1>0, <2>3
    <3>. QED BY <1>0, <2>3, <3>1, StepKeeps
  <2>. QED BY <1>3, <2>1, <2>2, <2>3 DEF AcmePoll
<1>4. CASE AcmeFinalize
  <2>1. CASE Failed
    BY <1>4, <2>1, FailedKeeps DEF AcmeFinalize
  <2>2. CASE Step("finalize", "certificate") /\ UNCHANGED <<tokens, challenge, tries>>
    BY <1>0, <2>2, StepKeeps
  <2>. QED BY <1>4, <2>1, <2>2 DEF AcmeFinalize
<1>5. CASE LetsEncrypt
  <2>1. PICK d \in DOMAIN challenge : Validate(d)
    BY <1>5 DEF LetsEncrypt
  <2>2. DOMAIN challenge' = DOMAIN challenge
    BY <2>1 DEF Validate
  <2>3. UNCHANGED <<setup, confVars, leafs, object, hs, kept, day, daily, stuck, warned,
                    last, task, todo, tokens, tries, renewed>>
    BY <2>1 DEF Validate, acmeSame
  <2>4. Tasks'
    BY <1>0, <2>2, <2>3 DEF IInv, Tasks
  <2>5. Types' /\ LiveOK' /\ Maps' /\ Hands' /\ Signed'
    BY <2>3 DEF IInv, Types, LiveOK, Maps, MapOK, Hands, Chosen, Fit, Own, LeafAt, Signed
  <2>6. Watch'
    BY <2>3 DEF IInv, Watch, Reported, Recent, Young, Seen, CheckedDay, SweptDay
  <2>7. Renewals'
    BY <2>3 DEF IInv, Renewals, HasDue, Due, Placed, JustSaved
  <2>8. Configs'
    BY <2>3 DEF IInv, Configs, Confs, Agreement, Answers
  <2>. QED BY <2>4, <2>5, <2>6, <2>7, <2>8 DEF IInv
<1>6. ASSUME NEW d \in DOMAIN challenge, AcmeToken(d) PROVE IInv'
  <2>1. tokens' \subseteq DOMAIN challenge' /\ tries' \in 0..Tries
    BY <1>0, <1>6 DEF AcmeToken, Pending
  <2>2. CASE Step("token", "ready")
    BY <2>1, <2>2, StepKeeps
  <2>3. CASE Step("token", "token")
    BY <2>1, <2>3, StepKeeps
  <2>. QED BY <1>6, <2>2, <2>3 DEF AcmeToken
<1>7. ASSUME NEW d \in DOMAIN challenge, AcmeReady(d) PROVE IInv'
  <2>1. tokens' \subseteq DOMAIN challenge' /\ tries' \in 0..Tries
    BY <1>0, <1>7 DEF AcmeReady
  <2>2. CASE Step("ready", "poll")
    BY <2>1, <2>2, StepKeeps
  <2>3. CASE Step("ready", "ready")
    BY <2>1, <2>3, StepKeeps
  <2>. QED BY <1>7, <2>2, <2>3 DEF AcmeReady
<1>8. CASE AcmePanics
  <2>1. Step("token", "dead") /\ UNCHANGED <<tokens, challenge, tries>>
    BY <1>8 DEF AcmePanics
  <2>. QED BY <1>0, <2>1, StepKeeps
<1>9. CASE AcmeLoad
  <2>1. /\ task = "certificate" /\ task' = "save" /\ renewed' = stored
        /\ UNCHANGED <<setup, confVars, leafs, object, hs, kept, day, daily, stuck, warned,
                       last, todo, tokens, challenge, tries>>
    BY <1>9 DEF AcmeLoad, acmeSame
  <2>2. Tasks'
    BY <2>1 DEF IInv, Tasks
  <2>3. IsConf(renewed') /\ enabled
    BY <2>1 DEF IInv, Tasks, Configs, Confs, Answers
  <2>. QED BY <2>1, <2>2, <2>3, OrderKeeps
<1>. QED BY <1>1, <1>2, <1>3, <1>4, <1>5, <1>6, <1>7, <1>8, <1>9

-----------------------------------------------------------------------------
(* Days, and the tasks of a day.                                             *)

\* The days up to which everything was looked at.
LEMMA Days ==
  ASSUME Types
  PROVE  /\ CheckedDay \in {day, day - 1} /\ CheckedDay \in Nat /\ CheckedDay <= day
         /\ SweptDay \in {day, day - 1} /\ SweptDay \in Nat /\ SweptDay <= day
BY DEF Types, CheckedDay, SweptDay

\* Time passes: what was looked at today was looked at yesterday tomorrow.
LEMMA DayKeeps == IInv /\ Day => IInv'
<1>. SUFFICES ASSUME IInv, Day PROVE IInv'
  OBVIOUS
<1>1. /\ \A h \in Handshake : hs[h].pc = "idle"
      /\ (daily /\ task = "idle") \/ task \in {"certificate", "dead"}
      /\ daily' = FALSE /\ stuck' = (stuck \/ task # "idle")
      /\ UNCHANGED <<setup, confVars, leafs, object, hs, task, kept, todo, tokens, challenge,
                     tries, renewed, last, warned>>
  BY DEF Day, acmeVars
<1>2. /\ day \in Nat /\ day >= 1 /\ setup.days \in Nat /\ day' \in Nat /\ day' <= setup.days
      /\ day' >= 1 /\ day' >= day /\ day' <= day + 1
  BY CertAssumption DEF Day, IInv, Types
<1>3. Types'
  <2>1. stuck' \in BOOLEAN
    BY <1>1 DEF IInv, Types
  <2>. QED BY <1>1, <1>2, <2>1 DEF IInv, Types
<1>4. Tasks' /\ LiveOK' /\ Signed' /\ Configs'
  <2>1. Tasks' /\ LiveOK' /\ Signed'
    BY <1>1 DEF IInv, Tasks, LiveOK, Signed
  <2>2. Configs'
    BY <1>1 DEF IInv, Configs, Confs, Agreement, Answers
  <2>. QED BY <2>1, <2>2
<1>5. Maps'
  BY <1>1 DEF IInv, Maps, MapOK, LeafAt
<1>6. Hands'
  BY <1>1 DEF Hands, Chosen
<1>7. Watch'
  <2>1. CASE task \in {"certificate", "dead"}
    BY <1>1, <2>1 DEF IInv, Watch
  <2>2. CASE daily /\ task = "idle"
    <3>1. CheckedDay = day /\ CheckedDay' = day' - 1 /\ SweptDay = day /\ SweptDay' = day' - 1
      BY <1>1, <2>2 DEF CheckedDay, SweptDay
    <3>2. ASSUME ~stuck, NEW d \in DOMAIN live PROVE Reported(live[d])'
      <4>1. live[d] \in LiveType /\ Reported(live[d])
        BY <3>2 DEF IInv, LiveOK, Watch
      <4>2. live[d].since \in Nat /\ live[d].until \in Nat
        BY <4>1 DEF LiveType
      <4>. QED BY <1>1, <1>2, <3>1, <4>1, <4>2 DEF Reported
    <3>3. ASSUME ~stuck, NEW k \in DOMAIN leafs PROVE Recent(object[leafs[k]])'
      <4>1. leafs[k] \in Leaf /\ object[leafs[k]] # None
        BY DEF IInv, Types, AnyMap, Maps, MapOK, LeafAt
      <4>2. PICK o \in LeafType : o = object[leafs[k]]
        BY <4>1 DEF IInv, Types
      <4>3. o.until \in Nat /\ o.caUntil \in Nat /\ ExpiryDays \in Nat
        BY CertAssumption DEF LeafType
      <4>4. Recent(o)
        BY <3>3, <4>2 DEF IInv, Watch
      <4>5. Recent(o)'
        BY <1>2, <3>1, <4>3, <4>4 DEF Recent
      <4>. QED BY <1>1, <4>2, <4>5
    <3>4. \A h \in Handshake : Seen(hs[h])'
      BY <1>1 DEF Seen
    <3>. QED BY <1>1, <2>2, <3>2, <3>3, <3>4 DEF IInv, Watch
  <2>. QED BY <1>1, <2>1, <2>2
<1>8. Renewals'
  <2>1. ASSUME task \in Working, todo[1].name \in DOMAIN last, last[todo[1].name] # None,
               ~last[todo[1].name].undone
        PROVE  Due(todo[1])'
    <3>1. Due(todo[1]) /\ last[todo[1].name] \in LastType /\ todo[1] \in ItemType
      BY <2>1, Rest DEF IInv, Renewals, HasDue, Tasks
    <3>2. last[todo[1].name].day \in Nat /\ Buffer(todo[1]) \in Nat /\ CertDays \in Nat
      BY <3>1, CertAssumption DEF LastType, ItemType, Buffer
    <3>3. Buffer(todo[1])' = Buffer(todo[1])
      BY <1>1 DEF Buffer
    <3>. QED BY <1>1, <1>2, <3>1, <3>2, <3>3 DEF Due
  <2>2. HasDue'
    BY <1>1, <2>1 DEF HasDue
  <2>. QED BY <1>1, <2>2 DEF IInv, Renewals, Placed, JustSaved
<1>. QED BY <1>3, <1>4, <1>5, <1>6, <1>7, <1>8 DEF IInv

\* A leaf is still there, and it is the same but for its marks.
Kept(l) ==
  /\ object'[l] # None
  /\ object'[l].key = object[l].key /\ object'[l].by = object[l].by
  /\ object'[l].ver = object[l].ver /\ (object[l].old => object'[l].old)
  /\ object'[l].cn = object[l].cn /\ object'[l].until = object[l].until
  /\ object'[l].caUntil = object[l].caUntil
  /\ object[l].back => object'[l].back

LEMMA AtKept ==
  ASSUME NEW l, NEW k, Kept(l), LeafAt(l, k)
  PROVE  LeafAt(l, k)'
BY DEF Kept, LeafAt

LEMMA RecentKept ==
  ASSUME NEW l, Kept(l), day' = day
  PROVE  /\ Young(object[l]) => Young(object[l])'
         /\ SweptDay' = SweptDay /\ Recent(object[l]) => Recent(object[l])'
BY DEF Kept, Young, Recent

LEMMA MapKept ==
  ASSUME NEW m \in AnyMap, MapOK(m),
         \A k \in DOMAIN m : object[m[k]] # None => Kept(m[k])
  PROVE  MapOK(m)'
<1>1. \A k \in DOMAIN m : LeafAt(m[k], k) /\ Kept(m[k])
  BY DEF MapOK, LeafAt
<1>2. \A k \in DOMAIN m : LeafAt(m[k], k)'
  BY <1>1, AtKept
<1>. QED BY <1>2 DEF MapOK

\* A step that leaves the configuration and the renewals alone.
LEMMA Aside ==
  ASSUME IInv, UNCHANGED <<setup, confVars, day, todo, tokens, challenge, tries, renewed, last>>,
         task' = task \/ (task \in {"idle", "sweep", "store"}
                         /\ task' \in {"sweep", "store", "renew"})
  PROVE  Tasks' /\ Configs' /\ LiveOK' /\ Renewals'
<1>1. Tasks'
  BY DEF IInv, Tasks, Working
<1>2. LiveOK'
  BY DEF IInv, LiveOK
<1>3. Renewals'
  <2>1. HasDue'
    BY DEF IInv, Renewals, HasDue, Due, Buffer, Working
  <2>. QED BY <2>1 DEF IInv, Renewals, Placed, JustSaved
<1>4. Configs'
  BY DEF IInv, Configs, Confs, Agreement, Answers
<1>. QED BY <1>1, <1>2, <1>3, <1>4

\* The leaves are still signed by a CA of the map if no new one is there.
LEMMA SignedKept ==
  ASSUME IInv, applied' = applied,
         \A l \in Leaf : object'[l] # None => object[l] # None /\ Kept(l)
  PROVE  Signed'
BY DEF IInv, Signed, Kept, Signer

\* A handshake that does nothing.
LEMMA HandKept ==
  ASSUME IInv, NEW x \in HandType, day' = day,
         x.leaf \in Leaf /\ object[x.leaf] # None => Kept(x.leaf)
  PROVE  /\ Chosen(x) => Chosen(x)'
         /\ /\ Chosen(x) /\ Seen(x) /\ SweptDay' = SweptDay
            /\ x.pc = "done" => CheckedDay' = CheckedDay /\ warned' = warned
            => Seen(x)'
<1>1. Own(x) => Own(x)' /\ Kept(x.leaf)
  BY AtKept DEF Own, LeafAt, CommonName, Wildcard
<1>2. Chosen(x) => Chosen(x)'
  BY <1>1 DEF Chosen, Fit
<1>3. ASSUME Chosen(x), Seen(x), x.pc = "add" PROVE Young(object[x.leaf])'
  BY <1>1, <1>3, RecentKept DEF Chosen, Seen
<1>4. ASSUME Chosen(x), Seen(x), SweptDay' = SweptDay, x.pc = "done", x.cert # None,
             CheckedDay' = CheckedDay, warned' = warned
      PROVE  IF x.cert.ca THEN (Recent(object[x.leaf]) \/ Young(object[x.leaf]))'
             ELSE Reported(x.cert)'
  <2>1. CASE x.cert.ca
    <3>1. Kept(x.leaf) /\ (Recent(object[x.leaf]) \/ Young(object[x.leaf]))
      BY <1>1, <1>4, <2>1 DEF Chosen, Seen
    <3>. QED BY <1>4, <2>1, <3>1, RecentKept
  <2>2. CASE ~x.cert.ca
    BY <1>4, <2>2 DEF Seen, Reported
  <2>. QED BY <2>1, <2>2
<1>. QED BY <1>2, <1>3, <1>4 DEF Seen


\* What a state refers to is held after the step that leads to it.
LEMMA Refers ==
  /\ \A k \in DOMAIN leafs' : leafs'[k] \in Held'
  /\ \A k \in DOMAIN kept' : kept'[k] \in Held'
  /\ \A h \in Handshake : /\ \A k \in DOMAIN hs'[h].map : hs'[h].map[k] \in Held'
                          /\ hs'[h].leaf # None => hs'[h].leaf \in Held'
BY DEF Held, Range

\* A map of leaves has leaves.
LEMMA MapTyped ==
  ASSUME NEW m \in AnyMap, NEW k \in DOMAIN m
  PROVE  m[k] \in Leaf /\ k \in Key
BY DEF AnyMap

\* A step of one handshake, which may take leaves nobody holds away.
LEMMA HandStep ==
  ASSUME IInv, NEW h \in Handshake, NEW y \in HandType, hs' = [hs EXCEPT ![h] = y],
         UNCHANGED <<setup, confVars, task, todo, tokens, challenge, tries, renewed, last, kept, day,
                     daily, stuck, warned>>,
         object' \in [Leaf -> LeafType \cup {None}], leafs' \in AnyMap,
         \A l \in Leaf : object[l] # None /\ l \in Held' => Kept(l),
         MapOK(leafs)', MapOK(y.map)', Chosen(y)', Signed',
         ~stuck => Seen(y)' /\ \A k \in DOMAIN leafs' : Recent(object[leafs[k]])'
  PROVE  IInv'
<1>1. Tasks' /\ Configs' /\ LiveOK' /\ Renewals'
  BY Aside
<1>2. /\ hs \in [Handshake -> HandType] /\ kept \in AnyMap
      /\ hs'[h] = y /\ \A g \in Handshake : g # h => hs'[g] = hs[g]
  BY DEF IInv, Types
<1>3. Types'
  <2>1. hs' \in [Handshake -> HandType]
    BY <1>2
  <2>. QED BY <2>1 DEF IInv, Types
<1>4. CheckedDay' = CheckedDay /\ SweptDay' = SweptDay
  BY DEF CheckedDay, SweptDay
<1>5. /\ \A k \in DOMAIN kept : kept[k] \in Held'
      /\ \A g \in Handshake : g # h =>
           /\ \A k \in DOMAIN hs[g].map : hs[g].map[k] \in Held'
           /\ hs[g].leaf # None => hs[g].leaf \in Held'
  <2>1. /\ \A k \in DOMAIN kept' : kept'[k] \in Held'
        /\ \A g \in Handshake : /\ \A k \in DOMAIN hs'[g].map : hs'[g].map[k] \in Held'
                                /\ hs'[g].leaf # None => hs'[g].leaf \in Held'
    BY Refers
  <2>. QED BY <1>2, <2>1
<1>6. MapOK(kept)'
  <2>1. \A k \in DOMAIN kept : object[kept[k]] # None => Kept(kept[k])
    BY <1>2, <1>5, MapTyped
  <2>2. PICK m \in AnyMap : m = kept
    BY <1>2
  <2>3. MapOK(m)'
    BY <2>1, <2>2, MapKept DEF IInv, Maps
  <2>. QED BY <2>2, <2>3
<1>7. ASSUME NEW g \in Handshake, g # h
      PROVE  MapOK(hs[g].map)' /\ Chosen(hs[g])' /\ (~stuck => Seen(hs[g])')
  <2>1. PICK x \in HandType : x = hs[g]
    BY <1>2
  <2>2. x.map \in AnyMap /\ (x.leaf \in Leaf => x.leaf # None)
    BY CertAssumption DEF HandType
  <2>3. \A k \in DOMAIN x.map : object[x.map[k]] # None => Kept(x.map[k])
    BY <1>5, <1>7, <2>1, <2>2, MapTyped
  <2>4. PICK m \in AnyMap : m = x.map
    BY <2>2
  <2>5. MapOK(m)'
    BY <2>1, <2>3, <2>4, MapKept DEF IInv, Maps
  <2>6. x.leaf \in Leaf /\ object[x.leaf] # None => Kept(x.leaf)
    BY <1>5, <1>7, <2>1, <2>2
  <2>7. Chosen(x) /\ (~stuck => Seen(x))
    BY <2>1 DEF IInv, Hands, Watch
  <2>8. Chosen(x)' /\ (~stuck => Seen(x)')
    BY <1>4, <2>6, <2>7, HandKept
  <2>9. hs'[g] = x
    BY <1>2, <1>7, <2>1
  <2>. QED BY <2>4, <2>5, <2>8, <2>9
<1>8. \A g \in Handshake : MapOK(hs[g].map)' /\ Chosen(hs[g])' /\ (~stuck => Seen(hs[g])')
  <2>1. MapOK(hs[h].map)' /\ Chosen(hs[h])' /\ (~stuck => Seen(hs[h])')
    BY <1>2
  <2>. QED BY <1>7, <2>1
<1>9. Maps' /\ Hands'
  BY <1>6, <1>8 DEF Maps, Hands
<1>10. Watch'
  <2>1. ASSUME task' = "store", NEW k \in DOMAIN kept
        PROVE  object'[kept[k]].until >= day' - ExpiryDays
    <3>1. Kept(kept[k])
      BY <1>2, <1>5, MapTyped DEF IInv, Maps, MapOK, LeafAt
    <3>. QED BY <2>1, <3>1 DEF IInv, Watch, Kept
  <2>2. ~stuck => \A d \in DOMAIN live' : Reported(live[d])'
    BY <1>4 DEF IInv, Watch, Reported
  <2>3. task' # "store" => DOMAIN kept' = {}
    BY DEF IInv, Watch
  <2>. QED BY <1>8, <2>1, <2>2, <2>3 DEF Watch
<1>. QED BY <1>1, <1>3, <1>9, <1>10 DEF IInv

-----------------------------------------------------------------------------
(* Handshakes.                                                               *)

\* certificate_callback chooses one of what fits best.
LEMMA SelectedFits ==
  ASSUME LiveOK, NEW sni
  PROVE  \/ Selected(live, sni) = None /\ Fits(applied, sni) = {}
         \/ \E d \in DOMAIN live : /\ Selected(live, sni) = live[d]
                                   /\ live[d].name \in Fits(applied, sni)
<1>. DEFINE F == Found(live, sni)
            C == Candidates(sni)
<1>1. C[1] = sni /\ C[2] = Wildcard(sni) /\ C[3] = Default
  BY DEF Candidates
<1>2. \A d : d \in DOMAIN live <=> Claims(applied, d) # {}
  BY DEF LiveOK, Covered, Claims
<1>3. \A d \in DOMAIN live : live[d].name \in Claims(applied, d)
  BY DEF LiveOK
<1>4. /\ 1 \in F <=> sni \in DOMAIN live
      /\ 2 \in F <=> Wildcard(sni) \in DOMAIN live
      /\ 3 \in F <=> Default \in DOMAIN live
      /\ F \subseteq 1..3
  BY <1>1 DEF Found
<1>. DEFINE i == CHOOSE i \in F : \A j \in F : i <= j
<1>5. CASE F = {}
  <2>1. Selected(live, sni) = None
    BY <1>5 DEF Selected
  <2>2. Fits(applied, sni) = {}
    BY <1>2, <1>4, <1>5 DEF Fits
  <2>. QED BY <2>1, <2>2
<1>6. CASE F # {}
  <2>1. Selected(live, sni) = live[C[i]]
    BY <1>6 DEF Selected
  <2>. HIDE DEF F, C
  <2>2. \E a \in F : \A j \in F : a <= j
    <3>1. CASE 1 \in F
      BY <1>4, <3>1
    <3>2. CASE 1 \notin F /\ 2 \in F
      BY <1>4, <3>2
    <3>3. CASE 1 \notin F /\ 2 \notin F
      <4>1. \A a \in F : a = 3
        BY <1>4, <3>3
      <4>. QED BY <1>6, <4>1
    <3>. QED BY <3>1, <3>2, <3>3
  <2>3. i \in F /\ \A j \in F : i <= j
    BY <2>2
  <2>. HIDE DEF i
  <2>4. C[i] \in DOMAIN live /\ live[C[i]].name \in Fits(applied, sni)
    <3>1. CASE i = 1
      BY <1>1, <1>2, <1>3, <1>4, <2>3, <3>1 DEF Fits
    <3>2. CASE i = 2
      <4>1. 1 \notin F
        BY <2>3, <3>2
      <4>. QED BY <1>1, <1>2, <1>3, <1>4, <2>3, <3>2, <4>1 DEF Fits
    <3>3. CASE i = 3
      <4>1. 1 \notin F /\ 2 \notin F
        BY <2>3, <3>3
      <4>. QED BY <1>1, <1>2, <1>3, <1>4, <2>3, <3>3, <4>1 DEF Fits
    <3>. QED BY <1>4, <2>3, <3>1, <3>2, <3>3
  <2>. QED BY <2>1, <2>4
<1>. QED BY <1>5, <1>6

\* A handshake begins.
LEMMA SelectKeeps == ASSUME IInv, NEW h \in Handshake, Select(h) PROVE IInv'
<1>0. Promised = applied
  BY DEF Promised, Settled, IInv, Configs, Confs, Agreement
<1>. DEFINE FitOf(cs, sni) == {[name |-> n, ver |-> cs[n].ver, unable |-> cs[n].ca /\ ~cs[n].signs] :
                                 n \in Fits(cs, sni)}
            Begun(sni, f) == LET c == Selected(live, sni)
                                 ca == c # None /\ c.ca
                             IN hs' = [hs EXCEPT ![h] =
                                  [NoHandshake EXCEPT !.pc = IF ca THEN "leaf" ELSE "done",
                                                      !.sni = sni, !.cert = c, !.at = day,
                                                      !.fit = f]]
<1>1. PICK sni \in setup.snis : Begun(sni, FitOf(applied, sni))
  <2>1. PICK sni \in setup.snis : Begun(sni, FitOf(Promised, sni))
    BY DEF Select
  <2>. HIDE DEF FitOf, Begun
  <2>. QED BY <1>0, <2>1
<1>. DEFINE fit == {[name |-> n, ver |-> applied[n].ver, unable |-> applied[n].ca /\ ~applied[n].signs] :
                      n \in Fits(applied, sni)}
<1>2. sni \in Name /\ day \in Nat
  BY CertAssumption DEF IInv, Types
<1>3. PICK c \in LiveType \cup {None} :
        /\ c = Selected(live, sni)
        /\ c = None => Fits(applied, sni) = {}
        /\ c # None => \E d \in DOMAIN live : c = live[d] /\ c.name \in Fits(applied, sni)
  BY SelectedFits, CertAssumption DEF IInv, LiveOK
<1>4. \A n \in Fits(applied, sni) : n \in DOMAIN applied /\ n \in STRING /\ applied[n] \in CertType
  BY DEF Fits, Claims, Parsed, IInv, Configs, Confs, IsConf
<1>5. fit \in SUBSET FitType
  <2>1. ASSUME NEW n \in Fits(applied, sni)
        PROVE  [name |-> n, ver |-> applied[n].ver,
                unable |-> applied[n].ca /\ ~applied[n].signs] \in FitType
    <3>1. PICK u \in BOOLEAN : u = (applied[n].ca /\ ~applied[n].signs)
      OBVIOUS
    <3>2. n \in STRING /\ applied[n].ver \in {0, 1}
      BY <1>4 DEF CertType
    <3>3. [name |-> n, ver |-> applied[n].ver, unable |-> u] \in FitType
      BY <3>2 DEF FitType
    <3>. QED BY <3>1, <3>3
  <2>. QED BY <2>1
<1>6. PICK p \in {"leaf", "done"} : p = IF c # None /\ c.ca THEN "leaf" ELSE "done"
  OBVIOUS
<1>7. PICK y : y = [NoHandshake EXCEPT !.pc = p, !.sni = sni, !.cert = c, !.at = day,
                                       !.fit = fit]
  OBVIOUS
<1>8. y \in HandType
  <2>. HIDE DEF fit
  <2>. QED BY <1>2, <1>5, <1>7, NoHand DEF HandType
<1>9. /\ y.pc = p /\ y.cert = c /\ y.fit = fit /\ y.at = day /\ y.map = <<>>
  <2>. HIDE DEF fit
  <2>. QED BY <1>7, NoHand DEF HandType
<1>10. hs' = [hs EXCEPT ![h] = y]
  <2>1. hs' = [hs EXCEPT ![h] = [NoHandshake EXCEPT !.pc = p, !.sni = sni, !.cert = c,
                                                    !.at = day, !.fit = fit]]
    <3>1. Selected(live, sni) = c
      BY <1>3
    <3>2. hs' = [hs EXCEPT ![h] =
                  [NoHandshake EXCEPT !.pc = IF c # None /\ c.ca THEN "leaf" ELSE "done",
                                      !.sni = sni, !.cert = c, !.at = day, !.fit = fit]]
      BY <1>1, <3>1
    <3>. HIDE DEF fit
    <3>3. CASE c # None /\ c.ca
      <4>1. p = "leaf"
        BY <1>6, <3>3
      <4>. QED BY <3>2, <3>3, <4>1
    <3>4. CASE ~(c # None /\ c.ca)
      <4>1. p = "done"
        BY <1>6, <3>4
      <4>. QED BY <3>2, <3>4, <4>1
    <3>. QED BY <3>3, <3>4
  <2>. QED BY <1>7, <2>1
<1>11. /\ UNCHANGED <<setup, confVars, task, todo, tokens, challenge, tries, renewed, last, kept, day,
                      daily, stuck, warned>>
       /\ UNCHANGED <<leafs, object>>
  BY DEF Select, acmeVars
<1>12. ASSUME c # None PROVE Fit(y)
  <2>1. PICK d \in DOMAIN live : c = live[d] /\ c.name \in Fits(applied, sni)
    BY <1>3, <1>12
  <2>2. /\ c.ver = applied[c.name].ver /\ c.ca = applied[c.name].ca /\ c.signs = applied[c.name].signs
    BY <2>1 DEF IInv, LiveOK, Agrees
  <2>3. PICK f \in fit : /\ f.name = c.name /\ f.ver = c.ver
                         /\ f.unable = (c.ca /\ ~c.signs)
    <3>. DEFINE f0 == [name |-> c.name, ver |-> applied[c.name].ver,
                       unable |-> applied[c.name].ca /\ ~applied[c.name].signs]
    <3>1. f0 \in fit
      BY <2>1
    <3>2. /\ f0.name = c.name /\ f0.ver = c.ver
          /\ f0.unable = (applied[c.name].ca /\ ~applied[c.name].signs)
      BY <2>2
    <3>. QED BY <2>2, <3>1, <3>2, Zenon
  <2>. QED BY <1>9, <1>12, <2>3 DEF Fit
<1>13. c = None => fit = {}
  BY <1>3
<1>14. Chosen(y)
  <2>. HIDE DEF fit
  <2>. QED BY <1>6, <1>9, <1>12, <1>13 DEF Chosen
<1>15. Chosen(y)'
  BY <1>11, <1>14 DEF Chosen, Fit, Own, LeafAt
<1>16. ~stuck => Seen(y)'
  <2>1. ASSUME ~stuck, c # None PROVE Reported(c)
    BY <1>3, <2>1 DEF IInv, Watch
  <2>2. Reported(c) => Reported(c)'
    BY <1>11 DEF Reported, CheckedDay
  <2>. QED BY <1>6, <1>9, <2>1, <2>2 DEF Seen
<1>17. MapOK(leafs)' /\ MapOK(y.map)'
  BY <1>9, <1>11, EmptyMap DEF IInv, Maps, MapOK, LeafAt
<1>18. ~stuck => \A k \in DOMAIN leafs' : Recent(object[leafs[k]])'
  BY <1>11 DEF IInv, Watch, Recent, SweptDay
<1>19. \A l \in Leaf : object[l] # None => Kept(l)
  BY <1>11 DEF Kept
<1>20. object' \in [Leaf -> LeafType \cup {None}] /\ leafs' \in AnyMap
  BY <1>11 DEF IInv, Types
<1>21. Signed'
  BY <1>11 DEF IInv, Signed
<1>. QED BY <1>8, <1>10, <1>11, <1>15, <1>16, <1>17, <1>18, <1>19, <1>20, <1>21, HandStep


\* A handshake finds the leaf of its CA for its name in the cache.
LEMMA LeafHitKeeps == ASSUME IInv, NEW h \in Handshake, LeafHit(h) PROVE IInv'
<1>1. PICK x \in HandType : x = hs[h]
  BY DEF IInv, Types
<1>2. PICK k \in DOMAIN leafs : k = <<x.cert.name, CommonName(x.sni)>> /\ k = LeafKey(h)
  BY <1>1 DEF LeafHit, LeafKey
<1>3. PICK l \in Leaf : l = leafs[k]
  BY MapTyped DEF IInv, Types
<1>4. LeafAt(l, k) /\ object[l] # None
  BY <1>3 DEF IInv, Maps, MapOK, LeafAt
<1>5. PICK o \in LeafType : o = object[l]
  BY <1>4 DEF IInv, Types
<1>6. object' = [object EXCEPT ![l] = [o EXCEPT !.count = 1]]
  BY <1>2, <1>3, <1>5 DEF LeafHit
<1>7. PICK y : y = [x EXCEPT !.pc = "done", !.leaf = l]
  OBVIOUS
<1>8. /\ y \in HandType /\ y.pc = "done" /\ y.leaf = l /\ y.map = x.map /\ y.cert = x.cert
      /\ y.fit = x.fit /\ y.at = x.at /\ y.sni = x.sni
  BY <1>7 DEF HandType
<1>9. hs' = [hs EXCEPT ![h] = y]
  BY <1>1, <1>2, <1>3, <1>7 DEF LeafHit
<1>10. UNCHANGED <<setup, confVars, task, todo, tokens, challenge, tries, renewed, last, kept, day,
                   daily, stuck, warned, leafs>>
  BY DEF LeafHit, acmeVars
<1>11. [o EXCEPT !.count = 1] \in LeafType
  BY DEF LeafType
<1>12. object' \in [Leaf -> LeafType \cup {None}]
  BY <1>6, <1>11 DEF IInv, Types
<1>13. ASSUME NEW e \in Leaf, object[e] # None PROVE Kept(e)
  <2>1. CASE e = l
    <3>1. object'[l] = [o EXCEPT !.count = 1] /\ object[l] = o
      BY <1>5, <1>6 DEF IInv, Types
    <3>2. [o EXCEPT !.count = 1] # None
      BY <1>11, CertAssumption
    <3>. QED BY <2>1, <3>1, <3>2 DEF Kept, LeafType
  <2>2. CASE e # l
    <3>1. object'[e] = object[e]
      BY <1>6, <2>2
    <3>. QED BY <1>13, <3>1 DEF Kept
  <2>. QED BY <2>1, <2>2
<1>14. x.pc = "leaf" /\ Chosen(x)
  BY <1>1 DEF LeafHit, IInv, Hands
<1>15. LeafAt(l, k)'
  BY <1>4, <1>13, AtKept
<1>16. Chosen(y)'
  <2>1. Fit(x) /\ x.cert.ca /\ x.at = day /\ x.cert # None
    BY <1>14 DEF Chosen, Fit
  <2>2. Fit(y)
    BY <1>8, <2>1 DEF Fit
  <2>3. Own(y)'
    BY <1>2, <1>8, <1>15 DEF Own
  <2>4. Fit(y)'
    BY <2>2 DEF Fit
  <2>. QED BY <1>8, <1>10, <2>1, <2>3, <2>4 DEF Chosen
<1>17. SweptDay' = SweptDay
  BY <1>10 DEF SweptDay
<1>18. MapOK(leafs)' /\ MapOK(y.map)'
  <2>1. PICK m \in AnyMap : m = leafs
    BY DEF IInv, Types
  <2>2. PICK n \in AnyMap : n = x.map
    BY DEF HandType
  <2>3. MapOK(m) /\ MapOK(n)
    BY <1>1, <2>1, <2>2 DEF IInv, Maps
  <2>4. MapOK(m)' /\ MapOK(n)'
    BY <1>13, <2>3, MapKept, MapTyped
  <2>. QED BY <1>8, <1>10, <2>1, <2>2, <2>4
<1>19. ASSUME ~stuck, NEW i \in DOMAIN leafs PROVE Recent(object[leafs[i]])'
  <2>1. PICK e \in Leaf : e = leafs[i]
    BY MapTyped DEF IInv, Types
  <2>2. Recent(object[e]) /\ object[e] # None
    BY <1>19, <2>1 DEF IInv, Watch, Maps, MapOK, LeafAt
  <2>3. Recent(object[e])'
    BY <1>10, <1>13, <1>17, <2>2, RecentKept
  <2>. QED BY <1>10, <2>1, <2>3
<1>20. ~stuck => Seen(y)'
  <2>1. ~stuck => Recent(object[l])'
    BY <1>3, <1>10, <1>19
  <2>. QED BY <1>8, <1>14, <2>1 DEF Seen, Chosen
<1>21. leafs' \in AnyMap
  BY <1>10 DEF IInv, Types
<1>22. Signed'
  <2>1. \A e \in Leaf : object'[e] # None => object[e] # None
    BY <1>4, <1>6 DEF IInv, Types
  <2>. QED BY <1>10, <1>13, <2>1, SignedKept
<1>. QED BY <1>8, <1>9, <1>10, <1>12, <1>13, <1>16, <1>18, <1>19, <1>20, <1>21, <1>22, HandStep

\* A handshake does not find it.
LEMMA LeafMissKeeps == ASSUME IInv, NEW h \in Handshake, LeafMiss(h) PROVE IInv'
<1>1. PICK x \in HandType : x = hs[h]
  BY DEF IInv, Types
<1>2. PICK y : y = [x EXCEPT !.pc = "create"]
  OBVIOUS
<1>3. y \in HandType /\ y.pc = "create" /\ y.cert = x.cert /\ y.map = x.map /\ y.fit = x.fit
      /\ y.at = x.at
  BY <1>2 DEF HandType
<1>4. hs' = [hs EXCEPT ![h] = y] /\ x.pc = "leaf" /\ UNCHANGED <<object, leafs>>
  BY <1>1, <1>2 DEF LeafMiss
<1>5. UNCHANGED <<setup, confVars, task, todo, tokens, challenge, tries, renewed, last, kept,
                  day, daily, stuck, warned>>
  BY DEF LeafMiss, acmeVars
<1>6. Chosen(y)'
  <2>1. Fit(x) /\ x.cert.ca /\ x.at = day
    BY <1>1, <1>4 DEF IInv, Hands, Chosen
  <2>. QED BY <1>3, <1>5, <2>1 DEF Chosen, Fit
<1>7. MapOK(leafs)' /\ MapOK(y.map)'
  BY <1>1, <1>3, <1>4 DEF IInv, Maps, MapOK, LeafAt
<1>8. ~stuck => Seen(y)' /\ \A k \in DOMAIN leafs' : Recent(object[leafs[k]])'
  <2>1. Seen(y)'
    BY <1>3 DEF Seen
  <2>. QED BY <1>4, <1>5, <2>1 DEF IInv, Watch, Recent, SweptDay
<1>9. \A l \in Leaf : object[l] # None => Kept(l)
  BY <1>4 DEF Kept
<1>10. object' \in [Leaf -> LeafType \cup {None}] /\ leafs' \in AnyMap /\ Signed'
  BY <1>4, <1>5 DEF IInv, Types, Signed
<1>. QED BY <1>3, <1>4, <1>5, <1>6, <1>7, <1>8, <1>9, <1>10, HandStep

\* The common name of a leaf is a name.
LEMMA CommonTyped == ASSUME NEW sni \in Name PROVE CommonName(sni) \in Name
<1>1. CASE Len(sni) > 2
  <2>1. Tail(sni) \in Seq(Label)
    <3>1. sni \in Seq(Label) /\ sni # <<>>
      BY <1>1 DEF Name
    <3>. QED BY <3>1
  <2>2. <<"*">> \o Tail(sni) \in Seq(Label)
    <3>1. "*" \in Label
      BY DEF Label
    <3>. QED BY <2>1, <3>1
  <2>3. Len(sni) \in Nat /\ Len(sni) > 1
    BY <1>1 DEF Name
  <2>. QED BY <1>1, <2>2, <2>3 DEF CommonName, Wildcard, Name
<1>2. CASE ~(Len(sni) > 2)
  BY <1>2 DEF CommonName
<1>. QED BY <1>1, <1>2


\* A CA that cannot sign leaves the handshake without a certificate.
LEMMA UnableKeeps ==
  ASSUME IInv, NEW h \in Handshake, LeafCreate(h), ~hs[h].cert.signs
  PROVE  IInv'
<1>1. PICK x \in HandType : x = hs[h]
  BY DEF IInv, Types
<1>2. PICK y : y = [x EXCEPT !.pc = "done", !.cert = None]
  OBVIOUS
<1>3. y \in HandType /\ y.pc = "done" /\ y.cert = None /\ y.map = x.map /\ y.fit = x.fit
      /\ y.at = x.at
  BY <1>2 DEF HandType
<1>4. hs' = [hs EXCEPT ![h] = y] /\ x.pc = "create" /\ UNCHANGED <<object, leafs>>
  BY <1>1, <1>2 DEF LeafCreate
<1>5. UNCHANGED <<setup, confVars, task, todo, tokens, challenge, tries, renewed, last, kept, day,
                  daily, stuck, warned>>
  BY DEF LeafCreate, acmeVars
<1>6. Chosen(y)'
  <2>1. Fit(x) /\ x.cert.ca /\ ~x.cert.signs /\ x.at = day
    BY <1>1, <1>4 DEF IInv, Hands, Chosen
  <2>2. \E f \in y.fit : f.unable
    BY <1>3, <2>1 DEF Fit
  <2>. QED BY <1>3, <1>5, <2>1, <2>2 DEF Chosen
<1>7. MapOK(leafs)' /\ MapOK(y.map)'
  BY <1>1, <1>3, <1>4 DEF IInv, Maps, MapOK, LeafAt
<1>8. ~stuck => Seen(y)' /\ \A k \in DOMAIN leafs' : Recent(object[leafs[k]])'
  <2>1. Seen(y)'
    BY <1>3 DEF Seen
  <2>. QED BY <1>4, <1>5, <2>1 DEF IInv, Watch, Recent, SweptDay
<1>9. \A l \in Leaf : object[l] # None => Kept(l)
  BY <1>4 DEF Kept
<1>10. object' \in [Leaf -> LeafType \cup {None}] /\ leafs' \in AnyMap /\ Signed'
  BY <1>4, <1>5 DEF IInv, Types, Signed
<1>. QED BY <1>3, <1>4, <1>5, <1>6, <1>7, <1>8, <1>9, <1>10, HandStep

\* A CA signs a leaf, which ends with the CA or later than today.
LEMMA SignKeeps ==
  ASSUME IInv, NEW h \in Handshake, LeafCreate(h), hs[h].cert.signs
  PROVE  IInv'
<1>1. PICK x \in HandType : x = hs[h]
  BY DEF IInv, Types
<1>2. x.pc = "create" /\ Chosen(x)
  BY <1>1 DEF LeafCreate, IInv, Hands
<1>3. Fit(x) /\ x.cert.ca /\ x.at = day /\ x.cert \in LiveType
  BY <1>2, CertAssumption DEF Chosen, Fit, HandType
<1>4. PICK l \in Leaf : l = (CHOOSE e \in Leaf : object[e] = None) /\ object[l] = None
  BY <1>1 DEF LeafCreate
<1>5. PICK k \in Key : k = <<x.cert.name, CommonName(x.sni)>> /\ k = LeafKey(h)
  <2>1. x.cert.name \in STRING
    BY <1>3 DEF LiveType
  <2>2. CommonName(x.sni) \in Name
    BY CommonTyped DEF HandType
  <2>. QED BY <1>1, <2>1, <2>2 DEF LeafKey, Key
<1>6. PICK u \in Nat : u = IF x.cert.until < day + LeafDays THEN x.cert.until ELSE day + LeafDays
  BY <1>3, CertAssumption DEF LiveType, IInv, Types
<1>61. PICK w \in BOOLEAN : w = ~Signer(applied, x.cert.name, x.cert.ver)
  OBVIOUS
<1>7. PICK o : o = [key |-> k, by |-> x.cert.name, ver |-> x.cert.ver, old |-> w,
                    caUntil |-> x.cert.until,
                    cn |-> CommonName(x.sni), until |-> u, stale |-> FALSE, count |-> 0,
                    back |-> FALSE]
  OBVIOUS
<1>8. /\ o \in LeafType /\ o # None
      /\ o.key = k /\ o.by = k[1] /\ o.cn = k[2] /\ o.until = u /\ o.caUntil = x.cert.until
  <2>1. x.cert.name \in STRING /\ x.cert.until \in Nat /\ x.cert.ver \in {0, 1}
    BY <1>3 DEF LiveType
  <2>2. CommonName(x.sni) \in Name /\ k \in STRING \X Name
    BY CommonTyped DEF HandType, Key
  <2>3. o \in LeafType
    BY <1>7, <2>1, <2>2 DEF LeafType
  <2>4. /\ o.key = k /\ o.by = k[1] /\ o.cn = k[2] /\ o.until = u /\ o.caUntil = x.cert.until
    BY <1>5, <1>7
  <2>. QED BY <2>3, <2>4, CertAssumption
<1>9. object' = [object EXCEPT ![l] = o]
  BY <1>1, <1>4, <1>5, <1>6, <1>61, <1>7 DEF LeafCreate
<1>10. PICK y : y = [x EXCEPT !.pc = "add", !.leaf = l, !.map = leafs]
  OBVIOUS
<1>11. /\ y \in HandType /\ y.pc = "add" /\ y.leaf = l /\ y.map = leafs /\ y.cert = x.cert
       /\ y.fit = x.fit /\ y.at = x.at /\ y.sni = x.sni
  BY <1>10 DEF HandType, IInv, Types
<1>12. hs' = [hs EXCEPT ![h] = y]
  BY <1>1, <1>4, <1>10 DEF LeafCreate
<1>13. UNCHANGED <<setup, confVars, task, todo, tokens, challenge, tries, renewed, last, kept, day,
                   daily, stuck, warned, leafs>>
  BY DEF LeafCreate, acmeVars
<1>14. object' \in [Leaf -> LeafType \cup {None}] /\ object'[l] = o /\ leafs' \in AnyMap
  BY <1>8, <1>9, <1>13 DEF IInv, Types
<1>15. ASSUME NEW e \in Leaf, object[e] # None PROVE Kept(e)
  <2>1. object'[e] = object[e]
    BY <1>4, <1>9, <1>15
  <2>. QED BY <1>15, <2>1 DEF Kept
<1>16. Own(y)'
  BY <1>5, <1>8, <1>11, <1>14 DEF Own, LeafAt
<1>17. Chosen(y)'
  <2>1. Fit(y)'
    BY <1>3, <1>11 DEF Fit
  <2>. QED BY <1>3, <1>11, <1>13, <1>16, <2>1 DEF Chosen
<1>18. Seen(y)'
  <2>1. Young(o)'
    <3>1. x.cert.until \in Nat /\ day \in Nat /\ LeafDays \in Nat
      BY <1>3, CertAssumption DEF LiveType, IInv, Types
    <3>. QED BY <1>6, <1>8, <1>13, <3>1 DEF Young
  <2>. QED BY <1>11, <1>14, <2>1 DEF Seen
<1>19. MapOK(leafs)' /\ MapOK(y.map)'
  <2>1. PICK m \in AnyMap : m = leafs
    BY DEF IInv, Types
  <2>2. MapOK(m)
    BY <2>1 DEF IInv, Maps
  <2>3. MapOK(m)'
    BY <1>15, <2>2, MapKept, MapTyped
  <2>. QED BY <1>11, <1>13, <2>1, <2>3
<1>20. ASSUME ~stuck, NEW i \in DOMAIN leafs' PROVE Recent(object[leafs[i]])'
  <2>1. PICK e \in Leaf : e = leafs[i] /\ i \in DOMAIN leafs
    BY <1>13, MapTyped DEF IInv, Types
  <2>2. Recent(object[e]) /\ object[e] # None
    BY <1>20, <2>1 DEF IInv, Watch, Maps, MapOK, LeafAt
  <2>3. SweptDay' = SweptDay
    BY <1>13 DEF SweptDay
  <2>4. Recent(object[e])'
    BY <1>13, <1>15, <2>2, <2>3, RecentKept
  <2>. QED BY <1>13, <2>1, <2>4
<1>21. Signed'
  <2>1. ASSUME NEW e \in Leaf, object'[e] # None
        PROVE  object'[e].old \/ Signer(applied, object'[e].by, object'[e].ver)
    <3>1. CASE e = l
      <4>1. o.old = w /\ o.by = x.cert.name /\ o.ver = x.cert.ver
        BY <1>7
      <4>. QED BY <1>14, <1>61, <3>1, <4>1
    <3>2. CASE e # l
      <4>1. object'[e] = object[e]
        BY <1>9, <3>2
      <4>. QED BY <2>1, <4>1 DEF IInv, Signed
    <3>. QED BY <3>1, <3>2
  <2>. QED BY <1>13, <2>1 DEF Signed, Signer
<1>. QED BY <1>11, <1>12, <1>13, <1>14, <1>15, <1>17, <1>18, <1>19, <1>20, <1>21, HandStep


\* A leaf that somebody holds stays when the others are taken away.
LEMMA Collected ==
  ASSUME IInv, NEW o \in [Leaf -> LeafType \cup {None}], Collect(o)
  PROVE  /\ object' \in [Leaf -> LeafType \cup {None}]
         /\ \A l \in Leaf : object'[l] = IF l \in Held' THEN o[l] ELSE None
BY DEF Collect

\* The end of a handshake.
LEMMA DoneKeeps == ASSUME IInv, NEW h \in Handshake, Done(h) PROVE IInv'
<1>1. PICK y \in HandType : y = NoHandshake /\ y.pc = "idle" /\ y.map = <<>>
  BY NoHand
<1>2. hs' = [hs EXCEPT ![h] = y]
  BY <1>1 DEF Done
<1>3. /\ UNCHANGED <<setup, confVars, task, todo, tokens, challenge, tries, renewed, last, kept, day,
                     daily, stuck, warned>>
      /\ UNCHANGED leafs
  BY DEF Done, acmeVars
<1>4. /\ object' \in [Leaf -> LeafType \cup {None}]
      /\ \A l \in Leaf : object'[l] = IF l \in Held' THEN object[l] ELSE None
  <2>1. PICK o \in [Leaf -> LeafType \cup {None}] : o = object
    BY DEF IInv, Types
  <2>2. Collect(o)
    BY <2>1 DEF Done
  <2>. QED BY <2>1, <2>2, Collected
<1>5. \A l \in Leaf : object[l] # None /\ l \in Held' => Kept(l)
  BY <1>4 DEF Kept
<1>6. \A k \in DOMAIN leafs : leafs[k] \in Leaf /\ leafs[k] \in Held'
  BY <1>3, Refers, MapTyped DEF IInv, Types
<1>7. MapOK(leafs)' /\ MapOK(y.map)'
  <2>1. PICK m \in AnyMap : m = leafs
    BY DEF IInv, Types
  <2>2. MapOK(m)'
    BY <1>5, <1>6, <2>1, MapKept DEF IInv, Maps
  <2>. QED BY <1>1, <1>3, <2>1, <2>2, EmptyMap DEF MapOK
<1>8. Chosen(y)' /\ Seen(y)'
  BY <1>1 DEF Chosen, Seen
<1>9. ASSUME ~stuck, NEW k \in DOMAIN leafs' PROVE Recent(object[leafs[k]])'
  <2>1. SweptDay' = SweptDay
    BY <1>3 DEF SweptDay
  <2>2. PICK e \in Leaf : e = leafs[k] /\ e \in Held' /\ k \in DOMAIN leafs
    BY <1>3, <1>6
  <2>3. Recent(object[e]) /\ object[e] # None
    BY <1>9, <2>2 DEF IInv, Watch, Maps, MapOK, LeafAt
  <2>4. Recent(object[e])'
    BY <1>3, <1>5, <2>1, <2>2, <2>3, RecentKept
  <2>. QED BY <1>3, <2>2, <2>4
<1>10. leafs' \in AnyMap
  BY <1>3 DEF IInv, Types
<1>11. Signed'
  BY <1>3, <1>4, <1>5, SignedKept
<1>. QED BY <1>2, <1>3, <1>4, <1>5, <1>7, <1>8, <1>9, <1>10, <1>11, HandStep

\* The copy of the map is stored: what a sweep has taken out meanwhile is back.
LEMMA LeafAddKeeps == ASSUME IInv, NEW h \in Handshake, LeafAdd(h) PROVE IInv'
<1>1. PICK x \in HandType : x = hs[h]
  BY DEF IInv, Types
<1>2. x.pc = "add" /\ Chosen(x) /\ (~stuck => Seen(x))
  BY <1>1 DEF LeafAdd, IInv, Hands, Watch
<1>3. Fit(x) /\ x.cert.ca /\ Own(x) /\ x.at = day /\ x.cert \in LiveType
  BY <1>2, CertAssumption DEF Chosen, Fit, HandType
<1>4. PICK k \in Key : k = <<x.cert.name, CommonName(x.sni)>> /\ k = LeafKey(h)
  <2>1. x.cert.name \in STRING
    BY <1>3 DEF LiveType
  <2>2. CommonName(x.sni) \in Name
    BY CommonTyped DEF HandType
  <2>. QED BY <1>1, <2>1, <2>2 DEF LeafKey, Key
<1>5. PICK l \in Leaf : l = x.leaf /\ LeafAt(l, k)
  BY <1>3, <1>4 DEF Own
<1>6. PICK m \in AnyMap : m = x.map /\ MapOK(m)
  BY <1>1 DEF HandType, IInv, Maps
<1>7. leafs' = [i \in DOMAIN m \cup {k} |-> IF i = k THEN l ELSE m[i]]
  BY <1>1, <1>4, <1>5, <1>6 DEF LeafAdd
<1>8. leafs' \in AnyMap /\ \A i \in DOMAIN leafs' : i # k => i \in DOMAIN m /\ leafs'[i] = m[i]
  <2>1. DOMAIN m \in SUBSET Key /\ \A i \in DOMAIN m : m[i] \in Leaf
    BY MapTyped
  <2>2. leafs' \in [DOMAIN m \cup {k} -> Leaf]
    BY <1>7, <2>1
  <2>3. DOMAIN m \cup {k} \in SUBSET Key
    BY <2>1
  <2>. QED BY <1>7, <2>2, <2>3 DEF AnyMap
<1>9. PICK y : y = [x EXCEPT !.pc = "done", !.map = <<>>]
  OBVIOUS
<1>10. /\ y \in HandType /\ y.pc = "done" /\ y.leaf = l /\ y.map = <<>> /\ y.cert = x.cert
       /\ y.fit = x.fit /\ y.at = x.at /\ y.sni = x.sni
  BY <1>5, <1>9, EmptyMap DEF HandType
<1>11. hs' = [hs EXCEPT ![h] = y]
  BY <1>1, <1>9 DEF LeafAdd
<1>12. UNCHANGED <<setup, confVars, task, todo, tokens, challenge, tries, renewed, last, kept, day,
                   daily, stuck, warned>>
  BY DEF LeafAdd, acmeVars
<1>13. PICK o : o = [e \in Leaf |-> IF e \in Range(m) \ Range(leafs)
                                    THEN [object[e] EXCEPT !.back = TRUE] ELSE object[e]]
  OBVIOUS
<1>14. \A e \in Range(m) : e \in Leaf /\ object[e] \in LeafType
  <2>1. ASSUME NEW i \in DOMAIN m PROVE m[i] \in Leaf /\ object[m[i]] \in LeafType
    <3>1. m[i] \in Leaf /\ object[m[i]] # None
      BY <1>6, MapTyped DEF MapOK, LeafAt
    <3>. QED BY <3>1 DEF IInv, Types
  <2>. QED BY <2>1 DEF Range
<1>15. ASSUME NEW e \in Range(m) \ Range(leafs)
       PROVE  /\ o[e] \in LeafType /\ o[e].back /\ o[e].key = object[e].key
              /\ o[e].by = object[e].by /\ o[e].cn = object[e].cn
              /\ o[e].ver = object[e].ver /\ o[e].old = object[e].old
              /\ o[e].until = object[e].until /\ o[e].caUntil = object[e].caUntil
  <2>1. o[e] = [object[e] EXCEPT !.back = TRUE]
    BY <1>13, <1>14, <1>15
  <2>2. object[e] \in LeafType
    BY <1>14, <1>15
  <2>. QED BY <2>1, <2>2 DEF LeafType
<1>16. \A e \in Leaf : e \notin Range(m) \ Range(leafs) => o[e] = object[e]
  BY <1>13
<1>17. o \in [Leaf -> LeafType \cup {None}]
  <2>1. ASSUME NEW e \in Leaf PROVE o[e] \in LeafType \cup {None}
    <3>1. CASE e \in Range(m) \ Range(leafs)
      BY <1>15, <3>1
    <3>2. CASE e \notin Range(m) \ Range(leafs)
      BY <1>16, <3>2 DEF IInv, Types
    <3>. QED BY <3>1, <3>2
  <2>. QED BY <1>13, <2>1
<1>18. Collect(o)
  BY <1>1, <1>6, <1>13 DEF LeafAdd
<1>19. /\ object' \in [Leaf -> LeafType \cup {None}]
       /\ \A e \in Leaf : object'[e] = IF e \in Held' THEN o[e] ELSE None
  BY <1>17, <1>18, Collected
<1>20. ASSUME NEW e \in Leaf, object[e] # None, e \in Held' PROVE Kept(e)
  <2>1. object'[e] = o[e]
    BY <1>19, <1>20
  <2>2. CASE e \in Range(m) \ Range(leafs)
    BY <1>15, <2>1, <2>2, CertAssumption DEF Kept
  <2>3. CASE e \notin Range(m) \ Range(leafs)
    BY <1>16, <1>20, <2>1, <2>3 DEF Kept
  <2>. QED BY <2>2, <2>3
<1>21. k \in DOMAIN leafs' /\ leafs'[k] = l
  BY <1>7
<1>22. \A i \in DOMAIN leafs' :
         /\ leafs'[i] \in Leaf /\ leafs'[i] \in Held' /\ LeafAt(leafs'[i], i)
         /\ Kept(leafs'[i])
  <2>1. \A i \in DOMAIN leafs' : leafs'[i] \in Leaf /\ leafs'[i] \in Held'
    BY <1>8, Refers, MapTyped
  <2>2. \A i \in DOMAIN leafs' : LeafAt(leafs'[i], i)
    BY <1>5, <1>6, <1>8, <1>21 DEF MapOK
  <2>3. \A i \in DOMAIN leafs' : object[leafs'[i]] # None
    BY <2>2 DEF LeafAt
  <2>. QED BY <1>20, <2>1, <2>2, <2>3
<1>23. MapOK(leafs)' /\ MapOK(y.map)'
  <2>1. \A i \in DOMAIN leafs' : LeafAt(leafs[i], i)'
    <3>1. ASSUME NEW i \in DOMAIN leafs' PROVE LeafAt(leafs[i], i)'
      <4>1. PICK e \in Leaf : e = leafs'[i]
        BY <1>22
      <4>2. LeafAt(e, i)'
        BY <1>22, <4>1, AtKept
      <4>. QED BY <4>1, <4>2
    <3>. QED BY <3>1
  <2>. QED BY <1>10, <2>1, EmptyMap DEF MapOK
<1>24. Own(y)' /\ Kept(l)
  <2>1. Kept(l)
    BY <1>21, <1>22
  <2>2. LeafAt(l, k)'
    BY <1>5, <2>1, AtKept
  <2>. QED BY <1>4, <1>10, <2>1, <2>2 DEF Own
<1>25. Chosen(y)'
  <2>1. Fit(y)' /\ y.cert # None
    BY <1>3, <1>10 DEF Fit
  <2>. QED BY <1>3, <1>10, <1>12, <1>24, <2>1 DEF Chosen
<1>26. ~stuck => Young(object[l])'
  BY <1>2, <1>5, <1>12, <1>24, RecentKept DEF Seen
<1>27. ~stuck => Seen(y)'
  BY <1>3, <1>10, <1>26 DEF Seen
<1>28. ASSUME ~stuck, NEW i \in DOMAIN leafs' PROVE Recent(object[leafs[i]])'
  <2>1. PICK e \in Leaf : e = leafs'[i] /\ e \in Held' /\ Kept(e)
    BY <1>22
  <2>2. SweptDay' = SweptDay
    BY <1>12 DEF SweptDay
  <2>3. CASE i = k
    <3>1. e = l /\ Young(object[e])'
      BY <1>21, <1>26, <1>28, <2>1, <2>3
    <3>2. PICK b \in LeafType : b = object'[e]
      BY <1>19, <2>1 DEF Kept
    <3>3. /\ b.until \in Nat /\ day \in Nat /\ day' = day /\ SweptDay \in Nat /\ SweptDay <= day
          /\ ExpiryDays \in Nat
      BY <1>12, Days, CertAssumption DEF LeafType, IInv, Types
    <3>4. b.until >= day \/ b.caUntil < day
      BY <1>12, <3>1, <3>2 DEF Young
    <3>5. Recent(b)'
      BY <2>2, <3>3, <3>4 DEF Recent
    <3>. QED BY <2>1, <3>2, <3>5
  <2>4. CASE e \in Range(leafs)
    <3>1. PICK j \in DOMAIN leafs : e = leafs[j]
      BY <2>4 DEF Range
    <3>2. Recent(object[e])
      BY <1>28, <3>1 DEF IInv, Watch
    <3>3. Recent(object[e])'
      BY <1>12, <2>1, <2>2, <3>2, RecentKept
    <3>. QED BY <2>1, <3>3
  <2>5. CASE i # k /\ e \notin Range(leafs)
    <3>1. e \in Range(m)
      BY <1>8, <2>1, <2>5 DEF Range
    <3>2. object'[e].back
      BY <1>15, <1>19, <2>1, <2>5, <3>1
    <3>3. Recent(object[e])'
      BY <3>2 DEF Recent
    <3>. QED BY <2>1, <3>3
  <2>. QED BY <2>3, <2>4, <2>5
<1>29. Signed'
  <2>1. ASSUME NEW e \in Leaf, object'[e] # None PROVE object[e] # None /\ Kept(e)
    <3>1. e \in Held' /\ object'[e] = o[e]
      BY <1>19, <2>1
    <3>2. object[e] # None
      <4>1. CASE e \in Range(m) \ Range(leafs)
        BY <1>14, <4>1, CertAssumption
      <4>2. CASE e \notin Range(m) \ Range(leafs)
        BY <1>16, <2>1, <3>1, <4>2
      <4>. QED BY <4>1, <4>2
    <3>. QED BY <1>20, <3>1, <3>2
  <2>. QED BY <1>12, <2>1, SignedKept
<1>. QED BY <1>8, <1>10, <1>11, <1>12, <1>19, <1>20, <1>23, <1>25, <1>27, <1>28, <1>29, HandStep

-----------------------------------------------------------------------------
(* The checks of a day.                                                      *)

\* A step of the daily tasks, which comes when no handshake is at its end.
LEMMA TaskStep ==
  ASSUME IInv, NoneDone,
         UNCHANGED <<setup, confVars, hs, todo, tokens, challenge, tries, renewed, last, day, stuck>>,
         task \in {"idle", "sweep", "store"}, task' \in {"sweep", "store", "renew"},
         daily' \in BOOLEAN, Signed',
         object' \in [Leaf -> LeafType \cup {None}], leafs' \in AnyMap, kept' \in AnyMap,
         \A l \in Leaf : object[l] # None /\ l \in Held' => Kept(l),
         MapOK(leafs)', MapOK(kept)',
         task' # "store" => DOMAIN kept' = {},
         task' = "store" => \A k \in DOMAIN kept' : object'[kept'[k]].until >= day - ExpiryDays,
         ~stuck => /\ \A d \in DOMAIN live : Reported(live[d])'
                   /\ \A k \in DOMAIN leafs' : Recent(object[leafs[k]])'
  PROVE  IInv'
<1>1. Tasks' /\ Configs' /\ LiveOK' /\ Renewals'
  BY Aside
<1>2. Types'
  BY DEF IInv, Types
<1>3. ASSUME NEW g \in Handshake
      PROVE  MapOK(hs[g].map)' /\ Chosen(hs[g])' /\ (~stuck => Seen(hs[g])')
  <2>1. PICK x \in HandType : x = hs[g]
    BY DEF IInv, Types
  <2>2. x.map \in AnyMap /\ (x.leaf \in Leaf => x.leaf # None) /\ x.pc # "done"
    BY <2>1, CertAssumption DEF HandType, NoneDone
  <2>3. /\ \A k \in DOMAIN x.map : x.map[k] \in Held'
        /\ x.leaf # None => x.leaf \in Held'
    BY <2>1, Refers
  <2>4. \A k \in DOMAIN x.map : object[x.map[k]] # None => Kept(x.map[k])
    BY <2>2, <2>3, MapTyped
  <2>5. PICK m \in AnyMap : m = x.map
    BY <2>2
  <2>6. MapOK(m)'
    BY <2>1, <2>4, <2>5, MapKept DEF IInv, Maps
  <2>7. x.leaf \in Leaf /\ object[x.leaf] # None => Kept(x.leaf)
    BY <2>2, <2>3
  <2>8. Chosen(x) /\ (~stuck => Seen(x))
    BY <2>1 DEF IInv, Hands, Watch
  <2>9. Chosen(x)'
    BY <2>7, <2>8, HandKept
  <2>10. ~stuck => Seen(x)'
    <3>1. ASSUME ~stuck, x.pc = "add" PROVE Young(object[x.leaf])'
      <4>1. Kept(x.leaf) /\ Young(object[x.leaf])
        BY <2>7, <2>8, <3>1 DEF Chosen, Own, LeafAt, Seen
      <4>. QED BY <4>1, RecentKept
    <3>. QED BY <2>2, <3>1 DEF Seen
  <2>. QED BY <2>1, <2>5, <2>6, <2>9, <2>10
<1>4. Maps' /\ Hands'
  BY <1>3 DEF Maps, Hands
<1>5. Watch'
  BY <1>3 DEF Watch
<1>. QED BY <1>1, <1>2, <1>4, <1>5 DEF IInv

\* do_validity_check reports everything that has ended, whatever buffer it has.
LEMMA ValidityCheckKeeps == IInv /\ NoneDone /\ ValidityCheck => IInv'
<1>. SUFFICES ASSUME IInv, NoneDone, ValidityCheck PROVE IInv'
  OBVIOUS
<1>1. /\ task = "idle" /\ ~daily /\ task' = "sweep"
      /\ UNCHANGED <<setup, confVars, leafs, object, hs, kept, todo, tokens, challenge, tries,
                     renewed, last, day, daily, stuck>>
  BY DEF ValidityCheck, Daily, acmeVars
<1>2. CheckedDay' = day /\ SweptDay' = SweptDay
  BY <1>1 DEF CheckedDay, SweptDay
<1>3. ASSUME NEW d \in DOMAIN live PROVE Reported(live[d])'
  <2>1. PICK c \in LiveType : c = live[d]
    BY DEF IInv, LiveOK
  <2>2. c.until \in Nat /\ c.buffer \in Nat /\ day \in Nat /\ WarningDays \in Nat \ {0}
    BY CertAssumption DEF LiveType, IInv, Types
  <2>3. c.until <= day => Ends(c)
    BY <2>2 DEF Ends
  <2>4. c.until <= day => <<c.name, c.ver>> \in warned'
    BY <2>1, <2>3 DEF ValidityCheck
  <2>5. Reported(c)'
    BY <1>2, <2>4 DEF Reported
  <2>. QED BY <1>1, <2>1, <2>5
<1>4. MapOK(leafs)' /\ MapOK(kept)'
  BY <1>1 DEF IInv, Maps, MapOK, LeafAt
<1>5. ~stuck => \A k \in DOMAIN leafs' : Recent(object[leafs[k]])'
  BY <1>1, <1>2 DEF IInv, Watch, Recent
<1>6. \A l \in Leaf : object[l] # None => Kept(l)
  BY <1>1 DEF Kept
<1>7. DOMAIN kept' = {}
  BY <1>1 DEF IInv, Watch
<1>8. /\ object' \in [Leaf -> LeafType \cup {None}] /\ leafs' \in AnyMap /\ kept' \in AnyMap
      /\ daily' \in BOOLEAN
  BY <1>1 DEF IInv, Types
<1>9. Signed'
  BY <1>1 DEF IInv, Signed
<1>. QED BY <1>1, <1>3, <1>4, <1>5, <1>6, <1>7, <1>8, <1>9, TaskStep

\* The sweep keeps leaves that are used and have not ended long ago.
LEMMA SweepScanKeeps == IInv /\ NoneDone /\ SweepScan => IInv'
<1>. SUFFICES ASSUME IInv, NoneDone, SweepScan PROVE IInv'
  OBVIOUS
<1>1. /\ task = "sweep" /\ task' = "store"
      /\ UNCHANGED <<setup, confVars, leafs, hs, todo, tokens, challenge, tries, renewed, last, day,
                     daily, stuck, warned>>
  BY DEF SweepScan, acmeVars
<1>2. PICK used \in SUBSET DOMAIN leafs :
        /\ \A k \in used : object[leafs[k]].until >= day - ExpiryDays
        /\ kept' = [k \in used |-> leafs[k]]
        /\ object' = [l \in Leaf |-> IF \E k \in used : leafs[k] = l THEN Swept(object[l])
                                     ELSE object[l]]
  <2>. DEFINE recent == {k \in DOMAIN leafs : object[leafs[k]].until >= day - ExpiryDays}
              u == {k \in recent : ~(object[leafs[k]].stale /\ object[leafs[k]].count = 0)}
  <2>1. /\ u \in SUBSET DOMAIN leafs
        /\ \A k \in u : object[leafs[k]].until >= day - ExpiryDays
    OBVIOUS
  <2>2. /\ kept' = [k \in u |-> leafs[k]]
        /\ object' = [l \in Leaf |-> IF \E k \in u : leafs[k] = l THEN Swept(object[l])
                                     ELSE object[l]]
    BY DEF SweepScan
  <2>. HIDE DEF u
  <2>. QED BY <2>1, <2>2
<1>3. \A k \in DOMAIN leafs : k \in Key /\ leafs[k] \in Leaf /\ object[leafs[k]] \in LeafType
  <2>1. \A k \in DOMAIN leafs : k \in Key /\ leafs[k] \in Leaf /\ object[leafs[k]] # None
    BY MapTyped DEF IInv, Types, Maps, MapOK, LeafAt
  <2>. QED BY <2>1 DEF IInv, Types
<1>4. ASSUME NEW o \in LeafType
      PROVE  /\ Swept(o) \in LeafType /\ Swept(o).key = o.key /\ Swept(o).by = o.by
             /\ Swept(o).cn = o.cn /\ Swept(o).until = o.until
             /\ Swept(o).ver = o.ver /\ Swept(o).old = o.old
             /\ Swept(o).caUntil = o.caUntil /\ Swept(o).back = o.back
  <2>1. PICK b \in BOOLEAN : b = (o.count = 0)
    OBVIOUS
  <2>2. Swept(o) = [o EXCEPT !.stale = b, !.count = 0]
    BY <2>1 DEF Swept
  <2>. QED BY <2>2 DEF LeafType
<1>5. ASSUME NEW l \in Leaf
      PROVE  /\ object'[l] \in LeafType \cup {None}
             /\ object[l] # None => Kept(l)
             /\ object[l] = None => object'[l] = None
  <2>1. object[l] \in LeafType \cup {None}
    BY DEF IInv, Types
  <2>2. CASE \E k \in used : leafs[k] = l
    <3>1. PICK o \in LeafType : o = object[l]
      BY <1>3, <2>2
    <3>2. object'[l] = Swept(o)
      BY <1>2, <2>2, <3>1
    <3>. QED BY <1>4, <3>1, <3>2, CertAssumption DEF Kept
  <2>3. CASE ~\E k \in used : leafs[k] = l
    <3>1. object'[l] = object[l]
      BY <1>2, <2>3
    <3>. QED BY <2>1, <3>1 DEF Kept
  <2>. QED BY <2>2, <2>3
<1>6. object' \in [Leaf -> LeafType \cup {None}]
  BY <1>2, <1>5
<1>7. kept' \in AnyMap
  <2>1. kept' \in [used -> Leaf] /\ used \in SUBSET Key
    BY <1>2, <1>3
  <2>. QED BY <2>1 DEF AnyMap
<1>8. MapOK(leafs)' /\ MapOK(kept)'
  <2>1. PICK m \in AnyMap : m = leafs
    BY DEF IInv, Types
  <2>2. MapOK(m)'
    BY <1>5, <2>1, MapKept, MapTyped DEF IInv, Maps
  <2>3. \A k \in DOMAIN kept' : k \in DOMAIN m /\ kept'[k] = m[k]
    BY <1>2, <2>1
  <2>. QED BY <1>1, <2>1, <2>2, <2>3 DEF MapOK
<1>9. ASSUME NEW k \in DOMAIN kept' PROVE object'[kept'[k]].until >= day - ExpiryDays
  <2>1. k \in used /\ kept'[k] = leafs[k]
    BY <1>2, <1>9
  <2>2. Kept(leafs[k])
    BY <1>3, <1>5, <2>1, CertAssumption
  <2>. QED BY <1>2, <2>1, <2>2 DEF Kept
<1>10. CheckedDay' = CheckedDay /\ SweptDay' = SweptDay
  BY <1>1 DEF CheckedDay, SweptDay
<1>11. ~stuck => \A d \in DOMAIN live : Reported(live[d])'
  BY <1>1, <1>10 DEF IInv, Watch, Reported
<1>12. ASSUME ~stuck, NEW k \in DOMAIN leafs' PROVE Recent(object[leafs[k]])'
  <2>1. PICK e \in Leaf : e = leafs[k] /\ Kept(e) /\ k \in DOMAIN leafs
    BY <1>1, <1>3, <1>5, CertAssumption
  <2>2. Recent(object[e])
    BY <1>12, <2>1 DEF IInv, Watch
  <2>3. Recent(object[e])'
    BY <1>1, <1>10, <2>1, <2>2, RecentKept
  <2>. QED BY <1>1, <2>1, <2>3
<1>13. leafs' \in AnyMap /\ daily' \in BOOLEAN
  BY <1>1 DEF IInv, Types
<1>14. Signed'
  BY <1>1, <1>5, SignedKept
<1>. QED BY <1>1, <1>5, <1>6, <1>7, <1>8, <1>9, <1>11, <1>12, <1>13, <1>14, TaskStep

\* What the sweep has kept becomes the cache.
LEMMA SweepStoreKeeps == IInv /\ NoneDone /\ SweepStore => IInv'
<1>. SUFFICES ASSUME IInv, NoneDone, SweepStore PROVE IInv'
  OBVIOUS
<1>1. /\ task = "store" /\ task' = "renew" /\ daily' = TRUE /\ leafs' = kept /\ kept' = <<>>
      /\ UNCHANGED <<setup, confVars, hs, todo, tokens, challenge, tries, renewed, last, day, stuck,
                     warned>>
  BY DEF SweepStore, acmeVars
<1>2. /\ object' \in [Leaf -> LeafType \cup {None}]
      /\ \A l \in Leaf : object'[l] = IF l \in Held' THEN object[l] ELSE None
  <2>1. PICK o \in [Leaf -> LeafType \cup {None}] : o = object
    BY DEF IInv, Types
  <2>2. Collect(o)
    BY <2>1 DEF SweepStore
  <2>. QED BY <2>1, <2>2, Collected
<1>3. \A l \in Leaf : object[l] # None /\ l \in Held' => Kept(l)
  BY <1>2 DEF Kept
<1>4. PICK m \in AnyMap : m = kept
  BY DEF IInv, Types
<1>5. \A k \in DOMAIN m : m[k] \in Leaf /\ m[k] \in Held' /\ object'[m[k]] = object[m[k]]
  BY <1>1, <1>2, <1>4, Refers, MapTyped
<1>6. MapOK(leafs)' /\ MapOK(kept)'
  <2>1. MapOK(m)'
    BY <1>3, <1>4, <1>5, MapKept DEF IInv, Maps
  <2>. QED BY <1>1, <1>4, <2>1, EmptyMap DEF MapOK
<1>7. CheckedDay' = CheckedDay /\ SweptDay' = day
  BY <1>1 DEF CheckedDay, SweptDay
<1>8. ~stuck => \A d \in DOMAIN live : Reported(live[d])'
  BY <1>1, <1>7 DEF IInv, Watch, Reported
<1>9. \A k \in DOMAIN leafs' : Recent(object[leafs[k]])'
  <2>1. \A k \in DOMAIN m : object'[m[k]].until >= day - ExpiryDays
    BY <1>1, <1>4, <1>5 DEF IInv, Watch
  <2>. QED BY <1>1, <1>4, <1>7, <2>1 DEF Recent
<1>10. leafs' \in AnyMap /\ kept' \in AnyMap /\ daily' \in BOOLEAN /\ DOMAIN kept' = {}
  BY <1>1, <1>4, EmptyMap
<1>11. Signed'
  BY <1>1, <1>2, <1>3, SignedKept
<1>. QED BY <1>1, <1>2, <1>3, <1>6, <1>8, <1>9, <1>10, <1>11, TaskStep

-----------------------------------------------------------------------------
(* New configurations.                                                       *)

\* A step of the configuration that leaves the map of the handshakes alone.
LEMMA ConfStep ==
  ASSUME IInv,
         UNCHANGED <<setup, live, applied, leafs, object, hs, kept, day, daily, stuck, warned>>,
         task' = task \/ (task \in {"save", "set"} /\ task' \in {"set", "apply"})
  PROVE  Types' /\ LiveOK' /\ Maps' /\ Hands' /\ Watch' /\ Signed'
<1>1. Types' /\ LiveOK' /\ Signed'
  BY DEF IInv, Types, LiveOK, Signed
<1>2. Maps'
  BY DEF IInv, Maps, MapOK, LeafAt
<1>3. Hands'
  BY DEF IInv, Hands, Chosen, Fit, Own, LeafAt
<1>4. Watch'
  BY DEF IInv, Watch, Reported, Recent, Young, Seen, CheckedDay, SweptDay
<1>. QED BY <1>1, <1>2, <1>3, <1>4

\* The leaves of a CA that is gone are old, and nothing else changes about them.
LEMMA AgedKept ==
  ASSUME IInv, NEW cs, object' = Aged(cs)
  PROVE  /\ object' \in [Leaf -> LeafType \cup {None}]
         /\ \A l \in Leaf : /\ object[l] # None => Kept(l)
                            /\ object'[l] # None =>
                                 object'[l].old \/ Signer(cs, object'[l].by, object'[l].ver)
<1>1. ASSUME NEW l \in Leaf
      PROVE  /\ object'[l] \in LeafType \cup {None}
             /\ object[l] # None => Kept(l)
             /\ object'[l] # None =>
                  object'[l].old \/ Signer(cs, object'[l].by, object'[l].ver)
  <2>1. CASE object[l] = None
    <3>1. object'[l] = None
      BY <2>1 DEF Aged
    <3>. QED BY <2>1, <3>1
  <2>2. CASE object[l] # None
    <3>1. PICK o \in LeafType : o = object[l]
      BY <2>2 DEF IInv, Types
    <3>2. PICK b \in BOOLEAN : b = (o.old \/ ~Signer(cs, o.by, o.ver))
      OBVIOUS
    <3>3. object'[l] = [o EXCEPT !.old = b]
      BY <2>2, <3>1, <3>2 DEF Aged
    <3>4. /\ object'[l] \in LeafType /\ object'[l].old = b /\ object'[l].by = o.by
          /\ object'[l].ver = o.ver /\ object'[l].key = o.key /\ object'[l].cn = o.cn
          /\ object'[l].until = o.until /\ object'[l].caUntil = o.caUntil
          /\ object'[l].back = o.back
      BY <3>3 DEF LeafType
    <3>5. Kept(l)
      BY <3>1, <3>2, <3>4, CertAssumption DEF Kept
    <3>6. object'[l].old \/ Signer(cs, object'[l].by, object'[l].ver)
      BY <3>2, <3>4
    <3>. QED BY <3>4, <3>5, <3>6
  <2>. QED BY <2>1, <2>2
<1>2. object' = [l \in Leaf |-> object'[l]]
  BY DEF Aged
<1>. QED BY <1>1, <1>2

\* A new map: what it brings was not there for longer than today.
LEMMA UpdateKeeps ==
  ASSUME IInv, NEW cs, IsConf(cs), TryUpdateCertificates(cs), object' = Aged(cs),
         UNCHANGED <<setup, leafs, hs, kept, day, daily, stuck, warned>>,
         task' = task \/ (task = "apply" /\ task' = "next")
  PROVE  Types' /\ LiveOK' /\ Maps' /\ Hands' /\ Watch' /\ Signed'
<1>0. /\ object' \in [Leaf -> LeafType \cup {None}]
      /\ \A l \in Leaf : /\ object[l] # None => Kept(l)
                         /\ object'[l] # None =>
                              object'[l].old \/ Signer(cs, object'[l].by, object'[l].ver)
  BY AgedKept
<1>1. Types'
  BY <1>0 DEF IInv, Types
<1>2. /\ applied' = cs /\ DOMAIN live' = Covered(cs)
      /\ \A d \in DOMAIN live' :
           /\ live'[d] \in LiveType /\ live'[d].name \in Claims(cs, d) /\ Agrees(live'[d], cs)
           /\ (d \in DOMAIN live /\ live'[d] = live[d]) \/ live'[d].since = day
  BY Updated DEF IInv, Types, LiveOK
<1>3. LiveOK' /\ Signed'
  BY <1>0, <1>2 DEF LiveOK, Signed
<1>4. ASSUME NEW m \in AnyMap, MapOK(m) PROVE MapOK(m)'
  BY <1>0, <1>4, MapKept, MapTyped
<1>5. CheckedDay' = CheckedDay /\ SweptDay' = SweptDay /\ CheckedDay <= day
  BY Days DEF CheckedDay, SweptDay, IInv
<1>6. ASSUME NEW h \in Handshake
      PROVE  MapOK(hs[h].map)' /\ Chosen(hs[h])' /\ (~stuck => Seen(hs[h])')
  <2>1. PICK x \in HandType : x = hs[h]
    BY DEF IInv, Types
  <2>2. PICK m \in AnyMap : m = x.map
    BY DEF HandType
  <2>3. MapOK(m)'
    BY <1>4, <2>1, <2>2 DEF IInv, Maps
  <2>4. Chosen(x) /\ (~stuck => Seen(x))
    BY <2>1 DEF IInv, Hands, Watch
  <2>5. Chosen(x)' /\ (~stuck => Seen(x)')
    BY <1>0, <1>5, <2>4, HandKept
  <2>. QED BY <2>1, <2>2, <2>3, <2>5
<1>7. Maps' /\ Hands'
  <2>1. PICK a \in AnyMap : a = leafs
    BY DEF IInv, Types
  <2>2. PICK b \in AnyMap : b = kept
    BY DEF IInv, Types
  <2>3. MapOK(a)' /\ MapOK(b)'
    BY <1>4, <2>1, <2>2 DEF IInv, Maps
  <2>. QED BY <1>6, <2>1, <2>2, <2>3 DEF Maps, Hands
<1>8. ASSUME ~stuck', NEW d \in DOMAIN live' PROVE Reported(live[d])'
  <2>1. CASE d \in DOMAIN live /\ live'[d] = live[d]
    <3>1. Reported(live[d])
      BY <1>8, <2>1 DEF IInv, Watch
    <3>. QED BY <1>5, <2>1, <3>1 DEF Reported
  <2>2. CASE live'[d].since = day
    <3>1. ~(live'[d].since < CheckedDay')
      <4>1. day \in Nat /\ CheckedDay \in Nat
        BY Days DEF IInv, Types
      <4>. QED BY <1>5, <2>2, <4>1
    <3>. QED BY <3>1 DEF Reported
  <2>. QED BY <1>2, <2>1, <2>2
<1>9. Watch'
  <2>1. ASSUME ~stuck, NEW k \in DOMAIN leafs PROVE Recent(object[leafs[k]])'
    <3>1. PICK e \in Leaf : e = leafs[k] /\ object[e] # None
      BY MapTyped DEF IInv, Types, Maps, MapOK, LeafAt
    <3>2. Recent(object[e])
      BY <2>1, <3>1 DEF IInv, Watch
    <3>3. Recent(object[e])'
      BY <1>0, <1>5, <3>1, <3>2, RecentKept
    <3>. QED BY <3>1, <3>3
  <2>2. ASSUME task = "store", NEW k \in DOMAIN kept
        PROVE  object'[kept[k]].until >= day - ExpiryDays
    <3>1. PICK e \in Leaf : e = kept[k] /\ object[e] # None
      BY MapTyped DEF IInv, Types, Maps, MapOK, LeafAt
    <3>2. object'[e].until = object[e].until
      BY <1>0, <3>1 DEF Kept
    <3>. QED BY <2>2, <3>1, <3>2 DEF IInv, Watch
  <2>3. task # "store" => DOMAIN kept = {}
    BY DEF IInv, Watch
  <2>. QED BY <1>6, <1>8, <2>1, <2>2, <2>3 DEF Watch
<1>. QED BY <1>1, <1>3, <1>7, <1>9

\* An edit keeps what ACME has put there, and the renewals of other certificates are
\* forgotten.
LEMMA EditKeeps == IInv /\ Edit => IInv'
<1>. SUFFICES ASSUME IInv, Edit PROVE IInv'
  OBVIOUS
<1>1. PICK t \in setup.tables :
        /\ stored' = WithPem(t)
        /\ last' = [n \in DOMAIN last |->
                      IF n \in DOMAIN stored \cap DOMAIN t
                      THEN IF t[n].acme THEN last[n] ELSE None
                      ELSE None]
  BY DEF Edit
<1>2. IsConf(t) /\ IsConf(stored)
  BY CertAssumption DEF IInv, Types, Configs, Confs
<1>3. IsConf(WithPem(t)) /\ DOMAIN WithPem(t) = DOMAIN t
  <2>1. DOMAIN WithPem(t) = DOMAIN t
    BY DEF WithPem
  <2>2. \A n \in DOMAIN t : t[n] \in CertType /\ (n \in DOMAIN stored => stored[n] \in CertType)
    BY <1>2 DEF IsConf
  <2>3. ASSUME NEW n \in DOMAIN t PROVE WithPem(t)[n] \in CertType
    BY <2>2 DEF WithPem, CertType
  <2>4. WithPem(t) \in [DOMAIN t -> CertType]
    BY <2>3 DEF WithPem
  <2>. QED BY <1>2, <2>1, <2>4 DEF IsConf
<1>4. /\ UNCHANGED <<setup, live, applied, leafs, object, hs, kept, day, daily, stuck, warned>>
      /\ UNCHANGED <<conf, reload, enabled, crossed, task, todo, tokens, challenge, tries, renewed>>
  BY DEF Edit
<1>5. Types' /\ LiveOK' /\ Maps' /\ Hands' /\ Watch' /\ Signed'
  BY <1>4, ConfStep
<1>6. Configs'
  BY <1>1, <1>3, <1>4 DEF IInv, Configs, Confs, Agreement, Answers
<1>7. /\ DOMAIN last' = DOMAIN last
      /\ \A n \in DOMAIN last' : last'[n] # None =>
           n \in DOMAIN stored /\ n \in DOMAIN t /\ t[n].acme /\ last'[n] = last[n]
  BY <1>1
<1>8. Tasks'
  <2>1. \A n \in DOMAIN last' : last'[n] \in LastType \cup {None}
    BY <1>7 DEF IInv, Tasks
  <2>2. last' \in [DOMAIN last' -> LastType \cup {None}]
    BY <1>1, <1>7, <2>1
  <2>. QED BY <1>4, <2>2 DEF IInv, Tasks
<1>9. Renewals'
  <2>1. ASSUME NEW n \in DOMAIN last', last'[n] # None PROVE Placed(n)'
    <3>1. Placed(n) /\ last'[n] = last[n]
      BY <1>7, <2>1 DEF IInv, Renewals
    <3>2. n \in DOMAIN stored /\ n \in DOMAIN t /\ t[n].acme /\ t[n] \in CertType
      BY <1>2, <1>7, <2>1 DEF IsConf
    <3>3. stored'[n] = [t[n] EXCEPT !.ver = stored[n].ver, !.pem = stored[n].pem,
                                    !.from = stored[n].from, !.until = stored[n].until,
                                    !.has = stored[n].has, !.ok = stored[n].ok]
      BY <1>1, <3>2 DEF WithPem
    <3>4. /\ stored'[n].has = stored[n].has /\ stored'[n].ok = stored[n].ok
          /\ stored'[n].pem = stored[n].pem /\ stored'[n].until = stored[n].until
          /\ stored'[n].acme
      BY <3>2, <3>3 DEF CertType
    <3>5. n \in DOMAIN stored'
      BY <1>1, <1>3, <3>2
    <3>6. InPlace(stored', n, last'[n])
      BY <3>1, <3>4, <3>5 DEF Placed, InPlace
    <3>. QED BY <1>4, <3>1, <3>6 DEF Placed, JustSaved
  <2>2. HasDue'
    <3>1. ASSUME task' \in Working, todo'[1].name \in DOMAIN last', last'[todo'[1].name] # None
          PROVE  Due(todo[1])' \/ last'[todo'[1].name].undone
      <4>1. /\ last'[todo[1].name] = last[todo[1].name]
            /\ Due(todo[1]) \/ last[todo[1].name].undone
        BY <1>4, <1>7, <3>1 DEF IInv, Renewals, HasDue
      <4>. QED BY <1>4, <4>1 DEF Due, Buffer
    <3>. QED BY <3>1 DEF HasDue
  <2>. QED BY <2>1, <2>2 DEF Renewals
<1>. QED BY <1>5, <1>6, <1>8, <1>9 DEF IInv

\* A step of a reload that leaves the current configuration and the renewals alone.
LEMMA ReloadStep ==
  ASSUME IInv, UNCHANGED <<stored, conf, enabled, task, todo, tokens, challenge, tries, renewed,
                           day, last>>,
         Types', LiveOK', Maps', Hands', Watch', Signed', Configs',
         reload'.pc # "idle" /\ ~crossed' =>
           \/ reload'.new = stored
           \/ reload.pc # "idle" /\ ~crossed /\ reload'.new = reload.new
  PROVE  IInv'
<1>1. Tasks'
  BY DEF IInv, Tasks
<1>2. ASSUME NEW n \in DOMAIN last, last[n] # None PROVE Placed(n)'
  <2>1. Placed(n) /\ (JustSaved(n) <=> JustSaved(n)')
    BY <1>2 DEF IInv, Renewals, JustSaved
  <2>2. n \in DOMAIN stored /\ stored[n].acme
    BY <2>1 DEF Placed, InPlace
  <2>. QED BY <2>1, <2>2 DEF Placed
<1>3. HasDue'
  BY DEF IInv, Renewals, HasDue, Due, Buffer
<1>4. Renewals'
  BY <1>2, <1>3 DEF Renewals
<1>. QED BY <1>1, <1>4 DEF IInv

\* diff_and_update_config loads what is stored.
LEMMA ReloadLoadKeeps == IInv /\ ReloadLoad => IInv'
<1>. SUFFICES ASSUME IInv, ReloadLoad PROVE IInv'
  OBVIOUS
<1>1. /\ UNCHANGED <<setup, live, applied, leafs, object, hs, kept, day, daily, stuck, warned>>
      /\ UNCHANGED <<stored, conf, enabled, task, todo, tokens, challenge, tries, renewed, last>>
      /\ reload.pc = "idle" /\ reload' = [pc |-> "diff", new |-> stored, base |-> <<>>]
      /\ crossed' = (crossed \/ task = "apply")
  BY DEF ReloadLoad, reloadSame
<1>2. Types' /\ LiveOK' /\ Maps' /\ Hands' /\ Watch' /\ Signed'
  BY <1>1, ConfStep
<1>3. reload'.pc = "diff" /\ reload'.new = stored /\ reload'.base = <<>>
  BY <1>1
<1>4. Confs'
  BY <1>1, <1>3, EmptyMap DEF IInv, Configs, Confs
<1>5. Agreement'
  BY <1>1, <1>3 DEF IInv, Configs, Confs, Agreement
<1>6. Answers'
  BY <1>1, <1>3, NoReloading DEF IInv, Configs, Answers
<1>. QED BY <1>1, <1>2, <1>3, <1>4, <1>5, <1>6, ReloadStep DEF Configs

\* It reads the current configuration, or stops.
LEMMA ReloadDiffKeeps == IInv /\ ReloadDiff => IInv'
<1>. SUFFICES ASSUME IInv, ReloadDiff PROVE IInv'
  OBVIOUS
<1>1. /\ UNCHANGED <<setup, live, applied, leafs, object, hs, kept, day, daily, stuck, warned>>
      /\ UNCHANGED <<stored, conf, enabled, task, todo, tokens, challenge, tries, renewed, last>>
      /\ reload.pc = "diff"
  BY DEF ReloadDiff, reloadSame
<1>2. Types' /\ LiveOK' /\ Maps' /\ Hands' /\ Watch' /\ Signed'
  BY <1>1, ConfStep
<1>3. CASE reload' = NoReload /\ crossed' = (crossed /\ (task = "apply" \/ applied # conf))
  <2>1. Confs'
    BY <1>1, <1>3, EmptyMap, NoReloading DEF IInv, Configs, Confs
  <2>2. Agreement'
    BY <1>1, <1>3, NoReloading DEF IInv, Configs, Confs, Agreement
  <2>3. Answers'
    BY <1>1, <1>3, NoReloading DEF IInv, Configs, Answers
  <2>. QED BY <1>1, <1>2, <1>3, <2>1, <2>2, <2>3, NoReloading, ReloadStep DEF Configs
<1>4. CASE reload' = [reload EXCEPT !.pc = "apply", !.base = conf] /\ UNCHANGED crossed
  <2>1. /\ reload'.pc = "apply" /\ reload'.new = reload.new /\ reload'.base = conf
        /\ reload' = [pc |-> reload'.pc, new |-> reload'.new, base |-> reload'.base]
    BY <1>4 DEF IInv, Configs, Confs
  <2>2. Confs'
    BY <1>1, <1>4, <2>1 DEF IInv, Configs, Confs
  <2>3. Agreement'
    BY <1>1, <1>4, <2>1 DEF IInv, Configs, Confs, Agreement
  <2>4. Answers'
    BY <1>1, <1>4, <2>1 DEF IInv, Configs, Answers
  <2>. QED BY <1>1, <1>2, <1>4, <2>1, <2>2, <2>3, <2>4, ReloadStep DEF Configs
<1>. QED BY <1>3, <1>4 DEF ReloadDiff

\* It makes the map of the new certificates, unless there is one of ACME's.
LEMMA ReloadApplyKeeps == IInv /\ ReloadApply => IInv'
<1>. SUFFICES ASSUME IInv, ReloadApply PROVE IInv'
  OBVIOUS
<1>1. /\ UNCHANGED <<setup, leafs, hs, kept, day, daily, stuck, warned>>
      /\ UNCHANGED <<stored, conf, enabled, task, todo, tokens, challenge, tries, renewed, last>>
      /\ UNCHANGED crossed
      /\ reload.pc = "apply" /\ reload' = [reload EXCEPT !.pc = "commit"]
  BY DEF ReloadApply, reloadSame
<1>2. /\ reload'.pc = "commit" /\ reload'.new = reload.new /\ reload'.base = reload.base
      /\ reload' = [pc |-> reload'.pc, new |-> reload'.new, base |-> reload'.base]
  BY <1>1 DEF IInv, Configs, Confs
<1>3. Answers'
  BY <1>1, <1>2 DEF IInv, Configs, Answers
<1>4. CASE /\ reload.new # reload.base /\ ~ExistsAcme(reload.new)
           /\ TryUpdateCertificates(reload.new) /\ object' = Aged(reload.new)
  <2>1. IsConf(reload.new)
    BY DEF IInv, Configs, Confs
  <2>2. Types' /\ LiveOK' /\ Maps' /\ Hands' /\ Watch' /\ Signed'
    BY <1>1, <1>4, <2>1, UpdateKeeps
  <2>3. applied' = reload.new
    BY <1>4 DEF TryUpdateCertificates
  <2>4. Confs'
    BY <1>1, <1>2, <2>1, <2>3 DEF IInv, Configs, Confs
  <2>5. Agreement'
    BY <1>1, <1>2, <1>4, <2>3 DEF IInv, Configs, Agreement, HotReloadConfig
  <2>. QED BY <1>1, <1>2, <1>3, <2>2, <2>4, <2>5, ReloadStep DEF Configs
<1>5. CASE /\ ~(reload.new # reload.base /\ ~ExistsAcme(reload.new))
           /\ UNCHANGED <<live, applied, object>>
  <2>1. Types' /\ LiveOK' /\ Maps' /\ Hands' /\ Watch' /\ Signed'
    BY <1>1, <1>5, ConfStep
  <2>2. Confs'
    BY <1>1, <1>2, <1>5 DEF IInv, Configs, Confs
  <2>3. HotReloadConfig(reload.new, reload.base) = reload.base
    BY <1>5 DEF HotReloadConfig
  <2>4. Agreement'
    BY <1>1, <1>2, <1>5, <2>3 DEF IInv, Configs, Agreement
  <2>. QED BY <1>1, <1>2, <1>3, <2>1, <2>2, <2>4, ReloadStep DEF Configs
<1>. QED BY <1>4, <1>5 DEF ReloadApply

\* A renewal is the same but for its mark.
SameLast(n) ==
  /\ last[n] = None => last'[n] = None
  /\ last[n] # None =>
       /\ last'[n] \in LastType /\ last'[n] # None
       /\ last'[n].day = last[n].day /\ last'[n].names = last[n].names
       /\ last'[n].buffer = last[n].buffer /\ last'[n].odd = last[n].odd

\* To change its mark leaves it the same.
LEMMA MarkSame ==
  ASSUME Tasks, NEW n \in DOMAIN last, NEW b \in BOOLEAN, last[n] # None,
         last'[n] = [last[n] EXCEPT !.undone = b]
  PROVE  SameLast(n) /\ last'[n].undone = b
<1>1. PICK r \in LastType : r = last[n]
  BY DEF Tasks
<1>2. last'[n] = [r EXCEPT !.undone = b]
  BY <1>1
<1>3. /\ last'[n] \in LastType /\ last'[n].day = r.day /\ last'[n].names = r.names
      /\ last'[n].buffer = r.buffer /\ last'[n].odd = r.odd /\ last'[n].undone = b
  BY <1>2 DEF LastType
<1>. QED BY <1>1, <1>3, CertAssumption DEF SameLast

\* The renewals are in the current configuration again.
LEMMA Cleared ==
  ASSUME Tasks, last' = [n \in DOMAIN last |->
                           IF last[n] = None THEN None ELSE [last[n] EXCEPT !.undone = FALSE]]
  PROVE  /\ DOMAIN last' = DOMAIN last
         /\ \A n \in DOMAIN last : SameLast(n) /\ (last[n] # None => ~last'[n].undone)
<1>1. ASSUME NEW n \in DOMAIN last PROVE SameLast(n) /\ (last[n] # None => ~last'[n].undone)
  <2>1. CASE last[n] = None
    BY <2>1 DEF SameLast
  <2>2. CASE last[n] # None
    <3>1. last'[n] = [last[n] EXCEPT !.undone = FALSE]
      BY <2>2
    <3>. QED BY <2>2, <3>1, MarkSame
  <2>. QED BY <2>1, <2>2
<1>. QED BY <1>1

LEMMA LastTyped ==
  ASSUME Tasks, DOMAIN last' = DOMAIN last, last' = [n \in DOMAIN last |-> last'[n]],
         \A n \in DOMAIN last : SameLast(n)
  PROVE  last' \in [DOMAIN last' -> LastType \cup {None}]
<1>1. \A n \in DOMAIN last : last'[n] \in LastType \cup {None}
  BY DEF Tasks, SameLast
<1>. QED BY <1>1

LEMMA PlaceSame ==
  ASSUME NEW n, NEW cs, SameLast(n), last[n] # None
  PROVE  InPlace(cs, n, last'[n]) <=> InPlace(cs, n, last[n])
BY DEF SameLast, InPlace

\* It sets the current configuration: what it has seen of the renewals stays, unless a
\* renewal has ended meanwhile.
LEMMA ReloadCommitKeeps == IInv /\ ReloadCommit => IInv'
<1>. SUFFICES ASSUME IInv, ReloadCommit PROVE IInv'
  OBVIOUS
<1>. DEFINE hot == HotReloadConfig(reload.new, reload.base)
<1>1. /\ UNCHANGED <<setup, live, applied, leafs, object, hs, kept, day, daily, stuck, warned>>
      /\ UNCHANGED <<stored, enabled, task, todo, tokens, challenge, tries, renewed>>
      /\ reload.pc = "commit" /\ reload' = NoReload
      /\ conf' = hot \/ (hot = reload.base /\ conf' = conf)
      /\ crossed' = (crossed /\ (task = "apply" \/ applied # conf'))
      /\ last' = [n \in DOMAIN last |->
                    IF crossed /\ last[n] # None
                    THEN [last[n] EXCEPT !.undone = @ \/ ~InPlace(conf', n, last[n])]
                    ELSE last[n]]
  BY DEF ReloadCommit, reloadSame
<1>2. Types' /\ LiveOK' /\ Maps' /\ Hands' /\ Watch' /\ Signed'
  BY <1>1, ConfStep
<1>3. Configs'
  <2>1. IsConf(hot)
    BY DEF HotReloadConfig, IInv, Configs, Confs
  <2>2. Confs'
    BY <1>1, <2>1, EmptyMap, NoReloading DEF IInv, Configs, Confs
  <2>3. Agreement'
    BY <1>1, NoReloading DEF IInv, Configs, Confs, Agreement
  <2>4. Answers'
    <3>1. ASSUME ~enabled PROVE ~EnabledLetsEncrypt(hot)
      BY <3>1 DEF HotReloadConfig, ExistsAcme, EnabledLetsEncrypt, IInv, Configs, Answers
    <3>. QED BY <1>1, <3>1, NoReloading DEF IInv, Configs, Answers
  <2>. QED BY <2>2, <2>3, <2>4 DEF Configs
<1>4. ASSUME NEW n \in DOMAIN last
      PROVE  /\ SameLast(n)
             /\ ~crossed => last'[n] = last[n]
             /\ last[n] # None /\ last[n].undone => last'[n].undone
             /\ last[n] # None /\ crossed => last'[n].undone \/ InPlace(conf', n, last[n])
  <2>1. CASE ~crossed \/ last[n] = None
    <3>1. last'[n] = last[n]
      BY <1>1, <2>1
    <3>2. last[n] \in LastType \cup {None}
      BY DEF IInv, Tasks
    <3>. QED BY <2>1, <3>1, <3>2 DEF SameLast
  <2>2. CASE crossed /\ last[n] # None
    <3>1. PICK b \in BOOLEAN : b = (last[n].undone \/ ~InPlace(conf', n, last[n]))
      OBVIOUS
    <3>2. last'[n] = [last[n] EXCEPT !.undone = b]
      BY <1>1, <2>2, <3>1
    <3>3. SameLast(n) /\ last'[n].undone = b
      BY <2>2, <3>2, MarkSame DEF IInv
    <3>. QED BY <2>2, <3>1, <3>3
  <2>. QED BY <2>1, <2>2
<1>5. DOMAIN last' = DOMAIN last /\ last' \in [DOMAIN last' -> LastType \cup {None}]
  BY <1>1, <1>4, LastTyped DEF IInv
<1>6. Tasks'
  BY <1>1, <1>5 DEF IInv, Tasks
<1>7. ASSUME NEW n \in DOMAIN last', last'[n] # None PROVE Placed(n)'
  <2>1. SameLast(n) /\ last[n] # None /\ n \in DOMAIN last
    BY <1>4, <1>5, <1>7 DEF SameLast
  <2>2. Placed(n) /\ (JustSaved(n) <=> JustSaved(n)')
    BY <1>1, <2>1 DEF IInv, Renewals, JustSaved
  <2>3. InPlace(stored, n, last'[n]) /\ (task \in {"save", "set"} => InPlace(renewed, n, last'[n]))
    BY <2>1, <2>2, PlaceSame DEF Placed
  <2>4. last'[n].undone \/ JustSaved(n) \/ InPlace(conf', n, last'[n])
    <3>1. CASE crossed
      BY <1>4, <2>1, <3>1, PlaceSame
    <3>2. CASE ~crossed
      <4>1. reload.base = conf /\ last'[n] = last[n]
        BY <1>1, <1>4, <2>1, <3>2 DEF IInv, Configs, Agreement
      <4>2. JustSaved(n) \/ ExistsAcme(reload.new)
        BY <1>1, <2>2, <3>2 DEF Placed, ExistsAcme
      <4>3. JustSaved(n) \/ conf' = conf
        BY <1>1, <4>1, <4>2 DEF HotReloadConfig
      <4>. QED BY <2>2, <4>1, <4>3 DEF Placed
    <3>. QED BY <3>1, <3>2
  <2>. QED BY <1>1, <2>2, <2>3, <2>4, NoReloading DEF Placed
<1>8. HasDue'
  <2>1. ASSUME task' \in Working, todo'[1].name \in DOMAIN last', last'[todo'[1].name] # None
        PROVE  Due(todo[1])' \/ last'[todo'[1].name].undone
    <3>. DEFINE n == todo[1].name
    <3>1. SameLast(n) /\ last[n] # None /\ n \in DOMAIN last
      BY <1>1, <1>4, <1>5, <2>1 DEF SameLast
    <3>2. Due(todo[1]) \/ last[n].undone
      BY <1>1, <2>1, <3>1 DEF IInv, Renewals, HasDue
    <3>3. last[n].undone => last'[n].undone
      BY <1>4, <3>1
    <3>4. Due(todo[1]) => Due(todo[1])'
      BY <1>1, <3>1 DEF Due, Buffer, SameLast
    <3>. QED BY <1>1, <3>2, <3>3, <3>4
  <2>. QED BY <2>1 DEF HasDue
<1>9. Renewals'
  BY <1>7, <1>8 DEF Renewals
<1>. QED BY <1>2, <1>3, <1>6, <1>9 DEF IInv

\* The program begins again with what is stored, which has every renewal.
LEMMA RestartKeeps == IInv /\ Restart => IInv'
<1>. SUFFICES ASSUME IInv, Restart PROVE IInv'
  OBVIOUS
<1>1. /\ UNCHANGED <<setup, stored, day, stuck, warned>>
      /\ conf' = stored /\ TryUpdateCertificates(stored) /\ reload' = NoReload
      /\ crossed' = FALSE /\ enabled' = EnabledLetsEncrypt(stored)
      /\ leafs' = <<>> /\ object' = [l \in Leaf |-> None]
      /\ hs' = [h \in Handshake |-> NoHandshake]
      /\ task' = "idle" /\ kept' = <<>> /\ daily' = FALSE
      /\ todo' = <<>> /\ tokens' = {} /\ challenge' = <<>> /\ tries' = 0 /\ renewed' = <<>>
      /\ last' = [n \in DOMAIN last |->
                    IF last[n] = None THEN None ELSE [last[n] EXCEPT !.undone = FALSE]]
  BY DEF Restart
<1>2. IsConf(stored) /\ day \in Nat /\ day >= 1
  BY DEF IInv, Configs, Confs, Types
<1>3. \A h \in Handshake : hs'[h] = NoHandshake /\ hs'[h].pc = "idle" /\ hs'[h].map = <<>>
  BY <1>1, NoHand
<1>4. Types'
  <2>1. hs' \in [Handshake -> HandType] /\ object' \in [Leaf -> LeafType \cup {None}]
    BY <1>1, NoHand
  <2>2. leafs' \in AnyMap /\ kept' \in AnyMap
    BY <1>1, EmptyMap
  <2>. QED BY <1>1, <2>1, <2>2 DEF IInv, Types
<1>5. /\ applied' = stored /\ DOMAIN live' = Covered(stored)
      /\ \A d \in DOMAIN live' :
           /\ live'[d] \in LiveType /\ live'[d].name \in Claims(stored, d)
           /\ Agrees(live'[d], stored)
           /\ (d \in DOMAIN live /\ live'[d] = live[d]) \/ live'[d].since = day
  BY <1>1, <1>2, Updated DEF IInv, LiveOK
<1>6. LiveOK' /\ Signed'
  BY <1>1, <1>5 DEF LiveOK, Signed
<1>7. Configs'
  <2>1. enabled' \in BOOLEAN
    BY <1>1 DEF EnabledLetsEncrypt
  <2>2. Confs'
    BY <1>1, <1>2, <1>5, <2>1, EmptyMap, NoReloading DEF Confs
  <2>3. Agreement'
    BY <1>1, <1>5, NoReloading DEF Agreement
  <2>4. Answers'
    BY <1>1, NoReloading DEF Answers
  <2>. QED BY <2>2, <2>3, <2>4 DEF Configs
<1>8. Maps' /\ Hands'
  BY <1>1, <1>3, EmptyMap DEF Maps, MapOK, Hands, Chosen
<1>9. Watch'
  <2>1. \A h \in Handshake : Seen(hs[h])'
    BY <1>3 DEF Seen
  <2>2. CheckedDay' = day - 1 /\ CheckedDay >= day - 1
    BY <1>1, Days DEF CheckedDay, IInv, Types
  <2>3. ASSUME ~stuck, NEW d \in DOMAIN live' PROVE Reported(live[d])'
    <3>1. CASE d \in DOMAIN live /\ live'[d] = live[d]
      <4>1. live[d] \in LiveType /\ Reported(live[d])
        BY <2>3, <3>1 DEF IInv, Watch, LiveOK
      <4>2. live[d].since \in Nat /\ live[d].until \in Nat /\ CheckedDay \in Nat
        BY <4>1, Days DEF LiveType, IInv
      <4>. QED BY <1>1, <1>2, <2>2, <3>1, <4>1, <4>2 DEF Reported
    <3>2. CASE live'[d].since = day
      <4>1. ~(live'[d].since < CheckedDay')
        BY <1>2, <2>2, <3>2
      <4>. QED BY <4>1 DEF Reported
    <3>. QED BY <1>5, <2>3, <3>1, <3>2
  <2>4. DOMAIN kept' = {} /\ DOMAIN leafs' = {}
    BY <1>1, EmptyMap
  <2>. QED BY <1>1, <2>1, <2>3, <2>4 DEF Watch
<1>10. DOMAIN last' = DOMAIN last /\ \A n \in DOMAIN last : SameLast(n)
  BY <1>1, Cleared DEF IInv
<1>11. Tasks'
  <2>1. last' \in [DOMAIN last' -> LastType \cup {None}]
    BY <1>1, <1>10, LastTyped DEF IInv
  <2>2. tokens' \subseteq DOMAIN challenge' /\ tries' \in 0..Tries
    BY <1>1, CertAssumption
  <2>. QED BY <1>1, <2>1, <2>2 DEF Tasks, Working
<1>12. Renewals'
  <2>1. ASSUME NEW n \in DOMAIN last', last'[n] # None PROVE Placed(n)'
    <3>1. SameLast(n) /\ last[n] # None /\ Placed(n)
      BY <1>10, <2>1 DEF SameLast, IInv, Renewals
    <3>2. InPlace(stored, n, last'[n])
      BY <3>1, PlaceSame DEF Placed
    <3>. QED BY <1>1, <3>2, NoReloading DEF Placed
  <2>2. HasDue'
    BY <1>1 DEF HasDue, Working
  <2>. QED BY <2>1, <2>2 DEF Renewals
<1>. QED BY <1>4, <1>6, <1>7, <1>8, <1>9, <1>11, <1>12 DEF IInv

\* The certificate is put into what a renewal has loaded.
LEMMA RenewalType ==
  ASSUME NEW cs, IsConf(cs), NEW item \in ItemType, day \in Nat
  PROVE  /\ IsConf(Renewal(cs, item)) /\ DOMAIN Renewal(cs, item) = DOMAIN cs
         /\ \A n \in DOMAIN cs : n # item.name => Renewal(cs, item)[n] = cs[n]
         /\ item.name \in DOMAIN cs =>
              LET c == Renewal(cs, item)[item.name]
              IN /\ c.has /\ c.ok /\ c.pem = Range(item.names) /\ c.until = day + CertDays
                 /\ c.acme = cs[item.name].acme
<1>. DEFINE R == Renewal(cs, item)
<1>1. /\ item.names \in Seq(Name) /\ item.buffer \in Nat
      /\ Range(item.names) \in SUBSET Name /\ CertDays \in Nat
  <2>1. item.names \in Seq(Name) /\ item.buffer \in Nat
    BY DEF ItemType
  <2>2. \A i \in DOMAIN item.names : item.names[i] \in Name
    BY <2>1
  <2>. QED BY <2>1, <2>2, CertAssumption DEF Range
<1>2. \A n \in DOMAIN cs : cs[n] \in CertType
  BY DEF IsConf
<1>3. ASSUME NEW n \in DOMAIN cs
      PROVE  /\ R[n] \in CertType
             /\ n # item.name => R[n] = cs[n]
             /\ n = item.name => /\ R[n].has /\ R[n].ok /\ R[n].pem = Range(item.names)
                                 /\ R[n].until = day + CertDays /\ R[n].acme = cs[n].acme
  <2>1. CASE n # item.name
    BY <1>2, <2>1 DEF Renewal
  <2>2. CASE n = item.name
    <3>1. R[n] = [cs[n] EXCEPT !.has = TRUE, !.ok = TRUE, !.pem = Range(item.names),
                               !.ver = 1 - @, !.from = day, !.until = day + CertDays]
      BY <2>2 DEF Renewal
    <3>2. cs[n] \in CertType /\ 1 - cs[n].ver \in {0, 1} /\ day + CertDays \in Nat
      BY <1>1, <1>2 DEF CertType
    <3>. HIDE DEF R
    <3>. QED BY <1>1, <2>2, <3>1, <3>2 DEF CertType
  <2>. QED BY <2>1, <2>2
<1>4. DOMAIN R = DOMAIN cs
  BY DEF Renewal
<1>5. R \in [DOMAIN cs -> CertType]
  BY <1>3 DEF Renewal
<1>6. IsConf(R)
  BY <1>4, <1>5 DEF IsConf
<1>. HIDE DEF R
<1>. QED BY <1>3, <1>4, <1>6 DEF R

\* What is saved is the section, or one item.
LEMMA SaveType ==
  ASSUME NEW cs, IsConf(cs), IsConf(stored), NEW n
  PROVE  /\ IsConf(SaveConfig(cs, n))
         /\ \A k : k # n => \/ /\ k \in DOMAIN SaveConfig(cs, n) <=> k \in DOMAIN stored
                               /\ k \in DOMAIN stored => SaveConfig(cs, n)[k] = stored[k]
                            \/ /\ k \in DOMAIN SaveConfig(cs, n) <=> k \in DOMAIN cs
                               /\ k \in DOMAIN cs => SaveConfig(cs, n)[k] = cs[k]
         /\ n \in DOMAIN cs => n \in DOMAIN SaveConfig(cs, n) /\ SaveConfig(cs, n)[n] = cs[n]
<1>1. CASE ~setup.separate
  <2>1. SaveConfig(cs, n) = cs
    BY <1>1 DEF SaveConfig
  <2>. QED BY <2>1
<1>2. CASE setup.separate
  <2>. DEFINE D == (DOMAIN stored \ {n}) \cup ({n} \cap DOMAIN cs)
              S == [k \in D |-> IF k = n THEN cs[n] ELSE stored[k]]
  <2>1. SaveConfig(cs, n) = S
    BY <1>2 DEF SaveConfig
  <2>2. IsFiniteSet(D)
    <3>1. IsFiniteSet(DOMAIN stored \ {n})
      BY FS_Subset DEF IsConf
    <3>2. IsFiniteSet({n} \cap DOMAIN cs)
      BY FS_Subset DEF IsConf
    <3>. QED BY <3>1, <3>2, FS_Union
  <2>3. D \subseteq STRING
    BY DEF IsConf
  <2>4. \A k \in D : S[k] \in CertType
    BY DEF IsConf
  <2>5. S \in [D -> CertType] /\ DOMAIN S = D
    BY <2>4
  <2>6. IsConf(S)
    BY <2>2, <2>3, <2>5 DEF IsConf
  <2>. QED BY <2>1, <2>6
<1>. QED BY <1>1, <1>2

\* A renewal is saved.
LEMMA AcmeSaveKeeps == IInv /\ AcmeSave => IInv'
<1>. SUFFICES ASSUME IInv, AcmeSave PROVE IInv'
  OBVIOUS
<1>1. PICK item \in ItemType : item = todo[1] /\ day \in Nat /\ IsConf(renewed) /\ IsConf(stored)
  BY Rest DEF AcmeSave, IInv, Tasks, Types, Configs, Confs, Working
<1>2. PICK cs : cs = Renewal(renewed, item)
  OBVIOUS
<1>3. /\ renewed' = cs /\ stored' = SaveConfig(cs, item.name)
      /\ last' = [n \in DOMAIN last |->
                    IF n = item.name /\ n \in DOMAIN cs
                    THEN IF cs[n].acme
                         THEN [day |-> day, names |-> item.names, buffer |-> item.buffer,
                               odd |-> IF last[n] = None THEN FALSE ELSE ~last[n].odd,
                               undone |-> FALSE]
                         ELSE last[n]
                    ELSE last[n]]
      /\ task = "save" /\ task' = "set"
      /\ UNCHANGED <<setup, live, applied, leafs, object, hs, kept, day, daily, stuck, warned>>
      /\ UNCHANGED <<conf, reload, enabled, crossed, todo, tokens, challenge, tries>>
  BY <1>1, <1>2 DEF AcmeSave, acmeSame
<1>4. /\ IsConf(cs) /\ DOMAIN cs = DOMAIN renewed
      /\ \A n \in DOMAIN renewed : n # item.name => cs[n] = renewed[n]
      /\ item.name \in DOMAIN renewed =>
           /\ cs[item.name].has /\ cs[item.name].ok /\ cs[item.name].pem = Range(item.names)
           /\ cs[item.name].until = day + CertDays
           /\ cs[item.name].acme = renewed[item.name].acme
  BY <1>1, <1>2, RenewalType
<1>5. /\ IsConf(stored')
      /\ \A k : k # item.name =>
                  \/ /\ k \in DOMAIN stored' <=> k \in DOMAIN stored
                     /\ k \in DOMAIN stored => stored'[k] = stored[k]
                  \/ /\ k \in DOMAIN stored' <=> k \in DOMAIN cs
                     /\ k \in DOMAIN cs => stored'[k] = cs[k]
      /\ item.name \in DOMAIN cs =>
           item.name \in DOMAIN stored' /\ stored'[item.name] = cs[item.name]
  BY <1>1, <1>3, <1>4, SaveType
<1>6. Types' /\ LiveOK' /\ Maps' /\ Hands' /\ Watch' /\ Signed'
  BY <1>3, ConfStep
<1>7. Configs'
  <2>1. Confs'
    BY <1>3, <1>4, <1>5 DEF IInv, Configs, Confs
  <2>2. Agreement' /\ Answers'
    BY <1>3 DEF IInv, Configs, Agreement, Answers
  <2>. QED BY <2>1, <2>2 DEF Configs
<1>8. DOMAIN last' = DOMAIN last
  BY <1>3
<1>9. ASSUME NEW n \in DOMAIN last
      PROVE  \/ /\ n = item.name /\ n \in DOMAIN cs /\ cs[n].acme
                /\ last'[n] \in LastType /\ last'[n].day = day /\ last'[n].names = item.names
             \/ last'[n] = last[n] /\ ~(n = item.name /\ n \in DOMAIN cs /\ cs[n].acme)
  <2>1. CASE n = item.name /\ n \in DOMAIN cs /\ cs[n].acme
    <3>1. PICK b \in BOOLEAN : b = IF last[n] = None THEN FALSE ELSE ~last[n].odd
      <4>1. last[n] # None => last[n].odd \in BOOLEAN
        BY DEF IInv, Tasks, LastType
      <4>. QED BY <4>1
    <3>2. last'[n] = [day |-> day, names |-> item.names, buffer |-> item.buffer, odd |-> b,
                      undone |-> FALSE]
      BY <1>3, <2>1, <3>1
    <3>3. item.names \in Seq(Name) /\ item.buffer \in Nat
      BY DEF ItemType
    <3>. QED BY <1>1, <2>1, <3>2, <3>3 DEF LastType
  <2>2. CASE ~(n = item.name /\ n \in DOMAIN cs /\ cs[n].acme)
    BY <1>3, <2>2
  <2>. QED BY <2>1, <2>2
<1>10. Tasks'
  <2>1. \A n \in DOMAIN last' : last'[n] \in LastType \cup {None}
    BY <1>8, <1>9 DEF IInv, Tasks
  <2>2. last' \in [DOMAIN last' -> LastType \cup {None}]
    BY <1>3, <1>8, <2>1
  <2>. QED BY <1>3, <2>2 DEF IInv, Tasks, Working
<1>11. Renewals'
  <2>1. ASSUME NEW n \in DOMAIN last', last'[n] # None PROVE Placed(n)'
    <3>1. CASE /\ n = item.name /\ n \in DOMAIN cs /\ cs[n].acme
               /\ last'[n].day = day /\ last'[n].names = item.names
      <4>1. InPlace(cs, n, last'[n])
        BY <1>4, <3>1 DEF InPlace
      <4>2. InPlace(stored', n, last'[n])
        BY <1>5, <3>1, <4>1 DEF InPlace
      <4>3. JustSaved(n)'
        BY <1>1, <1>3, <3>1 DEF JustSaved
      <4>. QED BY <1>3, <4>1, <4>2, <4>3 DEF Placed
    <3>2. CASE last'[n] = last[n] /\ ~(n = item.name /\ n \in DOMAIN cs /\ cs[n].acme)
      <4>1. Placed(n) /\ ~JustSaved(n) /\ last[n] # None
        BY <1>3, <1>8, <2>1, <3>2 DEF IInv, Renewals, JustSaved
      <4>2. InPlace(renewed, n, last[n]) /\ InPlace(stored, n, last[n])
        BY <1>3, <4>1 DEF Placed
      <4>3. n # item.name
        BY <1>4, <3>2, <4>2 DEF InPlace
      <4>4. InPlace(cs, n, last[n])
        BY <1>4, <4>2, <4>3 DEF InPlace
      <4>5. InPlace(stored', n, last[n])
        BY <1>5, <4>2, <4>3, <4>4 DEF InPlace
      <4>. QED BY <1>3, <3>2, <4>1, <4>4, <4>5 DEF Placed
    <3>. QED BY <1>8, <1>9, <2>1, <3>1, <3>2
  <2>2. HasDue'
    BY <1>3 DEF HasDue, Working
  <2>. QED BY <2>1, <2>2 DEF Renewals
<1>. QED BY <1>6, <1>7, <1>10, <1>11 DEF IInv

\* What was loaded, with the renewal, is the current configuration.
LEMMA AcmeSetCurrentKeeps == IInv /\ AcmeSetCurrent => IInv'
<1>. SUFFICES ASSUME IInv, AcmeSetCurrent PROVE IInv'
  OBVIOUS
<1>1. /\ task = "set" /\ task' = "apply" /\ conf' = renewed
      /\ crossed' = (crossed \/ reload.pc # "idle")
      /\ last' = [n \in DOMAIN last |->
                    IF last[n] = None THEN None ELSE [last[n] EXCEPT !.undone = FALSE]]
      /\ UNCHANGED <<setup, live, applied, leafs, object, hs, kept, day, daily, stuck, warned>>
      /\ UNCHANGED <<stored, reload, enabled, todo, tokens, challenge, tries, renewed>>
  BY DEF AcmeSetCurrent, SetCurrentConfig, acmeSame
<1>2. Types' /\ LiveOK' /\ Maps' /\ Hands' /\ Watch' /\ Signed'
  BY <1>1, ConfStep
<1>3. Configs'
  <2>1. Confs'
    BY <1>1 DEF IInv, Configs, Confs
  <2>2. Agreement'
    BY <1>1 DEF IInv, Configs, Confs, Agreement
  <2>3. Answers'
    BY <1>1 DEF IInv, Configs, Tasks, Answers
  <2>. QED BY <2>1, <2>2, <2>3 DEF Configs
<1>4. DOMAIN last' = DOMAIN last /\ \A n \in DOMAIN last : SameLast(n)
  BY <1>1, Cleared DEF IInv
<1>5. Tasks'
  <2>1. last' \in [DOMAIN last' -> LastType \cup {None}]
    BY <1>1, <1>4, LastTyped DEF IInv
  <2>. QED BY <1>1, <2>1 DEF IInv, Tasks, Working
<1>6. Renewals'
  <2>1. ASSUME NEW n \in DOMAIN last', last'[n] # None PROVE Placed(n)'
    <3>1. SameLast(n) /\ last[n] # None /\ Placed(n)
      BY <1>4, <2>1 DEF SameLast, IInv, Renewals
    <3>2. InPlace(stored, n, last'[n]) /\ InPlace(renewed, n, last'[n])
      BY <1>1, <3>1, PlaceSame DEF Placed
    <3>. QED BY <1>1, <3>2 DEF Placed
  <2>2. HasDue'
    BY <1>1 DEF HasDue, Working
  <2>. QED BY <2>1, <2>2 DEF Renewals
<1>. QED BY <1>2, <1>3, <1>5, <1>6 DEF IInv

\* The map is made of it.
LEMMA AcmeApplyKeeps == IInv /\ AcmeApply => IInv'
<1>. SUFFICES ASSUME IInv, AcmeApply PROVE IInv'
  OBVIOUS
<1>1. /\ task = "apply" /\ task' = "next"
      /\ TryUpdateCertificates(renewed) /\ object' = Aged(renewed)
      /\ crossed' = (crossed /\ (reload.pc # "idle" \/ applied' # conf))
      /\ todo' = Tail(todo)
      /\ tokens' = {} /\ challenge' = <<>> /\ tries' = 0 /\ renewed' = <<>>
      /\ UNCHANGED <<setup, leafs, hs, kept, day, daily, stuck, warned>>
      /\ UNCHANGED <<stored, conf, reload, enabled, last>>
  BY DEF AcmeApply
<1>2. IsConf(renewed) /\ applied' = renewed
  BY <1>1 DEF IInv, Configs, Confs, TryUpdateCertificates
<1>3. Types' /\ LiveOK' /\ Maps' /\ Hands' /\ Watch' /\ Signed'
  BY <1>1, <1>2, UpdateKeeps
<1>4. todo' \in Seq(ItemType) /\ enabled
  BY <1>1, Rest DEF IInv, Tasks, Configs, Answers
<1>5. Tasks'
  <2>1. tokens' \subseteq DOMAIN challenge' /\ tries' \in 0..Tries
    BY <1>1, CertAssumption
  <2>. QED BY <1>1, <1>4, <2>1 DEF IInv, Tasks, Working
<1>6. Configs'
  <2>1. Confs'
    BY <1>1, <1>2, EmptyMap DEF IInv, Configs, Confs
  <2>2. Agreement'
    BY <1>1, <1>2 DEF IInv, Configs, Confs, Agreement
  <2>3. Answers'
    BY <1>1, <1>4 DEF Answers
  <2>. QED BY <2>1, <2>2, <2>3 DEF Configs
<1>7. Renewals'
  <2>1. ASSUME NEW n \in DOMAIN last, last[n] # None PROVE Placed(n)'
    <3>1. Placed(n) /\ ~JustSaved(n)
      BY <1>1, <2>1 DEF IInv, Renewals, JustSaved
    <3>2. ~crossed' => reload.pc = "idle"
      BY <1>1 DEF IInv, Configs, Agreement
    <3>. QED BY <1>1, <3>1, <3>2 DEF Placed
  <2>2. HasDue'
    BY <1>1 DEF HasDue, Working
  <2>. QED BY <1>1, <2>1, <2>2 DEF Renewals
<1>. QED BY <1>3, <1>5, <1>6, <1>7 DEF IInv

-----------------------------------------------------------------------------
(* The theorems.                                                             *)

\* Every step keeps the invariant.
LEMMA NextIInv == IInv /\ [Next]_vars => IInv'
<1>. SUFFICES ASSUME IInv, [Next]_vars PROVE IInv'
  OBVIOUS
<1>1. CASE \E h \in Handshake : Done(h)
  BY <1>1, DoneKeeps
<1>2. CASE \/ Edit \/ ReloadLoad \/ ReloadDiff \/ ReloadApply \/ ReloadCommit \/ Restart
  BY <1>2, EditKeeps, ReloadLoadKeeps, ReloadDiffKeeps, ReloadApplyKeeps, ReloadCommitKeeps,
     RestartKeeps
<1>3. CASE Day
  BY <1>3, DayKeeps
<1>4. CASE \E h \in Handshake : Select(h)
  BY <1>4, SelectKeeps
<1>5. CASE \E h \in Handshake : LeafHit(h)
  BY <1>5, LeafHitKeeps
<1>6. CASE \E h \in Handshake : LeafMiss(h)
  BY <1>6, LeafMissKeeps
<1>7. CASE \E h \in Handshake : LeafCreate(h)
  <2>1. PICK h \in Handshake : LeafCreate(h)
    BY <1>7
  <2>. QED BY <2>1, UnableKeeps, SignKeeps
<1>8. CASE \E h \in Handshake : LeafAdd(h)
  BY <1>8, LeafAddKeeps
<1>9. CASE NoneDone /\ (ValidityCheck \/ SweepScan \/ SweepStore)
  BY <1>9, ValidityCheckKeeps, SweepScanKeeps, SweepStoreKeeps
<1>10. CASE RenewStart \/ RenewNext \/ AcmeSave \/ AcmeSetCurrent \/ AcmeApply
  BY <1>10, RenewStartKeeps, RenewNextKeeps, AcmeSaveKeeps, AcmeSetCurrentKeeps, AcmeApplyKeeps
<1>11. CASE \/ AcmeFails \/ AcmeOrder \/ AcmePanics \/ AcmePoll \/ AcmeFinalize \/ AcmeLoad
            \/ LetsEncrypt \/ \E d \in DOMAIN challenge : AcmeToken(d) \/ AcmeReady(d)
  BY <1>11, AcmeKeeps
<1>12. CASE UNCHANGED vars
  <2>1. /\ UNCHANGED <<setup, confVars, leafs, object, hs, task, kept, day, daily, stuck>>
        /\ UNCHANGED <<todo, tokens, challenge, tries, renewed, last, warned>>
    BY <1>12 DEF vars, acmeVars
  <2>2. Tasks' /\ Configs' /\ LiveOK' /\ Renewals'
    BY <2>1, Aside
  <2>3. Types' /\ Maps' /\ Hands' /\ Watch' /\ Signed'
    BY <2>1, ConfStep
  <2>. QED BY <2>2, <2>3 DEF IInv
<1>. QED
  BY <1>1, <1>2, <1>3, <1>4, <1>5, <1>6, <1>7, <1>8, <1>9, <1>10, <1>11, <1>12 DEF Next

\* The invariant holds in every state of the program: where the current configuration, what
\* a reload has read and what the map was made of agree, what handshakes have chosen, what
\* the maps of leaves hold, what the daily checks have seen, and which renewals are due.
THEOREM CertInvariance == Spec => []IInv
BY InitIInv, NextIInv, PTL DEF Spec

\* The handshakes, the reload and the service are at one of their steps, every leaf of the
\* cache is under the name of its CA and its own key (get_self_signed_certificate), and what
\* is to be renewed has domains.
THEOREM CertTypes == Spec => []TypeOK
<1>1. IInv => TypeOK
  <2>. SUFFICES ASSUME IInv PROVE TypeOK
    OBVIOUS
  <2>1. setup \in Setup /\ day \in 1..setup.days
    <3>1. setup.days \in Nat /\ day \in Nat /\ day >= 1 /\ day <= setup.days /\ setup \in Setup
      BY CertAssumption DEF IInv, Types
    <3>. QED BY <3>1
  <2>2. {daily, stuck, enabled, crossed} \subseteq BOOLEAN
    BY DEF IInv, Types, Configs, Confs
  <2>3. \A h \in Handshake : hs[h].pc \in {"idle", "leaf", "create", "add", "done"}
    BY DEF IInv, Types, HandType
  <2>4. \A k \in DOMAIN leafs : object[leafs[k]] # None /\ object[leafs[k]].key = k
                                /\ k[1] = object[leafs[k]].by
    BY DEF IInv, Maps, MapOK, LeafAt
  <2>5. \A i \in DOMAIN todo : todo[i].names # <<>>
    <3>1. \A i \in DOMAIN todo : todo[i] \in ItemType
      BY DEF IInv, Tasks
    <3>. QED BY <3>1 DEF ItemType
  <2>6. /\ task \in {"idle", "sweep", "store", "renew", "next", "order", "token", "ready",
                     "poll", "finalize", "certificate", "save", "set", "apply", "dead"}
        /\ tokens \subseteq DOMAIN challenge /\ tries \in 0..Tries
    BY DEF IInv, Tasks, Working
  <2>7. reload.pc \in {"idle", "diff", "apply", "commit"}
    BY DEF IInv, Configs, Confs
  <2>. QED BY <2>1, <2>2, <2>3, <2>4, <2>5, <2>6, <2>7 DEF TypeOK
<1>. QED BY <1>1, CertInvariance, PTL

\* A handshake (certificate_callback) gets a certificate that fits its name best in the
\* current configuration when it began (in what the map was made of, while a reload or the
\* end of a renewal is under way or the two have overlapped), and from a CA a leaf of the
\* CA of this name for its name, of the version it chose unless one of the two is gone.
THEOREM HandshakesServed == Spec => []HandshakeServed
<1>1. IInv => HandshakeServed
  <2>. SUFFICES ASSUME IInv, NEW h \in Handshake, hs[h].pc = "done"
                PROVE  LET x == hs[h]
                       IN IF x.cert = None THEN x.fit = {} \/ \E f \in x.fit : f.unable
                          ELSE /\ \E f \in x.fit : f.name = x.cert.name /\ f.ver = x.cert.ver
                               /\ x.cert.ca =>
                                    /\ object[x.leaf].by = x.cert.name
                                    /\ \/ object[x.leaf].ver = x.cert.ver
                                       \/ object[x.leaf].old
                                       \/ ~Signer(applied, x.cert.name, x.cert.ver)
                                    /\ object[x.leaf].cn \in {x.sni, Wildcard(x.sni)}
    BY DEF HandshakeServed
  <2>1. PICK x : x = hs[h]
    OBVIOUS
  <2>2. Chosen(x) /\ x.pc = "done"
    BY <2>1 DEF IInv, Hands
  <2>3. CASE x.cert = None
    BY <2>1, <2>2, <2>3 DEF Chosen
  <2>4. CASE x.cert # None
    <3>1. Fit(x) /\ (x.cert.ca => Own(x))
      BY <2>2, <2>4 DEF Chosen
    <3>2. \E f \in x.fit : f.name = x.cert.name /\ f.ver = x.cert.ver
      BY <3>1 DEF Fit
    <3>3. ASSUME Own(x) PROVE /\ object[x.leaf].by = x.cert.name
                              /\ \/ object[x.leaf].ver = x.cert.ver
                                 \/ object[x.leaf].old
                                 \/ ~Signer(applied, x.cert.name, x.cert.ver)
                              /\ object[x.leaf].cn \in {x.sni, Wildcard(x.sni)}
      <4>1. /\ x.leaf \in Leaf /\ object[x.leaf] # None
            /\ object[x.leaf].by = x.cert.name
            /\ object[x.leaf].cn \in {x.sni, Wildcard(x.sni)}
        BY <3>3 DEF Own, LeafAt, CommonName
      <4>2. object[x.leaf].old \/ Signer(applied, x.cert.name, object[x.leaf].ver)
        BY <4>1 DEF IInv, Signed
      <4>. QED BY <4>1, <4>2 DEF Signer
    <3>. QED BY <2>1, <2>4, <3>1, <3>2, <3>3
  <2>. QED BY <2>3, <2>4
<1>. QED BY <1>1, CertInvariance, PTL

\* While the service has something to renew, the servers answer the challenges: reloads that
\* refuse new certificates of ACME (hot_reload_config) and renewals, which begin with what
\* the current configuration has, bring no first one into a process that does not.
THEOREM ChallengesAreAnswered == Spec => []ChallengesAnswered
<1>1. IInv => ChallengesAnswered
  BY DEF ChallengesAnswered, AcmeNames, EnabledLetsEncrypt, IInv, Configs, Answers
<1>. QED BY <1>1, CertInvariance, PTL

\* A handshake gets a certificate that has ended only if do_validity_check has reported it
\* or it was put there within the last day, and a leaf that ended long ago only with its CA
\* or after an addition has undone a sweep, unless the service was held up for a day or
\* has ended.
THEOREM EndedNoticed == Spec => []EndedNotUnnoticed
<1>1. IInv => EndedNotUnnoticed
  <2>. SUFFICES ASSUME IInv, NEW h \in Handshake, hs[h].pc = "done", hs[h].cert # None, ~stuck
                PROVE  LET x == hs[h]
                       IN IF x.cert.ca
                          THEN LET o == object[x.leaf]
                               IN \/ x.at <= o.until + ExpiryDays + 1
                                  \/ o.caUntil < x.at \/ o.back
                          ELSE x.cert.until < x.at /\ x.cert.since < x.at - 1 =>
                                 <<x.cert.name, x.cert.ver>> \in warned
    BY DEF EndedNotUnnoticed
  <2>1. PICK x \in HandType : x = hs[h]
    BY DEF IInv, Types
  <2>2. Chosen(x) /\ Seen(x) /\ x.pc = "done" /\ x.cert # None
    BY <2>1 DEF IInv, Hands, Watch
  <2>3. x.at = day /\ x.cert \in LiveType
    BY <2>2 DEF Chosen, HandType
  <2>4. /\ day \in Nat /\ CheckedDay \in Nat /\ SweptDay \in Nat /\ ExpiryDays \in Nat
        /\ CheckedDay >= day - 1 /\ SweptDay >= day - 1
    BY Days, CertAssumption DEF IInv, Types
  <2>5. CASE x.cert.ca
    <3>1. Own(x) /\ (Recent(object[x.leaf]) \/ Young(object[x.leaf]))
      BY <2>2, <2>5 DEF Chosen, Seen
    <3>2. PICK o \in LeafType : o = object[x.leaf]
      BY <3>1 DEF Own, LeafAt, IInv, Types
    <3>3. o.until \in Nat /\ o.caUntil \in Nat
      BY DEF LeafType
    <3>4. x.at <= o.until + ExpiryDays + 1 \/ o.caUntil < x.at \/ o.back
      BY <2>3, <2>4, <3>1, <3>2, <3>3 DEF Recent, Young
    <3>. QED BY <2>1, <2>5, <3>2, <3>4
  <2>6. CASE ~x.cert.ca
    <3>1. Reported(x.cert)
      BY <2>2, <2>6 DEF Seen
    <3>2. x.cert.until \in Nat /\ x.cert.since \in Nat
      BY <2>3 DEF LiveType
    <3>3. x.cert.until < x.at /\ x.cert.since < x.at - 1 => <<x.cert.name, x.cert.ver>> \in warned
      BY <2>3, <2>4, <3>1, <3>2 DEF Reported
    <3>. QED BY <2>1, <2>6, <3>3
  <2>. QED BY <2>5, <2>6
<1>. QED BY <1>1, CertInvariance, PTL

\* A certificate that stays in the storage is renewed again only for other domains, for a
\* list with a domain twice, or when its life is over but for the buffer, whatever failed,
\* was edited, restarted or run again in between (do_update_certificates), unless a reload
\* has overlapped the end of a renewal and undone it in the current configuration.
THEOREM RenewalsKeptApart == Spec => RenewalsApart
<1>. DEFINE A(n) == Again(n) => HasReason(n) \/ last[n].undone
<1>1. ASSUME IInv, Next PROVE \A n \in DOMAIN last : A(n)
  <2>1. CASE last' = last
    BY <2>1 DEF Again
  <2>2. CASE \A n \in DOMAIN last : SameLast(n)
    BY <2>2 DEF Again, SameLast
  <2>3. CASE Edit
    BY <2>3 DEF Edit, Again
  <2>4. CASE ReloadCommit
    <3>1. ASSUME NEW n \in DOMAIN last, Again(n) PROVE FALSE
      <4>1. CASE last'[n] = last[n]
        BY <3>1, <4>1 DEF Again
      <4>2. CASE last'[n] # last[n]
        <5>1. PICK b \in BOOLEAN : b = (last[n].undone \/ ~InPlace(conf', n, last[n]))
          OBVIOUS
        <5>2. last[n] # None /\ last'[n] = [last[n] EXCEPT !.undone = b]
          BY <2>4, <4>2, <5>1 DEF ReloadCommit
        <5>3. SameLast(n)
          BY <1>1, <5>2, MarkSame DEF IInv
        <5>. QED BY <3>1, <5>3 DEF Again, SameLast
      <4>. QED BY <4>1, <4>2
    <3>. QED BY <3>1
  <2>5. CASE Restart \/ AcmeSetCurrent
    <3>1. last' = [n \in DOMAIN last |->
                     IF last[n] = None THEN None ELSE [last[n] EXCEPT !.undone = FALSE]]
      BY <2>5 DEF Restart, AcmeSetCurrent
    <3>2. \A n \in DOMAIN last : SameLast(n)
      BY <1>1, <3>1, Cleared DEF IInv
    <3>. QED BY <2>2, <3>2
  <2>6. CASE AcmeSave
    <3>. SUFFICES ASSUME NEW n \in DOMAIN last, Again(n), ~last[n].undone
                  PROVE  HasReason(n)
      OBVIOUS
    <3>1. PICK item : item = todo[1]
      OBVIOUS
    <3>2. last[n] # None /\ last'[n] # last[n] /\ task \in Working
      BY <2>6 DEF Again, AcmeSave, Working
    <3>3. n = item.name /\ last'[n].names = item.names /\ last'[n].buffer = item.buffer
      BY <2>6, <3>1, <3>2 DEF AcmeSave
    <3>4. Due(item)
      BY <1>1, <3>1, <3>2, <3>3 DEF IInv, Renewals, HasDue
    <3>5. Buffer(last'[n]) = Buffer(item)
      BY <3>3 DEF Buffer
    <3>. QED BY <3>3, <3>4, <3>5 DEF Due, HasReason
  <2>. QED
    BY <1>1, <2>1, <2>3, <2>4, <2>5, <2>6
    DEF Next, ReloadLoad, ReloadDiff, ReloadApply, Done, Day, Select, LeafHit, LeafMiss,
        LeafCreate, LeafAdd, ValidityCheck, SweepScan, SweepStore, RenewStart, RenewNext,
        AcmeFails, AcmeOrder, AcmePanics, AcmeToken, AcmeReady, LetsEncrypt, Validate,
        AcmePoll, AcmeFinalize, AcmeLoad, AcmeApply, Failed, Step, acmeVars
<1>2. IInv /\ [Next]_vars => [\A n \in DOMAIN last : A(n)]_vars
  BY <1>1
<1>. QED BY <1>2, CertInvariance, PTL DEF Spec, RenewalsApart
=============================================================================
