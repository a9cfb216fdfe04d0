-------------------------- MODULE HttpCacheProofs --------------------------
(***************************************************************************)
(* The response cache for any number of requests, keys and storages.       *)
(* First the quotas of FileCache: reading and writing count the operations *)
(* in flight, and no more than reading_max and writing_max of them touch a *)
(* file at a time.  Then what a hit may be: whole, and no older than what  *)
(* was acknowledged before the lookup, unless one of the causes of drift   *)
(* has happened to its key.                                                *)
(***************************************************************************)
EXTENDS HttpCache, FiniteSetTheorems, TLAPS

Shape == StateTypeOK /\ HeldOK

\* The record of a request between two operations has its type.
LEMMA IdleType ==
  /\ Idle \in RequestRec /\ Idle.pc = "idle"
  /\ \A op \in {"lookup", "meta", "store", "purge", "evict"}, k \in Key, n \in Nat :
       At(op, k, n) \in RequestRec /\ At(op, k, n).key = k /\ At(op, k, n).op = op
<1>1. (CHOOSE k \in Key : TRUE) \in Key
  BY CacheAssumption
<1>2. Idle \in RequestRec /\ Idle.pc = "idle"
  BY <1>1 DEF Idle, RequestRec, Pc
<1>3. ASSUME NEW op \in {"lookup", "meta", "store", "purge", "evict"}, NEW k \in Key, NEW n \in Nat
      PROVE  At(op, k, n) \in RequestRec /\ At(op, k, n).key = k /\ At(op, k, n).op = op
  BY <1>2 DEF At, RequestRec
<1>. QED BY <1>2, <1>3

\* The initial state has its types.
LEMMA InitShape == Init => Shape
<1>. SUFFICES ASSUME Init PROVE Shape
  OBVIOUS
<1>1. StateTypeOK
  BY IdleType, CacheAssumption DEF Init, StateTypeOK, Cause
<1>2. HeldOK
  BY IdleType DEF Init, HeldOK, InFile
<1>. QED BY <1>1, <1>2 DEF Shape

\* The end of get: a request that found an object holds it.
LEMMA GotType ==
  ASSUME NEW r \in RequestRec, NEW obj \in Object \cup {None}
  PROVE  /\ Got(r, obj) \in RequestRec
         /\ Got(r, obj).pc \in {"hit", "miss", "put", "idle"}
         /\ Got(r, obj).pc \in {"hit", "put"} => Got(r, obj).obj \in Object
<1>1. CASE r.op = "lookup" /\ obj = None
  BY <1>1 DEF Got, RequestRec, Pc
<1>2. CASE r.op = "lookup" /\ obj # None
  BY <1>2 DEF Got, RequestRec, Pc
<1>3. CASE r.op # "lookup" /\ obj = None
  BY <1>3, IdleType DEF Got
<1>4. CASE r.op # "lookup" /\ obj # None
  BY <1>4 DEF Got, RequestRec, Pc
<1>. QED BY <1>1, <1>2, <1>3, <1>4

\* get leaves the workers with their types, and the caller not in a file.
LEMMA GetShape ==
  ASSUME Shape, NEW i \in Worker, NEW r \in RequestRec, Get(i, r)
  PROVE  /\ w' \in [Worker -> RequestRec]
         /\ \A j \in Worker \ {i} : w'[j] = w[j]
         /\ w'[i].pc \in {"hit", "miss", "put", "idle", "overread", "read"}
         /\ w'[i].pc \in {"hit", "put"} => w'[i].obj \in Object
<1>. USE DEF Shape, StateTypeOK
<1>1. CASE w' = [w EXCEPT ![i] = Got(r, mem[r.key])]
  <2>1. mem[r.key] \in Object \cup {None}
    BY DEF RequestRec
  <2>. QED BY <1>1, <2>1, GotType
<1>2. CASE w' = [w EXCEPT ![i] = [r EXCEPT
                !.pc = IF OverQuota(reading, setup.readingMax) THEN "overread" ELSE "read",
                !.mixed = OthersWrite(i, r.key)]]
  <2>. DEFINE q == [r EXCEPT
                !.pc = IF OverQuota(reading, setup.readingMax) THEN "overread" ELSE "read",
                !.mixed = OthersWrite(i, r.key)]
  <2>1. OthersWrite(i, r.key) \in BOOLEAN
    BY DEF OthersWrite
  <2>2. q \in RequestRec /\ q.pc \in {"overread", "read"}
    BY <2>1 DEF RequestRec, Pc
  <2>. QED BY <1>2, <2>2
<1>. QED BY <1>1, <1>2 DEF Get

\* A step that changes only where one request is, within the bounds of HeldOK.
LEMMA OneMoves ==
  ASSUME Shape, NEW i \in Worker, w' \in [Worker -> RequestRec],
         \A j \in Worker \ {i} : w'[j] = w[j],
         w'[i].pc # "writing",
         w'[i].pc \in {"load", "hit", "body", "put", "overwrite", "write"} => w'[i].obj \in Object,
         file' = file
  PROVE  HeldOK'
BY DEF Shape, HeldOK, InFile

\* A request that is done.
LEMMA Ends ==
  ASSUME Shape, NEW i \in Worker, w' = [w EXCEPT ![i] = Idle]
  PROVE  /\ w' \in [Worker -> RequestRec] /\ w'[i] = Idle
         /\ \A j \in Worker \ {i} : w'[j] = w[j]
         /\ file' = file => HeldOK'
<1>1. w' \in [Worker -> RequestRec] /\ w'[i] = Idle /\ \A j \in Worker \ {i} : w'[j] = w[j]
  BY IdleType DEF Shape, StateTypeOK
<1>2. w'[i].pc = "idle"
  BY <1>1, IdleType
<1>. QED BY <1>1, <1>2, OneMoves

\* The operations that read.
LEMMA ReadShape ==
  ASSUME Shape, NEW i \in Worker,
         (\E k \in Key : Lookup(i, k)) \/ OverRead(i) \/ ReadEnd(i) \/ Load(i) \/ Revalidate(i)
  PROVE  Shape'
<1>. USE DEF Shape
<1>1. ASSUME NEW k \in Key, Lookup(i, k) PROVE Shape'
  <2>1. At("lookup", k, floor[k]) \in RequestRec
    BY IdleType DEF StateTypeOK
  <2>2. /\ w' \in [Worker -> RequestRec]
        /\ \A j \in Worker \ {i} : w'[j] = w[j]
        /\ w'[i].pc \in {"hit", "miss", "put", "idle", "overread", "read"}
        /\ w'[i].pc \in {"hit", "put"} => w'[i].obj \in Object
    BY <1>1, <2>1, GetShape DEF Lookup
  <2>3. HeldOK'
    BY <1>1, <2>2, OneMoves DEF Lookup
  <2>4. StateTypeOK'
    BY <1>1, <2>2 DEF Lookup, StateTypeOK, promise
  <2>. QED BY <2>3, <2>4
<1>2. CASE OverRead(i)
  <2>1. StateTypeOK'
    BY <1>2, Ends DEF OverRead, StateTypeOK, promise
  <2>2. HeldOK'
    BY <1>2, Ends DEF OverRead
  <2>. QED BY <2>1, <2>2
<1>3. CASE ReadEnd(i)
  <2>. DEFINE k == w[i].key
  <2>1. k \in Key /\ w[i] \in RequestRec
    BY DEF StateTypeOK, RequestRec
  <2>2. PICK c \in Mixed(w[i]) :
          \/ /\ c.part \in {"cut", "whole"}
             /\ w' = [w EXCEPT ![i].pc = "load", ![i].obj = c]
          \/ /\ c.part \in {"none", "empty"}
             /\ w' = [w EXCEPT ![i] = Got(w[i], None)]
          \/ /\ c.part = "short"
             /\ w' = [w EXCEPT ![i] = Idle]
    BY <1>3 DEF ReadEnd
  <2>3. c \in Content \cup {None}
    BY <2>1, <2>2 DEF Mixed, StateTypeOK
  <2>4. c.part \in {"cut", "whole"} => c \in Object
    BY <2>3 DEF Content, Object, None
  <2>5. /\ w' \in [Worker -> RequestRec]
        /\ \A j \in Worker \ {i} : w'[j] = w[j]
        /\ w'[i].pc \in {"load", "hit", "miss", "put", "idle"}
        /\ w'[i].pc \in {"load", "hit", "put"} => w'[i].obj \in Object
    <3>1. CASE c.part \in {"cut", "whole"} /\ w' = [w EXCEPT ![i].pc = "load", ![i].obj = c]
      <4>. DEFINE q == [w[i] EXCEPT !.pc = "load", !.obj = c]
      <4>1. q \in RequestRec /\ q.pc = "load" /\ q.obj = c
        BY <2>1, <2>4, <3>1 DEF RequestRec, Pc
      <4>2. w' = [w EXCEPT ![i] = q]
        BY <3>1, <2>1 DEF StateTypeOK, RequestRec
      <4>. QED BY <4>1, <4>2, <2>4, <3>1 DEF StateTypeOK
    <3>2. CASE w' = [w EXCEPT ![i] = Got(w[i], None)]
      BY <3>2, <2>1, GotType DEF StateTypeOK
    <3>3. CASE w' = [w EXCEPT ![i] = Idle]
      BY <3>3, IdleType DEF StateTypeOK
    <3>. QED BY <2>2, <3>1, <3>2, <3>3
  <2>6. HeldOK'
    BY <1>3, <2>5, OneMoves DEF ReadEnd
  <2>7. drift' \in [Key -> SUBSET Cause]
    BY <1>3, <2>1 DEF ReadEnd, Happened, If, Cause, StateTypeOK
  <2>8. StateTypeOK'
    BY <1>3, <2>5, <2>7 DEF ReadEnd, StateTypeOK
  <2>. QED BY <2>6, <2>8
<1>4. CASE Load(i)
  <2>. DEFINE k == w[i].key
  <2>1. k \in Key /\ w[i] \in RequestRec /\ w[i].obj \in Object
    BY <1>4 DEF Load, StateTypeOK, RequestRec, HeldOK
  <2>2. /\ w' \in [Worker -> RequestRec]
        /\ \A j \in Worker \ {i} : w'[j] = w[j]
        /\ w'[i].pc \in {"hit", "miss", "put", "idle"}
        /\ w'[i].pc \in {"hit", "put"} => w'[i].obj \in Object
    BY <1>4, <2>1, GotType DEF Load, StateTypeOK
  <2>3. HeldOK'
    BY <1>4, <2>2, OneMoves DEF Load
  <2>4. drift' \in [Key -> SUBSET Cause]
    BY <1>4, <2>1 DEF Load, Happened, If, Cause, StateTypeOK
  <2>5. mem' \in [Key -> Object \cup {None}]
    BY <1>4, <2>1 DEF Load, StateTypeOK
  <2>6. StateTypeOK'
    BY <1>4, <2>2, <2>4, <2>5 DEF Load, StateTypeOK
  <2>. QED BY <2>3, <2>6
<1>5. CASE Revalidate(i)
  <2>1. At("meta", w[i].key, 0) \in RequestRec
    BY IdleType DEF StateTypeOK, RequestRec
  <2>2. /\ w' \in [Worker -> RequestRec]
        /\ \A j \in Worker \ {i} : w'[j] = w[j]
        /\ w'[i].pc \in {"hit", "miss", "put", "idle", "overread", "read"}
        /\ w'[i].pc \in {"hit", "put"} => w'[i].obj \in Object
    BY <1>5, <2>1, GetShape DEF Revalidate
  <2>3. HeldOK'
    BY <1>5, <2>2, OneMoves DEF Revalidate
  <2>4. StateTypeOK'
    BY <1>5, <2>2 DEF Revalidate, StateTypeOK, promise
  <2>. QED BY <2>3, <2>4
<1>. QED BY <1>1, <1>2, <1>3, <1>4, <1>5

\* What pingora does with a hit or a miss, and the collection of a body.
LEMMA ServeShape ==
  ASSUME Shape, NEW i \in Worker, Serve(i) \/ Fetch(i) \/ WriteBody(i) \/ Abort(i)
  PROVE  Shape'
<1>. USE DEF Shape
<1>1. CASE Serve(i) \/ Abort(i)
  <2>1. StateTypeOK'
    BY <1>1, Ends DEF Serve, Abort, StateTypeOK, promise
  <2>2. HeldOK'
    BY <1>1, Ends DEF Serve, Abort
  <2>. QED BY <2>1, <2>2
<1>2. CASE Fetch(i)
  <2>. DEFINE o == [ver |-> fetches + 1, part |-> "cut"]
              q == [At("store", w[i].key, 0) EXCEPT !.pc = "body", !.obj = o]
  <2>1. o \in Object /\ fetches' \in 0..MaxVer
    BY <1>2, CacheAssumption DEF Fetch, StateTypeOK, Object
  <2>2. w[i].key \in Key
    BY DEF StateTypeOK, RequestRec
  <2>3. q \in RequestRec /\ q.pc = "body" /\ q.obj = o
    <3>1. At("store", w[i].key, 0) \in RequestRec
      BY <2>2, IdleType
    <3>. HIDE DEF o
    <3>. QED BY <2>1, <3>1 DEF RequestRec, Pc
  <2>4. /\ w' \in [Worker -> RequestRec] /\ w'[i] = q
        /\ \A j \in Worker \ {i} : w'[j] = w[j]
    BY <1>2, <2>3 DEF Fetch, StateTypeOK
  <2>5. HeldOK'
    BY <1>2, <2>1, <2>3, <2>4, OneMoves DEF Fetch
  <2>6. StateTypeOK'
    BY <1>2, <2>1, <2>4 DEF Fetch, StateTypeOK, promise
  <2>. QED BY <2>5, <2>6
<1>3. CASE WriteBody(i)
  <2>. DEFINE o == [w[i].obj EXCEPT !.part = "whole"]
              q == [w[i] EXCEPT !.pc = "put", !.obj = o]
  <2>1. w[i] \in RequestRec /\ w[i].obj \in Object
    BY <1>3 DEF WriteBody, StateTypeOK, HeldOK
  <2>2. o \in Object
    BY <2>1 DEF Object
  <2>3. q \in RequestRec /\ q.pc = "put" /\ q.obj = o
    BY <2>1, <2>2 DEF RequestRec, Pc
  <2>4. w' = [w EXCEPT ![i] = q]
    BY <1>3, <2>1 DEF WriteBody, StateTypeOK, RequestRec
  <2>5. /\ w' \in [Worker -> RequestRec] /\ w'[i] = q
        /\ \A j \in Worker \ {i} : w'[j] = w[j]
    BY <2>3, <2>4 DEF StateTypeOK
  <2>6. HeldOK'
    BY <1>3, <2>2, <2>3, <2>5, OneMoves DEF WriteBody
  <2>7. StateTypeOK'
    BY <1>3, <2>5 DEF WriteBody, StateTypeOK, promise
  <2>. QED BY <2>6, <2>7
<1>. QED BY <1>1, <1>2, <1>3

\* The marks that other requests get do not move them.
LEMMA TouchedType ==
  ASSUME NEW v \in [Worker -> RequestRec], NEW i \in Worker, NEW k \in Key
  PROVE  /\ Touched(v, i, k) \in [Worker -> RequestRec]
         /\ \A j \in Worker : /\ Touched(v, i, k)[j].pc = v[j].pc
                              /\ Touched(v, i, k)[j].obj = v[j].obj
                              /\ \A l \in Key : InFile(Touched(v, i, k)[j], l) <=> InFile(v[j], l)
BY DEF Touched, RequestRec, InFile

\* An unlink moves nobody, and nobody is in the file of that name any more.
LEMMA UnlinkedType ==
  ASSUME NEW v \in [Worker -> RequestRec], NEW k \in Key
  PROVE  /\ Unlinked(v, k) \in [Worker -> RequestRec]
         /\ \A j \in Worker : /\ Unlinked(v, k)[j].pc = v[j].pc
                              /\ Unlinked(v, k)[j].obj = v[j].obj
                              /\ \A l \in Key : InFile(Unlinked(v, k)[j], l) => InFile(v[j], l) /\ l # k
BY DEF Unlinked, RequestRec, InFile

\* put up to the moment the file is opened.
LEMMA PutShape ==
  ASSUME Shape, NEW i \in Worker, Put(i) \/ OverWrite(i)
  PROVE  Shape'
<1>. USE DEF Shape
<1>1. w[i] \in RequestRec /\ w[i].key \in Key
  BY DEF StateTypeOK, RequestRec
<1>2. CASE Put(i)
  <2>1. w[i].obj \in Object
    BY <1>2 DEF Put, HeldOK
  <2>2. mem' \in [Key -> Object \cup {None}]
    BY <1>1, <1>2, <2>1 DEF Put, PutInMemory, StateTypeOK
  <2>3. drift' \in [Key -> SUBSET Cause]
    BY <1>1, <1>2 DEF Put, PutCauses, Happened, If, Cause, StateTypeOK
  <2>4. floor' \in [Key -> Nat]
    BY <1>1, <1>2, <2>1, CacheAssumption DEF Put, Max, Object, StateTypeOK
  <2>5. /\ w' \in [Worker -> RequestRec]
        /\ \A j \in Worker \ {i} : w'[j] = w[j]
        /\ w'[i].pc \in {"idle", "overwrite", "write"}
        /\ w'[i].pc \in {"overwrite", "write"} => w'[i].obj \in Object
    <3>1. CASE Tiny
      BY <1>2, <3>1, Ends, IdleType DEF Put
    <3>2. CASE ~Tiny
      <4>. DEFINE p == IF OverQuota(writing, setup.writingMax) THEN "overwrite" ELSE "write"
                  q == [w[i] EXCEPT !.pc = p, !.mixed = FALSE]
      <4>1. q \in RequestRec /\ q.pc = p /\ q.obj = w[i].obj
        BY <1>1 DEF RequestRec, Pc
      <4>2. w' = [w EXCEPT ![i] = q]
        BY <1>1, <1>2, <3>2 DEF Put, StateTypeOK, RequestRec
      <4>. QED BY <4>1, <4>2, <2>1 DEF StateTypeOK
    <3>. QED BY <3>1, <3>2
  <2>6. HeldOK'
    BY <1>2, <2>5, OneMoves DEF Put
  <2>7. StateTypeOK'
    BY <1>2, <2>2, <2>3, <2>4, <2>5 DEF Put, StateTypeOK
  <2>. QED BY <2>6, <2>7
<1>3. CASE OverWrite(i)
  <2>1. StateTypeOK'
    BY <1>3, Ends DEF OverWrite, StateTypeOK, promise
  <2>2. HeldOK'
    BY <1>3, Ends DEF OverWrite
  <2>. QED BY <2>1, <2>2
<1>. QED BY <1>2, <1>3

\* The write of a file.
LEMMA WriteShape ==
  ASSUME Shape, NEW i \in Worker, OpenFile(i) \/ WriteEnd(i) \/ WriteFail(i)
  PROVE  Shape'
<1>. USE DEF Shape
<1>. DEFINE k == w[i].key
            idle == [w EXCEPT ![i] = Idle]
<1>1. w[i] \in RequestRec /\ k \in Key /\ w[i].obj \in Object
  BY DEF StateTypeOK, RequestRec, HeldOK, OpenFile, WriteEnd, WriteFail, Putting
<1>2. w[i].obj.ver \in 1..MaxVer /\ w[i].obj.part \in {"cut", "whole"}
  BY <1>1 DEF Object
<1>3. \A p \in {"empty", "short", "cut", "whole"} :
        LET c == [ver |-> w[i].obj.ver, part |-> p] IN c \in Content /\ c # None
  BY <1>2 DEF Content, None
<1>4. /\ Left(i, k) \in [Worker -> RequestRec]
      /\ Left(i, k)[i].pc = "idle"
      /\ \A j \in Worker \ {i} : /\ Left(i, k)[j].pc = w[j].pc
                                 /\ Left(i, k)[j].obj = w[j].obj
                                 /\ \A l \in Key : InFile(Left(i, k)[j], l) <=> InFile(w[j], l)
  <2>1. idle \in [Worker -> RequestRec] /\ idle[i].pc = "idle" /\ \A j \in Worker \ {i} : idle[j] = w[j]
    BY IdleType DEF StateTypeOK
  <2>2. /\ Touched(idle, i, k) \in [Worker -> RequestRec]
        /\ \A j \in Worker :
             /\ Touched(idle, i, k)[j].pc = idle[j].pc
             /\ Touched(idle, i, k)[j].obj = idle[j].obj
             /\ \A l \in Key : InFile(Touched(idle, i, k)[j], l) <=> InFile(idle[j], l)
    BY <1>1, <2>1, TouchedType
  <2>3. Left(i, k) = Touched(idle, i, k) \/ Left(i, k) = idle
    BY DEF Left
  <2>. HIDE DEF idle
  <2>. QED BY <2>1, <2>2, <2>3
<1>5. ASSUME w' = Left(i, k), file' \in [Key -> Content \cup {None}],
             \A l \in Key : file[l] # None => file'[l] # None
      PROVE  HeldOK'
  BY <1>4, <1>5 DEF HeldOK, InFile
<1>6. CASE OpenFile(i)
  <2>. DEFINE q == [w[i] EXCEPT !.pc = "writing", !.linked = TRUE, !.mixed = OthersWrite(i, k)]
              v == [w EXCEPT ![i] = q]
  <2>1. q \in RequestRec /\ q.pc = "writing" /\ q.obj = w[i].obj /\ q.key = k
    BY <1>1 DEF RequestRec, Pc, OthersWrite
  <2>2. v \in [Worker -> RequestRec] /\ v[i] = q /\ \A j \in Worker \ {i} : v[j] = w[j]
    BY <2>1 DEF StateTypeOK
  <2>3. w' = Touched(v, i, k)
    BY <1>1, <1>6 DEF OpenFile, StateTypeOK, RequestRec
  <2>4. /\ w' \in [Worker -> RequestRec]
        /\ \A j \in Worker : /\ w'[j].pc = v[j].pc /\ w'[j].obj = v[j].obj
                             /\ \A l \in Key : InFile(w'[j], l) <=> InFile(v[j], l)
    <3>. HIDE DEF v
    <3>. QED BY <1>1, <2>2, <2>3, TouchedType
  <2>5. file' \in [Key -> Content \cup {None}] /\ file'[k] # None
          /\ \A l \in Key : file[l] # None => file'[l] # None
    BY <1>1, <1>3, <1>6 DEF OpenFile, StateTypeOK
  <2>6. HeldOK'
    <3>. HIDE DEF v, q
    <3>1. \A l \in Key : InFile(v[i], l) => l = k
      BY <2>1, <2>2 DEF InFile
    <3>. QED BY <1>1, <2>1, <2>2, <2>4, <2>5, <3>1 DEF HeldOK
  <2>7. drift' \in [Key -> SUBSET Cause]
    BY <1>1, <1>6 DEF OpenFile, Happened, If, Cause, StateTypeOK
  <2>8. StateTypeOK'
    BY <1>6, <2>4, <2>5, <2>7 DEF OpenFile, StateTypeOK
  <2>. QED BY <2>6, <2>8
<1>7. CASE WriteEnd(i)
  <2>1. file' \in [Key -> Content \cup {None}] /\ \A l \in Key : file[l] # None => file'[l] # None
    BY <1>1, <1>2, <1>3, <1>7 DEF WriteEnd, StateTypeOK
  <2>2. floor' \in [Key -> Nat]
    BY <1>1, <1>2, <1>7, CacheAssumption DEF WriteEnd, Max, StateTypeOK
  <2>3. HeldOK'
    BY <1>5, <1>7, <2>1 DEF WriteEnd
  <2>4. StateTypeOK'
    BY <1>4, <1>7, <2>1, <2>2 DEF WriteEnd, StateTypeOK
  <2>. QED BY <2>3, <2>4
<1>8. CASE WriteFail(i)
  <2>1. file' \in [Key -> Content \cup {None}] /\ \A l \in Key : file[l] # None => file'[l] # None
    BY <1>1, <1>3, <1>8 DEF WriteFail, StateTypeOK
  <2>2. drift' \in [Key -> SUBSET Cause]
    BY <1>1, <1>8 DEF WriteFail, Happened, If, Cause, StateTypeOK
  <2>3. HeldOK'
    BY <1>5, <1>8, <2>1 DEF WriteFail
  <2>4. StateTypeOK'
    BY <1>4, <1>8, <2>1, <2>2 DEF WriteFail, StateTypeOK
  <2>. QED BY <2>3, <2>4
<1>. QED BY <1>6, <1>7, <1>8

\* remove, and the clear service.
LEMMA RemoveShape ==
  ASSUME Shape,
         \/ \E i \in Worker : Unlink(i) \/ \E k \in Key : Remove(i, k, "purge") \/ Remove(i, k, "evict")
         \/ \E k \in Key : ClearFind(k) \/ ClearRemove(k) \/ Age(k) \/ MakeRoom(k)
  PROVE  Shape'
<1>. USE DEF Shape
<1>1. ASSUME NEW i \in Worker, NEW k \in Key, NEW op \in {"purge", "evict"}, Remove(i, k, op)
      PROVE  Shape'
  <2>. DEFINE q == [At(op, k, fetches) EXCEPT !.pc = "unlink"]
  <2>1. At(op, k, fetches) \in RequestRec
    BY IdleType, CacheAssumption DEF StateTypeOK
  <2>2. q \in RequestRec /\ q.pc = "unlink"
    BY <2>1 DEF RequestRec, Pc
  <2>3. /\ w' \in [Worker -> RequestRec]
        /\ \A j \in Worker \ {i} : w'[j] = w[j]
        /\ w'[i].pc \in {"idle", "unlink"}
    <3>. HIDE DEF q
    <3>1. w' = [w EXCEPT ![i] = IF Tiny THEN Idle ELSE q]
      BY <1>1 DEF Remove, q
    <3>. QED BY <2>2, <3>1, IdleType DEF StateTypeOK
  <2>4. HeldOK'
    BY <1>1, <2>3, OneMoves DEF Remove
  <2>5. mem' \in [Key -> Object \cup {None}] /\ floor' \in [Key -> Nat]
    BY <1>1, CacheAssumption DEF Remove, StateTypeOK
  <2>6. StateTypeOK'
    BY <1>1, <2>3, <2>5 DEF Remove, StateTypeOK
  <2>. QED BY <2>4, <2>6
<1>2. ASSUME NEW i \in Worker, Unlink(i) PROVE Shape'
  <2>. DEFINE k == w[i].key
              v == [w EXCEPT ![i] = Idle]
  <2>1. k \in Key /\ w[i].since \in Nat
    BY DEF StateTypeOK, RequestRec
  <2>2. v \in [Worker -> RequestRec] /\ v[i].pc = "idle" /\ \A j \in Worker \ {i} : v[j] = w[j]
    BY IdleType DEF StateTypeOK
  <2>3. CASE FileFound(w[i])
    <3>1. w' = Unlinked(v, k) /\ file' = [file EXCEPT ![k] = None]
      BY <1>2, <2>3 DEF Unlink
    <3>2. /\ w' \in [Worker -> RequestRec]
          /\ \A j \in Worker : /\ w'[j].pc = v[j].pc /\ w'[j].obj = v[j].obj
                               /\ \A l \in Key : InFile(w'[j], l) => InFile(v[j], l) /\ l # k
      <4>. HIDE DEF v
      <4>. QED BY <2>1, <2>2, <3>1, UnlinkedType
    <3>3. HeldOK'
      <4>. HIDE DEF v
      <4>1. \A l \in Key : ~InFile(v[i], l)
        BY <2>2 DEF InFile
      <4>. QED BY <2>1, <2>2, <3>1, <3>2, <4>1 DEF HeldOK, StateTypeOK
    <3>4. drift' \in [Key -> SUBSET Cause]
      BY <1>2, <2>1, <2>3 DEF Unlink, Happened, If, Cause, StateTypeOK
    <3>5. floor' \in [Key -> Nat]
      BY <1>2, <2>1, <2>3 DEF Unlink, Max, StateTypeOK
    <3>6. StateTypeOK'
      BY <1>2, <2>1, <2>3, <3>1, <3>2, <3>4, <3>5 DEF Unlink, StateTypeOK
    <3>. QED BY <3>3, <3>6
  <2>4. CASE ~FileFound(w[i])
    <3>1. StateTypeOK'
      BY <1>2, <2>4, Ends DEF Unlink, StateTypeOK, promise
    <3>2. HeldOK'
      BY <1>2, <2>4, Ends DEF Unlink
    <3>. QED BY <3>1, <3>2
  <2>. QED BY <2>3, <2>4
<1>3. ASSUME NEW k \in Key, ClearRemove(k) PROVE Shape'
  <2>1. w' = Unlinked(w, k) /\ file' = [file EXCEPT ![k] = None]
    BY <1>3 DEF ClearRemove
  <2>2. /\ w' \in [Worker -> RequestRec]
        /\ \A j \in Worker : /\ w'[j].pc = w[j].pc /\ w'[j].obj = w[j].obj
                             /\ \A l \in Key : InFile(w'[j], l) => InFile(w[j], l) /\ l # k
    BY <2>1, UnlinkedType DEF StateTypeOK
  <2>3. HeldOK'
    BY <2>1, <2>2 DEF HeldOK, StateTypeOK
  <2>4. StateTypeOK'
    BY <1>3, <2>1, <2>2 DEF ClearRemove, StateTypeOK, promise
  <2>. QED BY <2>3, <2>4
<1>4. ASSUME NEW k \in Key, ClearFind(k) \/ Age(k) \/ MakeRoom(k) PROVE Shape'
  <2>1. StateTypeOK'
    BY <1>4 DEF ClearFind, Age, MakeRoom, StateTypeOK, promise
  <2>2. w' = w /\ file' = file
    BY <1>4 DEF ClearFind, Age, MakeRoom
  <2>3. HeldOK'
    BY <2>2 DEF HeldOK, InFile
  <2>. QED BY <2>1, <2>3
<1>. QED BY <1>1, <1>2, <1>3, <1>4

\* A restart: the files that are being written stay where they are.
LEMMA RestartShape ==
  ASSUME Shape, Restart
  PROVE  Shape'
<1>. USE DEF Shape
<1>. DEFINE broken == {k \in Key : \E i \in Worker : InFile(w[i], k)}
<1>1. w' \in [Worker -> RequestRec] /\ \A i \in Worker : w'[i] = Idle
  BY IdleType DEF Restart
<1>2. \A k \in broken : file[k] \in Content
  BY DEF HeldOK, StateTypeOK
<1>3. \A p \in {"empty", "short", "cut"}, c \in Content : [c EXCEPT !.part = p] \in Content
  BY DEF Content
<1>4. PICK p \in {"empty", "short", "cut"} :
        file' = [k \in Key |-> IF k \in broken THEN [file[k] EXCEPT !.part = p] ELSE file[k]]
  BY DEF Restart
<1>5. file' \in [Key -> Content \cup {None}]
  <2>. HIDE DEF broken
  <2>. QED BY <1>2, <1>3, <1>4 DEF StateTypeOK
<1>6. drift' \in [Key -> SUBSET Cause]
  BY DEF Restart, If, Cause, StateTypeOK
<1>7. HeldOK'
  BY <1>1, IdleType DEF HeldOK, InFile
<1>8. StateTypeOK'
  BY <1>1, <1>5, <1>6, CacheAssumption DEF Restart, StateTypeOK
<1>. QED BY <1>7, <1>8

\* Every step keeps the types and the objects that requests carry.
LEMMA NextShape == Shape /\ [Next]_vars => Shape'
<1>. SUFFICES ASSUME Shape, [Next]_vars PROVE Shape'
  OBVIOUS
<1>1. CASE UNCHANGED vars
  BY <1>1 DEF vars, Shape, StateTypeOK, HeldOK, InFile
<1>. QED BY <1>1, ReadShape, ServeShape, PutShape, WriteShape, RemoveShape, RestartShape
         DEF Next, Request
-----------------------------------------------------------------------------
\* A counter and its quota when request i moves: S and T are the requests that the
\* counter n and m stand for before and after, A and B those of them that go on.
LEMMA CountMove ==
  ASSUME NEW S \in SUBSET Worker, NEW T \in SUBSET Worker, NEW A \in SUBSET S,
         NEW B \in SUBSET T, NEW i \in Worker, T \ {i} = S \ {i}, B \ {i} = A \ {i},
         NEW max \in Nat, max > 0 => Cardinality(A) <= max,
         NEW n, n = Cardinality(S),
         NEW m, m = n + (IF i \in T THEN 1 ELSE 0) - (IF i \in S THEN 1 ELSE 0),
         i \in B /\ i \notin A => ~OverQuota(n, max)
  PROVE  m = Cardinality(T) /\ (max > 0 => Cardinality(B) <= max)
<1>1. IsFiniteSet(S) /\ IsFiniteSet(T) /\ IsFiniteSet(A) /\ IsFiniteSet(B)
  BY CacheAssumption, FS_Subset
<1>2. /\ Cardinality(S) \in Nat /\ Cardinality(T) \in Nat
      /\ Cardinality(A) \in Nat /\ Cardinality(B) \in Nat
  BY <1>1, FS_CardinalityType
<1>3. m = Cardinality(T)
  <2>1. CASE i \in S <=> i \in T
    <3>1. S = T
      BY <2>1
    <3>. QED BY <1>2, <2>1, <3>1
  <2>2. CASE i \in T /\ i \notin S
    <3>1. T = S \cup {i}
      BY <2>2
    <3>2. Cardinality(T) = Cardinality(S) + 1
      BY <1>1, <2>2, <3>1, FS_AddElement
    <3>. QED BY <1>2, <2>2, <3>2
  <2>3. CASE i \in S /\ i \notin T
    <3>1. S = T \cup {i}
      BY <2>3
    <3>2. Cardinality(S) = Cardinality(T) + 1
      BY <1>1, <2>3, <3>1, FS_AddElement
    <3>. QED BY <1>2, <2>3, <3>2
  <2>. QED BY <2>1, <2>2, <2>3
<1>4. ASSUME max > 0 PROVE Cardinality(B) <= max
  <2>1. CASE i \in B /\ i \notin A
    <3>1. B = A \cup {i}
      BY <2>1
    <3>2. Cardinality(B) = Cardinality(A) + 1
      BY <1>1, <2>1, <3>1, FS_AddElement
    <3>3. Cardinality(A) <= Cardinality(S)
      BY <1>1, FS_Subset
    <3>4. ~OverQuota(n, max)
      BY <2>1
    <3>. QED BY <1>2, <1>4, <3>2, <3>3, <3>4 DEF OverQuota
  <2>2. CASE ~(i \in B /\ i \notin A)
    <3>1. B \subseteq A
      BY <2>2
    <3>2. Cardinality(B) <= Cardinality(A)
      BY <1>1, <3>1, FS_Subset
    <3>. QED BY <1>2, <1>4, <3>2
  <2>. QED BY <2>1, <2>2
<1>. QED BY <1>3, <1>4

ReadPc == {"overread", "read", "load"}
WritePc == {"overwrite", "write", "writing"}

\* A step that moves only request i, and the counters with it, keeps the quotas.
LEMMA QuotaMove ==
  ASSUME Shape, QuotaExact, QuotaBound, NEW i \in Worker,
         setup' = setup, w' \in [Worker -> RequestRec],
         \A j \in Worker \ {i} : w'[j].pc = w[j].pc,
         reading' = reading + (IF w'[i].pc \in ReadPc THEN 1 ELSE 0)
                            - (IF w[i].pc \in ReadPc THEN 1 ELSE 0),
         writing' = writing + (IF w'[i].pc \in WritePc THEN 1 ELSE 0)
                            - (IF w[i].pc \in WritePc THEN 1 ELSE 0),
         w'[i].pc \in {"read", "load"} /\ w[i].pc \notin {"read", "load"} =>
           ~OverQuota(reading, setup.readingMax),
         w'[i].pc \in Putting /\ w[i].pc \notin Putting => ~OverQuota(writing, setup.writingMax)
  PROVE  QuotaExact' /\ QuotaBound'
<1>1. setup.readingMax \in Nat /\ setup.writingMax \in Nat
  BY CacheAssumption DEF Shape, StateTypeOK, SetupType
<1>2. /\ Readers \in SUBSET Worker /\ Readers' \in SUBSET Worker
      /\ ActiveReaders \in SUBSET Readers /\ ActiveReaders' \in SUBSET Readers'
      /\ Readers' \ {i} = Readers \ {i} /\ ActiveReaders' \ {i} = ActiveReaders \ {i}
      /\ (i \in Readers <=> w[i].pc \in ReadPc) /\ (i \in Readers' <=> w'[i].pc \in ReadPc)
      /\ (i \in ActiveReaders <=> w[i].pc \in {"read", "load"})
      /\ (i \in ActiveReaders' <=> w'[i].pc \in {"read", "load"})
  BY DEF Readers, ActiveReaders, ReadPc
<1>3. /\ Writers \in SUBSET Worker /\ Writers' \in SUBSET Worker
      /\ ActiveWriters \in SUBSET Writers /\ ActiveWriters' \in SUBSET Writers'
      /\ Writers' \ {i} = Writers \ {i} /\ ActiveWriters' \ {i} = ActiveWriters \ {i}
      /\ (i \in Writers <=> w[i].pc \in WritePc) /\ (i \in Writers' <=> w'[i].pc \in WritePc)
      /\ (i \in ActiveWriters <=> w[i].pc \in Putting)
      /\ (i \in ActiveWriters' <=> w'[i].pc \in Putting)
  BY DEF Writers, ActiveWriters, WritePc, Putting
<1>4. /\ reading' = Cardinality(Readers')
      /\ setup.readingMax > 0 => Cardinality(ActiveReaders') <= setup.readingMax
  <2>1. reading = Cardinality(Readers)
    BY DEF QuotaExact
  <2>2. setup.readingMax > 0 => Cardinality(ActiveReaders) <= setup.readingMax
    BY DEF QuotaBound
  <2>3. reading' = reading + (IF i \in Readers' THEN 1 ELSE 0) - (IF i \in Readers THEN 1 ELSE 0)
    BY <1>2
  <2>4. i \in ActiveReaders' /\ i \notin ActiveReaders => ~OverQuota(reading, setup.readingMax)
    BY <1>2
  <2>. QED BY <1>1, <1>2, <2>1, <2>2, <2>3, <2>4, CountMove
<1>5. /\ writing' = Cardinality(Writers')
      /\ setup.writingMax > 0 => Cardinality(ActiveWriters') <= setup.writingMax
  <2>1. writing = Cardinality(Writers)
    BY DEF QuotaExact
  <2>2. setup.writingMax > 0 => Cardinality(ActiveWriters) <= setup.writingMax
    BY DEF QuotaBound
  <2>3. writing' = writing + (IF i \in Writers' THEN 1 ELSE 0) - (IF i \in Writers THEN 1 ELSE 0)
    BY <1>3
  <2>4. i \in ActiveWriters' /\ i \notin ActiveWriters => ~OverQuota(writing, setup.writingMax)
    BY <1>3
  <2>. QED BY <1>1, <1>3, <2>1, <2>2, <2>3, <2>4, CountMove
<1>. QED BY <1>4, <1>5 DEF QuotaExact, QuotaBound

\* A step that moves nobody.
LEMMA QuotaStill ==
  ASSUME QuotaExact, QuotaBound, setup' = setup, \A j \in Worker : w'[j].pc = w[j].pc,
         reading' = reading, writing' = writing
  PROVE  QuotaExact' /\ QuotaBound'
<1>1. /\ Readers' = Readers /\ ActiveReaders' = ActiveReaders
      /\ Writers' = Writers /\ ActiveWriters' = ActiveWriters
  BY DEF Readers, ActiveReaders, Writers, ActiveWriters
<1>. QED BY <1>1 DEF QuotaExact, QuotaBound

\* The counters are numbers.
LEMMA CountsNat ==
  ASSUME QuotaExact
  PROVE  reading \in Nat /\ writing \in Nat
<1>1. IsFiniteSet(Readers) /\ IsFiniteSet(Writers)
  BY CacheAssumption, FS_Subset DEF Readers, Writers
<1>. QED BY <1>1, FS_CardinalityType DEF QuotaExact

\* get counts the caller when it goes to the file, and lets it in below the quota.
LEMMA GetQuota ==
  ASSUME Shape, QuotaExact, QuotaBound, NEW i \in Worker, NEW r \in RequestRec, Get(i, r),
         w[i].pc \in {"idle", "hit"}, setup' = setup, writing' = writing
  PROVE  QuotaExact' /\ QuotaBound'
<1>. USE DEF ReadPc, WritePc, Putting
<1>1. /\ w' \in [Worker -> RequestRec]
      /\ \A j \in Worker \ {i} : w'[j].pc = w[j].pc
  BY GetShape
<1>2. reading \in Nat /\ writing \in Nat
  BY CountsNat
<1>3. CASE w' = [w EXCEPT ![i] = Got(r, mem[r.key])] /\ UNCHANGED reading
  <2>1. mem[r.key] \in Object \cup {None}
    BY DEF Shape, StateTypeOK, RequestRec
  <2>2. w'[i].pc \in {"hit", "miss", "put", "idle"}
    BY <1>3, <2>1, GotType DEF Shape, StateTypeOK
  <2>. QED BY <1>1, <1>2, <1>3, <2>2, QuotaMove
<1>4. CASE /\ reading' = reading + 1
           /\ w' = [w EXCEPT ![i] = [r EXCEPT
                !.pc = IF OverQuota(reading, setup.readingMax) THEN "overread" ELSE "read",
                !.mixed = OthersWrite(i, r.key)]]
  <2>1. w'[i].pc = IF OverQuota(reading, setup.readingMax) THEN "overread" ELSE "read"
    BY <1>4 DEF Shape, StateTypeOK, RequestRec
  <2>2. w'[i].pc \in {"overread", "read"}
    BY <2>1
  <2>. QED BY <1>1, <1>2, <1>4, <2>1, <2>2, QuotaMove
<1>. QED BY <1>3, <1>4 DEF Get

\* The operations that read.
LEMMA ReadQuota ==
  ASSUME Shape, QuotaExact, QuotaBound, NEW i \in Worker,
         (\E k \in Key : Lookup(i, k)) \/ OverRead(i) \/ ReadEnd(i) \/ Load(i) \/ Revalidate(i)
  PROVE  QuotaExact' /\ QuotaBound'
<1>. USE DEF ReadPc, WritePc, Putting
<1>1. Shape' /\ w' \in [Worker -> RequestRec]
  BY ReadShape DEF Shape, StateTypeOK
<1>2. reading \in Nat /\ writing \in Nat
  BY CountsNat
<1>3. ASSUME NEW k \in Key, Lookup(i, k) PROVE QuotaExact' /\ QuotaBound'
  <2>1. At("lookup", k, floor[k]) \in RequestRec
    BY IdleType DEF Shape, StateTypeOK
  <2>. QED BY <1>3, <2>1, GetQuota DEF Lookup
<1>4. CASE OverRead(i)
  <2>1. w'[i] = Idle /\ \A j \in Worker \ {i} : w'[j] = w[j]
    BY <1>4, Ends DEF OverRead
  <2>2. w'[i].pc = "idle" /\ \A j \in Worker \ {i} : w'[j].pc = w[j].pc
    BY <2>1, IdleType
  <2>. QED BY <1>1, <1>2, <1>4, <2>2, QuotaMove DEF OverRead
<1>5. CASE ReadEnd(i)
  <2>1. w[i] \in RequestRec /\ w \in [Worker -> RequestRec]
    BY DEF Shape, StateTypeOK
  <2>2. PICK c \in Mixed(w[i]) :
          \/ w' = [w EXCEPT ![i].pc = "load", ![i].obj = c] /\ reading' = reading
          \/ w' = [w EXCEPT ![i] = Got(w[i], None)] /\ reading' = reading - 1
          \/ w' = [w EXCEPT ![i] = Idle] /\ reading' = reading - 1
    BY <1>5 DEF ReadEnd
  <2>3. \A j \in Worker \ {i} : w'[j].pc = w[j].pc
    BY <2>1, <2>2
  <2>4. \/ w'[i].pc = "load" /\ reading' = reading
        \/ w'[i].pc \in {"hit", "miss", "put", "idle"} /\ reading' = reading - 1
    BY <2>1, <2>2, GotType, IdleType DEF RequestRec
  <2>. QED BY <1>1, <1>2, <1>5, <2>3, <2>4, QuotaMove DEF ReadEnd
<1>6. CASE Load(i)
  <2>1. w[i] \in RequestRec /\ w[i].obj \in Object
    BY <1>6 DEF Load, Shape, StateTypeOK, HeldOK
  <2>2. /\ \A j \in Worker \ {i} : w'[j].pc = w[j].pc
        /\ w'[i].pc \in {"hit", "miss", "put", "idle"}
    BY <1>6, <2>1, GotType DEF Load, Shape, StateTypeOK
  <2>. QED BY <1>1, <1>2, <1>6, <2>2, QuotaMove DEF Load
<1>7. CASE Revalidate(i)
  <2>1. At("meta", w[i].key, 0) \in RequestRec
    BY IdleType DEF Shape, StateTypeOK, RequestRec
  <2>. QED BY <1>7, <2>1, GetQuota DEF Revalidate
<1>. QED BY <1>3, <1>4, <1>5, <1>6, <1>7

\* What pingora does with a hit or a miss, and the collection of a body.
LEMMA ServeQuota ==
  ASSUME Shape, QuotaExact, QuotaBound, NEW i \in Worker,
         Serve(i) \/ Fetch(i) \/ WriteBody(i) \/ Abort(i)
  PROVE  QuotaExact' /\ QuotaBound'
<1>. USE DEF ReadPc, WritePc, Putting
<1>1. w \in [Worker -> RequestRec] /\ w' \in [Worker -> RequestRec]
  BY ServeShape DEF Shape, StateTypeOK
<1>2. reading \in Nat /\ writing \in Nat
  BY CountsNat
<1>3. reading' = reading /\ writing' = writing /\ setup' = setup
  BY DEF Serve, Fetch, WriteBody, Abort, counters
<1>4. w[i].pc \in {"hit", "miss", "body"} /\ \A j \in Worker \ {i} : w'[j].pc = w[j].pc
  BY <1>1 DEF Serve, Fetch, WriteBody, Abort
<1>5. w'[i].pc \in {"idle", "body", "put"}
  <2>1. CASE Serve(i) \/ Abort(i)
    BY <2>1, Ends, IdleType DEF Serve, Abort
  <2>2. CASE Fetch(i)
    <3>1. At("store", w[i].key, 0) \in RequestRec
      BY <1>1, IdleType DEF RequestRec
    <3>. QED BY <1>1, <2>2, <3>1 DEF Fetch, RequestRec
  <2>3. CASE WriteBody(i)
    BY <1>1, <2>3 DEF WriteBody, RequestRec
  <2>. QED BY <2>1, <2>2, <2>3
<1>. QED BY <1>1, <1>2, <1>3, <1>4, <1>5, QuotaMove

\* put counts the caller before the file is opened, and lets it in below the quota.
LEMMA PutQuota ==
  ASSUME Shape, QuotaExact, QuotaBound, NEW i \in Worker, Put(i) \/ OverWrite(i)
  PROVE  QuotaExact' /\ QuotaBound'
<1>. USE DEF ReadPc, WritePc, Putting
<1>1. w \in [Worker -> RequestRec] /\ w' \in [Worker -> RequestRec]
  BY PutShape DEF Shape, StateTypeOK
<1>2. reading \in Nat /\ writing \in Nat
  BY CountsNat
<1>3. \A j \in Worker \ {i} : w'[j].pc = w[j].pc
  BY <1>1 DEF Put, OverWrite
<1>4. CASE Put(i)
  <2>1. CASE Tiny
    <3>1. w'[i].pc = "idle"
      BY <1>4, <2>1, Ends, IdleType DEF Put
    <3>. QED BY <1>1, <1>2, <1>3, <1>4, <2>1, <3>1, QuotaMove DEF Put
  <2>2. CASE ~Tiny
    <3>1. w'[i].pc = IF OverQuota(writing, setup.writingMax) THEN "overwrite" ELSE "write"
      BY <1>1, <1>4, <2>2 DEF Put, RequestRec
    <3>. QED BY <1>1, <1>2, <1>3, <1>4, <2>2, <3>1, QuotaMove DEF Put
  <2>. QED BY <2>1, <2>2
<1>5. CASE OverWrite(i)
  <2>1. w'[i].pc = "idle"
    BY <1>5, Ends, IdleType DEF OverWrite
  <2>. QED BY <1>1, <1>2, <1>3, <1>5, <2>1, QuotaMove DEF OverWrite
<1>. QED BY <1>4, <1>5

\* The write of a file: the counter goes back however it ends.
LEMMA WriteQuota ==
  ASSUME Shape, QuotaExact, QuotaBound, NEW i \in Worker,
         OpenFile(i) \/ WriteEnd(i) \/ WriteFail(i)
  PROVE  QuotaExact' /\ QuotaBound'
<1>. USE DEF ReadPc, WritePc, Putting
<1>. DEFINE k == w[i].key
            idle == [w EXCEPT ![i] = Idle]
<1>1. w \in [Worker -> RequestRec] /\ w' \in [Worker -> RequestRec] /\ k \in Key
  BY WriteShape DEF Shape, StateTypeOK, RequestRec
<1>2. reading \in Nat /\ writing \in Nat
  BY CountsNat
<1>3. CASE OpenFile(i)
  <2>. DEFINE q == [w[i] EXCEPT !.pc = "writing", !.linked = TRUE, !.mixed = OthersWrite(i, k)]
              v == [w EXCEPT ![i] = q]
  <2>1. q \in RequestRec /\ q.pc = "writing"
    BY <1>1 DEF RequestRec, Pc, OthersWrite
  <2>2. v \in [Worker -> RequestRec] /\ v[i] = q /\ \A j \in Worker \ {i} : v[j] = w[j]
    BY <1>1, <2>1
  <2>3. w' = Touched(v, i, k)
    BY <1>1, <1>3 DEF OpenFile, RequestRec
  <2>4. \A j \in Worker : w'[j].pc = v[j].pc
    <3>. HIDE DEF v
    <3>. QED BY <1>1, <2>2, <2>3, TouchedType
  <2>5. w'[i].pc = "writing" /\ \A j \in Worker \ {i} : w'[j].pc = w[j].pc
    <3>. HIDE DEF v, q
    <3>. QED BY <2>1, <2>2, <2>4
  <2>6. w[i].pc = "write" /\ reading' = reading /\ writing' = writing /\ setup' = setup
    BY <1>3 DEF OpenFile, counters
  <2>. QED BY <1>1, <1>2, <2>5, <2>6, QuotaMove
<1>4. CASE WriteEnd(i) \/ WriteFail(i)
  <2>1. idle \in [Worker -> RequestRec] /\ idle[i].pc = "idle" /\ \A j \in Worker \ {i} : idle[j] = w[j]
    BY <1>1, IdleType
  <2>2. w' = Touched(idle, i, k) \/ w' = idle
    BY <1>4 DEF WriteEnd, WriteFail, Left
  <2>3. w'[i].pc = "idle" /\ \A j \in Worker \ {i} : w'[j].pc = w[j].pc
    <3>. HIDE DEF idle
    <3>. QED BY <1>1, <2>1, <2>2, TouchedType
  <2>4. /\ w[i].pc \in {"write", "writing"} /\ setup' = setup
        /\ reading' = reading /\ writing' = writing - 1
    BY <1>4 DEF WriteEnd, WriteFail
  <2>. QED BY <1>1, <1>2, <2>3, <2>4, QuotaMove
<1>. QED BY <1>3, <1>4

\* remove and the clear service do not count.
LEMMA RemoveQuota ==
  ASSUME Shape, QuotaExact, QuotaBound,
         \/ \E i \in Worker : Unlink(i) \/ \E k \in Key : Remove(i, k, "purge") \/ Remove(i, k, "evict")
         \/ \E k \in Key : ClearFind(k) \/ ClearRemove(k) \/ Age(k) \/ MakeRoom(k)
  PROVE  QuotaExact' /\ QuotaBound'
<1>. USE DEF ReadPc, WritePc, Putting
<1>1. w \in [Worker -> RequestRec] /\ w' \in [Worker -> RequestRec]
  BY RemoveShape DEF Shape, StateTypeOK
<1>2. reading \in Nat /\ writing \in Nat
  BY CountsNat
<1>3. reading' = reading /\ writing' = writing /\ setup' = setup
  BY DEF Unlink, Remove, ClearFind, ClearRemove, Age, MakeRoom, counters
<1>4. ASSUME NEW i \in Worker, NEW k \in Key, NEW op \in {"purge", "evict"}, Remove(i, k, op)
      PROVE  QuotaExact' /\ QuotaBound'
  <2>. DEFINE q == [At(op, k, fetches) EXCEPT !.pc = "unlink"]
  <2>1. At(op, k, fetches) \in RequestRec
    BY IdleType, CacheAssumption DEF Shape, StateTypeOK
  <2>2. q.pc = "unlink" /\ Idle.pc = "idle"
    BY <2>1, IdleType DEF RequestRec
  <2>3. w' = [w EXCEPT ![i] = IF Tiny THEN Idle ELSE q] /\ w[i].pc = "idle"
    BY <1>4 DEF Remove
  <2>4. w'[i].pc \in {"idle", "unlink"} /\ \A j \in Worker \ {i} : w'[j].pc = w[j].pc
    <3>. HIDE DEF q
    <3>. QED BY <1>1, <2>2, <2>3
  <2>. QED BY <1>1, <1>2, <1>3, <2>3, <2>4, QuotaMove
<1>5. ASSUME NEW i \in Worker, Unlink(i) PROVE QuotaExact' /\ QuotaBound'
  <2>. DEFINE k == w[i].key
              v == [w EXCEPT ![i] = Idle]
  <2>1. k \in Key
    BY <1>1 DEF RequestRec
  <2>2. v \in [Worker -> RequestRec] /\ v[i].pc = "idle" /\ \A j \in Worker \ {i} : v[j] = w[j]
    BY <1>1, IdleType
  <2>3. w[i].pc = "unlink" /\ (w' = Unlinked(v, k) \/ w' = v)
    BY <1>5 DEF Unlink
  <2>4. w'[i].pc = "idle" /\ \A j \in Worker \ {i} : w'[j].pc = w[j].pc
    <3>. HIDE DEF v
    <3>. QED BY <2>1, <2>2, <2>3, UnlinkedType
  <2>. QED BY <1>1, <1>2, <1>3, <2>3, <2>4, QuotaMove
<1>6. ASSUME NEW k \in Key, ClearFind(k) \/ ClearRemove(k) \/ Age(k) \/ MakeRoom(k)
      PROVE  QuotaExact' /\ QuotaBound'
  <2>1. w' = w \/ w' = Unlinked(w, k)
    BY <1>6 DEF ClearFind, ClearRemove, Age, MakeRoom
  <2>2. \A j \in Worker : w'[j].pc = w[j].pc
    BY <1>1, <2>1, UnlinkedType
  <2>. QED BY <1>3, <2>2, QuotaStill
<1>. QED BY <1>4, <1>5, <1>6

\* The first process, and every one that follows it, begins with the quotas kept.
LEMMA InitQuota == Init => QuotaExact /\ QuotaBound
<1>. SUFFICES ASSUME Init PROVE QuotaExact /\ QuotaBound
  OBVIOUS
<1>1. \A i \in Worker : w[i].pc = "idle"
  BY IdleType DEF Init
<1>2. Readers = {} /\ Writers = {} /\ ActiveReaders = {} /\ ActiveWriters = {}
  BY <1>1 DEF Readers, Writers, ActiveReaders, ActiveWriters, Putting
<1>3. setup.readingMax \in Nat /\ setup.writingMax \in Nat
  BY CacheAssumption DEF Init, SetupType
<1>. QED BY <1>2, <1>3, FS_EmptySet DEF Init, QuotaExact, QuotaBound

LEMMA RestartQuota ==
  ASSUME Shape, Restart
  PROVE  QuotaExact' /\ QuotaBound'
<1>1. \A i \in Worker : w'[i].pc = "idle"
  BY IdleType DEF Restart
<1>2. Readers' = {} /\ Writers' = {} /\ ActiveReaders' = {} /\ ActiveWriters' = {}
  BY <1>1 DEF Readers, Writers, ActiveReaders, ActiveWriters, Putting
<1>3. setup'.readingMax \in Nat /\ setup'.writingMax \in Nat
  BY CacheAssumption DEF Restart, Shape, StateTypeOK, SetupType
<1>. QED BY <1>2, <1>3, FS_EmptySet DEF Restart, QuotaExact, QuotaBound

\* Every step keeps the counters exact and the quotas kept.
LEMMA NextQuota == Shape /\ QuotaExact /\ QuotaBound /\ [Next]_vars => QuotaExact' /\ QuotaBound'
<1>. SUFFICES ASSUME Shape, QuotaExact, QuotaBound, [Next]_vars PROVE QuotaExact' /\ QuotaBound'
  OBVIOUS
<1>1. CASE UNCHANGED vars
  BY <1>1, QuotaStill DEF vars
<1>. QED BY <1>1, ReadQuota, ServeQuota, PutQuota, WriteQuota, RemoveQuota, RestartQuota
         DEF Next, Request
-----------------------------------------------------------------------------
\* The counters of FileCache and its quotas, with the types and the carried objects
\* they rest on, are an inductive invariant of the cache.
THEOREM CacheInvariance == Spec => []IInv
<1>1. Init => IInv
  BY InitShape, InitQuota DEF IInv, Shape
<1>2. IInv /\ [Next]_vars => IInv'
  BY NextShape, NextQuota DEF IInv, Shape
<1>. QED BY <1>1, <1>2, PTL DEF Spec

\* FileCache::reading and FileCache::writing are the operations in flight at every
\* moment, for any number of requests and however their operations end.
THEOREM QuotasExact == Spec => []QuotaExact
<1>1. IInv => QuotaExact
  BY DEF IInv
<1>. QED BY <1>1, CacheInvariance, PTL

\* No more than reading_max files are read and writing_max written at a time, although
\* a request adds itself first and compares what fetch_add returned afterwards.
THEOREM QuotasBounded == Spec => []QuotaBound
<1>1. IInv => QuotaBound
  BY DEF IInv
<1>. QED BY <1>1, CacheInvariance, PTL

\* The state of the cache keeps its types, and the unsigned counters never go below 0
\* or above the number of requests.
THEOREM CacheTypes == Spec => []TypeOK
<1>1. ASSUME IInv PROVE TypeOK
  <2>1. StateTypeOK /\ reading = Cardinality(Readers) /\ writing = Cardinality(Writers)
    BY <1>1 DEF IInv, QuotaExact
  <2>2. /\ Readers \subseteq Worker /\ Writers \subseteq Worker /\ IsFiniteSet(Worker)
        /\ IsFiniteSet(Readers) /\ IsFiniteSet(Writers)
    BY CacheAssumption, FS_Subset DEF Readers, Writers
  <2>3. /\ Cardinality(Worker) \in Nat /\ Cardinality(Readers) \in Nat /\ Cardinality(Writers) \in Nat
        /\ Cardinality(Readers) <= Cardinality(Worker)
        /\ Cardinality(Writers) <= Cardinality(Worker)
    BY <2>2, FS_Subset, FS_CardinalityType
  <2>. QED BY <2>1, <2>3 DEF TypeOK
<1>. QED BY <1>1, CacheInvariance, PTL

-----------------------------------------------------------------------------
(* What a hit may be: whole, and no older than what was acknowledged.        *)

Holding == {"load", "hit", "put", "overwrite", "write", "writing"}

\* Requests that use files exist only with files, objects in memory only with a TinyUfo.
Backends ==
  /\ Tiny => \A k \in Key : file[k] = None
  /\ Tiny => \A i \in Worker : w[i].pc \notin {"overread", "read", "load", "overwrite", "write",
                                               "writing", "unlink"}
  /\ ~InMemory => \A k \in Key : mem[k] = None

\* Who reads a file while another request writes to it knows of it.
ReadersKnow ==
  \A i, j \in Worker : w[i].pc = "read" /\ ~w[i].mixed => ~InFile(w[j], w[i].key)

\* Everything that may become a hit of k is whole, and the file is whole unless one
\* request, and no other, is writing to it.
Whole(k) ==
  /\ mem[k].part # "cut"
  /\ file[k].part \in {"none", "whole"} \/ \E j \in Worker : InFile(w[j], k)
  /\ \A i \in Worker : w[i].key = k /\ w[i].pc \in Holding => w[i].obj.part = "whole"
  /\ \A i \in Worker : InFile(w[i], k) => ~w[i].mixed /\ \A j \in Worker : InFile(w[j], k) => j = i

\* What is known of a request i that is at k.
FreshAt(i, k) ==
  /\ w[i].pc = "read" /\ w[i].op = "lookup" => w[i].since <= floor[k]
  /\ w[i].pc \in {"load", "hit"} /\ w[i].op = "lookup" => w[i].obj.ver >= w[i].since
  /\ w[i].pc \in Putting =>
       /\ w[i].obj.ver >= floor[k]
       /\ mem[k] = None \/ mem[k].ver = w[i].obj.ver
       /\ \A j \in Worker : w[j].key = k /\ w[j].pc \in Putting => j = i
  /\ w[i].pc = "writing" =>
       IF w[i].linked THEN file[k].ver = w[i].obj.ver ELSE file[k] = None
  /\ w[i].pc = "unlink" => mem[k] = None

\* Memory and file have no response of k older than the floor; one request at most is
\* putting one, which is not older either, with memory having that one or none; while k
\* is being removed memory has none.
Fresh(k) ==
  /\ mem[k] # None => mem[k].ver >= floor[k]
  /\ file[k] # None => file[k].ver >= floor[k]
  /\ \A i \in Worker : w[i].key = k => FreshAt(i, k)

\* Nothing tears a file without a trace, and nothing brings a response back without one.
WholeKey(k) == "torn" \notin drift[k] => Whole(k)
FreshKey(k) == drift[k] = {} => Fresh(k)

HitInv ==
  /\ Backends /\ ReadersKnow
  /\ \A i \in Worker : w[i].pc = "hit" => w[i].op = "lookup"
  /\ \A k \in Key : WholeKey(k) /\ FreshKey(k)

\* What a request may do at k without disturbing it: it is not in the file, and does not
\* begin to put.
Safe(j, k) ==
  /\ ~InFile(w[j], k)
  /\ w'[j].key = k =>
       /\ w'[j].pc \notin Putting
       /\ w'[j].pc \in Holding /\ "torn" \notin drift'[k] => w'[j].obj.part = "whole"
       /\ drift'[k] = {} =>
            /\ w'[j].pc = "read" /\ w'[j].op = "lookup" => w'[j].since <= floor'[k]
            /\ w'[j].pc \in {"load", "hit"} /\ w'[j].op = "lookup" => w'[j].obj.ver >= w'[j].since
            /\ w'[j].pc = "unlink" => mem'[k] = None

\* Such steps keep what is known of k, also when memory loses its object.
LEMMA KeyKeeps ==
  ASSUME Shape, Shape', NEW k \in Key, WholeKey(k), FreshKey(k),
         mem'[k] \in {mem[k], None}, file'[k] = file[k], floor'[k] = floor[k],
         drift[k] \subseteq drift'[k],
         \A j \in Worker : w'[j] = w[j] \/ Safe(j, k)
  PROVE  WholeKey(k)' /\ FreshKey(k)'
<1>1. \A j \in Worker : InFile(w'[j], k) => w'[j] = w[j]
  BY DEF Safe, InFile, Putting
<1>2. \A j \in Worker : InFile(w[j], k) => w'[j] = w[j]
  BY DEF Safe
<1>3. WholeKey(k)'
  <2>. SUFFICES ASSUME "torn" \notin drift'[k] PROVE Whole(k)'
    BY DEF WholeKey
  <2>1. Whole(k)
    BY DEF WholeKey
  <2>2. mem'[k].part # "cut"
    BY <2>1 DEF Whole, None
  <2>3. file'[k].part \in {"none", "whole"} \/ \E j \in Worker : InFile(w'[j], k)
    BY <1>2, <2>1 DEF Whole
  <2>4. \A i \in Worker : w'[i].key = k /\ w'[i].pc \in Holding => w'[i].obj.part = "whole"
    BY <2>1 DEF Whole, Safe
  <2>5. \A i \in Worker : InFile(w'[i], k) => ~w'[i].mixed /\ \A j \in Worker : InFile(w'[j], k) => j = i
    BY <1>1, <2>1 DEF Whole
  <2>. QED BY <2>2, <2>3, <2>4, <2>5 DEF Whole, InFile
<1>4. FreshKey(k)'
  <2>. SUFFICES ASSUME drift'[k] = {} PROVE Fresh(k)'
    BY DEF FreshKey
  <2>1. Fresh(k) /\ drift[k] = {}
    BY DEF FreshKey
  <2>2. (mem'[k] # None => mem'[k].ver >= floor'[k]) /\ (file'[k] # None => file'[k].ver >= floor'[k])
    BY <2>1 DEF Fresh
  <2>3. \A j \in Worker : w'[j].key = k /\ w'[j].pc \in Putting => w'[j] = w[j]
    BY DEF Safe
  <2>4. ASSUME NEW i \in Worker, w'[i].key = k PROVE FreshAt(i, k)'
    <3>1. CASE w'[i] = w[i]
      BY <2>1, <2>3, <2>4, <3>1 DEF Fresh, FreshAt
    <3>2. CASE Safe(i, k)
      BY <2>4, <3>2 DEF Safe, FreshAt, Putting
    <3>. QED BY <3>1, <3>2
  <2>. QED BY <2>2, <2>4 DEF Fresh
<1>. QED BY <1>3, <1>4

\* A request that moves, alone, in none of the files and without putting anything.
LEMMA MoverKeeps ==
  ASSUME Shape, Shape', HitInv, NEW i \in Worker,
         UNCHANGED <<setup, mem, file, floor>>,
         \A k \in Key : drift[k] \subseteq drift'[k],
         \A j \in Worker \ {i} : w'[j] = w[j],
         Safe(i, w'[i].key), ~InFile(w[i], w[i].key),
         w'[i].pc = "hit" => w'[i].op = "lookup",
         Tiny => w'[i].pc \in {"idle", "hit", "miss", "body", "put"},
         w'[i].pc = "read" /\ ~w'[i].mixed => ~OthersWrite(i, w'[i].key)
  PROVE  HitInv'
<1>1. ASSUME NEW k \in Key PROVE Safe(i, k)
  <2>1. CASE w'[i].key = k
    BY <2>1
  <2>2. CASE w'[i].key # k
    BY <2>2 DEF Safe, InFile
  <2>. QED BY <2>1, <2>2
<1>2. \A k \in Key : WholeKey(k)' /\ FreshKey(k)'
  BY <1>1, KeyKeeps DEF HitInv
<1>3. ~InFile(w'[i], w'[i].key)
  BY DEF Safe, InFile, Putting
<1>4. ReadersKnow'
  <2>. SUFFICES ASSUME NEW a \in Worker, NEW b \in Worker, w'[a].pc = "read", ~w'[a].mixed,
                       InFile(w'[b], w'[a].key)
                PROVE  FALSE
    BY DEF ReadersKnow, InFile
  <2>1. b # i
    BY <1>3 DEF InFile
  <2>2. InFile(w[b], w'[a].key)
    BY <2>1
  <2>3. CASE a = i
    BY <2>1, <2>2, <2>3 DEF OthersWrite
  <2>4. CASE a # i
    BY <2>2, <2>4 DEF HitInv, ReadersKnow
  <2>. QED BY <2>3, <2>4
<1>5. Backends'
  BY DEF HitInv, Backends, Tiny, InMemory
<1>6. \A j \in Worker : w'[j].pc = "hit" => w'[j].op = "lookup"
  BY DEF HitInv
<1>. QED BY <1>2, <1>4, <1>5, <1>6 DEF HitInv

\* The record of a request that begins.
LEMMA AtParts ==
  \A op \in {"lookup", "meta", "store", "purge", "evict"}, k \in Key, n \in Nat :
    /\ At(op, k, n) \in RequestRec
    /\ At(op, k, n).op = op /\ At(op, k, n).key = k /\ At(op, k, n).since = n
<1>. SUFFICES ASSUME NEW op \in {"lookup", "meta", "store", "purge", "evict"}, NEW k \in Key, NEW n \in Nat
              PROVE  /\ At(op, k, n) \in RequestRec
                     /\ At(op, k, n).op = op /\ At(op, k, n).key = k /\ At(op, k, n).since = n
  OBVIOUS
<1>1. /\ Idle \in RequestRec
      /\ At(op, k, n) \in RequestRec /\ At(op, k, n).key = k /\ At(op, k, n).op = op
  BY IdleType
<1>2. At(op, k, n).since = n
  BY <1>1 DEF At, RequestRec
<1>. QED BY <1>1, <1>2

\* The end of get, field by field.
LEMMA GotParts ==
  ASSUME NEW r \in RequestRec, NEW obj
  PROVE  LET g == Got(r, obj)
         IN \/ g.pc = "idle"
            \/ g.pc = "miss" /\ r.op = "lookup" /\ g.key = r.key /\ obj = None
            \/ /\ g.pc = "hit" /\ r.op = "lookup" /\ obj # None
               /\ g.key = r.key /\ g.op = r.op /\ g.since = r.since /\ g.obj = obj
            \/ /\ g.pc = "put" /\ r.op # "lookup" /\ obj # None
               /\ g.key = r.key /\ g.op = r.op /\ g.obj = obj
<1>1. CASE r.op = "lookup" /\ obj = None
  BY <1>1 DEF Got, RequestRec
<1>2. CASE r.op = "lookup" /\ obj # None
  BY <1>2 DEF Got, RequestRec
<1>3. CASE r.op # "lookup" /\ obj = None
  BY <1>3, IdleType DEF Got
<1>4. CASE r.op # "lookup" /\ obj # None
  BY <1>4 DEF Got, RequestRec
<1>. QED BY <1>1, <1>2, <1>3, <1>4

\* A request that ends keeps everything, if it was in no file.
LEMMA EndKeeps ==
  ASSUME Shape, Shape', HitInv, NEW i \in Worker, w' = [w EXCEPT ![i] = Idle],
         UNCHANGED <<setup, mem, file, floor>>,
         \A k \in Key : drift[k] \subseteq drift'[k],
         ~InFile(w[i], w[i].key)
  PROVE  HitInv'
<1>1. w'[i] = Idle /\ (\A j \in Worker \ {i} : w'[j] = w[j]) /\ w'[i].pc = "idle"
  BY Ends, IdleType
<1>2. Safe(i, w'[i].key)
  BY <1>1 DEF Safe, Putting, Holding, InFile
<1>. QED BY <1>1, <1>2, MoverKeeps

\* get: what it finds in memory is whole and fresh, and a reader of a file that is being
\* written to knows of it.
LEMMA GetKeeps ==
  ASSUME Shape, Shape', HitInv, NEW i \in Worker, NEW op \in {"lookup", "meta"}, NEW k \in Key,
         NEW n \in Nat, op = "lookup" => n = floor[k],
         ~InFile(w[i], w[i].key),
         Get(i, At(op, k, n)), UNCHANGED <<setup, mem, file, floor, drift>>
  PROVE  HitInv'
<1>0. op \in {"lookup", "meta", "store", "purge", "evict"}
  OBVIOUS
<1>1. PICK r : /\ r = At(op, k, n) /\ r \in RequestRec
               /\ r.op = op /\ r.key = k /\ r.since = n
  BY <1>0, AtParts
<1>2. CASE w' = [w EXCEPT ![i] = Got(r, mem[r.key])]
  <2>1. w'[i] = Got(r, mem[k]) /\ \A j \in Worker \ {i} : w'[j] = w[j]
    BY <1>1, <1>2 DEF Shape, StateTypeOK
  <2>2. \/ w'[i].pc = "idle"
        \/ w'[i].pc = "miss" /\ w'[i].key = k
        \/ /\ w'[i].pc = "hit" /\ w'[i].op = "lookup" /\ mem[k] # None /\ op = "lookup"
           /\ w'[i].key = k /\ w'[i].since = n /\ w'[i].obj = mem[k]
        \/ w'[i].pc = "put" /\ mem[k] # None /\ w'[i].key = k /\ w'[i].obj = mem[k]
    BY <1>1, <2>1, GotParts
  <2>3. mem[k] # None => mem[k] \in Object
    BY DEF Shape, StateTypeOK
  <2>4. "torn" \notin drift[k] => mem[k].part # "cut"
    BY DEF HitInv, WholeKey, Whole
  <2>5. drift[k] = {} /\ mem[k] # None => mem[k].ver >= floor[k]
    BY DEF HitInv, FreshKey, Fresh
  <2>6. Safe(i, w'[i].key)
    BY <2>2, <2>3, <2>4, <2>5 DEF Safe, Putting, Holding, Object, InFile
  <2>. QED BY <2>1, <2>2, <2>6, MoverKeeps
<1>3. CASE /\ ~Tiny
           /\ w' = [w EXCEPT ![i] = [r EXCEPT
                !.pc = IF OverQuota(reading, setup.readingMax) THEN "overread" ELSE "read",
                !.mixed = OthersWrite(i, r.key)]]
  <2>1. /\ w'[i].pc \in {"overread", "read"} /\ w'[i].key = k /\ w'[i].since = n /\ w'[i].op = op
        /\ w'[i].mixed = OthersWrite(i, k)
        /\ \A j \in Worker \ {i} : w'[j] = w[j]
    BY <1>1, <1>3 DEF Shape, StateTypeOK, RequestRec
  <2>2. Safe(i, w'[i].key)
    BY <2>1 DEF Safe, Putting, Holding, InFile, Shape, StateTypeOK
  <2>. QED BY <1>3, <2>1, <2>2, MoverKeeps
<1>. QED BY <1>1, <1>2, <1>3 DEF Get

\* The steps of a request that neither put anything nor touch a file.
LEMMA QuietKeeps ==
  ASSUME Shape, Shape', HitInv, NEW i \in Worker,
         \/ \E k \in Key : Lookup(i, k)
         \/ OverRead(i) \/ Serve(i) \/ Fetch(i) \/ Revalidate(i) \/ WriteBody(i) \/ Abort(i)
         \/ OverWrite(i)
  PROVE  HitInv'
<1>. USE DEF promise, counters
<1>1. ASSUME NEW k \in Key, Lookup(i, k) PROVE HitInv'
  <2>1. floor[k] \in Nat /\ ~InFile(w[i], w[i].key)
    BY <1>1 DEF Shape, StateTypeOK, Lookup, InFile
  <2>. QED BY <1>1, <2>1, GetKeeps DEF Lookup
<1>2. CASE Revalidate(i)
  <2>1. w[i].key \in Key /\ ~InFile(w[i], w[i].key)
    BY <1>2 DEF Shape, StateTypeOK, RequestRec, Revalidate, InFile
  <2>. QED BY <1>2, <2>1, GetKeeps DEF Revalidate
<1>3. CASE OverRead(i) \/ Serve(i) \/ Abort(i) \/ OverWrite(i)
  <2>1. w' = [w EXCEPT ![i] = Idle] /\ UNCHANGED <<setup, mem, file, floor, drift>>
    BY <1>3 DEF OverRead, Serve, Abort, OverWrite
  <2>2. ~InFile(w[i], w[i].key)
    BY <1>3 DEF OverRead, Serve, Abort, OverWrite, InFile
  <2>. QED BY <2>1, <2>2, EndKeeps
<1>4. CASE Fetch(i)
  <2>1. w[i].key \in Key
    BY DEF Shape, StateTypeOK, RequestRec
  <2>2. At("store", w[i].key, 0) \in RequestRec
    BY <2>1, AtParts
  <2>3. w'[i].pc = "body" /\ \A j \in Worker \ {i} : w'[j] = w[j]
    BY <1>4, <2>2 DEF Fetch, Shape, StateTypeOK, RequestRec
  <2>4. UNCHANGED <<setup, mem, file, floor, drift>> /\ ~InFile(w[i], w[i].key)
        /\ ~InFile(w[i], w'[i].key)
    BY <1>4 DEF Fetch, InFile
  <2>5. Safe(i, w'[i].key)
    BY <2>3, <2>4 DEF Safe, Putting, Holding
  <2>. QED BY <2>3, <2>4, <2>5, MoverKeeps
<1>5. CASE WriteBody(i)
  <2>1. w[i] \in RequestRec /\ w[i].obj \in Object
    BY <1>5 DEF WriteBody, Shape, StateTypeOK, HeldOK
  <2>2. w'[i].pc = "put" /\ w'[i].obj.part = "whole" /\ \A j \in Worker \ {i} : w'[j] = w[j]
    BY <1>5, <2>1 DEF WriteBody, Shape, StateTypeOK, RequestRec, Object
  <2>3. UNCHANGED <<setup, mem, file, floor, drift>> /\ ~InFile(w[i], w[i].key)
        /\ ~InFile(w[i], w'[i].key)
    BY <1>5 DEF WriteBody, InFile
  <2>4. Safe(i, w'[i].key)
    BY <2>2, <2>3 DEF Safe, Putting
  <2>. QED BY <2>2, <2>3, <2>4, MoverKeeps
<1>. QED BY <1>1, <1>2, <1>3, <1>4, <1>5

\* Nobody writes to a file that is read as it is.
LEMMA UnmixedReader ==
  ASSUME Shape, HitInv, NEW i \in Worker, w[i].pc = "read", ~w[i].mixed
  PROVE  LET k == w[i].key
         IN /\ "torn" \notin drift[k] => file[k].part \in {"none", "whole"}
            /\ drift[k] = {} /\ w[i].op = "lookup" /\ file[k] # None => file[k].ver >= w[i].since
<1>. DEFINE k == w[i].key
<1>1. k \in Key /\ w[i] \in RequestRec
  BY DEF Shape, StateTypeOK, RequestRec
<1>2. \A j \in Worker : ~InFile(w[j], k)
  BY DEF HitInv, ReadersKnow
<1>3. "torn" \notin drift[k] => file[k].part \in {"none", "whole"}
  BY <1>1, <1>2 DEF HitInv, WholeKey, Whole
<1>4. ASSUME drift[k] = {}, w[i].op = "lookup", file[k] # None PROVE file[k].ver >= w[i].since
  <2>1. w[i].since <= floor[k] /\ file[k].ver >= floor[k]
    BY <1>1, <1>4 DEF HitInv, FreshKey, Fresh, FreshAt
  <2>2. file[k] \in Content
    BY <1>1, <1>4 DEF Shape, StateTypeOK
  <2>3. file[k].ver \in Nat /\ w[i].since \in Nat /\ floor[k] \in Nat
    BY <1>1, <2>2, CacheAssumption DEF Content, Shape, StateTypeOK, RequestRec
  <2>. QED BY <2>1, <2>3
<1>. QED BY <1>3, <1>4

\* fs::read: what it returns is whole and fresh, or it was mixed up.
LEMMA ReadEndKeeps ==
  ASSUME Shape, Shape', HitInv, NEW i \in Worker, ReadEnd(i)
  PROVE  HitInv'
<1>. DEFINE k == w[i].key
<1>1. k \in Key /\ w[i] \in RequestRec /\ w[i].pc = "read" /\ ~InFile(w[i], k)
  BY DEF Shape, StateTypeOK, RequestRec, ReadEnd, InFile
<1>2. UNCHANGED <<setup, mem, file, floor>> /\ drift' = [drift EXCEPT ![k] = @ \cup If(w[i].mixed, "torn")]
  BY DEF ReadEnd, Happened
<1>3. /\ \A l \in Key : drift[l] \subseteq drift'[l]
      /\ w[i].mixed => "torn" \in drift'[k]
      /\ ~Tiny
  BY <1>1, <1>2 DEF If, Shape, StateTypeOK, HitInv, Backends
<1>4. PICK c \in Mixed(w[i]) :
        \/ /\ c.part \in {"cut", "whole"}
           /\ w' = [w EXCEPT ![i].pc = "load", ![i].obj = c]
        \/ /\ c.part \in {"none", "empty"}
           /\ w' = [w EXCEPT ![i] = Got(w[i], None)]
        \/ /\ c.part = "short"
           /\ w' = [w EXCEPT ![i] = Idle]
  BY DEF ReadEnd
<1>5. CASE w' = [w EXCEPT ![i] = Idle]
  BY <1>1, <1>2, <1>3, <1>5, EndKeeps
<1>6. CASE w' = [w EXCEPT ![i] = Got(w[i], None)]
  <2>1. w'[i] = Got(w[i], None) /\ \A j \in Worker \ {i} : w'[j] = w[j]
    BY <1>6 DEF Shape, StateTypeOK
  <2>2. w'[i].pc \in {"idle", "miss"}
    BY <1>1, <2>1, GotParts
  <2>3. Safe(i, w'[i].key)
    BY <1>1, <2>2 DEF Safe, Putting, Holding, InFile
  <2>. QED BY <1>1, <1>2, <1>3, <2>1, <2>2, <2>3, MoverKeeps
<1>7. CASE c.part \in {"cut", "whole"} /\ w' = [w EXCEPT ![i].pc = "load", ![i].obj = c]
  <2>1. /\ w'[i].pc = "load" /\ w'[i].obj = c /\ w'[i].key = k
        /\ w'[i].op = w[i].op /\ w'[i].since = w[i].since
        /\ \A j \in Worker \ {i} : w'[j] = w[j]
    BY <1>1, <1>7 DEF Shape, StateTypeOK, RequestRec
  <2>2. ~w[i].mixed => c = file[k] /\ file[k] # None
    BY <1>7 DEF Mixed, None
  <2>3. "torn" \notin drift'[k] => c.part = "whole"
    BY <1>1, <1>3, <1>7, <2>2, UnmixedReader
  <2>4. drift'[k] = {} /\ w[i].op = "lookup" => c.ver >= w[i].since
    BY <1>1, <1>3, <2>2, UnmixedReader
  <2>5. Safe(i, w'[i].key)
    BY <1>1, <2>1, <2>3, <2>4 DEF Safe, Putting, Holding
  <2>. QED BY <1>1, <1>2, <1>3, <2>1, <2>5, MoverKeeps
<1>. QED BY <1>4, <1>5, <1>6, <1>7

\* What happens at k leaves the other keys alone: the requests it moves or marks are at k.
LEMMA OtherKeys ==
  ASSUME Shape, Shape', HitInv, NEW k \in Key,
         \A l \in Key \ {k} : /\ mem'[l] = mem[l] /\ file'[l] = file[l]
                              /\ floor'[l] = floor[l] /\ drift'[l] = drift[l],
         \A j \in Worker : \/ w'[j] = w[j]
                           \/ /\ w[j].key = k \/ w[j].pc = "idle"
                              /\ w'[j].key = k \/ w'[j].pc = "idle",
         WholeKey(k)', FreshKey(k)'
  PROVE  \A l \in Key : WholeKey(l)' /\ FreshKey(l)'
<1>. SUFFICES ASSUME NEW l \in Key \ {k} PROVE WholeKey(l)' /\ FreshKey(l)'
  OBVIOUS
<1>1. \A j \in Worker : w'[j] = w[j] \/ Safe(j, l)
  BY DEF Safe, InFile, Putting, Holding
<1>2. WholeKey(l) /\ FreshKey(l)
  BY DEF HitInv
<1>. QED BY <1>1, <1>2, KeyKeeps

\* Readers know as long as nobody begins to read as it is or to write.
LEMMA ReadersStill ==
  ASSUME HitInv,
         \A j \in Worker : w'[j].pc = "read" /\ ~w'[j].mixed =>
                             w[j].pc = "read" /\ ~w[j].mixed /\ w[j].key = w'[j].key,
         \A j \in Worker, l \in Key : InFile(w'[j], l) => InFile(w[j], l),
         w' \in [Worker -> RequestRec]
  PROVE  ReadersKnow'
<1>. SUFFICES ASSUME NEW a \in Worker, NEW b \in Worker, w'[a].pc = "read", ~w'[a].mixed,
                     InFile(w'[b], w'[a].key)
              PROVE  FALSE
  BY DEF ReadersKnow, InFile
<1>1. w'[a].key \in Key
  BY DEF RequestRec
<1>2. InFile(w[b], w[a].key)
  BY <1>1
<1>. QED BY <1>2 DEF HitInv, ReadersKnow

\* The object of a file goes to memory and to the caller.
LEMMA LoadKeeps ==
  ASSUME Shape, Shape', HitInv, NEW i \in Worker, Load(i)
  PROVE  HitInv'
<1>1. PICK k \in Key, obj \in Object :
        k = w[i].key /\ obj = w[i].obj /\ w[i] \in RequestRec /\ w[i].pc = "load" /\ ~Tiny
  BY DEF Shape, StateTypeOK, RequestRec, Load, HeldOK, HitInv, Backends
<1>2. obj # None /\ obj.ver \in Nat /\ obj.part \in {"cut", "whole"}
  BY <1>1, CacheAssumption DEF Object, None
<1>3. /\ UNCHANGED <<setup, file, floor>>
      /\ drift' = [drift EXCEPT ![k] = @ \cup If(InMemory /\ (obj.ver < floor[k]
                                    \/ Others(i, k, {"write", "writing", "unlink"})), "stale")]
      /\ mem' = IF InMemory THEN [mem EXCEPT ![k] = obj] ELSE mem
      /\ w' = [w EXCEPT ![i] = Got(w[i], obj)]
  BY <1>1 DEF Load, Happened
<1>4. w'[i] = Got(w[i], obj) /\ \A j \in Worker \ {i} : w'[j] = w[j]
  BY <1>3 DEF Shape, StateTypeOK
<1>5. \/ w'[i].pc = "idle"
      \/ /\ w'[i].pc = "hit" /\ w'[i].op = "lookup" /\ w[i].op = "lookup"
         /\ w'[i].key = k /\ w'[i].since = w[i].since /\ w'[i].obj = obj
      \/ w'[i].pc = "put" /\ w'[i].key = k /\ w'[i].obj = obj
  BY <1>1, <1>2, <1>4, GotParts
<1>6. /\ drift[k] \subseteq drift'[k]
      /\ drift'[k] = {} /\ InMemory => ~(obj.ver < floor[k])
                                      /\ ~Others(i, k, {"write", "writing", "unlink"})
      /\ \A l \in Key \ {k} : drift'[l] = drift[l]
  BY <1>1, <1>3 DEF If, Shape, StateTypeOK
<1>7. /\ mem'[k] = IF InMemory THEN obj ELSE mem[k]
      /\ \A l \in Key \ {k} : mem'[l] = mem[l]
  BY <1>1, <1>3 DEF Shape, StateTypeOK
<1>8. \A j \in Worker, l \in Key : InFile(w'[j], l) <=> InFile(w[j], l)
  BY <1>1, <1>4, <1>5 DEF InFile
<1>9. WholeKey(k)'
  <2>. SUFFICES ASSUME "torn" \notin drift'[k] PROVE Whole(k)'
    BY DEF WholeKey
  <2>1. Whole(k)
    BY <1>1, <1>6 DEF HitInv, WholeKey
  <2>2. obj.part = "whole"
    BY <1>1, <2>1 DEF Whole, Holding
  <2>3. mem'[k].part # "cut"
    BY <1>7, <2>1, <2>2 DEF Whole
  <2>4. file'[k].part \in {"none", "whole"} \/ \E j \in Worker : InFile(w'[j], k)
    BY <1>1, <1>3, <1>8, <2>1 DEF Whole
  <2>5. \A j \in Worker : w'[j].key = k /\ w'[j].pc \in Holding => w'[j].obj.part = "whole"
    BY <1>4, <1>5, <2>1, <2>2 DEF Whole, Holding
  <2>6. \A j \in Worker : InFile(w'[j], k) => w'[j] = w[j]
    BY <1>4, <1>5 DEF InFile
  <2>7. \A a \in Worker : InFile(w'[a], k) => ~w'[a].mixed /\ \A j \in Worker : InFile(w'[j], k) => j = a
    BY <1>1, <1>8, <2>1, <2>6 DEF Whole
  <2>. QED BY <2>3, <2>4, <2>5, <2>7 DEF Whole, InFile
<1>10. FreshKey(k)'
  <2>. SUFFICES ASSUME drift'[k] = {} PROVE Fresh(k)'
    BY DEF FreshKey
  <2>1. Fresh(k)
    BY <1>1, <1>6 DEF HitInv, FreshKey
  <2>2. floor[k] \in Nat
    BY <1>1 DEF Shape, StateTypeOK
  <2>3. (mem'[k] # None => mem'[k].ver >= floor'[k]) /\ (file'[k] # None => file'[k].ver >= floor'[k])
    BY <1>2, <1>3, <1>6, <1>7, <2>1, <2>2 DEF Fresh
  <2>4. ASSUME NEW j \in Worker, w'[j].key = k PROVE FreshAt(j, k)'
    <3>1. CASE j = i
      <4>1. w[i].op = "lookup" => obj.ver >= w[i].since
        BY <1>1, <2>1 DEF Fresh, FreshAt
      <4>. QED BY <1>5, <2>4, <3>1, <4>1 DEF FreshAt, Putting
    <3>2. CASE j # i
      <4>1. w'[j] = w[j] /\ FreshAt(j, k)
        BY <1>4, <2>1, <2>4, <3>2 DEF Fresh
      <4>2. CASE ~InMemory
        <5>1. mem'[k] = mem[k]
          BY <1>7, <4>2
        <5>2. \A a \in Worker : w'[a].key = k /\ w'[a].pc \in Putting => w[a].key = k /\ w[a].pc \in Putting
          BY <1>4, <1>5 DEF Putting
        <5>. QED BY <1>3, <4>1, <5>1, <5>2 DEF FreshAt
      <4>3. CASE InMemory
        <5>1. w[j].pc \notin {"write", "writing", "unlink"}
          BY <1>6, <2>4, <3>2, <4>1, <4>3 DEF Others
        <5>. QED BY <1>3, <4>1, <5>1 DEF FreshAt, Putting
      <4>. QED BY <4>2, <4>3
    <3>. QED BY <3>1, <3>2
  <2>. QED BY <2>3, <2>4 DEF Fresh
<1>11. \A l \in Key : WholeKey(l)' /\ FreshKey(l)'
  <2>1. \A j \in Worker : w'[j] = w[j] \/ (w[j].key = k /\ (w'[j].key = k \/ w'[j].pc = "idle"))
    <3>1. w[i].key = k /\ (w'[i].key = k \/ w'[i].pc = "idle")
      BY <1>1, <1>5
    <3>. QED BY <1>4, <3>1
  <2>. QED BY <1>1, <1>3, <1>6, <1>7, <1>9, <1>10, <2>1, OtherKeys
<1>12. ReadersKnow'
  BY <1>4, <1>5, <1>8, ReadersStill DEF Shape, StateTypeOK
<1>13. Backends'
  BY <1>1, <1>3 DEF HitInv, Backends, Tiny, InMemory
<1>14. \A j \in Worker : w'[j].pc = "hit" => w'[j].op = "lookup"
  BY <1>4, <1>5 DEF HitInv
<1>. QED BY <1>11, <1>12, <1>13, <1>14 DEF HitInv

\* put in memory: the object is whole, and nothing newer was acknowledged or is on its way,
\* or there is a trace of it.
LEMMA PutKeeps ==
  ASSUME Shape, Shape', HitInv, NEW i \in Worker, Put(i)
  PROVE  HitInv'
<1>1. PICK k \in Key, obj \in Object :
        k = w[i].key /\ obj = w[i].obj /\ w[i] \in RequestRec /\ w[i].pc = "put"
  BY DEF Shape, StateTypeOK, RequestRec, Put, HeldOK
<1>2. obj # None /\ obj.ver \in Nat /\ obj.part \in {"cut", "whole"} /\ floor[k] \in Nat
  BY <1>1, CacheAssumption DEF Object, None, Shape, StateTypeOK
<1>3. /\ UNCHANGED <<setup, file>>
      /\ drift' = [drift EXCEPT ![k] = @ \cup PutCauses(i, k, obj)]
      /\ mem' = PutInMemory(k, obj)
  BY <1>1 DEF Put, Happened
<1>4. /\ drift[k] \subseteq drift'[k]
      /\ drift'[k] = {} => /\ ~(obj.ver < floor[k])
                           /\ ~Others(i, k, {"unlink"}) /\ ~Others(i, k, Putting)
                           /\ ~(~Tiny /\ setup.large /\ mem[k] # None)
      /\ \A l \in Key \ {k} : drift'[l] = drift[l]
  BY <1>1, <1>3 DEF PutCauses, If, Shape, StateTypeOK
<1>5. /\ mem'[k] = IF Tiny \/ (InMemory /\ ~setup.large) THEN obj ELSE mem[k]
      /\ \A l \in Key \ {k} : mem'[l] = mem[l]
  BY <1>1, <1>3 DEF PutInMemory, Shape, StateTypeOK
<1>6. \A j \in Worker \ {i} : w'[j] = w[j]
  BY DEF Put, Shape, StateTypeOK
<1>7. /\ Tiny => w'[i].pc = "idle" /\ floor' = [floor EXCEPT ![k] = Max(@, obj.ver)]
      /\ ~Tiny => /\ w'[i].pc \in {"overwrite", "write"} /\ w'[i].key = k /\ w'[i].obj = obj
                  /\ floor' = floor
  <2>1. CASE Tiny
    BY <1>1, <2>1, IdleType DEF Put, Shape, StateTypeOK
  <2>2. CASE ~Tiny
    BY <1>1, <2>2 DEF Put, Shape, StateTypeOK, RequestRec
  <2>. QED BY <2>1, <2>2
<1>8. \A j \in Worker, l \in Key : InFile(w'[j], l) <=> InFile(w[j], l)
  BY <1>1, <1>6, <1>7 DEF InFile
<1>9. \A j \in Worker : InFile(w'[j], k) => w'[j] = w[j]
  BY <1>6, <1>7 DEF InFile
<1>10. WholeKey(k)'
  <2>. SUFFICES ASSUME "torn" \notin drift'[k] PROVE Whole(k)'
    BY DEF WholeKey
  <2>1. Whole(k)
    BY <1>1, <1>4 DEF HitInv, WholeKey
  <2>2. obj.part = "whole"
    BY <1>1, <2>1 DEF Whole, Holding
  <2>3. mem'[k].part # "cut"
    BY <1>5, <2>1, <2>2 DEF Whole
  <2>4. file'[k].part \in {"none", "whole"} \/ \E j \in Worker : InFile(w'[j], k)
    BY <1>1, <1>3, <1>8, <2>1 DEF Whole
  <2>5. \A j \in Worker : w'[j].key = k /\ w'[j].pc \in Holding => w'[j].obj.part = "whole"
    BY <1>6, <1>7, <2>1, <2>2 DEF Whole, Holding
  <2>6. \A a \in Worker : InFile(w'[a], k) => ~w'[a].mixed /\ \A j \in Worker : InFile(w'[j], k) => j = a
    BY <1>1, <1>8, <1>9, <2>1 DEF Whole
  <2>. QED BY <2>3, <2>4, <2>5, <2>6 DEF Whole, InFile
<1>11. FreshKey(k)'
  <2>. SUFFICES ASSUME drift'[k] = {} PROVE Fresh(k)'
    BY DEF FreshKey
  <2>1. Fresh(k) /\ obj.ver >= floor[k] /\ ~Others(i, k, {"unlink"}) /\ ~Others(i, k, Putting)
    BY <1>1, <1>2, <1>4 DEF HitInv, FreshKey
  <2>2. \A j \in Worker \ {i} : w[j].key = k => w[j].pc \notin {"write", "writing", "unlink"}
    BY <2>1 DEF Others, Putting
  <2>3. CASE Tiny
    <3>1. floor'[k] = obj.ver /\ mem'[k] = obj /\ file'[k] = None
      BY <1>1, <1>2, <1>3, <1>5, <1>7, <2>1, <2>3 DEF Max, Shape, StateTypeOK, HitInv, Backends
    <3>2. ASSUME NEW j \in Worker, w'[j].key = k PROVE FreshAt(j, k)'
      <4>1. CASE j = i
        BY <1>7, <2>3, <4>1 DEF FreshAt, Putting
      <4>2. CASE j # i
        <5>1. w'[j] = w[j] /\ FreshAt(j, k) /\ w[j].pc \notin {"read", "load", "write", "writing", "unlink"}
          BY <1>6, <2>1, <2>3, <3>2, <4>2 DEF Fresh, HitInv, Backends
        <5>. QED BY <5>1 DEF FreshAt, Putting
      <4>. QED BY <4>1, <4>2
    <3>. QED BY <1>2, <3>1, <3>2 DEF Fresh
  <2>4. CASE ~Tiny
    <3>1. mem'[k] \in {obj, None} /\ floor'[k] = floor[k] /\ file'[k] = file[k]
      BY <1>1, <1>3, <1>4, <1>5, <1>7, <2>4 DEF HitInv, Backends
    <3>2. ASSUME NEW j \in Worker, w'[j].key = k PROVE FreshAt(j, k)'
      <4>1. CASE j = i
        <5>1. \A a \in Worker : w'[a].key = k /\ w'[a].pc \in Putting => a = i
          BY <1>6, <2>2 DEF Putting
        <5>. QED BY <1>7, <2>1, <2>4, <3>1, <4>1, <5>1 DEF FreshAt, Putting
      <4>2. CASE j # i
        <5>1. w'[j] = w[j] /\ FreshAt(j, k) /\ w[j].pc \notin {"write", "writing", "unlink"}
          BY <1>6, <2>1, <2>2, <3>2, <4>2 DEF Fresh
        <5>. QED BY <3>1, <5>1 DEF FreshAt, Putting
      <4>. QED BY <4>1, <4>2
    <3>. QED BY <2>1, <3>1, <3>2 DEF Fresh
  <2>. QED BY <2>3, <2>4
<1>12. \A l \in Key : WholeKey(l)' /\ FreshKey(l)'
  <2>1. \A j \in Worker : w'[j] = w[j] \/ (w[j].key = k /\ (w'[j].key = k \/ w'[j].pc = "idle"))
    <3>1. w[i].key = k /\ (w'[i].key = k \/ w'[i].pc = "idle")
      BY <1>1, <1>7
    <3>. QED BY <1>6, <3>1
  <2>2. \A l \in Key \ {k} : floor'[l] = floor[l]
    BY <1>1, <1>7 DEF Shape, StateTypeOK
  <2>. QED BY <1>1, <1>3, <1>4, <1>5, <1>10, <1>11, <2>1, <2>2, OtherKeys
<1>13. ReadersKnow'
  BY <1>6, <1>7, <1>8, ReadersStill DEF Shape, StateTypeOK
<1>14. Backends'
  <2>1. ~InMemory => ~Tiny /\ mem' = mem
    BY <1>3 DEF PutInMemory, InMemory, Tiny
  <2>. QED BY <1>3, <1>6, <1>7, <2>1 DEF HitInv, Backends, Tiny, InMemory
<1>15. \A j \in Worker : w'[j].pc = "hit" => w'[j].op = "lookup"
  BY <1>6, <1>7 DEF HitInv
<1>. QED BY <1>12, <1>13, <1>14, <1>15 DEF HitInv

\* What a touch of the file of k does to the records of the others.
LEMMA TouchedParts ==
  ASSUME NEW v \in [Worker -> RequestRec], NEW i \in Worker, NEW k \in Key, NEW j \in Worker
  PROVE  LET t == Touched(v, i, k)[j]
         IN /\ t.pc = v[j].pc /\ t.op = v[j].op /\ t.key = v[j].key /\ t.obj = v[j].obj
            /\ t.since = v[j].since /\ t.linked = v[j].linked
            /\ ~t.mixed => ~v[j].mixed
            /\ j # i /\ v[j].key = k /\ v[j].pc = "read" => t.mixed
            /\ j = i \/ v[j].key # k => t = v[j]
            /\ v[j].pc \notin {"read", "writing"} => t = v[j]
<1>1. v[j] \in RequestRec
  OBVIOUS
<1>2. CASE j # i /\ (InFile(v[j], k) \/ (v[j].key = k /\ v[j].pc = "read"))
  BY <1>1, <1>2 DEF Touched, RequestRec, InFile
<1>3. CASE ~(j # i /\ (InFile(v[j], k) \/ (v[j].key = k /\ v[j].pc = "read")))
  <2>1. Touched(v, i, k)[j] = v[j]
    BY <1>3 DEF Touched
  <2>. QED BY <1>3, <2>1
<1>. QED BY <1>2, <1>3

\* What an unlink of the file of k does to the records of those who write to it.
LEMMA UnlinkedParts ==
  ASSUME NEW v \in [Worker -> RequestRec], NEW k \in Key, NEW j \in Worker
  PROVE  LET t == Unlinked(v, k)[j]
         IN /\ t.pc = v[j].pc /\ t.op = v[j].op /\ t.key = v[j].key /\ t.obj = v[j].obj
            /\ t.since = v[j].since /\ t.mixed = v[j].mixed
            /\ v[j].key # k \/ v[j].pc # "writing" => t = v[j]
            /\ v[j].key = k /\ v[j].pc = "writing" => ~t.linked
<1>1. v[j] \in RequestRec
  OBVIOUS
<1>2. CASE v[j].key = k /\ v[j].pc = "writing"
  BY <1>1, <1>2 DEF Unlinked, RequestRec
<1>3. CASE ~(v[j].key = k /\ v[j].pc = "writing")
  <2>1. Unlinked(v, k)[j] = v[j]
    BY <1>3 DEF Unlinked
  <2>. QED BY <1>3, <2>1
<1>. QED BY <1>2, <1>3

\* fs::write opens the file: a second writer leaves a trace, readers learn of it.
LEMMA OpenKeeps ==
  ASSUME Shape, Shape', HitInv, NEW i \in Worker, OpenFile(i)
  PROVE  HitInv'
<1>1. PICK k \in Key, obj \in Object :
        k = w[i].key /\ obj = w[i].obj /\ w[i] \in RequestRec /\ w[i].pc = "write" /\ ~Tiny
  BY DEF Shape, StateTypeOK, RequestRec, OpenFile, HeldOK, HitInv, Backends
<1>2. obj.ver \in Nat /\ obj.ver # 0 /\ floor[k] \in Nat
  BY <1>1, CacheAssumption DEF Object, Shape, StateTypeOK
<1>3. /\ UNCHANGED <<setup, mem, floor>>
      /\ file' = [file EXCEPT ![k] = [ver |-> obj.ver, part |-> "empty"]]
      /\ drift' = [drift EXCEPT ![k] = @ \cup If(OthersWrite(i, k), "torn")]
      /\ w' = Touched([w EXCEPT ![i].pc = "writing", ![i].linked = TRUE,
                                ![i].mixed = OthersWrite(i, k)], i, k)
  BY <1>1 DEF OpenFile, Happened
<1>4. /\ drift[k] \subseteq drift'[k]
      /\ "torn" \notin drift'[k] => ~OthersWrite(i, k)
      /\ \A l \in Key \ {k} : drift'[l] = drift[l] /\ file'[l] = file[l]
      /\ file'[k] = [ver |-> obj.ver, part |-> "empty"]
  BY <1>1, <1>3 DEF If, Shape, StateTypeOK
<1>5. file'[k].ver = obj.ver /\ file'[k].part = "empty" /\ file'[k] # None
  BY <1>4 DEF None
<1>6. PICK v \in [Worker -> RequestRec] :
        /\ w' = Touched(v, i, k)
        /\ \A j \in Worker \ {i} : v[j] = w[j]
        /\ v[i].pc = "writing" /\ v[i].linked /\ v[i].mixed = OthersWrite(i, k)
        /\ v[i].key = k /\ v[i].obj = obj
  <2>. DEFINE q == [w[i] EXCEPT !.pc = "writing", !.linked = TRUE, !.mixed = OthersWrite(i, k)]
              u == [w EXCEPT ![i] = q]
  <2>1. OthersWrite(i, k) \in BOOLEAN
    BY DEF OthersWrite
  <2>2. /\ q \in RequestRec /\ q.pc = "writing" /\ q.linked /\ q.mixed = OthersWrite(i, k)
        /\ q.key = k /\ q.obj = obj
    BY <1>1, <2>1 DEF RequestRec, Pc
  <2>3. u \in [Worker -> RequestRec] /\ u[i] = q /\ \A j \in Worker \ {i} : u[j] = w[j]
    BY <2>2 DEF Shape, StateTypeOK
  <2>4. w' = Touched(u, i, k)
    <3>1. u = [w EXCEPT ![i].pc = "writing", ![i].linked = TRUE, ![i].mixed = OthersWrite(i, k)]
      BY <1>1 DEF Shape, StateTypeOK, RequestRec
    <3>. QED BY <1>3, <3>1, Zenon
  <2>. HIDE DEF u, q
  <2>. QED BY <2>2, <2>3, <2>4
<1>7. /\ w'[i] = v[i]
      /\ \A j \in Worker \ {i} :
           /\ w'[j].pc = w[j].pc /\ w'[j].op = w[j].op /\ w'[j].key = w[j].key
           /\ w'[j].obj = w[j].obj /\ w'[j].since = w[j].since /\ w'[j].linked = w[j].linked
           /\ ~w'[j].mixed => ~w[j].mixed
           /\ w[j].key = k /\ w[j].pc = "read" => w'[j].mixed
           /\ w[j].key # k => w'[j] = w[j]
  BY <1>1, <1>6, TouchedParts
<1>8. \A j \in Worker \ {i}, l \in Key : InFile(w'[j], l) <=> InFile(w[j], l)
  BY <1>7 DEF InFile
<1>9. InFile(w'[i], k)
  BY <1>6, <1>7 DEF InFile
<1>10. WholeKey(k)'
  <2>. SUFFICES ASSUME "torn" \notin drift'[k] PROVE Whole(k)'
    BY DEF WholeKey
  <2>1. Whole(k) /\ ~OthersWrite(i, k)
    BY <1>1, <1>4 DEF HitInv, WholeKey
  <2>2. mem'[k].part # "cut"
    BY <1>3, <2>1 DEF Whole
  <2>3. \A j \in Worker : w'[j].key = k /\ w'[j].pc \in Holding => w'[j].obj.part = "whole"
    BY <1>1, <1>6, <1>7, <2>1 DEF Whole, Holding
  <2>4. \A a \in Worker : InFile(w'[a], k) => a = i
    BY <1>1, <1>8, <2>1 DEF OthersWrite
  <2>5. ~w'[i].mixed
    BY <1>6, <1>7, <2>1
  <2>. QED BY <1>9, <2>2, <2>3, <2>4, <2>5 DEF Whole, InFile
<1>11. FreshKey(k)'
  <2>. SUFFICES ASSUME drift'[k] = {} PROVE Fresh(k)'
    BY DEF FreshKey
  <2>1. Fresh(k)
    BY <1>1, <1>4 DEF HitInv, FreshKey
  <2>2. FreshAt(i, k)
    BY <1>1, <2>1 DEF Fresh
  <2>3. /\ obj.ver >= floor[k] /\ (mem[k] = None \/ mem[k].ver = obj.ver)
        /\ \A j \in Worker : w[j].key = k /\ w[j].pc \in Putting => j = i
    BY <1>1, <2>2 DEF FreshAt, Putting
  <2>4. (mem'[k] # None => mem'[k].ver >= floor'[k]) /\ file'[k].ver >= floor'[k]
    BY <1>3, <1>5, <2>1, <2>3 DEF Fresh
  <2>5. \A j \in Worker : w'[j].key = k /\ w'[j].pc \in Putting => j = i
    BY <1>7, <2>3
  <2>6. ASSUME NEW j \in Worker, w'[j].key = k PROVE FreshAt(j, k)'
    <3>1. CASE j = i
      BY <1>3, <1>5, <1>6, <1>7, <2>3, <2>5, <3>1 DEF FreshAt
    <3>2. CASE j # i
      <4>1. FreshAt(j, k) /\ w'[j].pc \notin Putting
        BY <1>7, <2>1, <2>5, <2>6, <3>2 DEF Fresh
      <4>. QED BY <1>3, <1>7, <3>2, <4>1 DEF FreshAt, Putting
    <3>. QED BY <3>1, <3>2
  <2>. QED BY <2>4, <2>6 DEF Fresh
<1>12. \A l \in Key : WholeKey(l)' /\ FreshKey(l)'
  <2>1. \A j \in Worker : w'[j] = w[j] \/ (w[j].key = k /\ w'[j].key = k)
    BY <1>1, <1>6, <1>7
  <2>. QED BY <1>3, <1>4, <1>10, <1>11, <2>1, OtherKeys
<1>13. ReadersKnow'
  <2>. SUFFICES ASSUME NEW a \in Worker, NEW b \in Worker, w'[a].pc = "read", ~w'[a].mixed,
                       InFile(w'[b], w'[a].key)
                PROVE  FALSE
    BY DEF ReadersKnow, InFile
  <2>1. a # i /\ w[a].key \in Key /\ w'[a].key = w[a].key
    BY <1>6, <1>7 DEF Shape, StateTypeOK, RequestRec
  <2>2. CASE b = i
    <3>1. w[a].key = k
      BY <1>6, <1>7, <2>1, <2>2 DEF InFile
    <3>. QED BY <1>7, <2>1, <3>1
  <2>3. CASE b # i
    BY <1>7, <1>8, <2>1, <2>3 DEF HitInv, ReadersKnow
  <2>. QED BY <2>2, <2>3
<1>14. Backends'
  BY <1>1, <1>3 DEF HitInv, Backends, Tiny, InMemory
<1>15. \A j \in Worker : w'[j].pc = "hit" => w'[j].op = "lookup"
  BY <1>6, <1>7 DEF HitInv
<1>. QED BY <1>12, <1>13, <1>14, <1>15 DEF HitInv

\* The workers after i has left the file of k.
LEMMA LeftParts ==
  ASSUME Shape, NEW i \in Worker, NEW k \in Key, w' = Left(i, k)
  PROVE  /\ w'[i] = Idle
         /\ \A j \in Worker \ {i} :
              /\ w'[j].pc = w[j].pc /\ w'[j].op = w[j].op /\ w'[j].key = w[j].key
              /\ w'[j].obj = w[j].obj /\ w'[j].since = w[j].since /\ w'[j].linked = w[j].linked
              /\ ~w'[j].mixed => ~w[j].mixed
              /\ w[j].key # k => w'[j] = w[j]
<1>. DEFINE v == [w EXCEPT ![i] = Idle]
<1>1. v \in [Worker -> RequestRec] /\ v[i] = Idle /\ \A j \in Worker \ {i} : v[j] = w[j]
  BY IdleType DEF Shape, StateTypeOK
<1>2. CASE w' = Touched(v, i, k)
  <2>. HIDE DEF v
  <2>1. \A j \in Worker :
          /\ w'[j].pc = v[j].pc /\ w'[j].op = v[j].op /\ w'[j].key = v[j].key
          /\ w'[j].obj = v[j].obj /\ w'[j].since = v[j].since /\ w'[j].linked = v[j].linked
          /\ ~w'[j].mixed => ~v[j].mixed
          /\ j = i \/ v[j].key # k => w'[j] = v[j]
    BY <1>1, <1>2, TouchedParts
  <2>. QED BY <1>1, <2>1
<1>3. CASE w' = v
  <2>. HIDE DEF v
  <2>. QED BY <1>1, <1>3
<1>. QED BY <1>1, <1>2, <1>3 DEF Left

\* fs::write is done: the file is whole, and no older than what was acknowledged before.
LEMMA WriteEndKeeps ==
  ASSUME Shape, Shape', HitInv, NEW i \in Worker, WriteEnd(i)
  PROVE  HitInv'
<1>1. PICK k \in Key, obj \in Object :
        k = w[i].key /\ obj = w[i].obj /\ w[i] \in RequestRec /\ w[i].pc = "writing" /\ ~Tiny
  BY DEF Shape, StateTypeOK, RequestRec, WriteEnd, HeldOK, HitInv, Backends
<1>2. obj.ver \in Nat /\ obj.ver # 0 /\ floor[k] \in Nat
  BY <1>1, CacheAssumption DEF Object, Shape, StateTypeOK
<1>3. PICK p \in IF w[i].mixed THEN {"short", "cut", obj.part} ELSE {obj.part} :
        file' = IF w[i].linked THEN [file EXCEPT ![k] = [ver |-> obj.ver, part |-> p]] ELSE file
  BY <1>1 DEF WriteEnd
<1>4. /\ UNCHANGED <<setup, mem, drift>>
      /\ floor' = [floor EXCEPT ![k] = Max(@, obj.ver)]
      /\ w' = Left(i, k)
  BY <1>1 DEF WriteEnd
<1>5. /\ w'[i] = Idle /\ w'[i].pc = "idle"
      /\ \A j \in Worker \ {i} :
           /\ w'[j].pc = w[j].pc /\ w'[j].op = w[j].op /\ w'[j].key = w[j].key
           /\ w'[j].obj = w[j].obj /\ w'[j].since = w[j].since /\ w'[j].linked = w[j].linked
           /\ ~w'[j].mixed => ~w[j].mixed
           /\ w[j].key # k => w'[j] = w[j]
  BY <1>1, <1>4, LeftParts, IdleType
<1>6. /\ w[i].linked => file'[k].ver = obj.ver /\ file'[k].part = p
      /\ ~w[i].linked => file'[k] = file[k]
      /\ floor'[k] = Max(floor[k], obj.ver)
      /\ \A l \in Key \ {k} : file'[l] = file[l] /\ floor'[l] = floor[l]
  BY <1>1, <1>3, <1>4 DEF Shape, StateTypeOK
<1>7. /\ \A j \in Worker \ {i}, l \in Key : InFile(w'[j], l) <=> InFile(w[j], l)
      /\ \A l \in Key : ~InFile(w'[i], l)
      /\ InFile(w[i], k) <=> w[i].linked
  BY <1>1, <1>5 DEF InFile
<1>8. WholeKey(k)'
  <2>. SUFFICES ASSUME "torn" \notin drift'[k] PROVE Whole(k)'
    BY DEF WholeKey
  <2>1. Whole(k)
    BY <1>1, <1>4 DEF HitInv, WholeKey
  <2>2. \A j \in Worker : w'[j].key = k /\ w'[j].pc \in Holding => w'[j].obj.part = "whole"
    BY <1>5, <2>1 DEF Whole, Holding
  <2>3. file'[k].part \in {"none", "whole"} \/ \E j \in Worker : InFile(w'[j], k)
    <3>1. CASE w[i].linked
      <4>1. ~w[i].mixed /\ obj.part = "whole"
        BY <1>1, <1>7, <2>1, <3>1 DEF Whole, Holding
      <4>. QED BY <1>3, <1>6, <3>1, <4>1
    <3>2. CASE ~w[i].linked
      BY <1>1, <1>6, <1>7, <2>1, <3>2 DEF Whole
    <3>. QED BY <3>1, <3>2
  <2>4. \A a \in Worker : InFile(w'[a], k) => a # i /\ InFile(w[a], k)
    BY <1>1, <1>7
  <2>5. \A a, b \in Worker : InFile(w[a], k) /\ InFile(w[b], k) => a = b
    BY <2>1 DEF Whole
  <2>6. \A a \in Worker : InFile(w'[a], k) => ~w'[a].mixed
    <3>. SUFFICES ASSUME NEW a \in Worker, InFile(w'[a], k), w'[a].mixed PROVE FALSE
      OBVIOUS
    <3>1. a # i /\ InFile(w[a], k) /\ ~w[a].mixed
      BY <2>1, <2>4 DEF Whole
    <3>2. ~w[i].linked
      BY <1>7, <2>5, <3>1
    <3>3. w' = [w EXCEPT ![i] = Idle]
      BY <1>4, <1>7, <3>2 DEF Left
    <3>. QED BY <3>1, <3>3 DEF Shape, StateTypeOK
  <2>7. mem'[k].part # "cut"
    BY <1>4, <2>1 DEF Whole
  <2>. QED BY <2>2, <2>3, <2>4, <2>5, <2>6, <2>7 DEF Whole, InFile
<1>9. FreshKey(k)'
  <2>. SUFFICES ASSUME drift'[k] = {} PROVE Fresh(k)'
    BY DEF FreshKey
  <2>1. Fresh(k)
    BY <1>1, <1>4 DEF HitInv, FreshKey
  <2>2. FreshAt(i, k)
    BY <1>1, <2>1 DEF Fresh
  <2>3. /\ obj.ver >= floor[k] /\ (mem[k] = None \/ mem[k].ver = obj.ver)
        /\ \A j \in Worker : w[j].key = k /\ w[j].pc \in Putting => j = i
        /\ ~w[i].linked => file[k] = None
    BY <1>1, <2>2 DEF FreshAt, Putting
  <2>4. floor'[k] = obj.ver
    BY <1>2, <1>6, <2>3 DEF Max
  <2>5. (mem'[k] # None => mem'[k].ver >= floor'[k]) /\ (file'[k] # None => file'[k].ver >= floor'[k])
    BY <1>2, <1>4, <1>6, <2>3, <2>4
  <2>6. ASSUME NEW j \in Worker, w'[j].key = k PROVE FreshAt(j, k)'
    <3>1. CASE j = i
      BY <1>5, <3>1 DEF FreshAt, Putting
    <3>2. CASE j # i
      <4>1. FreshAt(j, k) /\ w'[j].pc \notin Putting
        BY <1>5, <2>1, <2>3, <2>6, <3>2 DEF Fresh
      <4>2. w[j].since \in Nat
        BY DEF Shape, StateTypeOK, RequestRec
      <4>3. w'[j].pc = "read" /\ w'[j].op = "lookup" => w'[j].since <= floor'[k]
        BY <1>2, <1>5, <2>3, <2>4, <3>2, <4>1, <4>2 DEF FreshAt
      <4>. QED BY <1>4, <1>5, <3>2, <4>1, <4>3 DEF FreshAt, Putting
    <3>. QED BY <3>1, <3>2
  <2>. QED BY <2>5, <2>6 DEF Fresh
<1>10. \A l \in Key : WholeKey(l)' /\ FreshKey(l)'
  <2>1. \A j \in Worker : w'[j] = w[j] \/ (w[j].key = k /\ (w'[j].key = k \/ w'[j].pc = "idle"))
    BY <1>1, <1>5
  <2>. QED BY <1>4, <1>6, <1>8, <1>9, <2>1, OtherKeys
<1>11. ReadersKnow'
  <2>1. \A j \in Worker, l \in Key : InFile(w'[j], l) => InFile(w[j], l)
    BY <1>7
  <2>. QED BY <1>5, <2>1, ReadersStill DEF Shape, StateTypeOK
<1>12. Backends'
  BY <1>1, <1>4 DEF HitInv, Backends, Tiny, InMemory
<1>13. \A j \in Worker : w'[j].pc = "hit" => w'[j].op = "lookup"
  BY <1>5 DEF HitInv
<1>. QED BY <1>10, <1>11, <1>12, <1>13 DEF HitInv

\* fs::write fails: a part of a response in the file leaves a trace.
LEMMA WriteFailKeeps ==
  ASSUME Shape, Shape', HitInv, NEW i \in Worker, WriteFail(i)
  PROVE  HitInv'
<1>1. PICK k \in Key : k = w[i].key /\ w[i].pc \in Putting /\ ~Tiny
  BY DEF Shape, StateTypeOK, RequestRec, WriteFail, HitInv, Backends, Putting
<1>2. /\ UNCHANGED <<setup, mem, floor>> /\ w' = Left(i, k)
      /\ drift' = [drift EXCEPT ![k] = @ \cup If(InFile(w[i], k), "torn")]
  BY <1>1 DEF WriteFail, Happened
<1>3. /\ ~InFile(w[i], k) => file' = file
      /\ \A l \in Key \ {k} : file'[l] = file[l]
  BY <1>1 DEF WriteFail, Shape, StateTypeOK
<1>4. /\ \A l \in Key : drift[l] \subseteq drift'[l]
      /\ InFile(w[i], k) => "torn" \in drift'[k]
      /\ \A l \in Key \ {k} : drift'[l] = drift[l]
  BY <1>1, <1>2 DEF If, Shape, StateTypeOK
<1>5. CASE ~InFile(w[i], k)
  <2>1. w' = [w EXCEPT ![i] = Idle]
    BY <1>2, <1>5 DEF Left
  <2>. QED BY <1>1, <1>2, <1>3, <1>4, <1>5, <2>1, EndKeeps
<1>6. CASE InFile(w[i], k)
  <2>1. /\ w'[i] = Idle /\ w'[i].pc = "idle"
        /\ \A j \in Worker \ {i} :
             /\ w'[j].pc = w[j].pc /\ w'[j].op = w[j].op /\ w'[j].key = w[j].key
             /\ w'[j].obj = w[j].obj /\ w'[j].since = w[j].since /\ w'[j].linked = w[j].linked
             /\ ~w'[j].mixed => ~w[j].mixed
             /\ w[j].key # k => w'[j] = w[j]
    BY <1>1, <1>2, LeftParts, IdleType
  <2>2. WholeKey(k)' /\ FreshKey(k)'
    BY <1>4, <1>6 DEF WholeKey, FreshKey
  <2>3. \A j \in Worker : w'[j] = w[j] \/ (w[j].key = k /\ (w'[j].key = k \/ w'[j].pc = "idle"))
    BY <1>1, <2>1
  <2>4. \A l \in Key : WholeKey(l)' /\ FreshKey(l)'
    BY <1>2, <1>3, <1>4, <2>2, <2>3, OtherKeys
  <2>5. \A j \in Worker, l \in Key : InFile(w'[j], l) => InFile(w[j], l)
    BY <2>1 DEF InFile
  <2>6. ReadersKnow'
    BY <2>1, <2>5, ReadersStill DEF Shape, StateTypeOK
  <2>7. Backends'
    BY <1>1, <1>2 DEF HitInv, Backends, Tiny, InMemory
  <2>8. \A j \in Worker : w'[j].pc = "hit" => w'[j].op = "lookup"
    BY <2>1 DEF HitInv
  <2>. QED BY <2>4, <2>6, <2>7, <2>8 DEF HitInv
<1>. QED BY <1>5, <1>6

\* remove takes the object out of memory at once; without files that is all of it.
LEMMA RemoveKeeps ==
  ASSUME Shape, Shape', HitInv, NEW i \in Worker, NEW k \in Key, NEW op \in {"purge", "evict"},
         Remove(i, k, op)
  PROVE  HitInv'
<1>1. /\ UNCHANGED <<setup, file, drift>> /\ w[i].pc = "idle"
      /\ mem' = [mem EXCEPT ![k] = None]
      /\ floor' = IF Tiny /\ op = "purge" THEN [floor EXCEPT ![k] = fetches + 1] ELSE floor
      /\ w' = [w EXCEPT ![i] = IF Tiny THEN Idle ELSE [At(op, k, fetches) EXCEPT !.pc = "unlink"]]
  BY DEF Remove
<1>2. /\ mem'[k] = None /\ \A l \in Key \ {k} : mem'[l] = mem[l] /\ floor'[l] = floor[l]
      /\ \A j \in Worker \ {i} : w'[j] = w[j]
  BY <1>1 DEF Shape, StateTypeOK
<1>3. /\ Tiny => w'[i].pc = "idle"
      /\ ~Tiny => w'[i].pc = "unlink" /\ w'[i].key = k /\ floor' = floor
  <2>1. fetches \in Nat /\ op \in {"lookup", "meta", "store", "purge", "evict"}
    BY CacheAssumption DEF Shape, StateTypeOK
  <2>2. At(op, k, fetches) \in RequestRec /\ At(op, k, fetches).key = k
    BY <2>1, AtParts
  <2>3. CASE Tiny
    BY <1>1, <2>3, IdleType DEF Shape, StateTypeOK
  <2>4. CASE ~Tiny
    <3>1. w'[i] = [At(op, k, fetches) EXCEPT !.pc = "unlink"]
      BY <1>1, <2>4 DEF Shape, StateTypeOK
    <3>. QED BY <1>1, <2>2, <2>4, <3>1 DEF RequestRec
  <2>. QED BY <2>3, <2>4
<1>4. \A j \in Worker, l \in Key : InFile(w'[j], l) <=> InFile(w[j], l)
  BY <1>1, <1>2, <1>3 DEF InFile
<1>5. ASSUME NEW l \in Key PROVE WholeKey(l)' /\ FreshKey(l)'
  <2>1. \A j \in Worker : w'[j] = w[j] \/ Safe(j, l)
    <3>1. Safe(i, l)
      BY <1>1, <1>2, <1>3 DEF Safe, InFile, Putting, Holding
    <3>. QED BY <1>2, <3>1
  <2>2. WholeKey(l) /\ FreshKey(l) /\ mem'[l] \in {mem[l], None}
    BY <1>2 DEF HitInv
  <2>3. CASE floor'[l] = floor[l]
    BY <1>1, <2>1, <2>2, <2>3, KeyKeeps
  <2>4. CASE l = k /\ Tiny
    <3>1. \A j \in Worker : w[j].pc \notin {"read", "load", "write", "writing", "unlink"}
      BY <2>4 DEF HitInv, Backends
    <3>2. file'[l] = None /\ mem'[l] = None
      BY <1>1, <1>2, <2>4 DEF HitInv, Backends
    <3>3. WholeKey(l)'
      <4>. SUFFICES ASSUME "torn" \notin drift'[l] PROVE Whole(l)'
        BY DEF WholeKey
      <4>1. \A j \in Worker : w'[j].key = l /\ w'[j].pc \in Holding => w'[j].obj.part = "whole"
        BY <1>1, <1>2, <1>3, <2>2, <2>4 DEF WholeKey, Whole, Holding
      <4>2. \A j \in Worker : ~InFile(w'[j], l)
        BY <1>4, <3>1 DEF InFile
      <4>. QED BY <3>2, <4>1, <4>2 DEF Whole, None, InFile
    <3>4. FreshKey(l)'
      <4>. SUFFICES ASSUME drift'[l] = {} PROVE Fresh(l)'
        BY DEF FreshKey
      <4>1. ASSUME NEW j \in Worker, w'[j].key = l PROVE FreshAt(j, l)'
        <5>1. CASE j = i
          BY <1>3, <2>4, <5>1 DEF FreshAt, Putting
        <5>2. CASE j # i
          <6>1. w'[j] = w[j] /\ FreshAt(j, l)
            BY <1>1, <1>2, <2>2, <4>1, <5>2 DEF FreshKey, Fresh
          <6>. QED BY <3>1, <6>1 DEF FreshAt, Putting
        <5>. QED BY <5>1, <5>2
      <4>. QED BY <3>2, <4>1 DEF Fresh
    <3>. QED BY <3>3, <3>4
  <2>. QED BY <1>2, <1>3, <2>3, <2>4
<1>6. ReadersKnow'
  BY <1>2, <1>3, <1>4, ReadersStill DEF Shape, StateTypeOK
<1>7. Backends'
  <2>1. \A l \in Key : mem[l] = None => mem'[l] = None
    BY <1>2
  <2>. QED BY <1>1, <1>2, <1>3, <2>1 DEF HitInv, Backends, Tiny, InMemory
<1>8. \A j \in Worker : w'[j].pc = "hit" => w'[j].op = "lookup"
  BY <1>2, <1>3 DEF HitInv
<1>. QED BY <1>5, <1>6, <1>7, <1>8 DEF HitInv

\* The file of k is gone, and who writes to it writes to no name: for a remover i that is
\* done, whose floor goes up if nobody is putting, and for the clear service.
LEMMA GoneKeeps ==
  ASSUME Shape, Shape', HitInv, NEW k \in Key, NEW v \in [Worker -> RequestRec],
         w' = Unlinked(v, k), file' = [file EXCEPT ![k] = None], UNCHANGED <<setup, mem>>,
         \A j \in Worker : v[j] = w[j] \/ (w[j].key = k /\ w[j].pc = "unlink" /\ v[j].pc = "idle"),
         drift[k] \subseteq drift'[k], \A l \in Key \ {k} : drift'[l] = drift[l] /\ floor'[l] = floor[l],
         \/ floor'[k] = floor[k]
         \/ drift'[k] = {} =>
              /\ floor'[k] >= floor[k] /\ mem[k] = None
              /\ \A j \in Worker : w'[j].key = k => w'[j].pc \notin Putting
  PROVE  HitInv'
<1>1. \A j \in Worker :
        /\ w'[j].pc = v[j].pc /\ w'[j].op = v[j].op /\ w'[j].key = v[j].key
        /\ w'[j].obj = v[j].obj /\ w'[j].since = v[j].since /\ w'[j].mixed = v[j].mixed
        /\ v[j].key # k \/ v[j].pc # "writing" => w'[j] = v[j]
        /\ v[j].key = k /\ v[j].pc = "writing" => ~w'[j].linked
  BY UnlinkedParts
<1>2. \A j \in Worker : w'[j].pc # "idle" =>
        /\ v[j] = w[j]
        /\ w'[j].pc = w[j].pc /\ w'[j].op = w[j].op /\ w'[j].key = w[j].key
        /\ w'[j].obj = w[j].obj /\ w'[j].since = w[j].since /\ w'[j].mixed = w[j].mixed
  BY <1>1
<1>3. \A j \in Worker, l \in Key : InFile(w'[j], l) => InFile(w[j], l) /\ l # k
  BY <1>1, <1>2 DEF InFile
<1>4. file'[k] = None /\ \A l \in Key \ {k} : file'[l] = file[l]
  BY DEF Shape, StateTypeOK
<1>5. WholeKey(k)'
  <2>. SUFFICES ASSUME "torn" \notin drift'[k] PROVE Whole(k)'
    BY DEF WholeKey
  <2>1. Whole(k)
    BY DEF HitInv, WholeKey
  <2>2. \A j \in Worker : w'[j].key = k /\ w'[j].pc \in Holding => w'[j].obj.part = "whole"
    BY <1>2, <2>1 DEF Whole, Holding
  <2>3. mem'[k].part # "cut" /\ file'[k].part = "none"
    BY <1>4, <2>1 DEF Whole, None
  <2>. QED BY <1>3, <2>2, <2>3 DEF Whole, InFile
<1>6. FreshKey(k)'
  <2>. SUFFICES ASSUME drift'[k] = {} PROVE Fresh(k)'
    BY DEF FreshKey
  <2>1. Fresh(k) /\ floor[k] \in Nat /\ floor'[k] \in Nat
    BY DEF HitInv, FreshKey, Shape, StateTypeOK
  <2>2. mem'[k] # None => mem'[k].ver >= floor'[k]
    BY <2>1 DEF Fresh
  <2>3. ASSUME NEW j \in Worker, w'[j].key = k PROVE FreshAt(j, k)'
    <3>1. CASE w'[j].pc = "idle"
      BY <3>1 DEF FreshAt, Putting
    <3>2. CASE w'[j].pc # "idle"
      <4>1. FreshAt(j, k)
        BY <1>2, <2>1, <2>3, <3>2 DEF Fresh
      <4>2. w[j].since \in Nat /\ floor'[k] >= floor[k]
        BY <2>1 DEF Shape, StateTypeOK, RequestRec
      <4>3. w'[j].pc = "read" /\ w'[j].op = "lookup" => w'[j].since <= floor'[k]
        BY <1>2, <2>1, <3>2, <4>1, <4>2 DEF FreshAt
      <4>4. w'[j].pc = "unlink" => mem'[k] = None
        BY <1>2, <3>2, <4>1 DEF FreshAt
      <4>5. w'[j].pc \in {"load", "hit"} /\ w'[j].op = "lookup" => w'[j].obj.ver >= w'[j].since
        BY <1>2, <3>2, <4>1 DEF FreshAt
      <4>6. w'[j].pc = "writing" => ~w'[j].linked
        BY <1>1, <2>3
      <4>7. w'[j].pc \in Putting =>
              /\ w'[j].obj.ver >= floor'[k]
              /\ mem'[k] = None \/ mem'[k].ver = w'[j].obj.ver
              /\ \A a \in Worker : w'[a].key = k /\ w'[a].pc \in Putting => a = j
        <5>. SUFFICES ASSUME w'[j].pc \in Putting
                      PROVE  /\ w'[j].obj.ver >= floor'[k]
                             /\ mem'[k] = None \/ mem'[k].ver = w'[j].obj.ver
                             /\ \A a \in Worker : w'[a].key = k /\ w'[a].pc \in Putting => a = j
          OBVIOUS
        <5>1. floor'[k] = floor[k]
          BY <2>3
        <5>2. \A a \in Worker : w'[a].pc \in Putting => w[a].pc = w'[a].pc /\ w[a].key = w'[a].key
          BY <1>2 DEF Putting
        <5>. QED BY <1>2, <2>3, <3>2, <4>1, <5>1, <5>2 DEF FreshAt
      <4>. QED BY <1>4, <4>3, <4>4, <4>5, <4>6, <4>7 DEF FreshAt
    <3>. QED BY <3>1, <3>2
  <2>. QED BY <1>4, <2>2, <2>3 DEF Fresh
<1>7. \A l \in Key : WholeKey(l)' /\ FreshKey(l)'
  <2>1. \A j \in Worker : w'[j] = w[j] \/ (w[j].key = k /\ (w'[j].key = k \/ w'[j].pc = "idle"))
    BY <1>1
  <2>. QED BY <1>4, <1>5, <1>6, <2>1, OtherKeys
<1>8. ReadersKnow'
  <2>1. \A j \in Worker, l \in Key : InFile(w'[j], l) => InFile(w[j], l)
    BY <1>3
  <2>. QED BY <1>2, <2>1, ReadersStill DEF Shape, StateTypeOK
<1>9. Backends'
  <2>1. \A l \in Key : file[l] = None => file'[l] = None
    BY <1>4
  <2>. QED BY <1>2, <2>1 DEF HitInv, Backends, Tiny, InMemory
<1>10. \A j \in Worker : w'[j].pc = "hit" => w'[j].op = "lookup"
  BY <1>2 DEF HitInv
<1>. QED BY <1>7, <1>8, <1>9, <1>10 DEF HitInv

\* fs::remove_file, by a request or by the clear service.
LEMMA UnlinkKeeps ==
  ASSUME Shape, Shape', HitInv,
         (\E i \in Worker : Unlink(i)) \/ (\E k \in Key : ClearRemove(k))
  PROVE  HitInv'
<1>. USE DEF promise
<1>1. ASSUME NEW i \in Worker, Unlink(i), ~FileFound(w[i]) PROVE HitInv'
  <2>1. w' = [w EXCEPT ![i] = Idle] /\ UNCHANGED <<setup, mem, file, floor, drift>> /\ ~InFile(w[i], w[i].key)
    BY <1>1 DEF Unlink, InFile
  <2>. QED BY <2>1, EndKeeps
<1>2. ASSUME NEW i \in Worker, Unlink(i), FileFound(w[i]) PROVE HitInv'
  <2>1. PICK k \in Key : k = w[i].key /\ w[i].pc = "unlink"
    BY <1>2 DEF Unlink, Shape, StateTypeOK, RequestRec
  <2>2. /\ file' = [file EXCEPT ![k] = None] /\ UNCHANGED <<setup, mem>>
        /\ w' = Unlinked([w EXCEPT ![i] = Idle], k)
        /\ floor' = IF w[i].op = "purge" THEN [floor EXCEPT ![k] = Max(@, w[i].since + 1)] ELSE floor
        /\ drift' = [drift EXCEPT ![k] = @ \cup If(Others(i, k, Putting), "stale")]
    BY <1>2, <2>1 DEF Unlink, Happened
  <2>. DEFINE v == [w EXCEPT ![i] = Idle]
  <2>3. v \in [Worker -> RequestRec] /\ v[i].pc = "idle" /\ \A j \in Worker \ {i} : v[j] = w[j]
    BY IdleType DEF Shape, StateTypeOK
  <2>. HIDE DEF v
  <2>4. /\ drift[k] \subseteq drift'[k] /\ (drift'[k] = {} => ~Others(i, k, Putting))
        /\ \A l \in Key \ {k} : drift'[l] = drift[l] /\ floor'[l] = floor[l]
    BY <2>1, <2>2 DEF If, Shape, StateTypeOK
  <2>5. floor'[k] >= floor[k]
    <3>1. floor[k] \in Nat /\ w[i].since \in Nat
      BY DEF Shape, StateTypeOK, RequestRec
    <3>2. floor'[k] \in {floor[k], Max(floor[k], w[i].since + 1)}
      BY <2>2 DEF Shape, StateTypeOK
    <3>. QED BY <3>1, <3>2 DEF Max
  <2>6. ASSUME drift'[k] = {}
        PROVE  mem[k] = None /\ \A j \in Worker : w'[j].key = k => w'[j].pc \notin Putting
    <3>1. mem[k] = None
      BY <2>1, <2>4, <2>6 DEF HitInv, FreshKey, Fresh, FreshAt
    <3>2. ASSUME NEW j \in Worker PROVE w'[j].pc = v[j].pc /\ w'[j].key = v[j].key
      BY <2>2, <2>3, UnlinkedParts DEF v
    <3>3. \A j \in Worker \ {i} : w[j].key = k => w[j].pc \notin Putting
      BY <2>4, <2>6 DEF Others
    <3>. QED BY <2>3, <3>1, <3>2, <3>3 DEF Putting
  <2>7. w' = Unlinked(v, k)
    BY <2>2 DEF v
  <2>8. \A j \in Worker : v[j] = w[j] \/ (w[j].key = k /\ w[j].pc = "unlink" /\ v[j].pc = "idle")
    BY <2>1, <2>3
  <2>. QED BY <2>2, <2>3, <2>4, <2>5, <2>6, <2>7, <2>8, GoneKeeps
<1>3. ASSUME NEW k \in Key, ClearRemove(k) PROVE HitInv'
  <2>1. /\ file' = [file EXCEPT ![k] = None] /\ UNCHANGED <<setup, mem, floor, drift>>
        /\ w' = Unlinked(w, k) /\ w \in [Worker -> RequestRec]
    BY <1>3 DEF ClearRemove, Shape, StateTypeOK
  <2>. QED BY <2>1, GoneKeeps
<1>. QED BY <1>1, <1>2, <1>3

\* What moves no request: the clear service that finds a file, a day that passes, and the
\* object that TinyUfo drops.
LEMMA StillKeeps ==
  ASSUME Shape, Shape', HitInv,
         (\E k \in Key : ClearFind(k) \/ Age(k) \/ MakeRoom(k)) \/ UNCHANGED vars
  PROVE  HitInv'
<1>1. UNCHANGED <<setup, file, floor, drift, w>> /\ \A l \in Key : mem'[l] \in {mem[l], None}
  BY DEF ClearFind, Age, MakeRoom, vars, promise, Shape, StateTypeOK
<1>2. ASSUME NEW l \in Key PROVE WholeKey(l)' /\ FreshKey(l)'
  BY <1>1, KeyKeeps DEF HitInv
<1>3. ReadersKnow' /\ \A j \in Worker : w'[j].pc = "hit" => w'[j].op = "lookup"
  BY <1>1 DEF HitInv, ReadersKnow, InFile
<1>4. Backends'
  BY <1>1 DEF HitInv, Backends, Tiny, InMemory
<1>. QED BY <1>2, <1>3, <1>4 DEF HitInv

\* A restart keeps the files: those in the middle of a write leave a trace.
LEMMA RestartKeeps ==
  ASSUME Shape, Shape', HitInv, Restart
  PROVE  HitInv'
<1>. DEFINE broken == {k \in Key : \E i \in Worker : InFile(w[i], k)}
<1>1. /\ UNCHANGED <<setup, floor>> /\ \A k \in Key : mem'[k] = None
      /\ \A i \in Worker : w'[i].pc = "idle"
      /\ \A k \in Key \ broken : file'[k] = file[k] /\ drift[k] \subseteq drift'[k]
      /\ \A k \in broken : "torn" \in drift'[k]
  BY IdleType DEF Restart, If
<1>2. ASSUME NEW k \in Key PROVE WholeKey(k)' /\ FreshKey(k)'
  <2>1. CASE k \in broken
    BY <1>1, <2>1 DEF WholeKey, FreshKey
  <2>2. CASE k \notin broken
    <3>1. WholeKey(k)'
      <4>. SUFFICES ASSUME "torn" \notin drift'[k] PROVE Whole(k)'
        BY DEF WholeKey
      <4>1. file'[k].part \in {"none", "whole"}
        BY <1>1, <2>2 DEF HitInv, WholeKey, Whole
      <4>. QED BY <1>1, <4>1 DEF Whole, None, InFile, Holding
    <3>2. FreshKey(k)'
      <4>. SUFFICES ASSUME drift'[k] = {} PROVE Fresh(k)'
        BY DEF FreshKey
      <4>1. file'[k] # None => file'[k].ver >= floor'[k]
        BY <1>1, <2>2 DEF HitInv, FreshKey, Fresh
      <4>. QED BY <1>1, <4>1 DEF Fresh, FreshAt, Putting
    <3>. QED BY <3>1, <3>2
  <2>. QED BY <2>1, <2>2
<1>3. ReadersKnow' /\ \A j \in Worker : w'[j].pc = "hit" => w'[j].op = "lookup"
  BY <1>1 DEF ReadersKnow
<1>4. Backends'
  <2>1. Tiny => broken = {}
    BY DEF HitInv, Backends, InFile
  <2>. QED BY <1>1, <2>1 DEF HitInv, Backends, Tiny, InMemory
<1>. QED BY <1>2, <1>3, <1>4 DEF HitInv

\* An empty cache.
LEMMA InitHits == Init => HitInv
<1>. SUFFICES ASSUME Init PROVE HitInv
  OBVIOUS
<1>1. \A i \in Worker : w[i].pc = "idle"
  BY IdleType DEF Init
<1>2. \A k \in Key : mem[k] = None /\ file[k] = None
  BY DEF Init
<1>3. \A k \in Key : Whole(k) /\ Fresh(k)
  BY <1>1, <1>2 DEF Whole, Fresh, FreshAt, None, InFile, Holding, Putting
<1>. QED BY <1>1, <1>2, <1>3 DEF HitInv, Backends, ReadersKnow, WholeKey, FreshKey

\* Every step keeps what is known of the responses that may become hits.
LEMMA NextHits == Shape /\ Shape' /\ HitInv /\ [Next]_vars => HitInv'
<1>. SUFFICES ASSUME Shape, Shape', HitInv, [Next]_vars PROVE HitInv'
  OBVIOUS
<1>. QED BY QuietKeeps, ReadEndKeeps, LoadKeeps, PutKeeps, OpenKeeps, WriteEndKeeps, WriteFailKeeps,
         RemoveKeeps, UnlinkKeeps, StillKeeps, RestartKeeps
         DEF Next, Request
-----------------------------------------------------------------------------
\* What memory, the files and the requests on their way hold of a key is whole and no older
\* than what was acknowledged, until one of the causes of drift: an inductive invariant.
THEOREM HitsInvariance == Spec => [](Shape /\ HitInv)
<1>1. Init => Shape /\ HitInv
  BY InitShape, InitHits
<1>2. Shape /\ HitInv /\ [Next]_vars => (Shape /\ HitInv)'
  BY NextShape, NextHits
<1>. QED BY <1>1, <1>2, PTL DEF Spec

\* A hit has all of its body, for any number of requests and keys, unless a file was read
\* during a write, written twice at a time or left in the middle of a write.
THEOREM HitsWhole == Spec => []HitWhole
<1>1. ASSUME Shape, HitInv PROVE HitWhole
  <2>1. \A i \in Worker : w[i].key \in Key
    BY <1>1 DEF Shape, StateTypeOK, RequestRec
  <2>. QED BY <1>1, <2>1 DEF HitInv, WholeKey, Whole, Holding, HitWhole
<1>. QED BY <1>1, HitsInvariance, PTL

\* No lookup finds a response older than the last put that was acknowledged before it, or
\* fetched before a PURGE that was, unless one of the causes of drift came before.
THEOREM HitsNeverBack == Spec => []NeverBack
<1>1. ASSUME Shape, HitInv PROVE NeverBack
  <2>1. \A i \in Worker : w[i].key \in Key
    BY <1>1 DEF Shape, StateTypeOK, RequestRec
  <2>. QED BY <1>1, <2>1 DEF HitInv, FreshKey, Fresh, FreshAt, NeverBack
<1>. QED BY <1>1, HitsInvariance, PTL
=============================================================================
