----------------------------- MODULE HttpCache -----------------------------
(***************************************************************************)
(* The response cache (pingap-cache): what requests do to one storage that *)
(* is a TinyUfo in memory ("tiny"), a directory ("file") or a directory    *)
(* with a TinyUfo in front of it ("both").  A lookup, the store of a       *)
(* fetched response, the update of the metadata of a revalidated one, a    *)
(* PURGE, the removal of an evicted entry and the hourly clear service all *)
(* work on the same keys; nothing but the atomic counters orders them.     *)
(* pingora decides whether a hit is fresh and what is evicted, its cache   *)
(* lock may be off or time out: every order of the calls is possible.      *)
(*                                                                         *)
(* A response is the number of the fetch that brought it (ver) and whether *)
(* all of its body is there.  Files are written in place: they are empty   *)
(* after open, and what a reader or a second writer makes of a file that   *)
(* is being written is one of the outcomes of Mixed.                       *)
(***************************************************************************)
EXTENDS Naturals, FiniteSets

CONSTANTS
  Key,         \* combined hashes of the cache keys
  Worker,      \* requests that are served at the same time
  Setup,       \* the storages to consider: see SetupType
  MaxVer,      \* bound on the number of fetches
  MaxRestart   \* bound on the number of restarts

\* namespace: the plugin has one; large: responses of cache_file_max_weight or more;
\* readingMax, writingMax: the quotas, 0 for none
SetupType == [backend : {"tiny", "file", "both"}, namespace : BOOLEAN, large : BOOLEAN,
              readingMax : Nat, writingMax : Nat]

ASSUME CacheAssumption ==
  /\ Key # {} /\ IsFiniteSet(Worker) /\ Setup \subseteq SetupType
  /\ MaxVer \in Nat /\ MaxRestart \in Nat

VARIABLES
  setup,     \* the storage that get_cache_backend made
  mem,       \* mem[k]: the object in TinyUfo
  file,      \* file[k]: the file of the key
  old,       \* keys whose file was last read more than a day ago
  sweep,     \* the key whose file the clear service is about to remove
  reading,   \* FileCache::reading
  writing,   \* FileCache::writing
  w,         \* w[i]: what request i is doing
  fetches,   \* number of fetches so far
  restarts,  \* number of restarts so far
  floor,     \* history: floor[k], the least ver that a lookup ought to find
  drift      \* history: drift[k], what has happened that may break the promise

vars == <<setup, mem, file, old, sweep, reading, writing, w, fetches, restarts, floor, drift>>
promise == <<floor, drift>>
counters == <<reading, writing>>

None == [ver |-> 0, part |-> "none"]
Object == [ver : 1..MaxVer, part : {"cut", "whole"}]
Content == [ver : 1..MaxVer, part : {"empty", "short", "cut", "whole"}]

Idle == [pc |-> "idle", op |-> "none", key |-> CHOOSE k \in Key : TRUE, obj |-> None,
         since |-> 0, mixed |-> FALSE, linked |-> FALSE]
At(op, k, since) == [Idle EXCEPT !.op = op, !.key = k, !.since = since]

Tiny == setup.backend = "tiny"
InMemory == setup.backend # "file"
Max(a, b) == IF a > b THEN a ELSE b

Others(i, k, pcs) == \E j \in Worker \ {i} : w[j].key = k /\ w[j].pc \in pcs
Putting == {"write", "writing"}
\* another request is writing to the file that has the name of k
InFile(r, k) == r.key = k /\ r.pc = "writing" /\ r.linked
OthersWrite(i, k) == \E j \in Worker \ {i} : InFile(w[j], k)

\* the workers after i has touched the file of k: readers and writers that are in
\* the middle of it see a mixture
Touched(v, i, k) ==
  [j \in Worker |-> IF j # i /\ (InFile(v[j], k) \/ (v[j].key = k /\ v[j].pc = "read"))
                    THEN [v[j] EXCEPT !.mixed = TRUE] ELSE v[j]]
\* the workers after the file of k was unlinked: what is written to it is lost
Unlinked(v, k) ==
  [j \in Worker |-> IF v[j].key = k /\ v[j].pc = "writing"
                    THEN [v[j] EXCEPT !.linked = FALSE] ELSE v[j]]
Happened(k, causes) == drift' = [drift EXCEPT ![k] = @ \cup causes]
If(cond, cause) == IF cond THEN {cause} ELSE {}
\* torn: a read during a write, two writes at a time, a write that failed or was cut off;
\* stale: an object read or fetched before a put or a PURGE goes in during or after it;
\* large: memory keeps the object it has while a larger one goes to the file
Cause == {"torn", "stale", "large"}

Init ==
  /\ setup \in Setup
  /\ mem = [k \in Key |-> None] /\ file = [k \in Key |-> None]
  /\ old = {} /\ sweep = {}
  /\ reading = 0 /\ writing = 0
  /\ w = [i \in Worker |-> Idle]
  /\ fetches = 0 /\ restarts = 0
  /\ floor = [k \in Key |-> 0] /\ drift = [k \in Key |-> {}]
-----------------------------------------------------------------------------
\* the end of get: lookup makes a hit or a miss of it, update_meta goes on to put
\* the object under the new metadata or fails with "no meta found"
Got(r, obj) ==
  IF r.op = "lookup"
  THEN [r EXCEPT !.pc = IF obj = None THEN "miss" ELSE "hit", !.obj = obj]
  ELSE IF obj = None THEN Idle ELSE [r EXCEPT !.pc = "put", !.obj = obj]

\* MUTANT: the quota lets one more in
OverQuotaMore(count, max) == max > 0 /\ count > max
\* count is what fetch_add returned
OverQuota(count, max) == max > 0 /\ count >= max

\* get: memory first; else the file, unless too many are being read
Get(i, r) ==
  \/ /\ InMemory /\ (mem[r.key] # None \/ Tiny)
     /\ w' = [w EXCEPT ![i] = Got(r, mem[r.key])]
     /\ UNCHANGED reading
  \/ /\ ~Tiny /\ mem[r.key] = None
     /\ reading' = reading + 1
     /\ w' = [w EXCEPT ![i] = [r EXCEPT
                !.pc = IF OverQuota(reading, setup.readingMax) THEN "overread" ELSE "read",
                !.mixed = OthersWrite(i, r.key)]]

Lookup(i, k) ==
  /\ w[i].pc = "idle"
  /\ Get(i, At("lookup", k, floor[k]))
  /\ UNCHANGED <<setup, mem, file, old, sweep, writing, fetches, restarts, promise>>

\* MUTANT: an early return that forgets the counter
OverReadKeeps(i) ==
  /\ w[i].pc = "overread"
  /\ w' = [w EXCEPT ![i] = Idle]
  /\ UNCHANGED <<setup, mem, file, old, sweep, counters, fetches, restarts, promise>>

\* defer! gives the place back; the error ends the use of the cache
OverRead(i) ==
  /\ w[i].pc = "overread"
  /\ reading' = reading - 1
  /\ w' = [w EXCEPT ![i] = Idle]
  /\ UNCHANGED <<setup, mem, file, old, sweep, writing, fetches, restarts, promise>>

\* what fs::read may return: the file, or a part of what is being written to it
Mixed(r) ==
  {file[r.key]} \cup
    IF r.mixed THEN {None} \cup {c \in Content : c.ver <= fetches} ELSE {}

\* fs::read has returned c.  Fewer than 8 bytes are no object; a file that ends in
\* its metadata panics in split_to, and the request with it (short, IO errors).
ReadEnd(i) ==
  /\ w[i].pc = "read"
  /\ LET k == w[i].key IN
     /\ \E c \in Mixed(w[i]) :
          \/ /\ c.part \in {"cut", "whole"}
             /\ w' = [w EXCEPT ![i].pc = "load", ![i].obj = c]
             /\ UNCHANGED reading
          \/ /\ c.part \in {"none", "empty"}
             /\ w' = [w EXCEPT ![i] = Got(w[i], None)]
             /\ reading' = reading - 1
          \/ /\ c.part = "short"
             /\ w' = [w EXCEPT ![i] = Idle]
             /\ reading' = reading - 1
     /\ old' = old \ {k}
     /\ Happened(k, If(w[i].mixed, "torn"))
  /\ UNCHANGED <<setup, mem, file, sweep, writing, fetches, restarts, floor>>

\* the object goes to memory, of whatever weight, and to the caller
Load(i) ==
  /\ w[i].pc = "load"
  /\ LET k == w[i].key obj == w[i].obj IN
     /\ mem' = IF InMemory THEN [mem EXCEPT ![k] = obj] ELSE mem
     /\ w' = [w EXCEPT ![i] = Got(w[i], obj)]
     /\ Happened(k, If(InMemory /\ (obj.ver < floor[k]
                                    \/ Others(i, k, {"write", "writing", "unlink"})),
                       "stale"))
  /\ reading' = reading - 1
  /\ UNCHANGED <<setup, file, old, sweep, writing, fetches, restarts, floor>>
-----------------------------------------------------------------------------
\* External: a fresh hit is served, and what response_cache_filter finds
\* uncacheable is passed on
Serve(i) ==
  /\ w[i].pc \in {"hit", "miss"}
  /\ w' = [w EXCEPT ![i] = Idle]
  /\ UNCHANGED <<setup, mem, file, old, sweep, counters, fetches, restarts, promise>>

\* a miss, or a stale hit that the upstream answers anew: get_miss_handler
Fetch(i) ==
  /\ w[i].pc \in {"hit", "miss"} /\ fetches < MaxVer
  /\ fetches' = fetches + 1
  /\ w' = [w EXCEPT ![i] = [At("store", w[i].key, 0) EXCEPT
                              !.pc = "body", !.obj = [ver |-> fetches + 1, part |-> "cut"]]]
  /\ UNCHANGED <<setup, mem, file, old, sweep, counters, restarts, promise>>

\* a stale hit that the upstream confirms with 304: update_meta
Revalidate(i) ==
  /\ w[i].pc = "hit"
  /\ Get(i, At("meta", w[i].key, 0))
  /\ UNCHANGED <<setup, mem, file, old, sweep, writing, fetches, restarts, promise>>

\* write_body: the last part of the body has come
WriteBody(i) ==
  /\ w[i].pc = "body"
  /\ w' = [w EXCEPT ![i].pc = "put", ![i].obj.part = "whole"]
  /\ UNCHANGED <<setup, mem, file, old, sweep, counters, fetches, restarts, promise>>

\* MUTANT: the handler stores what it has when it is dropped
AbortStores(i) ==
  /\ w[i].pc = "body"
  /\ w' = [w EXCEPT ![i].pc = "put"]
  /\ UNCHANGED <<setup, mem, file, old, sweep, counters, fetches, restarts, promise>>

\* the upstream fails in the body: the handler is dropped without finish
Abort(i) ==
  /\ w[i].pc = "body"
  /\ w' = [w EXCEPT ![i] = Idle]
  /\ UNCHANGED <<setup, mem, file, old, sweep, counters, fetches, restarts, promise>>
-----------------------------------------------------------------------------
\* put in TinyUfo: of any weight alone, only below cache_file_max_weight in front of files
PutInMemory(k, obj) ==
  IF Tiny \/ (InMemory /\ ~setup.large) THEN [mem EXCEPT ![k] = obj] ELSE mem

\* what a put of obj that begins now may break
PutCauses(i, k, obj) ==
  If(obj.ver < floor[k] \/ Others(i, k, {"unlink"}), "stale")
    \cup If(Others(i, k, Putting), "stale")
    \cup If(~Tiny /\ setup.large /\ mem[k] # None, "large")

\* finish, or the second half of update_meta: memory at once, then the file
Put(i) ==
  /\ w[i].pc = "put"
  /\ LET k == w[i].key obj == w[i].obj IN
     /\ mem' = PutInMemory(k, obj)
     /\ Happened(k, PutCauses(i, k, obj))
     /\ IF Tiny
        THEN /\ w' = [w EXCEPT ![i] = Idle]
             /\ floor' = [floor EXCEPT ![k] = Max(@, obj.ver)]
             /\ UNCHANGED writing
        ELSE /\ writing' = writing + 1
             /\ w' = [w EXCEPT ![i].pc =
                        IF OverQuota(writing, setup.writingMax) THEN "overwrite" ELSE "write",
                        ![i].mixed = FALSE]
             /\ UNCHANGED floor
  /\ UNCHANGED <<setup, file, old, sweep, reading, fetches, restarts>>

\* Err(OverQuota): memory has the object and the file has not
OverWrite(i) ==
  /\ w[i].pc = "overwrite"
  /\ writing' = writing - 1
  /\ w' = [w EXCEPT ![i] = Idle]
  /\ UNCHANGED <<setup, mem, file, old, sweep, reading, fetches, restarts, promise>>

\* fs::write opens the file and empties it
OpenFile(i) ==
  /\ w[i].pc = "write"
  /\ LET k == w[i].key IN
     /\ file' = [file EXCEPT ![k] = [ver |-> w[i].obj.ver, part |-> "empty"]]
     /\ w' = Touched([w EXCEPT ![i].pc = "writing", ![i].linked = TRUE,
                               ![i].mixed = OthersWrite(i, k)], i, k)
     /\ Happened(k, If(OthersWrite(i, k), "torn"))
  /\ UNCHANGED <<setup, mem, old, sweep, counters, fetches, restarts, floor>>

\* the workers after i is done with the file of k
Left(i, k) == LET v == [w EXCEPT ![i] = Idle] IN
  IF InFile(w[i], k) THEN Touched(v, i, k) ELSE v

\* fs::write is done: unless another writer was in the file, all of the object is there
WriteEnd(i) ==
  /\ w[i].pc = "writing"
  /\ LET k == w[i].key obj == w[i].obj IN
     /\ \E p \in IF w[i].mixed THEN {"short", "cut", obj.part} ELSE {obj.part} :
          file' = IF w[i].linked THEN [file EXCEPT ![k] = [ver |-> obj.ver, part |-> p]]
                  ELSE file
     /\ floor' = [floor EXCEPT ![k] = Max(@, obj.ver)]
     /\ w' = Left(i, k)
  /\ writing' = writing - 1
  /\ UNCHANGED <<setup, mem, old, sweep, reading, fetches, restarts, drift>>

\* fs::write fails, before it opens the file or anywhere in it
WriteFail(i) ==
  /\ w[i].pc \in Putting
  /\ LET k == w[i].key IN
     /\ \E p \in {"empty", "short", "cut"} :
          file' = IF InFile(w[i], k)
                  THEN [file EXCEPT ![k] = [ver |-> w[i].obj.ver, part |-> p]]
                  ELSE file
     /\ w' = Left(i, k)
     /\ Happened(k, If(InFile(w[i], k), "torn"))
  /\ writing' = writing - 1
  /\ UNCHANGED <<setup, mem, old, sweep, reading, fetches, restarts, floor>>
-----------------------------------------------------------------------------
\* MUTANT: a file is all there is to remove
RemoveFileOnly(i, k, op) ==
  /\ w[i].pc = "idle"
  /\ w' = [w EXCEPT ![i] = IF Tiny THEN Idle ELSE [At(op, k, fetches) EXCEPT !.pc = "unlink"]]
  /\ floor' = IF Tiny /\ op = "purge" THEN [floor EXCEPT ![k] = fetches + 1] ELSE floor
  /\ UNCHANGED <<setup, mem, file, old, sweep, counters, fetches, restarts, drift>>

\* remove, for a PURGE that is allowed or for an entry that pingora evicts: from
\* memory at once, then the file
Remove(i, k, op) ==
  /\ w[i].pc = "idle"
  /\ mem' = [mem EXCEPT ![k] = None]
  /\ w' = [w EXCEPT ![i] = IF Tiny THEN Idle ELSE [At(op, k, fetches) EXCEPT !.pc = "unlink"]]
  /\ floor' = IF Tiny /\ op = "purge" THEN [floor EXCEPT ![k] = fetches + 1] ELSE floor
  /\ UNCHANGED <<setup, file, old, sweep, counters, fetches, restarts, drift>>

\* HttpCache::purge looks for the file outside the namespace
FileFound(r) == file[r.key] # None /\ (r.op = "purge" \/ ~setup.namespace)

\* fs::remove_file: PURGE is answered with 204, or with an error when there is no file
Unlink(i) ==
  /\ w[i].pc = "unlink"
  /\ LET k == w[i].key IN
     IF FileFound(w[i])
     THEN /\ file' = [file EXCEPT ![k] = None]
          /\ old' = old \ {k}
          /\ w' = Unlinked([w EXCEPT ![i] = Idle], k)
          /\ floor' = IF w[i].op = "purge"
                      THEN [floor EXCEPT ![k] = Max(@, w[i].since + 1)] ELSE floor
          /\ Happened(k, If(Others(i, k, Putting), "stale"))
     ELSE /\ w' = [w EXCEPT ![i] = Idle]
          /\ UNCHANGED <<file, old, promise>>
  /\ UNCHANGED <<setup, mem, sweep, counters, fetches, restarts>>
-----------------------------------------------------------------------------
\* do_file_storage_clear, every 60 runs: a file that was not read for a day ...
ClearFind(k) ==
  /\ ~Tiny /\ sweep = {} /\ file[k] # None /\ k \in old
  /\ sweep' = {k}
  /\ UNCHANGED <<setup, mem, file, old, counters, w, fetches, restarts, promise>>

\* ... is removed, read or written in the meantime or not
ClearRemove(k) ==
  /\ k \in sweep
  /\ sweep' = {}
  /\ file' = [file EXCEPT ![k] = None]
  /\ old' = old \ {k}
  /\ w' = Unlinked(w, k)
  /\ UNCHANGED <<setup, mem, counters, fetches, restarts, promise>>

\* External: a day passes, TinyUfo drops an object to make room
Age(k) ==
  /\ file[k] # None /\ k \notin old
  /\ old' = old \cup {k}
  /\ UNCHANGED <<setup, mem, file, sweep, counters, w, fetches, restarts, promise>>
MakeRoom(k) ==
  /\ mem[k] # None
  /\ mem' = [mem EXCEPT ![k] = None]
  /\ UNCHANGED <<setup, file, old, sweep, counters, w, fetches, restarts, promise>>

\* the process is replaced: files stay as they are, in the middle of a write too
Restart ==
  /\ restarts < MaxRestart
  /\ restarts' = restarts + 1
  /\ mem' = [k \in Key |-> None]
  /\ sweep' = {} /\ reading' = 0 /\ writing' = 0
  /\ w' = [i \in Worker |-> Idle]
  /\ LET broken == {k \in Key : \E i \in Worker : InFile(w[i], k)} IN
     /\ \E p \in {"empty", "short", "cut"} :
          file' = [k \in Key |-> IF k \in broken THEN [file[k] EXCEPT !.part = p] ELSE file[k]]
     /\ drift' = [k \in Key |-> drift[k] \cup If(k \in broken, "torn")]
  /\ UNCHANGED <<setup, old, fetches, floor>>
-----------------------------------------------------------------------------
Request(i) ==
  \/ \E k \in Key : Lookup(i, k) \/ Remove(i, k, "purge") \/ Remove(i, k, "evict")
  \/ OverRead(i) \/ ReadEnd(i) \/ Load(i) \/ Serve(i) \/ Fetch(i) \/ Revalidate(i)
  \/ WriteBody(i) \/ Abort(i) \/ Put(i) \/ OverWrite(i) \/ OpenFile(i) \/ WriteEnd(i)
  \/ WriteFail(i) \/ Unlink(i)

Next ==
  \/ \E i \in Worker : Request(i)
  \/ \E k \in Key : ClearFind(k) \/ ClearRemove(k) \/ Age(k) \/ MakeRoom(k)
  \/ Restart

Spec == Init /\ [][Next]_vars
-----------------------------------------------------------------------------
Pc == {"idle", "overread", "read", "load", "hit", "miss", "body", "put", "overwrite",
       "write", "writing", "unlink"}

RequestRec == [pc : Pc, op : {"none", "lookup", "meta", "store", "purge", "evict"},
               key : Key, obj : Object \cup {None}, since : Nat,
               mixed : BOOLEAN, linked : BOOLEAN]

StateTypeOK ==
  /\ setup \in Setup
  /\ mem \in [Key -> Object \cup {None}] /\ file \in [Key -> Content \cup {None}]
  /\ old \subseteq Key /\ sweep \subseteq Key
  /\ w \in [Worker -> RequestRec]
  /\ fetches \in 0..MaxVer /\ restarts \in 0..MaxRestart
  /\ floor \in [Key -> Nat] /\ drift \in [Key -> SUBSET Cause]

\* Types of the state; the counters never exceed the requests there are.
TypeOK ==
  /\ StateTypeOK
  /\ reading \in 0..Cardinality(Worker) /\ writing \in 0..Cardinality(Worker)

Readers == {i \in Worker : w[i].pc \in {"overread", "read", "load"}}
Writers == {i \in Worker : w[i].pc \in {"overwrite", "write", "writing"}}

\* FileCache::stats: reading and writing are the operations in flight, whichever way
\* earlier ones ended (early return, IO error, panic), so that the quotas never wear out.
QuotaExact == reading = Cardinality(Readers) /\ writing = Cardinality(Writers)

ActiveReaders == {i \in Worker : w[i].pc \in {"read", "load"}}
ActiveWriters == {i \in Worker : w[i].pc \in Putting}

\* At most reading_max files are read and writing_max files written at a time,
\* although every request adds itself to the counter before it looks at it.
QuotaBound ==
  /\ setup.readingMax > 0 => Cardinality(ActiveReaders) <= setup.readingMax
  /\ setup.writingMax > 0 => Cardinality(ActiveWriters) <= setup.writingMax

\* A hit has all of its body: an upstream that fails in the middle, the clear service,
\* an eviction or a PURGE never leave a part of a response to be found.  The causes
\* that do are a read during a write, two writers and a write that failed or was cut
\* off by the end of the process.
HitWhole ==
  \A i \in Worker : w[i].pc = "hit" /\ w[i].obj.part # "whole" =>
    "torn" \in drift[w[i].key]

\* No lookup that begins after a put was acknowledged finds an older response, and none
\* that begins after a PURGE was acknowledged finds one fetched before it, over all that
\* memory forgets and a restart loses, unless one of the causes of drift came before.
NeverBack ==
  \A i \in Worker : w[i].pc = "hit" /\ drift[w[i].key] = {} => w[i].obj.ver >= w[i].since

-----------------------------------------------------------------------------
(* The inductive strengthening of the quotas.                                *)

\* requests that carry a response, and files that are being written, exist
HeldOK ==
  \A i \in Worker :
    /\ w[i].pc \in {"load", "hit", "body", "put", "overwrite", "write", "writing"} =>
         w[i].obj \in Object
    /\ \A k \in Key : InFile(w[i], k) => file[k] # None

IInv == StateTypeOK /\ HeldOK /\ QuotaExact /\ QuotaBound
-----------------------------------------------------------------------------
\* put of FileCache "Stores a cache object both in TinyUfo cache and on disk": a lookup
\* that begins after it finds this response or a later one, however large it is.
PutDoc ==
  \A i \in Worker : w[i].pc = "hit" /\ drift[w[i].key] \subseteq {"large"} =>
    w[i].obj.ver >= w[i].since
=============================================================================
