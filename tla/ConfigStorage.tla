--------------------------- MODULE ConfigStorage ---------------------------
(***************************************************************************)
(* The configuration storage (pingap-config: file.rs, etcd.rs, lib.rs) and *)
(* the tasks that write to it concurrently: admin API requests             *)
(* (update_config, remove_config, import_config) and the renewal of a      *)
(* certificate, each of which loads the whole configuration, changes it in *)
(* memory and saves part of it.  Nothing serialises them.                  *)
(*                                                                         *)
(* An item is a named entry of a category.  Items are kept in units: one   *)
(* file for everything, one file or key per category, or one per item.     *)
(***************************************************************************)
EXTENDS Naturals

CONSTANTS
  Item,        \* records [category, name]
  Value,       \* values of items
  Refs,        \* Refs[v]: the items that an item with value v refers to
  Task,        \* the tasks
  Initial,     \* the contents at the start
  Setup,       \* storages and what the tasks do: records with the fields
               \*   layout: "file" (one .toml), "category", "name" (separation)
               \*   etcd:   reads are snapshots and writes are atomic
               \*   op:     op[t] = [kind |-> "put" | "remove" | "import",
               \*                    items, value]
  Absent

Contents == [Item -> Value \cup {Absent}]

ASSUME StorageAssumption ==
  /\ Initial \in Contents
  /\ Absent \notin Value
  /\ \A v \in Value : Refs[v] \subseteq Item
  /\ \A s \in Setup :
       /\ s.layout \in {"file", "category", "name"} /\ s.etcd \in BOOLEAN
       /\ s.etcd => s.layout # "file"
       /\ \A t \in Task : /\ s.op[t].items \subseteq Item
                          /\ s.op[t].kind \in {"put", "remove", "import"}
                          /\ s.op[t].value \in Value
                          \* remove_config has one name in its path
                          /\ s.op[t].kind = "remove" => \E i \in Item : s.op[t].items = {i}

VARIABLES
  setup,      \* the storage of this instance and its tasks
  store,      \* what the units hold
  file,       \* "whole", "empty" (truncated) or "mixed" (bytes of two writes)
  writing,    \* the item whose unit a task has opened and not yet written
  pc,         \* where a task is
  conf,       \* the configuration a task has in memory
  unread,     \* units it has still to read
  todo        \* items it has still to save

vars == <<setup, store, file, writing, pc, conf, unread, todo>>

Op == setup.op
Etcd == setup.etcd

\* the file or key an item is in: path of get_toml, or the one file
Unit(i) == CASE setup.layout = "file"     -> "all"
             [] setup.layout = "category" -> i.category
             [] setup.layout = "name"     -> i
Units == {Unit(i) : i \in Item}

Init ==
  /\ setup \in Setup
  /\ store = Initial
  /\ file = [u \in Units |-> "whole"]
  /\ writing = [t \in Task |-> {}]
  /\ pc = [t \in Task |-> "start"]
  /\ conf = [t \in Task |-> [i \in Item |-> Absent]]
  /\ unread = [t \in Task |-> {}]
  /\ todo = [t \in Task |-> {}]

Goto(t, p) == pc' = [pc EXCEPT ![t] = p]

-----------------------------------------------------------------------------
\* remove: an upstream, location or plugin that something refers to stays; the
\* storage category is not handled
Removable(c, i) == \A j \in Item : c[j] # Absent => i \notin Refs[c[j]]
Removed(c, i) == IF i.category = "storage" THEN c ELSE [c EXCEPT ![i] = Absent]

\* validate: every reference resolves
Valid(c) == \A i \in Item : c[i] # Absent => \A j \in Refs[c[i]] : c[j] # Absent

\* what the task makes of the configuration it loaded, and whether it goes on
Modified(t, c) ==
  LET op == Op[t]
  IN CASE op.kind = "remove" -> Removed(c, CHOOSE i \in op.items : TRUE)
       [] OTHER -> [i \in Item |-> IF i \in op.items THEN op.value ELSE c[i]]
Accepted(t, c) ==
  Op[t].kind = "remove" => \A i \in Op[t].items : Removable(c, i)

-----------------------------------------------------------------------------
\* etcd: one get with the prefix returns a snapshot
LoadSnapshot(t) ==
  /\ Etcd
  /\ pc[t] = "start" /\ Op[t].kind # "import"
  /\ Goto(t, "loaded")
  /\ conf' = [conf EXCEPT ![t] = store]
  /\ UNCHANGED <<setup, store, file, writing, unread, todo>>

\* files: read one after the other
LoadFiles(t) ==
  /\ ~Etcd
  /\ pc[t] = "start" /\ Op[t].kind # "import"
  /\ Goto(t, "loading")
  /\ unread' = [unread EXCEPT ![t] = Units]
  /\ UNCHANGED <<setup, store, file, writing, conf, todo>>

ReadFile(t) ==
  /\ pc[t] = "loading"
  /\ \E u \in unread[t] :
       /\ unread' = [unread EXCEPT ![t] = @ \ {u}]
       /\ IF file[u] = "mixed"
          THEN Goto(t, "failed") /\ UNCHANGED conf       \* toml error
          ELSE /\ Goto(t, IF unread'[t] = {} THEN "loaded" ELSE "loading")
               /\ conf' = [conf EXCEPT ![t] =
                     [i \in Item |-> IF Unit(i) # u THEN @[i]
                                     ELSE IF file[u] = "empty" THEN Absent ELSE store[i]]]
  /\ UNCHANGED <<setup, store, file, writing, todo>>

\* update_config and remove_config change the configuration in memory
Modify(t) ==
  /\ pc[t] = "loaded"
  /\ IF Accepted(t, conf[t])
     THEN /\ conf' = [conf EXCEPT ![t] = Modified(t, @)]
          /\ todo' = [todo EXCEPT ![t] = Op[t].items]
          /\ Goto(t, "save")
     ELSE UNCHANGED <<conf, todo>> /\ Goto(t, "failed")
  /\ UNCHANGED <<setup, store, file, writing, unread>>

\* MUTANT: sync_config saves what the import does not mention as well, as absent
ImportAll(t) ==
  /\ pc[t] = "start" /\ Op[t].kind = "import"
  /\ conf' = [conf EXCEPT ![t] = Modified(t, @)]
  /\ todo' = [todo EXCEPT ![t] = Item]
  /\ Goto(t, "save")
  /\ UNCHANGED <<setup, store, file, writing, unread>>
\* import_config takes the whole configuration from the request; sync_config
\* saves its items one by one (the order of the categories is abstracted)
Import(t) ==
  /\ pc[t] = "start" /\ Op[t].kind = "import"
  /\ conf' = [conf EXCEPT ![t] = Modified(t, @)]
  /\ todo' = [todo EXCEPT ![t] = Op[t].items]
  /\ Goto(t, "save")
  /\ UNCHANGED <<setup, store, file, writing, unread>>

-----------------------------------------------------------------------------
\* save_config of one item: validate, then write the unit the item is in with
\* what the task has in memory for the whole unit
SaveInvalid(t) ==
  /\ pc[t] = "save" /\ ~Valid(conf[t])
  /\ Goto(t, "failed")
  /\ UNCHANGED <<setup, store, file, writing, conf, unread, todo>>

\* MUTANT: everything the task has in memory is written
WrittenAll(t, u) == conf[t]
Written(t, u) == [i \in Item |-> IF Unit(i) = u THEN conf[t][i] ELSE store[i]]
\* MUTANT: one item is saved and the rest forgotten
AfterSaveOne(t, i) ==
  /\ todo' = [todo EXCEPT ![t] = {}]
  /\ Goto(t, "done")
AfterSave(t, i) ==
  /\ todo' = [todo EXCEPT ![t] = @ \ {i}]
  /\ Goto(t, IF todo'[t] = {} THEN "done" ELSE "save")

\* etcd put or delete
SaveKey(t) ==
  /\ Etcd
  /\ pc[t] = "save" /\ Valid(conf[t])
  /\ \E i \in todo[t] : store' = Written(t, Unit(i)) /\ AfterSave(t, i)
  /\ UNCHANGED <<setup, file, writing, conf, unread>>

\* nothing is left in the unit: the file is removed
Nothing(t, u) ==
  setup.layout # "file" /\ \A i \in Item : Unit(i) = u => conf[t][i] = Absent
RemoveFile(t) ==
  /\ ~Etcd
  /\ pc[t] = "save" /\ Valid(conf[t])
  /\ \E i \in todo[t] : /\ Nothing(t, Unit(i))
                       /\ store' = Written(t, Unit(i))
                       /\ file' = [file EXCEPT ![Unit(i)] = "whole"]
                       /\ AfterSave(t, i)
  /\ UNCHANGED <<setup, writing, conf, unread>>

\* fs::write opens the file, which empties it ...
OpenFile(t) ==
  /\ ~Etcd
  /\ pc[t] = "save" /\ Valid(conf[t])
  /\ \E i \in todo[t] : /\ ~Nothing(t, Unit(i))
                       /\ writing' = [writing EXCEPT ![t] = {i}]
                       /\ file' = [file EXCEPT ![Unit(i)] = "empty"]
  /\ Goto(t, "write")
  /\ UNCHANGED <<setup, store, conf, unread, todo>>

\* ... and writes from its start: what another task wrote there after the file
\* was opened stays behind where it is longer
WriteFile(t) ==
  /\ pc[t] = "write"
  /\ \E i \in writing[t] :
       /\ store' = Written(t, Unit(i))
       /\ \E c \in IF file[Unit(i)] = "empty" THEN {"whole"} ELSE {"whole", "mixed"} :
            file' = [file EXCEPT ![Unit(i)] = c]
       /\ AfterSave(t, i)
  /\ writing' = [writing EXCEPT ![t] = {}]
  /\ UNCHANGED <<setup, conf, unread>>

-----------------------------------------------------------------------------
Step(t) ==
  \/ LoadSnapshot(t) \/ LoadFiles(t) \/ ReadFile(t) \/ Modify(t) \/ Import(t)
  \/ SaveInvalid(t) \/ SaveKey(t) \/ RemoveFile(t) \/ OpenFile(t) \/ WriteFile(t)
Next == \E t \in Task : Step(t)
Spec == Init /\ [][Next]_vars

-----------------------------------------------------------------------------
Typed ==
  /\ setup \in Setup /\ store \in Contents
  /\ file \in [Units -> {"whole", "empty", "mixed"}]
  /\ writing \in [Task -> SUBSET Item]
  /\ pc \in [Task -> {"start", "loading", "loaded", "save", "write", "done", "failed"}]
  /\ conf \in [Task -> Contents]
  /\ unread \in [Task -> SUBSET Units]
  /\ todo \in [Task -> SUBSET Item]

\* The contents of the storage and what the tasks hold have their types, and a task has
\* only items to save, and a file open, that its request names.
TypeOK ==
  Typed /\ \A t \in Task : todo[t] \subseteq Op[t].items /\ writing[t] \subseteq todo[t]

Saves(t) == {Unit(i) : i \in Op[t].items}
Kept(t) == \A i \in Op[t].items : store[i] = Op[t].value /\ file[Unit(i)] = "whole"

\* An update or an import that has been answered is in the storage, whatever the
\* other tasks load and save meanwhile, unless one of them saves the same unit:
\* stale copies of the other units are never written back.
UpdateKept ==
  \A t \in Task :
    /\ pc[t] = "done" /\ Op[t].kind # "remove"
    /\ \A o \in Task \ {t} : Saves(o) \cap Saves(t) = {}
    => Kept(t)

\* An item that was there and that no task removes, and no import replaces with the
\* unit it is in, is in every configuration a task has loaded from etcd: no load sees a
\* state in the middle of a write.
NothingVanishes ==
  \A t \in Task, i \in Item :
    /\ Etcd
    /\ Op[t].kind # "import" /\ pc[t] \in {"loaded", "save", "done"}
    /\ Initial[i] # Absent
    /\ \A o \in Task : /\ Op[o].kind = "remove" => i \notin Op[o].items
                       /\ Op[o].kind = "import" /\ Unit(i) \in Saves(o) => i \in Op[o].items
    => conf[t][i] # Absent

-----------------------------------------------------------------------------
\* common.rs, PingapConf::remove refuses with "upstream({name}) is in used by
\* location({location_name})": what is in use stays in the storage.
InUseDoc == (\A t \in Task : pc[t] \in {"done", "failed"}) => Valid(store)
=============================================================================
