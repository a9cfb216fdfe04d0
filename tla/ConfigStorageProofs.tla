------------------------ MODULE ConfigStorageProofs ------------------------
(* What the storage keeps of the tasks that write to it, for any items, tasks, *)
(* operations and layouts.                                                     *)
EXTENDS ConfigStorage, TLAPS

\* Every task but t writes other units than t does.
Exclusive(t) == \A o \in Task \ {t} : Saves(o) \cap Saves(t) = {}

\* A task saves what it was asked to save, and has one unit open while it writes it.
Tasks ==
  \A t \in Task :
    /\ todo[t] \subseteq Op[t].items
    /\ writing[t] \subseteq todo[t]
    /\ pc[t] # "write" => writing[t] = {}
    /\ \A i, k \in writing[t] : i = k
    /\ pc[t] = "done" => todo[t] = {}

\* The units of a task that nobody else saves are whole, but the one it has open, which
\* is empty; what it has saved of them is there.
Own ==
  \A t \in Task :
    Exclusive(t) =>
      /\ \A i \in Op[t].items :
           file[Unit(i)] = IF \E k \in writing[t] : Unit(k) = Unit(i) THEN "empty" ELSE "whole"
      /\ Op[t].kind # "remove" /\ pc[t] \in {"save", "write", "done"} =>
           \A i \in Op[t].items : /\ conf[t][i] = Op[t].value
                                  /\ i \notin todo[t] => store[i] = Op[t].value

\* No task takes the item away.
Stays(i) ==
  /\ Initial[i] # Absent
  /\ \A o \in Task : /\ Op[o].kind = "remove" => i \notin Op[o].items
                     /\ Op[o].kind = "import" /\ Unit(i) \in Saves(o) => i \in Op[o].items

\* Under etcd there are no half-written units, and an item that no task takes away is in
\* the store and in all that is written back from a snapshot.
Snapshots ==
  Etcd => /\ \A t \in Task : pc[t] \notin {"loading", "write"}
          /\ \A i \in Item : Stays(i) =>
               /\ store[i] # Absent
               /\ \A t \in Task :
                    /\ pc[t] \in {"loaded", "save", "done"}
                    /\ Op[t].kind = "import" => i \in Op[t].items
                    => conf[t][i] # Absent

IInv == Typed /\ Tasks /\ Own /\ Snapshots

-----------------------------------------------------------------------------
\* The storage and its tasks never change, so neither do the units.
LEMMA SameUnits ==
  ASSUME setup' = setup
  PROVE  /\ Op' = Op /\ Etcd' = Etcd /\ Units' = Units
         /\ \A i \in Item : Unit(i)' = Unit(i)
         /\ \A t \in Task : Exclusive(t)' = Exclusive(t)
         /\ \A i \in Item : Stays(i)' = Stays(i)
BY DEF Op, Etcd, Units, Unit, Exclusive, Saves, Stays

\* Every step leaves the storage and the other tasks' own state as they are.
LEMMA OtherTasks ==
  ASSUME IInv, NEW t \in Task, Step(t)
  PROVE  /\ setup' = setup
         /\ \A o \in Task \ {t} : /\ pc'[o] = pc[o] /\ conf'[o] = conf[o]
                                  /\ todo'[o] = todo[o] /\ writing'[o] = writing[o]
<1> USE DEF IInv, Typed, Goto, AfterSave
<1>1. CASE LoadSnapshot(t)
  BY <1>1 DEF LoadSnapshot
<1>2. CASE LoadFiles(t)
  BY <1>2 DEF LoadFiles
<1>3. CASE ReadFile(t)
  BY <1>3 DEF ReadFile
<1>4. CASE Modify(t)
  BY <1>4 DEF Modify
<1>5. CASE Import(t)
  BY <1>5 DEF Import
<1>6. CASE SaveInvalid(t)
  BY <1>6 DEF SaveInvalid
<1>7. CASE SaveKey(t)
  BY <1>7 DEF SaveKey
<1>8. CASE RemoveFile(t)
  BY <1>8 DEF RemoveFile
<1>9. CASE OpenFile(t)
  BY <1>9 DEF OpenFile
<1>10. CASE WriteFile(t)
  BY <1>10 DEF WriteFile
<1> QED
  BY <1>1, <1>2, <1>3, <1>4, <1>5, <1>6, <1>7, <1>8, <1>9, <1>10 DEF Step

\* What a task makes of a configuration is a configuration.
LEMMA ModifiedType ==
  ASSUME setup \in Setup, NEW t \in Task, NEW c \in Contents
  PROVE  Modified(t, c) \in Contents
<1>1. Op[t].value \in Value
  BY StorageAssumption DEF Op
<1> QED
  BY <1>1 DEF Modified, Removed, Contents

\* What a task writes to a unit leaves a configuration in the store.
LEMMA WrittenType ==
  ASSUME Typed, NEW t \in Task, NEW u
  PROVE  Written(t, u) \in Contents
BY DEF Written, Contents, Typed

\* After a save the task goes on with what is left to be saved.
LEMMA AfterSaveType ==
  ASSUME Typed, NEW t \in Task, NEW i, AfterSave(t, i)
  PROVE  /\ todo' \in [Task -> SUBSET Item]
         /\ pc' \in [Task -> {"start", "loading", "loaded", "save", "write", "done", "failed"}]
         /\ todo'[t] = todo[t] \ {i}
         /\ pc'[t] = IF todo[t] \ {i} = {} THEN "done" ELSE "save"
BY DEF AfterSave, Goto, Typed

\* The contents of the storage and what the tasks hold keep their types.
LEMMA TypeStep == Typed /\ Tasks /\ [Next]_vars => Typed'
<1> SUFFICES ASSUME Typed, Tasks, [Next]_vars PROVE Typed'
  OBVIOUS
<1>1. CASE UNCHANGED vars
  BY <1>1 DEF vars, Typed, Units, Unit
<1>2. ASSUME NEW t \in Task, Step(t) PROVE Typed'
  <2>0. \A i \in Op[t].items : i \in Item
    BY StorageAssumption DEF Typed, Op
  <2> USE DEF Goto
  <2>1. CASE LoadSnapshot(t)
    BY <2>1, SameUnits DEF LoadSnapshot, Typed
  <2>2. CASE LoadFiles(t)
    BY <2>2, SameUnits DEF LoadFiles, Typed
  <2>3. CASE ReadFile(t)
    <3>1. PICK u \in unread[t] : ReadFile(t)!2!(u)
      BY <2>3 DEF ReadFile
    <3>2. setup' = setup /\ store' = store /\ file' = file /\ writing' = writing /\ todo' = todo
      BY <2>3 DEF ReadFile
    <3>3. unread' \in [Task -> SUBSET Units]
      BY <3>1 DEF Typed
    <3>4. CASE file[u] = "mixed"
      BY <3>1, <3>2, <3>3, <3>4, SameUnits DEF Typed
    <3>5. CASE file[u] # "mixed"
      <4>1. [i \in Item |-> IF Unit(i) # u THEN conf[t][i]
                            ELSE IF file[u] = "empty" THEN Absent ELSE store[i]] \in Contents
        BY DEF Typed, Contents
      <4>2. conf' \in [Task -> Contents]
        BY <3>1, <3>5, <4>1 DEF Typed
      <4> QED
        BY <3>1, <3>2, <3>3, <3>5, <4>2, SameUnits DEF Typed
    <3> QED
      BY <3>4, <3>5
  <2>4. CASE Modify(t)
    <3>1. Modified(t, conf[t]) \in Contents
      BY ModifiedType DEF Typed
    <3> QED
      BY <2>4, <2>0, <3>1, SameUnits DEF Modify, Typed
  <2>5. CASE Import(t)
    <3>1. Modified(t, conf[t]) \in Contents
      BY ModifiedType DEF Typed
    <3> QED
      BY <2>5, <2>0, <3>1, SameUnits DEF Import, Typed
  <2>6. CASE SaveInvalid(t)
    BY <2>6, SameUnits DEF SaveInvalid, Typed
  <2>7. CASE SaveKey(t)
    BY <2>7, SameUnits, WrittenType DEF SaveKey, AfterSave, Typed
  <2>8. CASE RemoveFile(t)
    <3>1. setup' = setup /\ writing' = writing /\ conf' = conf /\ unread' = unread
      BY <2>8 DEF RemoveFile
    <3>2. PICK i \in todo[t] : /\ store' = Written(t, Unit(i)) /\ AfterSave(t, i)
                              /\ file' = [file EXCEPT ![Unit(i)] = "whole"]
      BY <2>8 DEF RemoveFile
    <3>3. file' \in [Units -> {"whole", "empty", "mixed"}]
      BY <3>2 DEF Typed
    <3>4. store' \in Contents
      BY <3>2, WrittenType
    <3> QED
      BY <3>1, <3>2, <3>3, <3>4, AfterSaveType, SameUnits DEF Typed
  <2>9. CASE OpenFile(t)
    <3>1. setup' = setup /\ store' = store /\ conf' = conf /\ unread' = unread /\ todo' = todo
      BY <2>9 DEF OpenFile
    <3>2. PICK i \in todo[t] : /\ writing' = [writing EXCEPT ![t] = {i}]
                              /\ file' = [file EXCEPT ![Unit(i)] = "empty"]
      BY <2>9 DEF OpenFile
    <3>3. file' \in [Units -> {"whole", "empty", "mixed"}]
      BY <3>2 DEF Typed
    <3>4. writing' \in [Task -> SUBSET Item]
      BY <3>2 DEF Typed
    <3>5. pc' = [pc EXCEPT ![t] = "write"]
      BY <2>9 DEF OpenFile
    <3> QED
      BY <3>1, <3>3, <3>4, <3>5, SameUnits DEF Typed
  <2>10. CASE WriteFile(t)
    <3>1. setup' = setup /\ conf' = conf /\ unread' = unread
      BY <2>10 DEF WriteFile
    <3>2. PICK i \in writing[t], c \in {"whole", "mixed"} :
             /\ store' = Written(t, Unit(i)) /\ AfterSave(t, i)
             /\ file' = [file EXCEPT ![Unit(i)] = c]
      BY <2>10 DEF WriteFile
    <3>3. file' \in [Units -> {"whole", "empty", "mixed"}]
      BY <3>2 DEF Typed
    <3>4. store' \in Contents
      BY <3>2, WrittenType
    <3>5. writing' \in [Task -> SUBSET Item]
      BY <2>10 DEF WriteFile, Typed
    <3> QED
      BY <3>1, <3>2, <3>3, <3>4, <3>5, AfterSaveType, SameUnits DEF Typed
  <2> QED
    BY <1>2, <2>1, <2>2, <2>3, <2>4, <2>5, <2>6, <2>7, <2>8, <2>9, <2>10 DEF Step
<1> QED
  BY <1>1, <1>2 DEF Next

\* A task saves what it was asked to save, one open unit at a time.
LEMMA TasksStep ==
  ASSUME IInv, NEW t \in Task, Step(t)
  PROVE  Tasks'
<1>1. Op' = Op
  BY OtherTasks, SameUnits
<1> SUFFICES /\ todo'[t] \subseteq Op[t].items
             /\ writing'[t] \subseteq todo'[t]
             /\ pc'[t] # "write" => writing'[t] = {}
             /\ \A i, k \in writing'[t] : i = k
             /\ pc'[t] = "done" => todo'[t] = {}
  BY <1>1, OtherTasks DEF IInv, Tasks
<1> USE DEF IInv, Typed, Tasks, Goto
<1>2. CASE LoadSnapshot(t)
  BY <1>2 DEF LoadSnapshot
<1>3. CASE LoadFiles(t)
  BY <1>3 DEF LoadFiles
<1>4. CASE ReadFile(t)
  BY <1>4 DEF ReadFile
<1>5. CASE Modify(t)
  BY <1>5 DEF Modify
<1>6. CASE Import(t)
  BY <1>6 DEF Import
<1>7. CASE SaveInvalid(t)
  BY <1>7 DEF SaveInvalid
<1>8. CASE SaveKey(t)
  BY <1>8, AfterSaveType DEF SaveKey
<1>9. CASE RemoveFile(t)
  BY <1>9, AfterSaveType DEF RemoveFile
<1>10. CASE OpenFile(t)
  BY <1>10 DEF OpenFile
<1>11. CASE WriteFile(t)
  BY <1>11, AfterSaveType DEF WriteFile
<1> QED
  BY <1>2, <1>3, <1>4, <1>5, <1>6, <1>7, <1>8, <1>9, <1>10, <1>11 DEF Step

\* A task leaves alone the units it does not save.
LEMMA OtherUnits ==
  ASSUME IInv, NEW t \in Task, Step(t), NEW i \in Item, Unit(i) \notin Saves(t)
  PROVE  store'[i] = store[i] /\ file'[Unit(i)] = file[Unit(i)]
<1>1. \A k \in todo[t] : k \in Item /\ Unit(k) # Unit(i)
  BY DEF IInv, Tasks, Saves, Typed
<1>2. \A k \in todo[t] : Written(t, Unit(k))[i] = store[i]
  BY <1>1 DEF Written
<1>3. CASE SaveKey(t)
  BY <1>2, <1>3 DEF SaveKey
<1>4. CASE RemoveFile(t)
  <2>1. PICK k \in todo[t] : /\ store' = Written(t, Unit(k))
                            /\ file' = [file EXCEPT ![Unit(k)] = "whole"]
    BY <1>4 DEF RemoveFile
  <2> QED
    BY <1>1, <1>2, <2>1 DEF IInv, Typed, Units
<1>5. CASE OpenFile(t)
  <2>1. PICK k \in todo[t] : file' = [file EXCEPT ![Unit(k)] = "empty"]
    BY <1>5 DEF OpenFile
  <2> QED
    BY <1>1, <1>5, <2>1 DEF OpenFile, IInv, Typed, Units
<1>6. CASE WriteFile(t)
  <2>1. PICK k \in writing[t], c \in {"whole", "mixed"} :
          store' = Written(t, Unit(k)) /\ file' = [file EXCEPT ![Unit(k)] = c]
    BY <1>6 DEF WriteFile
  <2>2. k \in todo[t]
    BY DEF IInv, Tasks
  <2> QED
    BY <1>1, <1>2, <2>1, <2>2 DEF IInv, Typed, Units
<1> QED
  BY <1>3, <1>4, <1>5, <1>6
  DEF Step, LoadSnapshot, LoadFiles, ReadFile, Modify, Import, SaveInvalid

\* What a put or an import leaves in memory for the items it is about.
LEMMA ModifiedValue ==
  ASSUME setup \in Setup, NEW t \in Task, Op[t].kind # "remove", NEW c \in Contents, NEW i \in Op[t].items
  PROVE  Modified(t, c)[i] = Op[t].value
<1>1. i \in Item
  BY StorageAssumption DEF Op
<1> QED
  BY <1>1 DEF Modified

\* The units of a task that nobody else saves change by its own steps alone, and by
\* those as it means to.
LEMMA OwnStep ==
  ASSUME IInv, NEW t \in Task, Step(t)
  PROVE  Own'
<1>1. setup' = setup
  BY OtherTasks
<1>2. \A o \in Task : Op[o].items \subseteq Item
  BY StorageAssumption DEF IInv, Typed, Op
<1> SUFFICES ASSUME NEW o \in Task, Exclusive(o)
             PROVE  /\ \A i \in Op[o].items :
                         file'[Unit(i)] = IF \E k \in writing'[o] : Unit(k) = Unit(i)
                                          THEN "empty" ELSE "whole"
                    /\ Op[o].kind # "remove" /\ pc'[o] \in {"save", "write", "done"} =>
                         \A i \in Op[o].items : /\ conf'[o][i] = Op[o].value
                                                /\ i \notin todo'[o] => store'[i] = Op[o].value
  <2>1. \A p \in Task : \A k \in writing'[p] : k \in Item
    BY TasksStep, <1>1, <1>2, SameUnits DEF Tasks
  <2> QED
    BY <1>1, <1>2, <2>1, SameUnits DEF Own
<1>3. CASE o # t
  <2>1. \A i \in Op[o].items : i \in Item /\ Unit(i) \notin Saves(t)
    BY <1>2, <1>3 DEF Exclusive, Saves
  <2>2. \A i \in Op[o].items : store'[i] = store[i] /\ file'[Unit(i)] = file[Unit(i)]
    BY <2>1, OtherUnits
  <2> QED
    BY <1>3, <2>2, OtherTasks DEF IInv, Own
<1>4. CASE o = t
  <2> DEFINE Files == \A i \in Op[t].items :
               file'[Unit(i)] = IF \E k \in writing'[t] : Unit(k) = Unit(i) THEN "empty" ELSE "whole"
             Saved == Op[t].kind # "remove" /\ pc'[t] \in {"save", "write", "done"} =>
                        \A i \in Op[t].items : /\ conf'[t][i] = Op[t].value
                                               /\ i \notin todo'[t] => store'[i] = Op[t].value
  <2> SUFFICES Files /\ Saved
    BY <1>4
  <2>1. \A i \in Op[t].items :
          file[Unit(i)] = IF \E k \in writing[t] : Unit(k) = Unit(i) THEN "empty" ELSE "whole"
    BY <1>4 DEF IInv, Own
  <2>2. Op[t].kind # "remove" /\ pc[t] \in {"save", "write", "done"} =>
          \A i \in Op[t].items : /\ conf[t][i] = Op[t].value
                                 /\ i \notin todo[t] => store[i] = Op[t].value
    BY <1>4 DEF IInv, Own
  <2>3. todo[t] \subseteq Op[t].items /\ writing[t] \subseteq todo[t]
    BY DEF IInv, Tasks
  <2>4. CASE LoadSnapshot(t) \/ LoadFiles(t) \/ SaveInvalid(t)
    BY <2>1, <2>4 DEF LoadSnapshot, LoadFiles, SaveInvalid, Goto, IInv, Typed
  <2>5. CASE ReadFile(t)
    BY <2>1, <2>5 DEF ReadFile, Goto, IInv, Typed
  <2>6. CASE Modify(t) \/ Import(t)
    <3>1. \A i \in Op[t].items : Op[t].kind # "remove" => Modified(t, conf[t])[i] = Op[t].value
      BY ModifiedValue DEF IInv, Typed
    <3> QED
      BY <2>1, <2>6, <3>1 DEF Modify, Import, Goto, IInv, Typed
  \* a write of one of its units
  <2>7. ASSUME NEW k \in todo[t], store' = Written(t, Unit(k)), AfterSave(t, k),
               pc[t] \in {"save", "write"}, conf' = conf
        PROVE  Saved
    <3>1. \A i \in Op[t].items : store'[i] = IF Unit(i) = Unit(k) THEN conf[t][i] ELSE store[i]
      BY <1>2, <2>7 DEF Written
    <3>2. todo'[t] = todo[t] \ {k}
      BY <2>7, AfterSaveType DEF IInv
    <3> QED
      BY <2>2, <2>7, <3>1, <3>2
  <2>8. CASE SaveKey(t)
    BY <2>1, <2>7, <2>8 DEF SaveKey
  <2>9. CASE RemoveFile(t)
    <3>1. PICK k \in todo[t] : /\ store' = Written(t, Unit(k)) /\ AfterSave(t, k)
                              /\ file' = [file EXCEPT ![Unit(k)] = "whole"]
      BY <2>9 DEF RemoveFile
    <3>2. Saved
      BY <2>7, <2>9, <3>1 DEF RemoveFile
    <3>3. writing[t] = {} /\ writing' = writing
      BY <2>9 DEF RemoveFile, IInv, Tasks
    <3>4. \A i \in Op[t].items : Unit(i) \in Units
      BY <1>2 DEF Units
    <3>5. Files
      BY <2>1, <3>1, <3>3, <3>4 DEF IInv, Typed
    <3> QED
      BY <3>2, <3>5
  <2>10. CASE OpenFile(t)
    <3>1. PICK k \in todo[t] : /\ writing' = [writing EXCEPT ![t] = {k}]
                              /\ file' = [file EXCEPT ![Unit(k)] = "empty"]
      BY <2>10 DEF OpenFile
    <3>2. Saved
      BY <2>2, <2>10 DEF OpenFile
    <3>3. writing[t] = {} /\ writing'[t] = {k}
      BY <2>10, <3>1 DEF OpenFile, IInv, Tasks, Typed
    <3>4. \A i \in Op[t].items : Unit(i) \in Units
      BY <1>2 DEF Units
    <3>5. Files
      BY <2>1, <3>1, <3>3, <3>4 DEF IInv, Typed
    <3> QED
      BY <3>2, <3>5
  <2>11. CASE WriteFile(t)
    <3>1. PICK k \in writing[t] :
            /\ store' = Written(t, Unit(k)) /\ AfterSave(t, k)
            /\ \E c \in IF file[Unit(k)] = "empty" THEN {"whole"} ELSE {"whole", "mixed"} :
                 file' = [file EXCEPT ![Unit(k)] = c]
      BY <2>11 DEF WriteFile
    <3>2. Saved
      BY <2>3, <2>7, <2>11, <3>1 DEF WriteFile
    <3>3. file[Unit(k)] = "empty"
      BY <2>1, <2>3
    <3>4. file' = [file EXCEPT ![Unit(k)] = "whole"]
      BY <3>1, <3>3
    <3>5. writing'[t] = {}
      BY <2>11 DEF WriteFile, IInv, Typed
    <3>6. writing[t] = {k}
      BY DEF IInv, Tasks
    <3>7. \A i \in Op[t].items : Unit(i) \in Units
      BY <1>2 DEF Units
    <3>8. Files
      BY <2>1, <3>4, <3>5, <3>6, <3>7 DEF IInv, Typed
    <3> QED
      BY <3>2, <3>8
  <2> QED
    BY <2>4, <2>5, <2>6, <2>8, <2>9, <2>10, <2>11 DEF Step
<1> QED
  BY <1>3, <1>4

\* An update, and a removal of something else, keep an item.
LEMMA ModifiedKeeps ==
  ASSUME setup \in Setup, NEW t \in Task, NEW c \in Contents, NEW i \in Item, Stays(i),
         Op[t].kind = "import" => i \in Op[t].items,
         Op[t].kind # "import" => c[i] # Absent
  PROVE  Modified(t, c)[i] # Absent
<1>1. Op[t].value # Absent /\ Op[t].kind \in {"put", "remove", "import"}
  BY StorageAssumption DEF Op
<1>2. CASE Op[t].kind = "remove"
  <2>1. PICK k \in Item : Op[t].items = {k}
    BY <1>2, StorageAssumption DEF Op
  <2>2. (CHOOSE j \in Op[t].items : TRUE) = k /\ k # i
    BY <1>2, <2>1 DEF Stays
  <2> QED
    BY <1>2, <2>2 DEF Modified, Removed, Contents
<1>3. CASE Op[t].kind # "remove"
  BY <1>1, <1>3 DEF Modified
<1> QED
  BY <1>2, <1>3

\* etcd: an item that no task takes away is in every snapshot and in every unit that is
\* written back.
LEMMA SnapshotsStep ==
  ASSUME IInv, NEW t \in Task, Step(t)
  PROVE  Snapshots'
<1>1. setup' = setup
  BY OtherTasks
<1> SUFFICES ASSUME Etcd
             PROVE  /\ \A o \in Task : pc'[o] \notin {"loading", "write"}
                    /\ \A i \in Item : Stays(i) =>
                         /\ store'[i] # Absent
                         /\ \A o \in Task :
                              /\ pc'[o] \in {"loaded", "save", "done"}
                              /\ Op[o].kind = "import" => i \in Op[o].items
                              => conf'[o][i] # Absent
  BY <1>1, SameUnits DEF Snapshots
<1>2. LoadSnapshot(t) \/ Modify(t) \/ Import(t) \/ SaveInvalid(t) \/ SaveKey(t)
  BY DEF Step, LoadFiles, ReadFile, RemoveFile, OpenFile, WriteFile, IInv, Snapshots
<1>3. pc'[t] \notin {"loading", "write"}
  BY <1>2, AfterSaveType
  DEF LoadSnapshot, Modify, Import, SaveInvalid, SaveKey, Goto, IInv, Typed
<1>4. \A o \in Task : pc'[o] \notin {"loading", "write"}
  BY <1>3, OtherTasks DEF IInv, Snapshots
<1>5. ASSUME NEW i \in Item, Stays(i)
      PROVE  /\ store'[i] # Absent
             /\ /\ pc'[t] \in {"loaded", "save", "done"}
                /\ Op[t].kind = "import" => i \in Op[t].items
                => conf'[t][i] # Absent
  <2>1. /\ store[i] # Absent
        /\ /\ pc[t] \in {"loaded", "save", "done"}
           /\ Op[t].kind = "import" => i \in Op[t].items
           => conf[t][i] # Absent
    BY <1>5 DEF IInv, Snapshots
  <2>2. CASE LoadSnapshot(t)
    BY <2>1, <2>2 DEF LoadSnapshot, IInv, Typed
  <2>3. CASE Modify(t)
    <3>1. CASE Op[t].kind # "import" \/ i \in Op[t].items
      <4>1. Op[t].kind # "import" => conf[t][i] # Absent
        BY <2>1, <2>3 DEF Modify
      <4>2. Modified(t, conf[t])[i] # Absent
        BY <1>5, <3>1, <4>1, ModifiedKeeps DEF IInv, Typed
      <4> QED
        BY <2>1, <2>3, <4>2 DEF Modify, Goto, IInv, Typed
    <3>2. CASE Op[t].kind = "import" /\ i \notin Op[t].items
      BY <2>1, <2>3, <3>2 DEF Modify
    <3> QED
      BY <3>1, <3>2
  <2>4. CASE Import(t)
    <3>1. CASE i \in Op[t].items
      <4>1. Modified(t, conf[t])[i] # Absent
        BY <1>5, <2>4, <3>1, ModifiedKeeps DEF Import, IInv, Typed
      <4> QED
        BY <2>1, <2>4, <4>1 DEF Import, IInv, Typed
    <3>2. CASE i \notin Op[t].items
      BY <2>1, <2>4, <3>2 DEF Import
    <3> QED
      BY <3>1, <3>2
  <2>5. CASE SaveInvalid(t)
    BY <2>1, <2>5 DEF SaveInvalid, Goto, IInv, Typed
  <2>6. CASE SaveKey(t)
    <3>1. PICK k \in todo[t] : store' = Written(t, Unit(k))
      BY <2>6 DEF SaveKey
    <3>2. store'[i] = IF Unit(i) = Unit(k) THEN conf[t][i] ELSE store[i]
      BY <3>1 DEF Written
    <3>3. Unit(i) = Unit(k) /\ Op[t].kind = "import" => i \in Op[t].items
      BY <1>5 DEF Stays, Saves, IInv, Tasks
    <3>4. pc[t] = "save" /\ conf' = conf
      BY <2>6 DEF SaveKey
    <3> QED
      BY <2>1, <3>2, <3>3, <3>4
  <2> QED
    BY <1>2, <2>2, <2>3, <2>4, <2>5, <2>6
<1>6. ASSUME NEW i \in Item, Stays(i), NEW o \in Task \ {t},
             pc'[o] \in {"loaded", "save", "done"},
             Op[o].kind = "import" => i \in Op[o].items
      PROVE  conf'[o][i] # Absent
  BY <1>6, OtherTasks DEF IInv, Snapshots
<1> QED
  BY <1>4, <1>5, <1>6

-----------------------------------------------------------------------------
\* The invariant holds in every behaviour of the storage and its tasks.
THEOREM StorageInvariance == Spec => []IInv
<1>1. Init => IInv
  <2> SUFFICES ASSUME Init PROVE IInv
    OBVIOUS
  <2>1. Typed
    BY StorageAssumption DEF Init, Typed, Contents
  <2>2. Tasks
    BY DEF Init, Tasks
  <2>3. Own
    <3>1. \A t \in Task : Op[t].items \subseteq Item
      BY <2>1, StorageAssumption DEF Typed, Op
    <3> QED
      BY <3>1 DEF Init, Own, Units
  <2>4. Snapshots
    BY DEF Init, Snapshots, Stays
  <2> QED
    BY <2>1, <2>2, <2>3, <2>4 DEF IInv
<1>2. IInv /\ [Next]_vars => IInv'
  <2> SUFFICES ASSUME IInv, [Next]_vars PROVE IInv'
    OBVIOUS
  <2>1. Typed'
    BY TypeStep DEF IInv
  <2>2. ASSUME NEW t \in Task, Step(t) PROVE IInv'
    BY <2>1, <2>2, TasksStep, OwnStep, SnapshotsStep DEF IInv
  <2>3. CASE UNCHANGED vars
    <3>1. Tasks'
      BY <2>3 DEF vars, IInv, Tasks, Op
    <3>2. Own'
      <4>1. \A t \in Task : Op[t].items \subseteq Item /\ writing[t] \subseteq Item
        BY StorageAssumption DEF IInv, Typed, Op
      <4> QED
        BY <2>3, <4>1, SameUnits DEF vars, IInv, Own
    <3>3. Snapshots'
      BY <2>3, SameUnits DEF vars, IInv, Snapshots
    <3> QED
      BY <2>1, <3>1, <3>2, <3>3 DEF IInv
  <2> QED
    BY <2>2, <2>3 DEF Next
<1> QED
  BY <1>1, <1>2, PTL DEF Spec

\* The contents of the storage and what the tasks hold have their types, for any items,
\* tasks, operations and layouts.
THEOREM StorageTypes == Spec => []TypeOK
<1>1. IInv => TypeOK
  BY DEF IInv, Tasks, TypeOK
<1> QED
  BY <1>1, StorageInvariance, PTL

\* An update or an import that has been answered is in the storage, whole, whatever any
\* number of other tasks load and save meanwhile, unless one saves the same unit.
THEOREM UpdatesKept == Spec => []UpdateKept
<1>1. IInv => UpdateKept
  <2> SUFFICES ASSUME IInv, NEW t \in Task, pc[t] = "done", Op[t].kind # "remove", Exclusive(t)
               PROVE  Kept(t)
    BY DEF UpdateKept, Exclusive
  <2>1. todo[t] = {} /\ writing[t] = {}
    BY DEF IInv, Tasks
  <2> QED
    BY <2>1 DEF Kept, IInv, Own
<1> QED
  BY <1>1, StorageInvariance, PTL

\* etcd: an item that was there and that no task removes or replaces is in every
\* configuration that any task has loaded.
THEOREM NoItemVanishes == Spec => []NothingVanishes
<1>1. IInv => NothingVanishes
  BY DEF NothingVanishes, IInv, Snapshots, Stays
<1> QED
  BY <1>1, StorageInvariance, PTL
=============================================================================
