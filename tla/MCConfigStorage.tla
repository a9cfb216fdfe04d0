-------------------------- MODULE MCConfigStorage --------------------------
(* Small instances of ConfigStorage.                                         *)
EXTENDS ConfigStorage

It(c, n) == [category |-> c, name |-> n]
U1 == It("upstream", "u1")
U2 == It("upstream", "u2")
La == It("location", "a")
Ca == It("certificate", "c")
St == It("storage", "s")

MCItem == {U1, U2, La, Ca, St}
\* "x" and "y" refer to nothing, "to_u2" is a location that proxies to u2
MCValue == {"x", "y", "z", "to_u1", "to_u2"}
MCRefs == [v \in MCValue |-> IF v = "to_u1" THEN {U1} ELSE IF v = "to_u2" THEN {U2} ELSE {}]
MCInitial == [i \in MCItem |-> IF i = La THEN "to_u1" ELSE "x"]

OpOf(k, is, v) == [kind |-> k, items |-> is, value |-> v]

\* u2 is removed while the location is pointed to it
SkewOp == [t1 |-> OpOf("remove", {U2}, "x"), t2 |-> OpOf("put", {La}, "to_u2"),
           t3 |-> OpOf("put", {Ca}, "y")]
\* an import of two items next to an update of another and a removal
ImportOp == [t1 |-> OpOf("import", {U1, St}, "z"), t2 |-> OpOf("put", {Ca}, "y"),
             t3 |-> OpOf("remove", {U2}, "x")]
\* the same with the location pointed to the upstream that is removed
NamesOp == [t1 |-> OpOf("import", {U1, St}, "z"), t2 |-> OpOf("put", {La}, "to_u2"),
            t3 |-> OpOf("remove", {U2}, "x")]
\* updates of three categories
UpdateOp == [t1 |-> OpOf("put", {U1}, "y"), t2 |-> OpOf("put", {Ca}, "y"),
             t3 |-> OpOf("put", {La}, "to_u2")]

With(l, e, o) == [layout |-> l, etcd |-> e, op |-> o]
MCSetup == {With("category", FALSE, ImportOp), With("name", FALSE, NamesOp),
            With("name", TRUE, ImportOp), With("category", TRUE, UpdateOp),
            With("category", TRUE, ImportOp),
            With("file", FALSE, UpdateOp)}
SkewSetup == {With("name", TRUE, SkewOp)}
=============================================================================
