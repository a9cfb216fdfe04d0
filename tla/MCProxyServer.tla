--------------------------- MODULE MCProxyServer ---------------------------
(* Small instances of ProxyServer.                                           *)
EXTENDS ProxyServer

CONSTANTS r1, r2, r3

Selector(k, v) == [kind |-> k, value |-> v]
Conf(path, hosts, mx, lim, grpc, us) ==
  [path |-> path, hosts |-> hosts, max |-> mx, limit |-> lim, grpcUnavailable |-> grpc,
   upstreams |-> us]

\* a path is the sequence of its characters
PathA == <<"/", "a">>
PathAx == <<"/", "a", "x">>
PathC == <<"/", "c">>

\* two locations, "a" with a limit of one request and of one byte, and "b"
ConfA  == Conf(Selector("prefix", PathA), {Selector("equal", "h")}, 1, 1, FALSE, {"u"})
ConfA2 == Conf(Selector("equal", PathAx),
               {Selector("equal", "g"), Selector("regex", {"h", "hh"})}, 1, 0, FALSE,
               {"u", "v"})    \* upstream = "$variable"
ConfB  == Conf(Selector("regex", {PathA, PathAx}), {}, 0, 0, TRUE, {"v"})

MCLocName == {"a", "b"}
MCUpName  == {"u", "v"}
MCLocConf == {ConfA, ConfA2, ConfB}
MCUpConf  == {"k1", "k2"}

In(h, p, l, b) == [host |-> h, path |-> p, length |-> l, body |-> b]
MCInput == {In("h", PathAx, 0, 2), In("h", PathAx, 2, 2), In("g", PathC, 0, 0)}

Table(a, b) == [n \in MCLocName |-> IF n = "a" THEN a ELSE b]
UTable(u, v) == [n \in MCUpName |-> IF n = "u" THEN u ELSE v]
MCLocTable == {Table(ConfA, ConfB), Table(ConfA2, NoConf)}
MCUpTable  == {UTable("k1", NoConf), UTable("k2", NoConf)}
MCServerList == {NoList, <<"a", "b">>}

\* one location, no reload: requests that fit and requests that do not
OneTable == {Table(ConfA, NoConf)}
OneUpTable == {UTable("k1", NoConf)}
OneList == {<<"a">>}
LargeInput == {In("h", PathA, 0, 0), In("h", PathA, 2, 2)}
=============================================================================
