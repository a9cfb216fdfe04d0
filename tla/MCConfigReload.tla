--------------------------- MODULE MCConfigReload ---------------------------
(* Small instances of ConfigReload: one server, two locations, two upstreams *)
EXTENDS ConfigReload

L(n, us, w) == [name |-> n, uses |-> us, weight |-> w]
A1 == L("a", {"u1"}, 1)
A2 == L("a", {"u2"}, 1)
AX == L("a", {"u1"}, 0)     \* its path is not a regular expression
B  == L("b", {}, 2)

BrokenLocSet == {AX}
C(v, a) == [ver |-> v, acme |-> a]

Small == [up |-> {{"u1"}}, loc |-> {{A1, B}}, plugin |-> {{}}, cert |-> {C(0, FALSE)},
          list |-> {<<"a", "b">>}, core |-> {0}]
Ups == {{"u1"}, {"u2"}, {"u1", "u2"}}
Large == [up |-> Ups, loc |-> {{A1, B}, {A2, B}}, plugin |-> {{}, {"p"}},
          cert |-> {C(0, FALSE), C(1, FALSE)}, list |-> {<<"a", "b">>, <<"b">>},
          core |-> {0, 1}]
Core == [Small EXCEPT !.up = Ups, !.cert = {C(0, FALSE), C(0, TRUE)}, !.core = {0, 1}]
Broken == [Small EXCEPT !.loc = {{A1, B}, {AX, B}}, !.list = {<<"a", "b">>, <<"b">>}]

Run(o, h, e, v, s, n) == [observer |-> o, hotOnly |-> h, interval |-> 20, hand |-> e,
                          section |-> v, edit |-> s, restarts |-> n, renewals |-> n]
\* --autoreload with a file edited by hand; the observer with etcd; -a with a file,
\* where every second run may restart, admin restarts and renewals in between; a
\* certificate that becomes one of ACME; -a with an interval no run of which restarts
AllModes == {Run(FALSE, TRUE, TRUE, Large, Section, 0),
             Run(TRUE, FALSE, FALSE, Large, Section, 0),
             Run(FALSE, FALSE, FALSE, Core, {"up", "core"}, 1),
             Run(FALSE, FALSE, TRUE, Core, {"up", "core"}, 1),
             Run(FALSE, FALSE, FALSE, Core, {"cert", "core"}, 0),
             [Run(FALSE, FALSE, FALSE, Core, {"up", "core"}, 1) EXCEPT !.interval = 10]}
BrokenMode == {Run(FALSE, TRUE, FALSE, Broken, Section, 0)}
\* --autoreload with a certificate of ACME
AcmeMode == {[Run(FALSE, TRUE, FALSE,
                  [Small EXCEPT !.up = Ups, !.loc = {{A1, B}, {A2, B}},
                                !.cert = {C(0, TRUE)}], {"up"}, 1) EXCEPT !.restarts = 0]}
=============================================================================
