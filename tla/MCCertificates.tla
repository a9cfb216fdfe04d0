--------------------------- MODULE MCCertificates ---------------------------
EXTENDS Certificates

Cert == [ver |-> 0, has |-> TRUE, ok |-> TRUE, names |-> <<>>, pem |-> {}, default |-> FALSE,
         ca |-> FALSE, signs |-> FALSE, acme |-> FALSE, buffer |-> 0, from |-> 0, until |-> 9]
A == <<"a", "com">>
WwwA == <<"www", "a", "com">>
StarA == <<"*", "a", "com">>
B == <<"b", "com">>

\* nothing happens but what a setup adds
Quiet ==
  [conf |-> <<>>, tables |-> {}, snis |-> {A}, handshakes |-> {1}, separate |-> FALSE,
   hellos |-> 0, edits |-> 0, reloads |-> 0, restarts |-> 0, failures |-> 0, days |-> 4]

\* a name, its wildcard and a default; the first ends, breaks, or goes to another
Site == [Cert EXCEPT !.pem = {A, StarA}, !.until = 3, !.buffer = 1]
Www == [Cert EXCEPT !.names = <<WwwA>>, !.pem = {WwwA}, !.from = 2]
Any == [Cert EXCEPT !.pem = {B}, !.default = TRUE]
Choice ==
  [Quiet EXCEPT
     !.conf = [site |-> Site, www |-> Www, any |-> Any],
     !.tables = {[site |-> [Site EXCEPT !.ver = 1, !.ok = FALSE], www |-> Www],
                 [site |-> [Site EXCEPT !.ver = 1, !.until = 9, !.names = <<A, WwwA>>],
                  www |-> Www, any |-> [Any EXCEPT !.has = FALSE]]},
     !.snis = {A, WwwA, B, Default}, !.hellos = 1, !.edits = 2, !.reloads = 2, !.days = 5]

\* two CAs, one of them replaced, one that cannot sign
Root == [Cert EXCEPT !.ca = TRUE, !.signs = TRUE, !.default = TRUE]
Root2 == [Cert EXCEPT !.ca = TRUE, !.signs = TRUE, !.pem = {StarA}]
Leaves ==
  [Quiet EXCEPT !.conf = [root |-> Root], !.snis = {A, WwwA}, !.handshakes = {1, 2},
                !.hellos = 4]
Roots ==
  [Quiet EXCEPT
     !.conf = [root |-> Root, root2 |-> Root2],
     !.tables = {[root |-> [Root EXCEPT !.ver = 1, !.until = 2]],
                 [root |-> [Root EXCEPT !.ver = 1, !.signs = FALSE]]},
     !.snis = {WwwA}, !.handshakes = {1, 2}, !.hellos = 3, !.edits = 1, !.reloads = 1, !.days = 3]

\* two certificates of ACME, whose domains and items change while they are renewed
Acme1 == [Cert EXCEPT !.acme = TRUE, !.names = <<B, A>>, !.has = FALSE, !.until = 0]
Other == [Cert EXCEPT !.acme = TRUE, !.names = <<WwwA>>, !.pem = {WwwA}, !.until = 4]
Site1 == [Acme1 EXCEPT !.names = <<A>>, !.buffer = 1]
Renewing ==
  [Quiet EXCEPT !.conf = [acme |-> Acme1, other |-> Other], !.tables = {[acme |-> Site1]},
                !.separate = TRUE, !.edits = 1, !.restarts = 1, !.failures = 1]

\* reloads that overlap renewals; the certificate goes and comes back without its PEM
Crossing ==
  [Quiet EXCEPT !.conf = [acme |-> Site1], !.tables = {[any |-> Any], [acme |-> Site1]},
                !.hellos = 1, !.edits = 2, !.reloads = 2, !.days = 2]

\* ACME comes later: the reload leaves it alone, a restart takes it up
Late ==
  [Quiet EXCEPT !.conf = [any |-> Any], !.tables = {[any |-> Any, acme |-> Site1]},
                !.hellos = 1, !.edits = 1, !.reloads = 2, !.restarts = 1, !.days = 3]

Setups == {Choice, Leaves, Roots, Renewing, Crossing, Late}
=============================================================================
