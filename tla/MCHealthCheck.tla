--------------------------- MODULE MCHealthCheck ---------------------------
(* Small instances of HealthCheck.                                           *)
EXTENDS HealthCheck, TLC

Up(addrs) == [discovery |-> None, addrs |-> addrs, tls |-> FALSE, update |-> 0, query |-> None]
Ip(host, port) == [host |-> host, isName |-> FALSE, port |-> port]
Name(host, port) == [host |-> host, isName |-> TRUE, port |-> port]

\* a static upstream checked on every twentieth run, one found by DNS every 20 s and taken
\* out after three probes, containers found before every check, a transparent one,
\* and one that is never checked
MCConf ==
  [static |-> [Up(<<Ip("s", None)>>) EXCEPT !.query = [check_frequency |-> 195, failure |-> 1]],
   dns |-> [Up(<<Name("d1", 1), Name("d2", 2)>>) EXCEPT
              !.update = 20, !.query = [failure |-> 3, tries |-> 0]],
   docker |-> [Up(<<Ip("c", None), Ip("e", 8)>>) EXCEPT !.discovery = "docker", !.update = 10],
   direct |-> [Up(<<Ip("*", None)>>) EXCEPT !.discovery = "transparent"],
   quick |-> [Up(<<Ip("q", None)>>) EXCEPT !.tls = TRUE, !.query = [check_frequency |-> 0]]]
MCSetup == {{"static", "direct"}, {"dns"}, {"docker"}, {"quick"}}
=============================================================================
