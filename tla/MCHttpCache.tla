---------------------------- MODULE MCHttpCache ----------------------------
(* Small instances of HttpCache.                                             *)
EXTENDS HttpCache, TLC

Conf(b, n, l, max) == [backend |-> b, namespace |-> n, large |-> l,
                       readingMax |-> max, writingMax |-> max]
MCSetup == {Conf("tiny", TRUE, FALSE, 0), Conf("file", TRUE, FALSE, 0),
            Conf("both", FALSE, FALSE, 0), Conf("both", TRUE, TRUE, 1)}
LargeSetup == {Conf("both", FALSE, TRUE, 0)}
Requests == Permutations(Worker)
=============================================================================
