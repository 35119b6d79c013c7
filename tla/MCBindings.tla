----------------------------- MODULE MCBindings -----------------------------
(* Instances of Bindings: threads that keep to their own scanners, as the  *)
(* documentation of ScratchInUse asks, and threads that share one.         *)
EXTENDS Bindings

CONSTANTS t1, t2, d1, d2, k1, k2, x1, x2

Program(threads, databases, scanners, streams, mayUse, maxDepth) ==
    [threads |-> threads, databases |-> databases, scanners |-> scanners,
     streams |-> streams, mayUse |-> mayUse, maxDepth |-> maxDepth]

\* One thread whose callbacks call back in, three calls deep.
Nested == Program({t1}, {d1, d2}, {k1, k2}, {x1, x2}, [t \in {t1} |-> {k1, k2}], 3)

\* Two threads with a scanner each, cloned and dropped by either.
Apart ==
    Program({t1, t2}, {d1}, {k1, k2}, {x1, x2},
            [t \in {t1, t2} |-> IF t = t1 THEN {k1} ELSE {k2}], 1)

Shared == Program({t1, t2}, {d1}, {k1}, {x1, x2}, [t \in {t1, t2} |-> {k1}], 1)

OneStream == Program({t1}, {d1}, {k1}, {x1}, [t \in {t1} |-> {k1}], 1)

TwoStreams == Program({t1}, {d1}, {k1}, {x1, x2}, [t \in {t1} |-> {k1}], 2)

OwnScanners == {Nested, Apart}
SharedScanner == {Shared}
LeakPrograms == {OneStream}
ClosePrograms == {TwoStreams}
=============================================================================
