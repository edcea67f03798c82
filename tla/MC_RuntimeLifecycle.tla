------------------------ MODULE MC_RuntimeLifecycle ------------------------
EXTENDS RuntimeLifecycle

CONSTANTS c1, c2
MCCallables == {c1, c2}
====
