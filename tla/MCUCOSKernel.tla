---------------------------- MODULE MCUCOSKernel ----------------------------
EXTENDS UCOSKernel, TLC

CONSTANTS a, b, c, e1, e2, m1, m2

MCBase == (a :> 2) @@ (b :> 3) @@ (c :> 4)
Want(f, w, k) == [flags |-> f, wait |-> w, consume |-> k]
MCApps == {{"SEM", "TIMEOUT", "DELAY", "DELETE", "ABORT", "SET", a, b, c, e1},
           {"SEM", "SUSPEND", "DELAY", "TIMEOUT", a, b, e1},
           {"SEM", "CHANGE", "TIMEOUT", "DELAY", "ABORT", a, b, e1},
           {"SEM", "TASKS", a, b, e1},
           {"TASKS", a, b, c},
           {"SEM", "LOCK", "TIMEOUT", a, b, c, e1},
           {"MUTEX", "TIMEOUT", "DELAY", "DELETE", a, b, c, e1},
           {"MUTEX", "SEM", a, b, c, e1, e2},
           {"MUTEX", "LOCK", a, b, c, e1, e2},
           {"MBOX", "TIMEOUT", "DELETE", "ABORT", a, b, c, e1},
           {"Q", "DELETE", "TIMEOUT", "ABORT", a, b, e1},
           {"Q", "MULTI", a, b, e1},
           {"MULTI", "SEM", "MBOX", a, b, e1, e2},
           {"MULTI", "SEM", "TIMEOUT", "DELETE", a, b, e1, e2},
           {"MULTI", "SEM", "MBOX", "TIMEOUT", "DELETE", "ABORT", "DELAY", a, b, e1},
           {"FLAG", "SUSPEND", a, b},
           {"FLAG", "TIMEOUT", "DELETE", a, b}}
MCWants == {Want({1, 2}, "SET_ANY", TRUE), Want({1, 2}, "SET_ALL", FALSE)}
MCChanges == {{1}, {2}}
MCSymmetry == Permutations({m1, m2})
=============================================================================
