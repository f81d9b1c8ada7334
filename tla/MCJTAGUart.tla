----------------------------- MODULE MCJTAGUart -----------------------------
EXTENDS AlteraJTAGUart

CONSTANTS r, v, w, x, y

MCStrings == {<<x, y>>}
App(T, b, k) == [tasks |-> T, sends |-> b, buf |-> k]
MCApps == {App({r}, {x, y}, 2), App({v, w}, {}, 2), App({v}, {}, 3), App({r, v}, {}, 2)}
=============================================================================
