----------------------------- MODULE MCUpdateGate -----------------------------
EXTENDS UpdateGate, TLC

CONSTANTS a, b, build, call, answer, search

\* Two agents: a wiki build with a model call inside it, both of one agent, and an answer
\* of the other agent, whose tool searches with the first one.
TwoAgents == build :> a @@ call :> a @@ answer :> b @@ search :> a
Nested == build :> {} @@ call :> {build} @@ answer :> {} @@ search :> {answer}
===============================================================================
