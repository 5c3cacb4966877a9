-------------------------- MODULE MCBackendGroups --------------------------
(* An instance of BackendGroups for TLC. *)
EXTENDS BackendGroups

CONSTANTS k1, k2, e1, e2, r1

TwoKeys == {k1, k2}
OneEach == [k \in TwoKeys |-> IF k = k1 THEN {e1} ELSE {e2}]

Config(R, F) == [routes |-> R, forward |-> F]

\* Targets resolve anew and endpoints fail under a pool of two members; routes
\* come and go under a pool of one, in the running revision and with reloads.
Environments == {
    [env |-> {"dns"}, configs |-> {Config({}, {k2})}, pools |-> {{k1, k2}}, flaky |-> {e1}],
    [env |-> {"hot", "idle"}, configs |-> {Config({k1}, {}), Config({}, {})}, pools |-> {{k1}}, flaky |-> {}],
    [env |-> {"reload"}, configs |-> {Config({k1}, {k2}), Config({}, {k2})}, pools |-> {{k1}}, flaky |-> {}]}
=============================================================================
