\* The five scenarios of nar_renderer.rs, and every root directory of up to
\* two children drawn from a pool of six nodes (43 directories).
CONSTANT Scenarios <- MCScenarios
SPECIFICATION Spec
INVARIANTS RendersNar MatchesTests
\* write_nar has returned (Ok or an error): the renderer stops.
CHECK_DEADLOCK FALSE
