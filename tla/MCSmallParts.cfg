SPECIFICATION MCSpec
CONSTANTS
  Pollers = {p, q}
  Owner = Owner
  Stranger = Stranger
  MinInterval = 1
  IntervalStep = 1
  MaxInterval = 3
  MaxPolls = 4
  Lifetime = 4
  NoTime = NoTime
  NoPoller = NoPoller
  MaxClock = 4
  Population = 5
  PageSize = 2
  MaxPages = 2
  Sources = {"core.cljs"}
  Tests = {"core_test.cljs"}
  Support = {"fixture.mjs"}
  Others = {"deps.edn"}
  Expected = {"core_test.cljs", "fixture.mjs"}
  Versions = {"one", "two"}
  MaxEdits = 2
  Planned <- OneAndTwo
  MaxTests = 2
  Builds = 2
  MaxLayers = 2
  Workers <- TwoWorkers
  Collectors = {c, d}
  Enough = 1
  MaxRows = 2
  MaxTreeEdits = 1
  MaxAdoptions = 1
INVARIANTS PollingSound ListingHonest HarnessExact KillsByAssertion ValidatorsAgree SitesExact ConsistentCut BundleWhole
CHECK_DEADLOCK FALSE
