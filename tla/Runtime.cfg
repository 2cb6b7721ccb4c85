\* Two processes start at once; one of them serves, drains and restarts.
CONSTANTS
  Processes = {p1, p2}
  Services = {"secrets", "sink"}
  Runners <- FewMigrations
  self = p1
  Conns = {c1, c2}
  MaxNetworkConns = 1
SPECIFICATION FairSpec
INVARIANTS SlotsExact ServesMigrated MigrationsExclusive ExitTruthful
PROPERTIES StartupEnds ShutdownEnds SinkStopsInTime
