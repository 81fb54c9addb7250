\* A process from its start, three writes of the config or a certificate.
SPECIFICATION FairSpec
CONSTANTS
  Configs <- AllConfigs
  InitConfig <- Split
  Certs <- MCCerts
  MaxWrites = 3
INVARIANTS NoBindGap ReportedAsApplied
PROPERTY WatchedConfigRead
CHECK_DEADLOCK FALSE
