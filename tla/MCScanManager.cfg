\* One job and one poller: every interleaving of stores and loads, and restarts; an
\* SSH server that hangs up sooner or later.
SPECIFICATION HangUpSpec
CONSTANTS
  tls = tls
  ssh = ssh
  Nil = Nil
  Jobs = {j1}
  Clients = {c1}
  Targets <- MCTargets
  SshTargets <- MCSshTargets
  Found <- MCFound
INVARIANTS ReportComplete AnsweredReportIsFinal
PROPERTIES PollsNeverRegress ServiceSpec ScansEnd ContextBoundsScan PollersStop
CHECK_DEADLOCK FALSE
