\* What the scanner page assumes of a completed scan.
SPECIFICATION Spec
CONSTANTS
  tls = tls
  ssh = ssh
  Nil = Nil
  Jobs = {j1}
  Clients = {c1}
  Targets <- MCTargets
  SshTargets <- MCSshTargets
  Found <- MCNothingFound
INVARIANT CompletedMeansHundred
CHECK_DEADLOCK FALSE
