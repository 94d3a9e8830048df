\* The same fairness, but nothing makes an SSH server hang up.
SPECIFICATION FairSpec
CONSTANTS
  tls = tls
  ssh = ssh
  Nil = Nil
  Jobs = {j1}
  Clients = {}
  Targets <- MCTargets
  SshTargets <- MCSshTargets
  Found <- MCNothingFound
PROPERTY ScansEnd
CHECK_DEADLOCK FALSE
