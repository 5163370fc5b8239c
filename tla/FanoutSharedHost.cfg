CONSTANTS
  Sources = {"github", "apollo", "remoteok", "ghost"}
  Words = {acme, bolt, mail, jane}
  Spellings = {"lower", "upper"}
  Hosts = {acmeHost, githubHost, remoteokHost}
  aggregatorDomains = {remoteokHost}
  None = None
  Requested <- GithubAndApollo
  Registered = {"github", "apollo", "remoteok"}
  RequiresKey = {"apollo"}
  Saved = {"apollo"}
  Offers <- MCOffers
  acme = acme
  bolt = bolt
  mail = mail
  jane = jane
  acmeHost = acmeHost
  githubHost = githubHost
  remoteokHost = remoteokHost
SPECIFICATION Spec
CHECK_DEADLOCK FALSE
INVARIANT SharedHostIsNoKey
