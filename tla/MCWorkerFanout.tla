--------------------------- MODULE MCWorkerFanout ---------------------------
(* Instances of WorkerFanout for TLC: five leads of two companies.         *)
EXTENDS WorkerFanout

CONSTANTS acme, bolt, mail, jane            \* words
CONSTANTS acmeHost, githubHost, remoteokHost \* hosts

Lead(source, name, website, email) ==
  [Source |-> source, BusinessName |-> name, Website |-> website,
   Email |-> email, ContactName |-> None]

Plain(word) == [word |-> word, spelling |-> "lower"]
Caps(word)  == [word |-> word, spelling |-> "upper"]
Site(host)  == [host |-> host, www |-> FALSE]

\* github.go:142 makes up a github.com website for an organisation without one.
Github1 == Lead("github", Plain(acme), Site(githubHost), None)
Github2 == Lead("github", Plain(bolt), Site(githubHost), None)
\* The same company, with its own site and with an email.
Apollo1 == Lead("apollo", Caps(acme), [host |-> acmeHost, www |-> TRUE], None)
Apollo2 == Lead("apollo", Caps(acme), Site(acmeHost), Caps(mail))
\* A site on a known aggregator counts as no site, and so does one without a scheme.
Remote1 == Lead("remoteok", Caps(bolt), Site(remoteokHost), None)
Remote2 == Lead("remoteok", Plain(bolt), Site(None), None)
\* Nothing but a source.
Empty   == Lead("remoteok", None, None, None)

MCOffers ==
  [p \in Sources |->
     CASE p = "github"   -> {<<>>, <<Github1, Github2>>}
       [] p = "apollo"   -> {<<Apollo1>>, <<Apollo2, Apollo1>>}
       [] p = "remoteok" -> {<<Remote1, Empty, Remote2, Empty>>}
       [] OTHER          -> {<<>>}]

\* One provider twice, and one that does not exist; any of them may lack its key.
MCRequested == <<"apollo", "remoteok", "apollo", "ghost">>
GithubAndApollo == <<"github", "apollo">>
=============================================================================
