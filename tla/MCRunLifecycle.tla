--------------------------- MODULE MCRunLifecycle ---------------------------
(***************************************************************************)
(* Instances of RunLifecycle for TLC.                                      *)
(***************************************************************************)
EXTENDS RunLifecycle

CONSTANTS s1, s2, w1, w2

OneScraper == {s1}
TwoScrapers == {s1, s2}
TwoWorkers == {w1, w2}
OneWorker == {w1}

AllSources == {"web", "mcp", "cron"}
WebOnly == {"web"}

=============================================================================
