----------------------- MODULE MC_MigratableResources -----------------------
(* Five group versions, one of them with a name that cannot be parsed.     *)
EXTENDS MigratableResources

GV(g, v, ok) == [group |-> g, version |-> v, valid |-> ok]
MCGroupVersions ==
  <<GV("apps", "v1", TRUE), GV("apps", "v1/x", FALSE), GV("example.com", "v1", TRUE),
    GV("extensions", "v1beta1", TRUE), GV("metrics", "v1", TRUE)>>
MCNames == {"deployments", "deployments/status", "events"}
MCSubresources == {"deployments/status"}

\* deployments with fewer verbs, all verbs or not at all; the others or not.
Full == {"list", "update"}
MCResourceLists ==
  {[n \in {"deployments"} \cup S |-> IF n = "deployments" THEN verbs ELSE Full] :
     verbs \in {{"list"}, Full}, S \in {{}, {"deployments/status", "events"}}}
  \cup {[n \in {"events"} |-> Full]}
=============================================================================
