-------------------------- MODULE MCServiceRelease --------------------------
(* An OpenStack service that loses a release, which comes first, and gains  *)
(* it again, and a service that is deleted.                                 *)
EXTENDS ServiceRelease

MCServices == {"image", "redis"}
MCReleases == {"rabbitmq", "glance", "operator"}
MCBundle ==
  [image |-> <<<<"rabbitmq", "glance">>, <<"glance">>, <<"rabbitmq", "glance">>>>,
   redis |-> <<<<"operator">>, <<"operator">>, <<>>>>]
MCAvailable == [image |-> {"rabbitmq", "glance"}, redis |-> {"operator"}]
MCUpgradeOrder == <<"image">>
MCMainRelease == [image |-> "glance", redis |-> "operator"]
MCAgentsFirst == [image |-> <<[obj |-> "server", purge |-> FALSE]>>, redis |-> <<>>]
=============================================================================
