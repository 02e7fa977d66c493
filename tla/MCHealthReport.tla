--------------------------- MODULE MCHealthReport ---------------------------
(* Objects of two applications whose names and labels resemble each other. *)
EXTENDS HealthReport

MCObjects == {"queue", "novaqueue", "compute", "exporter"}
MCMeta ==
  [queue |-> [kind |-> "StatefulSet", name |-> <<"openstack", "rabbitmq", "rabbitmq">>,
              application |-> <<"rabbitmq">>, component |-> <<"server">>],
   novaqueue |-> [kind |-> "StatefulSet", name |-> <<"openstack", "nova", "rabbitmq", "rabbitmq">>,
                  application |-> <<"rabbitmq">>, component |-> <<"server">>],
   compute |-> [kind |-> "DaemonSet", name |-> <<"nova", "compute", "default">>,
                application |-> <<"nova">>, component |-> <<"compute">>],
   exporter |-> [kind |-> "Deployment", name |-> <<"openstack", "nova", "rabbitmq", "rabbitmq", "exporter">>,
                 application |-> <<"prometheus", "rabbitmq", "exporter">>, component |-> <<"exporter">>]]
=============================================================================
