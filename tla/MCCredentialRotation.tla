------------------------ MODULE MCCredentialRotation ------------------------
(* Deployments for CredentialRotation: one whose credentials are rotated   *)
(* while a service is added, and several that differ in which services     *)
(* wait for which.                                                         *)
EXTENDS CredentialRotation

Rotated ==
  [services |-> {"identity", "cloudprober", "database", "messaging"},
   options |-> {}, later |-> {"key-manager"}, external |-> {}, rotations |-> 2,
   careful |-> TRUE, former |-> 0]

Installed(services, options, external) ==
  [services |-> services, options |-> options, external |-> external,
   later |-> {}, rotations |-> 0, careful |-> TRUE, former |-> 0]

Hasty == [Rotated EXCEPT !.services = @ \ {"cloudprober"}, !.rotations = 1,
                           !.careful = FALSE]

Hurried == [Hasty EXCEPT !.rotations = 2, !.later = {}]

Recreated == [Hasty EXCEPT !.former = 2, !.later = {}]

MCDeployments ==
  {Rotated, Hasty, Hurried, Recreated,
   Installed({"identity", "image", "networking", "compute", "placement", "baremetal"},
             {"placement", "rbd", "ephemeral", "ngs", "tls"}, {"ceph-keys"}),
   Installed({"metering", "event", "metric", "redis", "object-storage", "messaging"},
             {"topics", "stacklight"}, {"ceph-keys", "rgw-urls"}),
   Installed({"orchestration", "load-balancer", "redis", "networking", "compute",
              "identity"}, {"tf"}, {"tf-data"}),
   Installed({"shared-file-system", "block-storage", "networking", "image", "compute",
              "identity"}, {"cephfs", "volumes", "proxy"}, {"ceph-keys", "proxy"}),
   Installed({"tempest", "identity", "dashboard", "dynamic-resource-balancer", "dns",
              "database"}, {"keycloak"}, {"oidc-ca"})}

=============================================================================
