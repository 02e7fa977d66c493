--------------------------- MODULE ServiceSecrets ---------------------------
(***************************************************************************)
(* What the apply of each service does with secrets: template_args of the  *)
(* classes in services/__init__.py and services/base.py.  A service makes  *)
(* sure that its own secrets exist, waits for those of other services and  *)
(* of other operators (Ceph, Tungsten Fabric), and shares data with them.  *)
(* A wait does not block: wait_for_resource raises a TemporaryError, the   *)
(* task of the service fails and run_task tries it again.                  *)
(*                                                                         *)
(* A deployment is a record: services, the enabled ones, and options, the  *)
(* features that the secrets depend on:                                    *)
(*   "proxy"     the controller is configured with a proxy secret          *)
(*   "placement" the version is stein or later                             *)
(*   "volumes"   cinder keeps its volumes in Ceph                          *)
(*   "ephemeral" nova keeps the disks of instances in Ceph                 *)
(*   "rbd"       glance keeps its images in Ceph                           *)
(*   "cephfs"    a manila backend is in Ceph                               *)
(*   "tf"        the neutron backend is Tungsten Fabric                    *)
(*   "keycloak"  federation with a keycloak that has a CA secret           *)
(*   "topics"    external notification topics                              *)
(*   "stacklight", "ngs", "tls"  monitoring, switches with ssh keys,       *)
(*               TLS for libvirt                                           *)
(***************************************************************************)
EXTENDS Naturals, Sequences

\* The steps of an apply: create what is missing, write for another
\* operator, or fail when something is missing.
Ensure(names) == [op |-> "ensure", names |-> names]
Share(names) == [op |-> "share", names |-> names]
Wait(names) == [op |-> "wait", names |-> names]

-----------------------------------------------------------------------------
(* The classes of secrets.py: what is in them is not told apart here *)

RabbitmqGuestSecret == Ensure({"guest"})
GaleraSecret == Ensure({"galera"})
RedisSecret == Ensure({"redis"})
StackLightPasswordSecret == Ensure({"stacklight-password"})
ExternalTopicPasswordSecret == Ensure({"topic-passwords"})
PowerDNSSecret == Ensure({"powerdns"})
KeycloakSecret == Ensure({"oidc-passphrase"})
SSHSecret(name) == Ensure({name})
SignedCertificateSecret(name) == Ensure({name})
SignedCertificatePackSecret(name) == Ensure({name})
NgsSSHSecret == Share({"ngs-ssh-keys"})
StackLightSecret == Share({"stacklight"})
StackLightConfigSecret == Share({"stacklight-config"})
TungstenFabricSecret == Share({"tf"})
IAMSecret == Share({"iam"})
ProxySecret == Wait({"proxy"})

\* Services with credentials: a pair of secrets, one of which is active.
OSServices ==
  {"block-storage", "compute", "dns", "identity", "image", "networking",
   "orchestration", "dashboard", "load-balancer", "key-manager", "placement",
   "baremetal", "alarming", "event", "metering", "metric", "tempest",
   "object-storage", "instance-ha", "shared-file-system", "stepler"}

HasSecret(s) == s \in OSServices \cup {"dynamic-resource-balancer"}

is_service_enabled(s, d) == s \in d.services

If(condition, steps) == IF condition THEN steps ELSE <<>>

-----------------------------------------------------------------------------
(* Which accounts of other services a service needs *)

IronicAccounts == {"networking", "image", "compute"}

NeutronAccounts(d) ==
  {"compute"} \cup (d.services \cap {"dns", "baremetal"})
              \cup (d.options \cap {"placement"})

NovaAccounts(d) ==
  {"networking", "identity"} \cup (d.services \cap {"block-storage", "baremetal"})
                             \cup (d.options \cap {"placement"})

ManilaAccounts == {"networking", "block-storage", "image", "compute"}

required_accounts(s, d) ==
  CASE s = "baremetal" -> IronicAccounts
    [] s = "networking" -> NeutronAccounts(d)
    [] s = "compute" -> NovaAccounts(d)
    [] s = "shared-file-system" -> ManilaAccounts
    [] s = "cloudprober" -> {"identity"}
    [] OTHER -> {}

CinderInCeph(d) == "volumes" \in d.options

NovaInCeph(d) ==
  \/ is_service_enabled("block-storage", d) /\ "volumes" \in d.options
  \/ "ephemeral" \in d.options

GlanceInCeph(d) == "rbd" \in d.options

ManilaInCeph(d) == "cephfs" \in d.options

is_ceph_enabled(s, d) ==
  \/ s = "block-storage" /\ CinderInCeph(d)
  \/ s = "compute" /\ NovaInCeph(d)
  \/ s = "image" /\ GlanceInCeph(d)
  \/ s = "shared-file-system" /\ ManilaInCeph(d)

-----------------------------------------------------------------------------
(* template_args *)

ServiceArgs(s, d) ==
  If(HasSecret(s), <<Ensure({s})>>) \o If("proxy" \in d.options, <<ProxySecret>>)

\* Mutation: other services' accounts are looked up first.
OpenStackArgsWaitFirst(s, d) ==
  <<Wait(required_accounts(s, d))>> \o ServiceArgs(s, d)
    \o <<Wait({"admin"}), RabbitmqGuestSecret>>

OpenStackArgs(s, d) ==
  ServiceArgs(s, d)
    \o <<Wait({"admin"}), RabbitmqGuestSecret, Wait(required_accounts(s, d))>>

\* ceph_config reads the keys again.
CephArgs(s, d) ==
  OpenStackArgs(s, d) \o If(is_ceph_enabled(s, d), <<Wait({"ceph-keys"})>>)

\* The names and passwords of the topics, and one certificate for them all.
TopicArgs(d) ==
  If("topics" \in d.options,
     <<ExternalTopicPasswordSecret, SignedCertificatePackSecret("rabbitmq-external")>>)

RabbitMQArgs(d) ==
  <<Wait({"admin"}), RabbitmqGuestSecret,
    Wait((d.services \ {"tempest"}) \cap OSServices),
    StackLightPasswordSecret>>
    \o If("stacklight" \in d.options, <<StackLightSecret>>)
    \o <<StackLightConfigSecret>> \o TopicArgs(d)

MariaDBArgs == <<Wait({"admin"}), GaleraSecret>>

RedisArgs == <<RedisSecret>>

CeilometerArgs(d) ==
  OpenStackArgs("metering", d) \o <<Wait(d.services \cap {"event"})>>
    \o If("object-storage" \in d.services, <<Wait({"ceph-keys"})>>)

GnocchiArgs(d) == OpenStackArgs("metric", d) \o <<Wait({"redis"})>>

CloudproberArgs(d) == ServiceArgs("cloudprober", d) \o <<Wait({"identity"})>>

BalancerArgs(d) ==
  ServiceArgs("dynamic-resource-balancer", d) \o <<Wait({"admin"})>>

DesignateArgs(d) == OpenStackArgs("dns", d) \o <<PowerDNSSecret>>

\* Data that the Tungsten Fabric operator shares with OpenStack.
TFArgs(d) == If("tf" \in d.options, <<Wait({"tf-data"})>>)

HeatArgs(d) == OpenStackArgs("orchestration", d) \o TFArgs(d)

\* The CA of the provider is a secret that the user creates.
FederationArgs(d) ==
  If("keycloak" \in d.options, <<Wait({"oidc-ca"}), KeycloakSecret>>)

HorizonArgs(d) ==
  OpenStackArgs("dashboard", d)
    \o If("object-storage" \in d.services, <<Wait({"ceph-keys"})>>)
    \o FederationArgs(d)

FernetArgs == <<Ensure({"fernet", "credential-keys"})>>

ObjectStorageArgs(d) ==
  If("object-storage" \in d.services, <<Wait({"ceph-keys"})>>)

KeystoneArgs(d) ==
  OpenStackArgs("identity", d) \o FernetArgs \o FederationArgs(d)
    \o If("keycloak" \in d.options, <<IAMSecret>>) \o ObjectStorageArgs(d)

NeutronArgs(d) ==
  OpenStackArgs("networking", d)
    \o If("baremetal" \in d.services /\ "ngs" \in d.options, <<NgsSSHSecret>>)
    \o TFArgs(d)

NovaArgs(d) ==
  CephArgs("compute", d)
    \o <<SSHSecret("generated-nova-ssh"), Wait({"networking"})>>
    \o If("tls" \in d.options, <<SignedCertificateSecret("libvirt-server")>>)
    \o <<SignedCertificatePackSecret("libvirt-vnc-tls")>> \o TFArgs(d)

OctaviaArgs(d) ==
  OpenStackArgs("load-balancer", d) \o 
    <<SignedCertificateSecret("octavia-certs"), SSHSecret("generated-octavia-ssh")>>
    \o TFArgs(d) \o <<Wait(d.services \cap {"redis"})>>

\* "share date with ceph first so it can construct correct public endpoint"
RadosGateWayArgs(d) ==
  OpenStackArgs("object-storage", d)
    \o <<Share({"rgw-creds"}), Wait({"ceph-keys"}), Wait({"rgw-urls"})>>

ManilaArgs(d) == CephArgs("shared-file-system", d) \o <<SSHSecret("generated-manila-ssh")>>

template_args(s, d) ==
  CASE s = "messaging" -> RabbitMQArgs(d)
    [] s = "database" -> MariaDBArgs
    [] s = "redis" -> RedisArgs
    [] s = "metering" -> CeilometerArgs(d)
    [] s = "metric" -> GnocchiArgs(d)
    [] s = "cloudprober" -> CloudproberArgs(d)
    [] s = "dynamic-resource-balancer" -> BalancerArgs(d)
    [] s = "dns" -> DesignateArgs(d)
    [] s = "orchestration" -> HeatArgs(d)
    [] s = "dashboard" -> HorizonArgs(d)
    [] s = "identity" -> KeystoneArgs(d)
    [] s = "networking" -> NeutronArgs(d)
    [] s = "compute" -> NovaArgs(d)
    [] s = "load-balancer" -> OctaviaArgs(d)
    [] s = "object-storage" -> RadosGateWayArgs(d)
    [] s = "shared-file-system" -> ManilaArgs(d)
    [] s \in {"block-storage", "image"} -> CephArgs(s, d)
    [] s \in OSServices -> OpenStackArgs(s, d)
    [] OTHER -> ServiceArgs(s, d)

-----------------------------------------------------------------------------
(* apply up to the rendered values *)

\* save_ceph_secrets leaves a keyring that exists as it is.
EnsureCephSecrets(s, d) ==
  If(is_ceph_enabled(s, d), <<Wait({"ceph-keys"}), Ensure({"rbd-keyrings"})>>)

ShareWithTF(s, d) ==
  If(s = "networking" /\ "tf" \in d.options, <<TungstenFabricSecret>>)

apply(s, d) == EnsureCephSecrets(s, d) \o ShareWithTF(s, d) \o template_args(s, d)

\* What the steps have created when they end, all of them or at a wait.
Made(steps, i) ==
  UNION {steps[j].names : j \in {k \in 1..(i - 1) : steps[k].op # "wait"}}

Missing(steps, have) ==
  {i \in DOMAIN steps : /\ steps[i].op = "wait"
                        /\ ~(steps[i].names \subseteq have \cup Made(steps, i))}

Outcome(steps, have) ==
  LET missing == Missing(steps, have)
      end == IF missing = {} THEN Len(steps) + 1
             ELSE CHOOSE i \in missing : \A j \in missing : i <= j
  IN  [ok |-> missing = {}, have |-> have \cup Made(steps, end)]

\* Tempest renders every other service; it stops at the first that waits,
\* in the order of a set, so any of them may have made its secrets before.
TempestOutcomes(d, have) ==
  LET others == d.services \ {"tempest", "redis"}
      own == Outcome(OpenStackArgs("tempest", d), have).have
      made(T) == own \cup UNION {Outcome(template_args(t, d), own).have : t \in T}
  IN  IF \A t \in others : Outcome(template_args(t, d), made(others)).ok
      THEN {[ok |-> TRUE, have |-> made(others)]}
      ELSE {[ok |-> FALSE, have |-> made(T)] : T \in SUBSET others}

Outcomes(s, d, have) ==
  IF s = "tempest" THEN TempestOutcomes(d, have)
  ELSE {Outcome(steps, have) : steps \in {apply(s, d)}}
=============================================================================
