------------------------------ MODULE K8sClients ------------------------------
(***************************************************************************)
(* The clients of the kinds of objects: k8sassist/corev1/cgv5/apps.  Each  *)
(* method converts what its caller gives, makes one call of the API        *)
(* server, and converts the answer; some also make the file of the answer. *)
(***************************************************************************)
EXTENDS K8sConvert

Reading  == {"Get", "List"}
Writing  == {"Create", "Update", "UpdateStatus", "Delete"}
Patching == {"Patch", "PatchToK8s"}

\* An object given as yaml is the API server's own: no conversion, and its namespace must be
\* the client's.
Yaml == {"CreateByYaml", "CheckYaml"}

\* The methods; what a caller's object has room for; what is given to the API server of it;
\* what a caller gets of the answer to a Get and to a List; what the file of the answer has.
Client(methods, room, to, from, list, file) ==
    [methods |-> methods, room |-> room, to |-> to, from |-> from, list |-> list, file |-> file,
     whole |-> {"Update", "UpdateStatus"} \cap methods, laid |-> {}]

\* The methods among overlaid read the object first, and lay these fields of the caller's
\* object over it; the others put the caller's in its place.
Overlaid(client, overlaid, fields) ==
    [client EXCEPT !.whole = @ \ overlaid, !.laid = fields]

deployments ==
    Client(Reading \cup Writing \cup Patching \cup Yaml, Deployment,
           ToK8sDeployment, FromK8sDeployment, FromK8sDeploymentList, GenerateDeploymentConfig)

statefulsets ==
    Client(Reading \cup Writing \cup Patching \cup Yaml, StatefulSet,
           ToK8sStatefulSet, FromK8sStatefulSet, FromK8sStatefulSetList, GenerateStatefulSetConfig)

job ==
    Client(Reading \cup Writing \cup Patching \cup Yaml, Job,
           ToK8sJob, FromK8sJob, FromK8sJobList, GenerateJobConfig)

\* Its Patch is what the PatchToK8s of others is: a patch made of an object.
services ==
    Client(Reading \cup Writing \cup {"PatchToK8s"} \cup Yaml, Service,
           ToK8sService, FromK8sService, FromK8sServiceList, GenerateServiceConfig)

daemonsets ==
    Client(Reading \cup Writing, DaemonSet,
           ToK8sDaemonSet, FromK8sDaemonSet, FromK8sDaemonSetList, GenerateDaemonSetConfig)

replicasets ==
    Client(Reading \cup Writing, ReplicaSet,
           ToK8sReplicaSet, FromK8sReplicaSet, FromK8sReplicaSetList, {})

pods == Client(Reading \cup Writing, Pod, ToK8sPod, FromK8sPod, FromK8sPodList, {})

namespaces ==
    Client(Reading \cup (Writing \ {"UpdateStatus"}), Namespace,
           ToK8sNamespace, FromK8sNamespace, FromK8sNamespaceList, {})

nodes ==
    Overlaid(Client(Reading \cup Writing, Node, ToK8sNode, FromK8sNode, FromK8sNodeList, {}),
             {"Update", "UpdateStatus"}, UpdateK8sNode)

autoscales ==
    Overlaid(Client(Reading \cup Writing, AutoScale,
                    ToK8sAutoScale, FromK8sAutoScale, FromK8sAutoScaleList, {}),
             {"Update"}, UpdateK8sAutoScale)

configMap ==
    Overlaid(Client(Reading \cup (Writing \ {"UpdateStatus"}), ConfigMap,
                    ToK8sConfigMap, FromK8sConfigMap, FromK8sConfigMapList, {}),
             {"Update"}, UpdateK8sConfigMap)

persistentvolume ==
    Overlaid(Client(Reading \cup Writing, PersistentVolume, ToK8sPV, FromK8sPV, FromK8sPVList, {}),
             {"Update"}, UpdateK8sPV)

\* "TODO support update later": UpdateK8sPVC lays nothing over the claim.
persistentvolumeclaim ==
    Overlaid(Client(Reading \cup Writing, PersistentVolumeClaim,
                    ToK8sPVC, FromK8sPVC, FromK8sPVCList, {}),
             {"Update"}, UpdateK8sPVC)

\* The scale of a deployment is not an object of its own: it has the number of replicas.
scales == Client({"Get", "Update"}, Scale, ToK8sScale, FromK8sScale, {}, {})

Kinds == {"Deployment", "Service", "StatefulSet", "Job", "HorizontalPodAutoscaler", "ConfigMap",
          "PersistentVolume", "PersistentVolumeClaim", "Namespace", "Node",
          "Pod", "ReplicaSet", "DaemonSet"}

\* AppV1Client gives each kind's client, for a namespace where objects are in one.
AppV1Client == [kind \in Kinds |->
    CASE kind = "Deployment"              -> deployments
      [] kind = "Service"                 -> services
      [] kind = "StatefulSet"             -> statefulsets
      [] kind = "Job"                     -> job
      [] kind = "HorizontalPodAutoscaler" -> autoscales
      [] kind = "ConfigMap"               -> configMap
      [] kind = "PersistentVolume"        -> persistentvolume
      [] kind = "PersistentVolumeClaim"   -> persistentvolumeclaim
      [] kind = "Namespace"               -> namespaces
      [] kind = "Node"                    -> nodes
      [] kind = "Pod"                     -> pods
      [] kind = "ReplicaSet"              -> replicasets
      [] kind = "DaemonSet"               -> daemonsets]

=============================================================================
