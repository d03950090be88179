--------------------------- MODULE MCClusterObjects ---------------------------
(* Instances of ClusterObjects for TLC. *)
EXTENDS ClusterObjects, TLC

CONSTANTS c1, c2, owner, member

PodPath(p)       == <<"spec", "template", "spec">> \o p
ContainerPath(p) == PodPath(<<"containers">> \o p)

\* A field of each class that the conversions tell apart: set by the wizard or not, read,
\* written, saved to the file, edited by a request.
DeploymentProbes ==
    {<<"spec", "replicas">>, <<"metadata", "annotations">>,
     PodPath(<<"nodeSelector">>), PodPath(<<"hostNetwork">>),
     PodPath(<<"serviceAccountName">>),
     PodPath(<<"affinity", "podAffinity", "required", "topologyKey">>),
     ContainerPath(<<"image">>), ContainerPath(<<"env", "value">>),
     ContainerPath(<<"livenessProbe">>), ContainerPath(<<"securityContext", "privileged">>)}

ServiceProbes ==
    {<<"spec", "sessionAffinity">>, <<"spec", "ports", "nodePort">>, <<"spec", "externalIPs">>,
     <<"spec", "loadBalancerIP">>}

AllProbes ==
    ({"Deployment"} \X DeploymentProbes) \cup ({"Service"} \X ServiceProbes)
    \cup ({"HorizontalPodAutoscaler"} \X {<<"spec", "maxReplicas">>, <<"metadata", "labels">>})
    \cup ({"ConfigMap"} \X {<<"data">>, <<"binaryData">>})
    \cup {<<"StatefulSet", <<"spec", "serviceName">>>>,
          <<"StatefulSet", <<"metadata", "annotations">>>>, <<"Job", <<"spec", "backoffLimit">>>>,
          <<"PersistentVolume", <<"spec", "nfs", "readOnly">>>>,
          <<"PersistentVolume", <<"spec", "capacity", "storage">>>>,
          <<"PersistentVolumeClaim", <<"spec", "storageClassName">>>>,
          <<"Namespace", <<"metadata", "annotations">>>>,
          <<"Pod", <<"spec", "nodeName">>>>, <<"ReplicaSet", <<"spec", "minReadySeconds">>>>,
          <<"DaemonSet", <<"spec", "updateStrategy", "type">>>>}
    \cup ({"Node"} \X {<<"metadata", "labels">>, <<"metadata", "annotations">>,
                      <<"spec", "podCIDR">>, <<"spec", "taints", "value">>})

AllOps == {"create", "roll", "nodeGroup", "scale", "session", "update", "put", "touch", "patch",
           "remove", "start"}

VersionedKinds == {"HorizontalPodAutoscaler", "ConfigMap"}

Symmetry == Permutations(Clients)
=============================================================================
