---------------------------- MODULE WizardObjects ----------------------------
(***************************************************************************)
(* The objects the API server makes of what its users ask for: service/    *)
(* serviceconfig.go (Marshal... and set...), job.go, autoscale.go,         *)
(* pvolume.go, pvclaim.go and configmap.go.  As in K8sConvert an object is *)
(* the set of the fields it gives a value; a field is in the cluster when  *)
(* the conversion of its kind copies it.                                   *)
(***************************************************************************)
EXTENDS K8sClients

\* Of a step of the wizard a service has its name and no namespace: the client
\* puts it in the namespace it was made for.
MarshalService ==
    Meta(Fields({"name"}))
    \cup At("spec", Fields({"selector", "clusterIP", "type", "sessionAffinity",
                            "sessionAffinityConfig"})
                    \cup At("ports", Fields({"name", "port", "nodePort"})))

setDeploymentNodeSelector == Fields({"nodeSelector"})

setDeploymentContainers ==
    ContainerPlain
    \cup At("volumeMounts", Fields({"name", "mountPath", "subPath"}))
    \cup At("env", Fields({"name", "value"})
                   \cup At("valueFrom", At("configMapKeyRef", Fields({"name", "key"}))))
    \cup At("ports", Fields({"containerPort"}))
    \cup At("resources", ContainerResources)

setVolumes ==
    Fields({"name"})
    \cup At("hostPath", Fields({"path"})) \cup At("nfs", Fields({"server", "path"}))
    \cup At("persistentVolumeClaim", Fields({"claimName"})) \cup At("configMap", Fields({"name"}))
setDeploymentVolumes    == At("volumes", setVolumes)
addInitContainerVolumes == At("volumes", setVolumes)

AffinityTerm == At("labelSelector", Fields({"matchExpressions"})) \cup Fields({"topologyKey"})
setDeploymentAffinity == At("podAffinity", At("required", AffinityTerm))
                         \cup At("podAntiAffinity", At("required", AffinityTerm))
setJobAffinity        == At("podAffinity", At("required", AffinityTerm))
                         \cup At("podAntiAffinity", At("required", AffinityTerm))

addDeploymentEdgeToleration == At("tolerations", Fields({"key", "operator"}))

PodOf(more) ==
    Meta(Fields({"name", "labels"}))
    \cup At("spec", setDeploymentVolumes \cup At("containers", setDeploymentContainers)
                    \cup setDeploymentNodeSelector \cup more)

MarshalDeployment ==
    Meta(Fields({"name", "namespace"}))
    \cup At("spec", Fields({"replicas"}) \cup At("selector", Fields({"matchLabels"}))
        \cup At("template",
                PodOf(At("initContainers", setDeploymentContainers) \cup addInitContainerVolumes
                      \cup At("affinity", setDeploymentAffinity)
                      \cup addDeploymentEdgeToleration)))

\* The pods of an edge service are on the network of an edge node.
DeployService ==
    MarshalDeployment
    \cup At("spec", At("template", At("spec",
            Fields({"hostNetwork"})
            \cup At("affinity", At("nodeAffinity", At("required", At("nodeSelectorTerms",
                    At("matchExpressions", Fields({"key", "operator"})))))))))

MarshalStatefulSet ==
    Meta(Fields({"name", "namespace"}))
    \cup At("spec", Fields({"replicas", "serviceName"}) \cup At("selector", Fields({"matchLabels"}))
        \cup At("template",
                PodOf(At("initContainers", setDeploymentContainers) \cup addInitContainerVolumes
                      \cup At("affinity", setDeploymentAffinity))))

MarshalJob ==
    Meta(Fields({"name", "namespace"}))
    \cup At("spec", Fields({"parallelism", "completions", "activeDeadlineSeconds", "backoffLimit"})
        \cup At("template", PodOf(At("affinity", setJobAffinity) \cup Fields({"restartPolicy"}))))

MarshalNode == Meta(Fields({"name", "labels"})) \cup At("spec", Fields({"unschedulable"}))

MarshalNamespace == Meta(Fields({"name"}))

genAutoScaleObject ==
    Meta(Fields({"name", "namespace"})) \cup At("spec", HorizontalPodAutoscalerSpec)

CreateConfigMapK8s == Meta(Fields({"name", "namespace"})) \cup Fields({"data"})

genPersistentVolumeK8scli ==
    Meta(Fields({"name", "labels"}))
    \cup At("spec", At("capacity", Fields({"storage"}))
                    \cup Fields({"accessModes", "persistentVolumeReclaimPolicy"}))
AddPVolumeNFS == genPersistentVolumeK8scli \cup At("spec", At("nfs", NFSVolumeSource))
\* A secret has room, and is not filled in ("TODO support secret").
AddPVolumeCephRBD ==
    genPersistentVolumeK8scli
    \cup At("spec", At("rbd", RBDPersistentVolumeSource \ Fields({"secretRef"})))

CreatePVC ==
    Meta(Fields({"name", "namespace"}))
    \cup At("spec", Fields({"volumeName", "accessModes"})
                    \cup At("resources", At("requests", Fields({"storage"}))))

----------------------------------------------------------------------------
\* What the program asks for of an object of a kind.  Of the last three kinds the client makes
\* and reads objects, and the server asks for none.
Asked == [kind \in Kinds |->
    CASE kind = "Deployment"              -> DeployService
      [] kind = "Service"                 -> MarshalService
      [] kind = "StatefulSet"             -> MarshalStatefulSet
      [] kind = "Job"                     -> MarshalJob
      [] kind = "HorizontalPodAutoscaler" -> genAutoScaleObject
      [] kind = "ConfigMap"               -> CreateConfigMapK8s
      [] kind = "PersistentVolume"        -> AddPVolumeNFS \cup AddPVolumeCephRBD
      [] kind = "PersistentVolumeClaim"   -> CreatePVC
      [] kind = "Namespace"               -> MarshalNamespace
      [] kind = "Node"                    -> MarshalNode
      [] OTHER                            -> {}]
=============================================================================
