------------------------------ MODULE K8sConvert ------------------------------
(***************************************************************************)
(* What the client of Kubernetes keeps of an object: types/convert.go and  *)
(* model/k8scli.go.  The program never handles an object of Kubernetes     *)
(* itself: FromK8s... copies it, field by field, into a structure of the   *)
(* package model, ToK8s... makes an object of such a structure, and        *)
(* Generate...Config makes the object that is written to a file.  A field  *)
(* that a function does not name is lost there.                            *)
(*                                                                         *)
(* A field is the path to it in the object, <<"spec", "replicas">>; the    *)
(* elements of a list have one path.  A structure is the set of fields it  *)
(* has room for, a conversion the set of fields it copies.                 *)
(***************************************************************************)
EXTENDS Naturals, Sequences

Fields(names) == {<<f>> : f \in names}
At(f, paths)  == {<<f>> \o p : p \in paths}

----------------------------------------------------------------------------
(* What all objects have.  The kind and the version of the API are fixed.  *)

ObjectMeta == Fields({"name", "namespace", "creationTimestamp", "deletionTimestamp",
                      "labels", "annotations"})
ToK8sObjectMeta   == ObjectMeta
FromK8sObjectMeta == ObjectMeta

Meta(paths) == At("metadata", paths)

LabelSelector        == Fields({"matchLabels", "matchExpressions"})
ToK8sLabelSelector   == LabelSelector
FromK8sLabelSelector == LabelSelector
FromK8sSelector      == Fields({"matchLabels"})

----------------------------------------------------------------------------
(* Containers.                                                             *)

ContainerPort        == Fields({"name", "hostPort", "containerPort", "protocol", "hostIP"})
ToK8sContainerPort   == ContainerPort
FromK8sContainerPort == ContainerPort

ConfigMapKeySelector      == Fields({"name", "key", "optional"})
ToK8sConfigMapKeySelector == ConfigMapKeySelector

\* Values from secrets, fields and resources have no room in the structure.
EnvVarSource  == At("configMapKeyRef", ConfigMapKeySelector)
EnvVar        == Fields({"name", "value"}) \cup At("valueFrom", EnvVarSource)
ToK8sEnvVar   == Fields({"name", "value"})
                 \cup At("valueFrom", At("configMapKeyRef", ToK8sConfigMapKeySelector))
FromK8sEnvVar == EnvVar

VolumeMount        == Fields({"name", "mountPath", "subPath"})
ToK8sVolumeMount   == VolumeMount
FromK8sVolumeMount == VolumeMount

\* A map by the name of the resource; both conversions of a container copy
\* the resources they know by name.
ResourceRequirements == At("limits", Fields({"cpu", "memory", "nvidia.com/gpu", "storage", "other"}))
                        \cup At("requests", Fields({"cpu", "memory", "storage", "other"}))
ContainerResources   == At("limits", Fields({"cpu", "memory", "nvidia.com/gpu"}))
                        \cup At("requests", Fields({"cpu", "memory"}))

SecurityContext        == Fields({"privileged"})
FromK8sSecurityContext == SecurityContext

ContainerPlain == Fields({"name", "image", "command", "args", "workingDir"})

K8sContainer == ContainerPlain
    \cup At("ports", ContainerPort) \cup At("env", EnvVar)
    \cup At("resources", ResourceRequirements) \cup At("volumeMounts", VolumeMount)
    \cup At("securityContext", SecurityContext)

\* The security context is read, and not written.
ToK8sContainer == ContainerPlain
    \cup At("ports", ToK8sContainerPort) \cup At("env", ToK8sEnvVar)
    \cup At("resources", ContainerResources) \cup At("volumeMounts", ToK8sVolumeMount)

FromK8sContainer == ContainerPlain
    \cup At("ports", FromK8sContainerPort) \cup At("env", FromK8sEnvVar)
    \cup At("resources", ContainerResources) \cup At("volumeMounts", FromK8sVolumeMount)
    \cup At("securityContext", FromK8sSecurityContext)

----------------------------------------------------------------------------
(* Volumes, tolerations and affinity.                                      *)

HostPathVolumeSource              == Fields({"path"})
NFSVolumeSource                   == Fields({"server", "path", "readOnly"})
PersistentVolumeClaimVolumeSource == Fields({"claimName", "readOnly"})
ConfigMapVolumeSource             == Fields({"name", "items", "defaultMode", "optional"})

VolumeSource ==
    At("hostPath", HostPathVolumeSource) \cup At("nfs", NFSVolumeSource)
    \cup At("persistentVolumeClaim", PersistentVolumeClaimVolumeSource)
    \cup At("configMap", ConfigMapVolumeSource)

\* A volume of NFS is written without "readOnly", a map whole ("TODO: suppurt
\* Item later").
ToK8sVolumeSource ==
    At("hostPath", HostPathVolumeSource) \cup At("nfs", Fields({"server", "path"}))
    \cup At("persistentVolumeClaim", PersistentVolumeClaimVolumeSource)
    \cup At("configMap", Fields({"name"}))
FromK8sVolumeSource ==
    At("hostPath", HostPathVolumeSource) \cup At("nfs", Fields({"server", "path"}))
    \cup At("persistentVolumeClaim", PersistentVolumeClaimVolumeSource)
    \cup At("configMap", Fields({"name"}))

Volume        == Fields({"name"}) \cup VolumeSource
ToK8sVolume   == Fields({"name"}) \cup ToK8sVolumeSource
FromK8sVolume == Fields({"name"}) \cup FromK8sVolumeSource

Toleration         == Fields({"key", "operator", "value", "effect", "tolerationSeconds"})
ToK8sToleration    == Toleration
FromK8sToleration  == Toleration
ToK8sTolerations   == At("tolerations", ToK8sToleration)
FromK8sTolerations == At("tolerations", FromK8sToleration)

NodeSelectorRequirement       == Fields({"key", "operator", "values"})
NodeSelectorTerm              == At("matchExpressions", NodeSelectorRequirement)
                                 \cup At("matchFields", NodeSelectorRequirement)
ToK8sNodeSelectorRequirements == At("matchExpressions", NodeSelectorRequirement)
ToK8sNodeSelectorTerms        == At("nodeSelectorTerms", ToK8sNodeSelectorRequirements)

PodAffinityTerm   == At("labelSelector", LabelSelector) \cup Fields({"namespaces", "topologyKey"})
\* Of the expressions of the selector the first is copied, of its labels none.
ToK8sAffinityTerm == At("labelSelector", Fields({"matchExpressions"}))
                     \cup Fields({"namespaces", "topologyKey"})

NodeAffinity == At("required", At("nodeSelectorTerms", NodeSelectorTerm))
                \cup At("preferred", At("preference", NodeSelectorTerm) \cup Fields({"weight"}))
K8sAffinity  == At("podAffinity", At("required", PodAffinityTerm))
                \cup At("podAntiAffinity", At("required", PodAffinityTerm))
                \cup At("nodeAffinity", NodeAffinity)

\* What ToK8sPodSpec makes of an affinity.
ToK8sAffinity == At("podAffinity", At("required", ToK8sAffinityTerm))
                 \cup At("podAntiAffinity", At("required", ToK8sAffinityTerm))
                 \cup At("nodeAffinity", At("required", ToK8sNodeSelectorTerms))

----------------------------------------------------------------------------
(* Pods.                                                                   *)

PodPlain == Fields({"nodeSelector", "nodeName", "hostNetwork", "restartPolicy"})

PodSpec == PodPlain
    \cup At("volumes", Volume) \cup At("initContainers", K8sContainer)
    \cup At("containers", K8sContainer) \cup At("affinity", K8sAffinity)
    \cup At("tolerations", Toleration)

ToK8sPodSpec == PodPlain
    \cup At("volumes", ToK8sVolume) \cup At("initContainers", ToK8sContainer)
    \cup At("containers", ToK8sContainer) \cup At("affinity", ToK8sAffinity)
    \cup ToK8sTolerations

\* The affinity of a pod is written, and never read.
FromK8sPodSpec == PodPlain
    \cup At("volumes", FromK8sVolume) \cup At("initContainers", FromK8sContainer)
    \cup At("containers", FromK8sContainer) \cup FromK8sTolerations

PodTemplateSpec        == Meta(ObjectMeta) \cup At("spec", PodSpec)
ToK8sPodTemplateSpec   == Meta(ToK8sObjectMeta) \cup At("spec", ToK8sPodSpec)
FromK8sPodTemplateSpec == Meta(FromK8sObjectMeta) \cup At("spec", FromK8sPodSpec)

PodStatus  == Fields({"phase", "reason", "hostIP", "podIP", "startTime"})
Pod        == Meta(ObjectMeta) \cup At("spec", PodSpec) \cup At("status", PodStatus)
ToK8sPod   == Meta(ToK8sObjectMeta) \cup At("spec", ToK8sPodSpec) \cup At("status", PodStatus)
FromK8sPod == Meta(FromK8sObjectMeta) \cup At("spec", FromK8sPodSpec) \cup At("status", PodStatus)

----------------------------------------------------------------------------
(* Workloads.                                                              *)

Object(spec, status) == Meta(ObjectMeta) \cup At("spec", spec) \cup At("status", status)

\* Of the selector of a deployment there is room for the labels.
DeploymentSpec == Fields({"replicas", "paused"}) \cup At("selector", Fields({"matchLabels"}))
                  \cup At("template", PodTemplateSpec)
DeploymentStatus == Fields({"replicas", "updatedReplicas", "unavailableReplicas",
                            "availableReplicas"})
Deployment == Object(DeploymentSpec, DeploymentStatus)

ToK8sDeployment ==
    Object(Fields({"replicas", "paused"}) \cup At("selector", Fields({"matchLabels"}))
           \cup At("template", ToK8sPodTemplateSpec),
           DeploymentStatus)
FromK8sDeploymentSpec ==
    Fields({"replicas", "paused"}) \cup At("selector", FromK8sSelector)
    \cup At("template", FromK8sPodTemplateSpec)
FromK8sDeployment == Object(FromK8sDeploymentSpec, DeploymentStatus)

ReplicaSetSpec == Fields({"replicas", "minReadySeconds"}) \cup At("selector", LabelSelector)
                  \cup At("template", PodTemplateSpec)
ReplicaSetCondition == Fields({"type", "status", "lastTransitionTime", "reason", "message"})
ReplicaSetStatus == Fields({"replicas", "fullyLabeledReplicas", "readyReplicas",
                            "availableReplicas", "observedGeneration"})
                    \cup At("conditions", ReplicaSetCondition)
ReplicaSet == Object(ReplicaSetSpec, ReplicaSetStatus)

ToK8sReplicaSetSpec ==
    Fields({"replicas", "minReadySeconds"}) \cup At("selector", Fields({"matchLabels"}))
    \cup At("template", ToK8sPodTemplateSpec)
ToK8sReplicaSet == Object(ToK8sReplicaSetSpec, ReplicaSetStatus)
FromK8sReplicSetSpec ==
    Fields({"replicas", "minReadySeconds"}) \cup At("selector", Fields({"matchLabels"}))
    \cup At("template", FromK8sPodTemplateSpec)
FromK8sReplicaSet == Object(FromK8sReplicSetSpec, ReplicaSetStatus)

\* Claim templates, policies and history have room, and are not copied ("TODO:
\* support storage class later").
StatefulSetSpec ==
    Fields({"replicas", "serviceName", "volumeClaimTemplates", "podManagementPolicy",
            "updateStrategy", "revisionHistoryLimit"})
    \cup At("selector", LabelSelector) \cup At("template", PodTemplateSpec)
StatefulSetStatus ==
    Fields({"observedGeneration", "replicas", "readyReplicas", "currentReplicas",
            "updatedReplicas", "currentRevision", "updateRevision", "collisionCount"})
StatefulSet == Object(StatefulSetSpec, StatefulSetStatus)

ToK8sStatefulSet ==
    Object(Fields({"replicas", "serviceName"}) \cup At("selector", Fields({"matchLabels"}))
           \cup At("template", ToK8sPodTemplateSpec),
           StatefulSetStatus \ Fields({"observedGeneration", "collisionCount"}))
FromK8sStatefulSet ==
    Object(Fields({"replicas", "serviceName"}) \cup At("selector", Fields({"matchLabels"}))
           \cup At("template", FromK8sPodTemplateSpec),
           StatefulSetStatus)

RollingUpdateDaemonSet        == Fields({"maxUnavailable"})
ToK8sRollingUpdateDaemonSet   == RollingUpdateDaemonSet
FromK8sRollingUpdateDaemonSet == RollingUpdateDaemonSet

DaemonSetUpdateStrategy == Fields({"type"}) \cup At("rollingUpdate", RollingUpdateDaemonSet)
ToK8sDaemonSetUpdateStrategy ==
    Fields({"type"}) \cup At("rollingUpdate", ToK8sRollingUpdateDaemonSet)
FromK8sDaemonSetUpdateStrategy ==
    Fields({"type"}) \cup At("rollingUpdate", FromK8sRollingUpdateDaemonSet)

DaemonSetSpec ==
    At("selector", LabelSelector) \cup At("template", PodTemplateSpec)
    \cup At("updateStrategy", DaemonSetUpdateStrategy)
    \cup Fields({"minReadySeconds", "revisionHistoryLimit"})
ToK8sDaemonSetSpec ==
    At("selector", ToK8sLabelSelector) \cup At("template", ToK8sPodTemplateSpec)
    \cup At("updateStrategy", ToK8sDaemonSetUpdateStrategy)
    \cup Fields({"minReadySeconds", "revisionHistoryLimit"})
FromK8sDaemonSetSpec ==
    At("selector", FromK8sLabelSelector) \cup At("template", FromK8sPodTemplateSpec)
    \cup At("updateStrategy", FromK8sDaemonSetUpdateStrategy)
    \cup Fields({"minReadySeconds", "revisionHistoryLimit"})

DaemonSetCondition        == Fields({"type", "status", "lastTransitionTime", "reason", "message"})
ToK8sDaemonSetCondition   == DaemonSetCondition
FromK8sDaemonSetCondition == DaemonSetCondition
DaemonSetStatus ==
    Fields({"currentNumberScheduled", "numberMisscheduled", "desiredNumberScheduled",
            "numberReady", "observedGeneration", "updatedNumberScheduled",
            "numberAvailable", "numberUnavailable", "collisionCount"})
    \cup At("conditions", DaemonSetCondition)
ToK8sDaemonSetStatus   == DaemonSetStatus
FromK8sDaemonSetStatus == DaemonSetStatus

DaemonSet        == Object(DaemonSetSpec, DaemonSetStatus)
ToK8sDaemonSet   == Object(ToK8sDaemonSetSpec, ToK8sDaemonSetStatus)
FromK8sDaemonSet == Object(FromK8sDaemonSetSpec, FromK8sDaemonSetStatus)

JobPlain == Fields({"parallelism", "completions", "activeDeadlineSeconds", "backoffLimit",
                    "manualSelector"})
JobSpec  == JobPlain \cup At("selector", LabelSelector) \cup At("template", PodTemplateSpec)
JobCondition == Fields({"type", "status", "lastProbeTime", "lastTransitionTime", "reason",
                        "message"})
JobStatus == At("conditions", JobCondition)
             \cup Fields({"startTime", "completionTime", "active", "succeeded", "failed"})
Job == Object(JobSpec, JobStatus)
ToK8sJob ==
    Object(JobPlain \cup At("selector", ToK8sLabelSelector)
           \cup At("template", ToK8sPodTemplateSpec), JobStatus)
FromK8sJob ==
    Object(JobPlain \cup At("selector", FromK8sLabelSelector)
           \cup At("template", FromK8sPodTemplateSpec), JobStatus)

----------------------------------------------------------------------------
(* Services, namespaces, scales and autoscalers.                           *)

\* A target port is a number: one given by its name is read as 0.
ServicePort == Fields({"name", "protocol", "port", "targetPort", "nodePort"})
ServicePlain == Fields({"selector", "clusterIP", "type", "externalIPs", "externalName"})
Service == Meta(ObjectMeta)
           \cup At("spec", ServicePlain \cup At("ports", ServicePort)
                           \cup Fields({"sessionAffinity", "sessionAffinityConfig"}))
ToK8sService   == Service
FromK8sService == Service

Namespace        == Meta(ObjectMeta) \cup At("status", Fields({"phase"}))
ToK8sNamespace   == Meta(ToK8sObjectMeta)
FromK8sNamespace == Namespace

ScaleSpec      == Fields({"replicas"})
ScaleStatusK8s == Fields({"replicas", "selector"})
Scale          == Object(ScaleSpec, ScaleStatusK8s)
ToK8sScale     == Scale
FromK8sScale   == Scale

CrossVersionObjectReference == Fields({"kind", "name", "apiVersion"})
HorizontalPodAutoscalerSpec ==
    At("scaleTargetRef", CrossVersionObjectReference)
    \cup Fields({"minReplicas", "maxReplicas", "targetCPUUtilizationPercentage"})
HorizontalPodAutoscalerStatus ==
    Fields({"observedGeneration", "lastScaleTime", "currentReplicas", "desiredReplicas",
            "currentCPUUtilizationPercentage"})
AutoScale        == Object(HorizontalPodAutoscalerSpec, HorizontalPodAutoscalerStatus)
ToK8sAutoScale   == AutoScale
FromK8sAutoScale == AutoScale
\* The fields that are laid over the object that was read.
UpdateK8sAutoScale == At("spec", HorizontalPodAutoscalerSpec)

ConfigMap          == Meta(ObjectMeta) \cup Fields({"data"})
ToK8sConfigMap     == ConfigMap
FromK8sConfigMap   == ConfigMap
UpdateK8sConfigMap == Fields({"data"})

----------------------------------------------------------------------------
(* Nodes.                                                                  *)

Taint          == Fields({"key", "value", "effect", "timeAdded"})
ToK8sNodeTaint   == Taint
FromK8sNodeTaint == Taint
ToK8sNodeTaints   == At("taints", ToK8sNodeTaint)
FromK8sNodeTaints == At("taints", FromK8sNodeTaint)

NodeCondition == Fields({"type", "status", "lastHeartbeatTime", "lastTransitionTime",
                         "reason", "message"})
NodeAddress == Fields({"type", "address"})
NodeStatus  == Fields({"capacity", "allocatable", "phase"})
               \cup At("conditions", NodeCondition) \cup At("addresses", NodeAddress)
\* What is allocatable is written over the capacity.
ToK8sNodeStatus     == NodeStatus \ Fields({"allocatable"})
FromK8sNodeStatus   == NodeStatus
UpdateK8sNodeStatus == NodeStatus \ Fields({"phase"})

Node == Object(Fields({"unschedulable"}) \cup At("taints", Taint), NodeStatus)
ToK8sNode   == Object(Fields({"unschedulable"}) \cup ToK8sNodeTaints, ToK8sNodeStatus)
FromK8sNode == Object(Fields({"unschedulable"}) \cup FromK8sNodeTaints, FromK8sNodeStatus)
\* The annotations stay those of the object that was read.
UpdateK8sNode ==
    Meta(ObjectMeta \ Fields({"annotations"}))
    \cup At("spec", Fields({"unschedulable"}) \cup ToK8sNodeTaints)
    \cup At("status", UpdateK8sNodeStatus)

----------------------------------------------------------------------------
(* Persistent volumes and claims.                                          *)

RBDPersistentVolumeSource == Fields({"monitors", "image", "fsType", "pool", "user", "keyring",
                                     "secretRef", "readOnly"})
ToK8sRBD   == RBDPersistentVolumeSource
FromK8sRBD == RBDPersistentVolumeSource
PersistentVolumeSource == At("nfs", NFSVolumeSource) \cup At("rbd", RBDPersistentVolumeSource)

ObjectReference == Fields({"kind", "namespace", "name", "uid", "apiVersion", "resourceVersion",
                           "fieldPath"})
ToK8sPVObjectReference   == At("claimRef", ObjectReference)
FromK8sPVObjectReference == At("claimRef", ObjectReference)
ToK8sPVAccessMode   == Fields({"accessModes"})
FromK8sPVAccessMode == Fields({"accessModes"})

PersistentVolumePlain == Fields({"persistentVolumeReclaimPolicy", "storageClassName",
                                 "mountOptions"})
PersistentVolumeStatus == Fields({"phase", "message", "reason"})
PersistentVolumeSpec == PersistentVolumePlain
    \cup At("capacity", Fields({"storage", "other"})) \cup PersistentVolumeSource
    \cup Fields({"accessModes"}) \cup At("claimRef", ObjectReference)
PersistentVolume == Object(PersistentVolumeSpec, PersistentVolumeStatus)

ToK8sPV ==
    Object(PersistentVolumePlain \cup At("capacity", Fields({"storage"}))
           \cup At("nfs", NFSVolumeSource) \cup At("rbd", ToK8sRBD)
           \cup ToK8sPVAccessMode \cup ToK8sPVObjectReference, PersistentVolumeStatus)
FromK8sPV ==
    Object(PersistentVolumePlain \cup At("capacity", Fields({"storage", "other"}))
           \cup At("nfs", NFSVolumeSource) \cup At("rbd", FromK8sRBD)
           \cup FromK8sPVAccessMode \cup FromK8sPVObjectReference, PersistentVolumeStatus)
UpdateK8sPV == At("spec", At("capacity", Fields({"storage", "other"})))

\* Of the resources of a claim the storage is copied; its selector has room.
ClaimResources == At("resources", At("limits", Fields({"storage"}))
                                  \cup At("requests", Fields({"storage"})))
PersistentVolumeClaimSpec ==
    Fields({"accessModes", "selector", "volumeName", "storageClassName"})
    \cup At("resources", ResourceRequirements)
PersistentVolumeClaimStatus == Fields({"phase", "accessModes", "capacity"})
PersistentVolumeClaim == Object(PersistentVolumeClaimSpec, PersistentVolumeClaimStatus)
ToK8sPVC ==
    Object(ToK8sPVAccessMode \cup Fields({"volumeName", "storageClassName"})
           \cup ClaimResources, PersistentVolumeClaimStatus)
FromK8sPVC ==
    Object(FromK8sPVAccessMode \cup Fields({"volumeName", "storageClassName"})
           \cup ClaimResources, PersistentVolumeClaimStatus)
\* An update of a claim lays nothing over it ("TODO implement update later").
UpdateK8sPVC == {}

----------------------------------------------------------------------------
(* Lists hold their objects as FromK8s... reads each of them. *)

FromK8sDeploymentList  == At("items", FromK8sDeployment)
FromK8sReplicaSetList  == At("items", FromK8sReplicaSet)
FromK8sStatefulSetList == At("items", FromK8sStatefulSet)
FromK8sDaemonSetList   == At("items", FromK8sDaemonSet)
FromK8sPodList         == At("items", FromK8sPod)
FromK8sJobList         == At("items", FromK8sJob)
FromK8sServiceList     == At("items", FromK8sService)
FromK8sNamespaceList   == At("items", FromK8sNamespace)
FromK8sNodeList        == At("items", FromK8sNode)
FromK8sAutoScaleList   == At("items", FromK8sAutoScale)
FromK8sConfigMapList   == At("items", FromK8sConfigMap)
FromK8sPVList          == At("items", FromK8sPV)
FromK8sPVCList         == At("items", FromK8sPVC)

----------------------------------------------------------------------------
(* The objects that are written to files.  A container of a file is a      *)
(* selection of its fields, each of them whole; so are a pod's.            *)

\* A field of the object is in a selection when a path of the selection leads to it.
Within(field, selection) == \E p \in selection : Len(p) <= Len(field) /\ SubSeq(field, 1, Len(p)) = p

ConfigContainer ==
    Fields({"name", "image", "command", "args", "workingDir", "ports", "envFrom", "env",
            "resources", "volumeMounts", "livenessProbe", "readinessProbe"})
ConfigMeta == Meta(Fields({"labels", "name", "namespace"}))
ConfigPod(more) ==
    Meta(Fields({"labels", "name"}))
    \cup At("spec", Fields({"affinity", "volumes", "nodeSelector", "serviceAccountName",
                            "imagePullSecrets", "initContainers"} \cup more)
                    \cup At("containers", ConfigContainer))

GenerateDeploymentConfig ==
    ConfigMeta
    \cup At("spec", Fields({"replicas", "selector"})
                    \cup At("template", ConfigPod({"hostNetwork", "tolerations"})))
GenerateStatefulSetConfig ==
    ConfigMeta
    \cup At("spec", Fields({"replicas", "selector", "serviceName"})
                    \cup At("template", ConfigPod({"tolerations"})))
GenerateDaemonSetConfig ==
    ConfigMeta
    \cup At("spec", Fields({"selector", "updateStrategy", "minReadySeconds",
                            "revisionHistoryLimit"})
                    \cup At("template", ConfigPod({"tolerations"})))
GenerateJobConfig ==
    ConfigMeta
    \cup At("spec", JobPlain \cup Fields({"selector"})
                    \cup At("template", ConfigPod({"restartPolicy"})))
GenerateServiceConfig ==
    Meta(Fields({"name", "namespace"}))
    \cup At("spec", Fields({"sessionAffinity", "sessionAffinityConfig", "clusterIP", "ports",
                            "selector", "type"}))
=============================================================================
