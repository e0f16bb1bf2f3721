---------------------------- MODULE PluginCharts ----------------------------
(***************************************************************************)
(* What the plugins of a fleet install: for each plugin the Helm releases,  *)
(* each with its HelmRepository, that its Render functions produce for the  *)
(* ready clusters of the fleet, in the stages in which they are applied.    *)
(* A release is a component and the cluster it is for; the values of the    *)
(* charts are left out.                                                     *)
(***************************************************************************)
EXTENDS FiniteSets, Integers, Sequences

CONSTANTS
  Member,    \* the clusters of the fleet
  NoCluster, \* the place of a release that is for the whole fleet
  Broker     \* the broker cluster of the Submariner plugin

\* The functions reconcilePlugins starts, by the plugin they reconcile.
Plugin == {"metric", "grafana", "kyverno", "backup", "distributedStorage", "flagger", "submariner", "provider"}

\* What fleet.Spec.Plugin can switch on.
Option ==
  {"metric", "grafana", "kyverno", "podSecurity", "backup", "distributedStorage",
   "storage", "flagger", "publicTestloader", "nginx", "submariner"}

OnEach(component, clusters) == {<<component, c>> : c \in clusters}

RenderThanos == {<<"thanos", NoCluster>>}

RenderPrometheus(clusters) == OnEach("prometheus", clusters)

RenderGrafana == {<<"grafana", NoCluster>>}

RenderKyverno(clusters) == OnEach("kyverno", clusters)

RenderKyvernoPolicy(clusters) == OnEach("kyverno-policies", clusters)

RenderVelero(clusters) == OnEach("velero", clusters)

RenderStorageOperator(clusters) == OnEach("rook", clusters)

RenderClusterStorage(clusters) == OnEach("rook-ceph", clusters)

RenderFlagger(clusters) == OnEach("flagger", clusters)

RenderRolloutTestloader(clusters) == OnEach("testloader", clusters)

RenderProvider(clusters) == OnEach("nginx", clusters)

RenderSubmarinerBroker(clusters) == OnEach("sm-broker", clusters \cap {Broker})

RenderSubmarinerOperator(clusters) == OnEach("sm-operator", clusters)

\* The stages of a plugin whose options are on: the releases of a stage are
\* applied when those of the stages before are ready.
Stages(p, options, clusters) ==
  CASE p = "metric" -> <<RenderThanos \cup RenderPrometheus(clusters)>>
    [] p = "grafana" -> <<RenderGrafana>>
    [] p = "kyverno" ->
         <<RenderKyverno(clusters),
           IF "podSecurity" \in options THEN RenderKyvernoPolicy(clusters) ELSE {}>>
    [] p = "backup" -> <<RenderVelero(clusters)>>
    [] p = "distributedStorage" ->
         <<RenderStorageOperator(clusters),
           IF "storage" \in options THEN RenderClusterStorage(clusters) ELSE {}>>
    [] p = "flagger" ->
         <<RenderFlagger(clusters) \cup
           IF "publicTestloader" \in options THEN RenderRolloutTestloader(clusters) ELSE {}>>
    [] p = "provider" -> <<RenderProvider(clusters)>>
    [] p = "submariner" -> <<RenderSubmarinerBroker(clusters), RenderSubmarinerOperator(clusters)>>

\* Is there something to do for the plugin?  A provider is installed with
\* flagger unless it is Istio.
Enabled(p, options) ==
  IF p = "provider" THEN {"flagger", "nginx"} \subseteq options ELSE p \in options

\* The releases of a plugin after its first n stages.
Applied(p, options, clusters, n) ==
  UNION {Stages(p, options, clusters)[i] : i \in {j \in DOMAIN Stages(p, options, clusters) : j <= n}}

Wanted(options, clusters) ==
  UNION {Applied(p, options, clusters, 2) : p \in {q \in Plugin : Enabled(q, options)}}

Release ==
  ({"thanos", "grafana"} \X {NoCluster}) \cup
  ({"prometheus", "kyverno", "kyverno-policies", "velero", "rook", "rook-ceph", "flagger", "testloader",
    "nginx", "sm-broker", "sm-operator"} \X Member)
=============================================================================
