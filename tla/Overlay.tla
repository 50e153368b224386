------------------------------ MODULE Overlay ------------------------------
(***************************************************************************)
(* Where traffic goes: internal/egress classifies every host, and          *)
(* internal/run/topology.go starts the compose project under an overlay in *)
(* which a proxy takes the names of the hosts that faults aim at.          *)
(* Runs follow one another over the same containers.                       *)
(***************************************************************************)
EXTENDS Integers, FiniteSets, TLC

CONSTANTS
    Services,     \* the services of the compose file
    DependsOn,    \* depends_on, for each service
    BaseNets,     \* the networks a service names itself: {} is the default
    hostnameOf,   \* a host:port without its port
    Requests      \* what runs may be asked: hosts, detected, faults, reset...

VARIABLES
    up,           \* the containers that are running
    overlay,      \* the services the overlay file on disk disables, or "none"
    request,      \* what this run was asked
    topo,         \* how far this run is with its topology
    proxies       \* Toxiproxy's proxies: the container each host leads to

topoVars == <<up, overlay, request, topo, proxies>>

networkFaultVerbs == {"latency", "down", "bandwidth", "slicer", "timeout", "reset_peer"}

-----------------------------------------------------------------------------
(* Egress classes.  A host of torture.yaml has the class written there,    *)
(* any other keeps `internal` if detection said so; the rest is denied.    *)

isKnownClass(c) == c \in {"internal", "mock", "real", "block", "unclassified"}

classifyOne(r, h) ==
    CASE h \in DOMAIN r.hosts -> IF isKnownClass(r.hosts[h]) THEN r.hosts[h]
                                 ELSE "unclassified"
      [] h \notin DOMAIN r.hosts /\ r.detected[h] = "internal" -> "internal"
      [] OTHER -> "unclassified"

Classes(r) == [h \in DOMAIN r.hosts \cup DOMAIN r.detected |-> classifyOne(r, h)]

OfClass(r, classes) == {h \in DOMAIN Classes(r) : Classes(r)[h] \in classes}

EgressAudit(r) == [mocked |-> OfClass(r, {"mock"}), blocked |-> OfClass(r, {"block"}),
                   real |-> OfClass(r, {"real"}), unclassified |-> OfClass(r, {"unclassified"})]

CheckMultiplier(r) == r.multiplier <= 1 \/ r.allowReal \/ OfClass(r, {"real"}) = {}

ExternalHosts(r) == OfClass(r, {"real", "mock"})

InternalHosts(r) == {f.target : f \in {g \in r.faults :
                        /\ g.verb \in networkFaultVerbs
                        /\ g.target \in OfClass(r, {"internal"})}}

Hostnames(hosts) == {hostnameOf[h] : h \in hosts}

-----------------------------------------------------------------------------
(* Containers of the base project and of the project under the overlay.    *)
(* Compose unites the networks of both files; depends_on is overridden.    *)

Id(c) == [service |-> c.service, role |-> c.role]

BaseProject == {[service |-> s, role |-> "own", aliases |-> {},
          nets |-> IF BaseNets[s] = {} THEN {"default"} ELSE BaseNets[s],
          needs |-> {[service |-> d, role |-> "own"] : d \in DependsOn[s]}] : s \in Services}

(* Mutant: depends_on still names the service that was moved aside. *)
rewriteDependsOn_Keeps(s, I) == {[service |-> d, role |-> "own"] : d \in DependsOn[s]}

rewriteDependsOn(s, I) ==
    {[service |-> d, role |-> IF d \in I THEN "backend" ELSE "own"] : d \in DependsOn[s]}

(* A clone is given its needs only when one of them was moved aside. *)
BackendNeeds(s, I) == IF DependsOn[s] \cap I = {} THEN {} ELSE rewriteDependsOn(s, I)

(* BuildTopology: the proxy alone is on both networks. *)
ProxyNets == {"sut", "egress"}

(* A disabled service has no container here: its clone has another name.   *)
Project(r) ==
    LET I == Hostnames(InternalHosts(r))
    IN  {[service |-> s, role |-> "own", aliases |-> {}, nets |-> BaseNets[s] \cup {"sut"},
          needs |-> rewriteDependsOn(s, I)] : s \in Services \ I}
        \cup {[service |-> s, role |-> "backend", aliases |-> {}, nets |-> {"sut"},
               needs |-> BackendNeeds(s, I)] : s \in I}
        \cup {[service |-> "proxy", role |-> "proxy", needs |-> {}, nets |-> ProxyNets,
               aliases |-> Hostnames(ExternalHosts(r)) \cup I]}

(* `up` replaces the containers of the services it starts, and leaves any  *)
(* other container alone, that of a disabled service included.             *)
Started(S) == {c \in up : Id(c) \notin {Id(d) : d \in S}} \cup S

(* A proxy container that is as it was is not replaced, and Toxiproxy keeps *)
(* the proxies it was told of in earlier runs.                             *)
Remembered(S) == IF {c \in S : c.role = "proxy"} \subseteq up THEN proxies ELSE <<>>

-----------------------------------------------------------------------------
TopoInit == /\ up = {} /\ overlay = {"none"} /\ request \in Requests
            /\ topo = "reset" /\ proxies = <<>>

(* The default reset command takes the base project down and up again; it  *)
(* does not know the containers the overlay added.  --no-reset skips it.   *)
ResetStack ==
    /\ topo = "reset"
    /\ up' = IF request.reset THEN {c \in up : c.role # "own"} \cup BaseProject ELSE up
    /\ topo' = "classify"
    /\ UNCHANGED <<overlay, request, proxies>>

(* Nothing is started for a run whose traffic is not accounted for. *)
CheckEgress ==
    /\ topo = "classify"
    /\ topo' = IF EgressAudit(request).unclassified = {} /\ CheckMultiplier(request)
               THEN "apply" ELSE "over"
    /\ UNCHANGED <<up, overlay, request, proxies>>

Interceptable == Hostnames(InternalHosts(request)) \subseteq Services

(* Apply: the overlay is written and compose brings the project up. *)
Apply ==
    /\ topo = "apply" /\ Interceptable
    /\ overlay' = Hostnames(InternalHosts(request))
    /\ up' = Started(Project(request)) /\ proxies' = Remembered(Project(request))
    /\ topo' = "prepare"
    /\ UNCHANGED request

(* It fails before it writes, or when compose has started only a part.     *)
ApplyFails ==
    /\ topo = "apply" /\ topo' = "over"
    /\ \/ UNCHANGED <<up, overlay, proxies>>
       \/ /\ Interceptable
          /\ overlay' = Hostnames(InternalHosts(request))
          /\ \E c \in Project(request) : /\ up' = Started(Project(request) \ {c})
                                        /\ proxies' = Remembered(Project(request) \ {c})
    /\ UNCHANGED request

(* The hosts whose traffic goes through the proxy. *)
Routed(r) == ExternalHosts(r) \cup InternalHosts(r)

(* A 409 leaves an earlier proxy of the same name where it leads.          *)
EnsureProxies ==
    /\ topo = "prepare"
    /\ proxies' = [h \in DOMAIN proxies \cup Routed(request) |->
                     IF h \in DOMAIN proxies THEN proxies[h]
                     ELSE [service |-> hostnameOf[h],
                           role |-> IF h \in InternalHosts(request) THEN "backend" ELSE "world"]]
    /\ topo' = "loaded"
    /\ UNCHANGED <<up, overlay, request>>

(* The run ends: what the overlay on disk disabled is removed by name,     *)
(* unless compose fails, which is only a warning.                          *)
TeardownDisabled ==
    /\ topo \in {"prepare", "loaded"}
    /\ topo' = "over"
    /\ \/ up' = {c \in up : ~(c.role = "own" /\ c.service \in Hostnames(InternalHosts(request)))}
       \/ up' = up
    /\ UNCHANGED <<overlay, request, proxies>>

NextRun ==
    /\ topo = "over"
    /\ topo' = "reset" /\ request' \in Requests
    /\ UNCHANGED <<up, overlay, proxies>>

TopoNext == \/ ResetStack \/ CheckEgress \/ Apply \/ ApplyFails \/ EnsureProxies
            \/ TeardownDisabled \/ NextRun

TopoSpec == TopoInit /\ [][TopoNext]_topoVars

-----------------------------------------------------------------------------
(* Docker's resolver: the containers that answer to a name on a network    *)
(* the asking container is attached to.                                    *)
AnswersTo(name, asker) ==
    {c \in up : \/ c.role = "own" /\ c.service = name /\ c.nets \cap asker.nets # {}
                \/ name \in c.aliases /\ "sut" \in asker.nets}

Enabled == {c \in up : Id(c) \in {Id(d) : d \in Project(request)}}

(* Only the proxy is on a network that leads out (R-DC2-3, and the comment *)
(* on Topology in internal/egress/topology.go).                            *)
OnlyProxyLeadsOut ==
    topo = "loaded" => \A c \in Enabled : c.role # "proxy" => c.nets = {"sut"}

(* The name of an intercepted host is answered by the proxy and by nothing *)
(* else, whatever earlier runs left running (R-EXE-20).                    *)
NamesLeadToProxy ==
    topo = "loaded" =>
        \A c \in Enabled, h \in Routed(request) :
           c.role = "own" => {Id(d) : d \in AnswersTo(hostnameOf[h], c)}
                                 = {[service |-> "proxy", role |-> "proxy"]}

(* Under load every fault has traffic to act on and nothing else leaves:   *)
(* names lead to the proxy; the proxy leads to a clone that runs and that  *)
(* it can reach; whatever a container waits for is enabled; and no host    *)
(* that a network fault aims at is left out, unless it is blocked.         *)
Intercepted ==
    /\ OnlyProxyLeadsOut
    /\ NamesLeadToProxy
    /\ topo = "loaded" =>
        /\ \A c \in Enabled : c.needs \subseteq {Id(d) : d \in Enabled}
        /\ \A h \in InternalHosts(request) :
             \E d \in Enabled : Id(d) = proxies[h] /\ "sut" \in d.nets
        /\ \A f \in request.faults :
             f.verb \in networkFaultVerbs /\ Classes(request)[f.target] # "block"
                => f.target \in DOMAIN proxies

=============================================================================
