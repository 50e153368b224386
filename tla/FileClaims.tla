------------------------------ MODULE FileClaims ------------------------------
(***************************************************************************)
(* What the rest of the program makes of what detection says: the file     *)
(* that init writes as config.Parse and a run's egress audit read it, and  *)
(* the facts that the registry of tools goes by.                           *)
(***************************************************************************)
EXTENDS McpServer

Starter == INSTANCE Scenario WITH doc <- written, Documents <- {}, scen <- "parse",
                                  plan <- <<>>, routed <- {}
ASSUME NotSaidAssumption == NotSaid = Starter!Absent

Egress == INSTANCE Overlay WITH Services <- {}, DependsOn <- <<>>, BaseNets <- <<>>,
                                hostnameOf <- <<>>, Requests <- {}, up <- {}, overlay <- {},
                                request <- <<>>, topo <- "idle", proxies <- <<>>

RunOf(d) == [hosts |-> [h \in DOMAIN d.egress.hosts |-> d.egress.hosts[h].class],
             detected |-> found.class, multiplier |-> 1, allowReal |-> FALSE, faults |-> {}]

-----------------------------------------------------------------------------
(* A claim about the system is one that the files support, and what no     *)
(* file decides is said (R-DET-3, 4, 7, 19, R-COV-4, 6, R-AUD-3, R-CLI-4): *)
(* no container is tortured that was a guess; every image is an observer,  *)
(* a dependency or a gap; no fact is denied that a manifest which was read *)
(* declares, or while one points at others that were not, nor a tool       *)
(* recommended or ruled out on one; a hint is of a file that constructs    *)
(* the client; the file init writes parses exactly when a service was      *)
(* chosen, has a base_url only when one port is possible, and a run under  *)
(* it still refuses every host that init could not classify.  What is not  *)
(* said of a manifest beside the one that was read, NeverDeniesUnread is.  *)
KnowsOrSays ==
    /\ looked \notin {"compose", "failed"} =>
         /\ found.sut \in Builds \/ found.sut = "" \/ found.sut = project.asked
         /\ found.sut # "" /\ project.asked = "" => Builds = {found.sut} \/ Roots = {found.sut}
         /\ found.sut = "" /\ Builds # {} => <<"system under test", "">> \in found.gaps
         /\ \A s \in ServiceNames \ (Builds \cup {found.sut}) :
              Svc(s).image.kind # "none" =>
                \/ \E d \in ToSet(found.deps) : d.name = s
                \/ Svc(s).image.kind = "observer" /\ found.obs # {}
                \/ <<"unrecognized image", s>> \in found.gaps
    /\ looked \in {"found", "audited", "written"} =>
         LET readAll == \A dir \in {"."} \cup {Svc(s).build : s \in Builds} :
                           ~ManifestIn(dir).unread
             sdks    == {i.sdk : i \in UNION {ToSet(ManifestIn(dir).imports) :
                                   dir \in {"."} \cup {Svc(s).build : s \in Builds}}}
         IN  /\ found.facts["platform:aws"] = "false" => readAll /\ "aws" \notin sdks
             /\ found.facts["lacks:otel"] = "true" => readAll /\ "otel" \notin sdks
             /\ \A p \in {q \in Predicates : q[1].ns \notin {"always", "never"}} :
                  /\ EvalPredicate(p) = "true"  => \E t \in ToSet(p) : evalTerm(t) = "true"
                  /\ EvalPredicate(p) = "false" => \A t \in ToSet(p) : evalTerm(t) = "false"
             /\ \A d \in ToSet(found.deps) : \A c \in ToSet(d.clients) :
                  /\ c.service # "" => c.service \in Builds
                  /\ \E dir \in DOMAIN project.manifests :
                       \E i \in UNION {ToSet(m.imports) : m \in project.manifests[dir]} :
                          i.name = c.import /\ i.type = d.type
    /\ \A h \in hints :
         h.result # "not determined" =>
            \E f \in ToSet(project.source) :
               /\ h.type \in f.calls \/ h.type \in f.drivers
               /\ h.result = "present" /\ h.check = "timeout" => "timeout" \in f.sigs
    /\ written # NoFile =>
         /\ Starter!Parses <=> found.sut # ""
         /\ written.baseURL # "" => Cardinality(listenPorts(found.sut)) = 1
         /\ LET audit == Egress!EgressAudit(RunOf(written))
            IN  /\ audit.unclassified = DOMAIN found.class \ Internal
                /\ audit.real = {} /\ audit.mocked = {}

(* R-DET-18 as written: "FactFalse is a positive claim of absence and MUST  *)
(* be reserved for `every manifest R-DET-1 permits was read, and none of    *)
(* them declares it`", a second manifest of a directory included.           *)
NeverDeniesUnread ==
    looked \in {"found", "audited", "written"} =>
       LET dirs == {"."} \cup {Svc(s).build : s \in Builds}
           sdks == {i.sdk : i \in UNION {ToSet(m.imports) : m \in UNION {Manifests(dir) : dir \in dirs}}}
       IN  /\ found.facts["platform:aws"] = "false" => "aws" \notin sdks
           /\ found.facts["lacks:otel"] = "true" => "otel" \notin sdks

=============================================================================
