----------------------------- MODULE Detection -----------------------------
(***************************************************************************)
(* What can be known of a system without running it: internal/detect reads *)
(* the compose file and the manifests, internal/doctor looks for the calls *)
(* that protect a dependency, and `tortureu init` writes the torture.yaml  *)
(* that says so.  A fact is "true", "false" or "unknown".                  *)
(***************************************************************************)
EXTENDS Integers, Sequences, FiniteSets, TLC, SequencesExt

CONSTANTS
    Projects,    \* compose files with what lies around them, and -service
    Predicates   \* the `when:` of each registry tool: a sequence of terms

VARIABLES
    project,     \* the project looked at
    found,       \* what detection has settled so far
    looked,      \* how far it is; "failed" when it gives up
    hints,       \* the findings of the resilience audit
    written      \* the torture.yaml that init wrote: a document, or NoFile

detectionVars == <<project, found, looked, hints, written>>

(* An image as the tables of image patterns and default ports read it:     *)
(* [kind, type, port, signals, sdk]; an observer gives off some signal.    *)
ImageKinds == {"none", "observer", "dependency", "unknown"}
IsImage(i) == i.kind \in ImageKinds /\ (i.kind = "observer" => i.signals # {})

(* readManifest prefers one manifest of a directory in this order. *)
rank == [gomod |-> 1, package |-> 2, pyproject |-> 3, gemfile |-> 4, pom |-> 5]

(* A manifest is [file, imports, unread, broken], an import [name, type,   *)
(* sdk] as the tables of its language read it, "" where they do not.       *)
IsManifest(m) == m.file \in DOMAIN rank /\ m.imports \in Seq(ToSet(m.imports))

(* What the compose loader yields, services with names, in one order, and  *)
(* the manifests in each directory: none, one, or several of a polyglot.   *)
IsProject(p) ==
    /\ p.order \in Seq(ToSet(p.order)) /\ ToSet(p.order) = DOMAIN p.services
    /\ IsFiniteSet(DOMAIN p.services) /\ "" \notin DOMAIN p.services
    /\ \A s \in DOMAIN p.services : IsImage(p.services[s].image)
    /\ p.source \in Seq(ToSet(p.source))
    /\ \A dir \in DOMAIN p.manifests : \A m \in p.manifests[dir] : IsManifest(m)

ASSUME ProjectsAssumption == \A p \in Projects : IsProject(p)
ASSUME PredicatesAssumption == \A terms \in Predicates : terms \in Seq(ToSet(terms))

NoFile == [service |-> "no file"]
Svc(s) == project.services[s]
ServiceNames == DOMAIN project.services
Address(h) == IF h.port = "" THEN h.name ELSE h.name \o ":" \o h.port

-----------------------------------------------------------------------------
(* Which service is tortured: the one asked for, the only one built, the   *)
(* only built one that no service depends on, or none.                     *)

Builds == {s \in ServiceNames : Svc(s).build # ""}

Roots == {s \in Builds : \A t \in ServiceNames : s \notin Svc(t).needs}

Chosen(s, choice, gaps) == [sut |-> s, choice |-> choice, gaps |-> gaps]

(* Mutant: the first of several candidates is taken. *)
chooseSUT_Guess ==
    CASE project.asked # "" -> Chosen(project.asked, "requested", {})
      [] project.asked = "" /\ Builds = {} -> Chosen("", "none", {})
      [] project.asked = "" /\ Builds # {} -> Chosen(CHOOSE s \in Builds : TRUE, "only", {})

chooseSUT ==
    CASE project.asked # "" -> Chosen(project.asked, "requested", {})
      [] project.asked = "" /\ Builds = {} -> Chosen("", "none", {})
      [] project.asked = "" /\ Cardinality(Builds) = 1 ->
           Chosen(CHOOSE s \in Builds : TRUE, "only", {})
      [] project.asked = "" /\ Cardinality(Builds) > 1 ->
           IF Cardinality(Roots) = 1 THEN Chosen(CHOOSE s \in Roots : TRUE, "derived", {})
           ELSE Chosen("", "undecided", {<<"system under test", "">>})

(* Ports of tcp that are one number, each once. *)
listenPorts(s) ==
    {p.n : p \in {q \in ToSet(Svc(s).ports) \cup Svc(s).expose : q.proto \in {"", "tcp"}}} \ {0}

-----------------------------------------------------------------------------
DetectionInit ==
    /\ project \in Projects
    /\ found = [sut |-> "", choice |-> "", ports |-> {}, deps |-> <<>>, obs |-> {},
                class |-> <<>>, gaps |-> {}, seen |-> {}, lang |-> "", facts |-> <<>>]
    /\ looked = "compose" /\ hints = {} /\ written = NoFile

Look(from, to) == looked = from /\ looked' = to /\ UNCHANGED <<project, hints, written>>

(* The hosts get a class, the others keep theirs. *)
Classed(class, hosts, c) ==
    [a \in DOMAIN class \cup hosts |-> IF a \in hosts THEN c ELSE class[a]]

(* Every other service that is not built: an observer, a dependency or a   *)
(* gap.  A service with neither build: nor image: is passed over.          *)
AddService(sys, s) ==
    LET image == Svc(s).image
        port  == IF Svc(s).ports # <<>> /\ Svc(s).ports[1].n # 0 THEN ToString(Svc(s).ports[1].n)
                 ELSE image.port
        addr  == IF port = "" THEN "" ELSE s \o ":" \o port
    IN  IF Svc(s).build # "" \/ s = sys.sut \/ image.kind = "none" THEN sys
        ELSE IF image.kind = "observer"
        THEN   [sys EXCEPT !.obs = @ \cup image.signals, !.seen = @ \cup ({image.sdk} \ {""})]
        ELSE IF image.kind = "dependency"
        THEN   [sys EXCEPT !.deps = Append(@, [name |-> s, type |-> image.type, address |-> addr,
                                               clients |-> <<>>]),
                           !.class = Classed(@, {addr} \ {""}, "internal")]
        ELSE   [sys EXCEPT !.gaps = @ \cup {<<"unrecognized image", s>>}]

(* What is known after each of the services. *)
Surveyed ==
    LET sys[n \in 0..Len(project.order)] ==
          IF n = 0
          THEN [found EXCEPT !.sut = chooseSUT.sut, !.choice = chooseSUT.choice, !.gaps = chooseSUT.gaps,
                             !.ports = IF chooseSUT.sut = "" THEN {} ELSE listenPorts(chooseSUT.sut)]
          ELSE AddService(sys[n - 1], project.order[n])
    IN  sys

DetectServices ==
    IF project.asked \in ServiceNames \cup {""}
    THEN Look("compose", "hosts") /\ found' = Surveyed[Len(project.order)]
    ELSE Look("compose", "failed") /\ UNCHANGED found

(* A value of the environment that is a URL, or a bare host that ends in a *)
(* common top-level domain, is a host; ours and the loopback are not.      *)
extractHost(v) == v.form = "url" \/ (v.form = "bare" /\ v.tld)

detectExternalHosts ==
    /\ Look("hosts", "manifests")
    /\ LET hosts == {v \in UNION {Svc(s).env : s \in ServiceNames} :
                        extractHost(v) /\ v.name \notin ServiceNames \cup {"localhost"}}
       IN  found' = [found EXCEPT !.class =
                        Classed(@, {Address(h) : h \in hosts} \ DOMAIN @, "unclassified")]

-----------------------------------------------------------------------------
(* Manifests: the root's, then those of the services' build contexts.      *)

langOf == [none |-> "", gomod |-> "go", package |-> "node", pyproject |-> "python",
           gemfile |-> "ruby", pom |-> "java"]

lockfileOnly == {"sqs", "dynamodb", "snowflake", "websocket", "jms", "ldap", "soap"}

(* The first dependency of the type has the client; a type that no image   *)
(* can show becomes a dependency of its own.                               *)
attachClient(deps, type, ref) ==
    LET alike == {k \in DOMAIN deps : deps[k].type = type}
    IN  IF alike # {} THEN [deps EXCEPT ![Min(alike)].clients = Append(@, ref)]
        ELSE IF type \in lockfileOnly
        THEN Append(deps, [name |-> type, type |-> type, address |-> "", clients |-> <<ref>>])
        ELSE deps

Manifests(dir) == IF dir \in DOMAIN project.manifests THEN project.manifests[dir] ELSE {}
NoManifest == [file |-> "none", imports |-> <<>>, unread |-> FALSE, broken |-> FALSE]

(* Of several manifests one is read; the others are passed over in silence. *)
Preferred(M) == CHOOSE m \in M : \A n \in M : rank[m.file] <= rank[n.file]
ManifestIn(dir) == IF Manifests(dir) = {} THEN NoManifest ELSE Preferred(Manifests(dir))

(* The dependencies after each of a manifest's imports. *)
Attached(deps, imports, service) ==
    LET upto[n \in 0..Len(imports)] ==
          IF n = 0 THEN deps
          ELSE IF imports[n].type # ""
          THEN attachClient(upto[n - 1], imports[n].type, [import |-> imports[n].name, service |-> service])
          ELSE upto[n - 1]
    IN  upto

applyManifestFacts(sys, m, imports, service) ==
    [sys EXCEPT !.deps = Attached(@, imports, service)[Len(imports)],
                !.seen = @ \cup {i.sdk : i \in ToSet(imports)}
                           \cup (IF m.unread THEN {"unread"} ELSE {}),
                !.gaps = @ \cup (IF m.unread THEN {<<"modules not read", service>>} ELSE {})]

serviceForDir(dir) ==
    LET at == {k \in DOMAIN project.order : Svc(project.order[k]).build = dir}
    IN  IF at = {} THEN "" ELSE project.order[Min(at)]

(* The services whose build context has a manifest of its own. *)
Contexts == {s \in ServiceNames : /\ Svc(s).build \notin {"", "."}
                                  /\ ManifestIn(Svc(s).build).file # "none"}

(* The root's language, else the SUT's, else the others' if they agree.    *)
resolveLang(sys) ==
    LET LangIn(s) == langOf[ManifestIn(Svc(s).build).file]
        root   == langOf[ManifestIn(".").file]
        others == {LangIn(s) : s \in Contexts \ {sys.sut}}
    IN  CASE root # ""                        -> [sys EXCEPT !.lang = root]
          [] root = "" /\ sys.sut \in Contexts -> [sys EXCEPT !.lang = LangIn(sys.sut)]
          [] OTHER -> IF Cardinality(others) = 1
                      THEN [sys EXCEPT !.lang = CHOOSE l \in others : TRUE]
                      ELSE IF others = {} THEN sys
                      ELSE [sys EXCEPT !.gaps = @ \cup {<<"language", "">>}]

(* Absence is claimed only when every manifest was read to the end. *)
manifestFact(sys, sdk) ==
    CASE sdk \in sys.seen                              -> "true"
      [] sdk \notin sys.seen /\ "unread" \in sys.seen -> "unknown"
      [] OTHER                                         -> "false"

lacksOtel(sys) == CASE {"otel", "collector"} \cap sys.seen # {} -> "false"
                    [] {"otel", "collector"} \cap sys.seen = {} ->
                         IF "unread" \in sys.seen THEN "unknown" ELSE "true"

Facts(sys) ==
    [f \in {"platform:aws", "platform:azure", "lacks:otel", "spec:openapi", "spec:proto", "platform:k8s"} |->
       CASE f = "platform:aws"   -> manifestFact(sys, "aws")
         [] f = "platform:azure" -> manifestFact(sys, "azure")
         [] f = "lacks:otel"     -> lacksOtel(sys)
         [] OTHER                -> IF f \in project.files THEN "true" ELSE "false"]

(* package.json is a Go map: its dependencies come in any order. *)
Orders(m) ==
    LET places == DOMAIN m.imports
    IN  IF m.file # "package" THEN {m.imports}
        ELSE {[k \in places |-> m.imports[at[k]]] : at \in {f \in [places -> places] : IsInjective(f)}}

(* The root's manifest, then those of the services in their order, each    *)
(* with its imports in the order they came.                                *)
Root == ""
In(s) == IF s = Root THEN ManifestIn(".") ELSE ManifestIn(Svc(s).build)

Manifested(order) ==
    LET Add(sys, s, owner) == IF In(s).file = "none" THEN sys
                              ELSE applyManifestFacts(sys, In(s), order[s], owner)
        upto[n \in 0..Len(project.order)] ==
          IF n = 0 THEN Add(found, Root, serviceForDir("."))
          ELSE IF project.order[n] \in Contexts
          THEN Add(upto[n - 1], project.order[n], project.order[n])
          ELSE upto[n - 1]
    IN  upto

(* A manifest that does not parse ends it, and a directory not to be read. *)
detectManifests ==
    LET readers == {Root} \cup Contexts
    IN  IF project.unwalked \/ \E s \in readers : In(s).broken
        THEN Look("manifests", "failed") /\ UNCHANGED found
        ELSE /\ Look("manifests", "found")
             /\ \E order \in [readers -> UNION {Orders(In(s)) : s \in readers}] :
                  /\ \A s \in readers : order[s] \in Orders(In(s))
                  /\ LET sys == resolveLang(Manifested(order)[Len(project.order)])
                     IN  found' = [sys EXCEPT !.facts = Facts(sys)]

-----------------------------------------------------------------------------
(* The registry.  A term is "true", "false" or "unknown" of the system; of *)
(* several, the first that is not "false" decides.  `always` and `never`   *)
(* stand alone.                                                            *)

evalTerm(term) ==
    CASE term.ns = "fact" -> found.facts[term.value]
      [] term.ns = "dep"  -> IF \E d \in ToSet(found.deps) : d.type = term.value
                             THEN "true" ELSE "false"
      [] term.ns = "lang" -> IF found.lang = term.value THEN "true" ELSE "false"
      [] OTHER            -> "unknown"

EvalPredicate(terms) ==
    LET told == {k \in DOMAIN terms : evalTerm(terms[k]) # "false"}
    IN  CASE terms[1].ns = "always" -> "true"
          [] terms[1].ns = "never"  -> "false"
          [] OTHER -> IF told = {} THEN "false" ELSE evalTerm(terms[Min(told)])

-----------------------------------------------------------------------------
(* The audit.  A source file is [calls, drivers, sigs]; the first that     *)
(* constructs the dependency's client is the one that is read.             *)

goSourceSites == {"postgresql", "redis", "mysql", "http"}

Attributable(f, type) ==
    \/ type \in f.calls
    \/ "sql.Open" \in f.calls /\ type \in f.drivers \cap {"postgresql", "mysql"}

(* The places among the source files that construct a client. *)
Sites(type) == {k \in DOMAIN project.source : Attributable(project.source[k], type)}

findConstructionSite(type) == project.source[Min(Sites(type))]

Inspect(type, check) ==
    LET site == findConstructionSite(type)
    IN  IF type \notin goSourceSites \/ Sites(type) = {} THEN "not determined"
        ELSE IF \/ check = "timeout" /\ "timeout" \in site.sigs
                \/ check = "retry" /\ {"retry", "cap", "backoff", "jitter"} \subseteq site.sigs
        THEN "present" ELSE "absent"

Audit ==
    /\ looked = "found" /\ looked' = "audited"
    /\ LET about == {[dep |-> d.name, type |-> d.type, library |-> d.clients[1].import] :
                        d \in {e \in ToSet(found.deps) : e.clients # <<>>}}
                    \cup (IF Sites("http") = {} THEN {}
                          ELSE {[dep |-> found.sut, type |-> "http", library |-> "net/http"]})
       IN  hints' = {[dep |-> a.dep, type |-> a.type, library |-> a.library, check |-> c,
                      result |-> Inspect(a.type, c)] : a \in about, c \in {"timeout", "retry"}}
    /\ UNCHANGED <<project, found, written>>

-----------------------------------------------------------------------------
(* tortureu init: a starter, with the classes that are certain. *)

(* A number that the document does not have: the parser's Absent. *)
NotSaid == -999998

Internal == {a \in DOMAIN found.class : found.class[a] = "internal"}

(* Only when the port is certain. *)
writeBaseURL ==
    IF Cardinality(found.ports) = 1
    THEN "http://localhost:" \o ToString(CHOOSE p \in found.ports : TRUE) ELSE ""

buildInit ==
    [keys |-> {"version", "target", "egress", "load", "assert"},
     compose |-> "compose.yaml", service |-> found.sut,
     baseURL |-> writeBaseURL,
     egress |-> [present |-> TRUE, default |-> "deny",
                 hosts |-> [a \in Internal |-> [class |-> "internal", from |-> "", max_rps |-> 0]]],
     load |-> [model |-> "arrival_rate",
               stages |-> <<[phase |-> "starter", to |-> 2, hold |-> NotSaid, over |-> 10,
                             for |-> NotSaid]>>],
     scenarios |-> <<"method and path">>, faults |-> <<>>, asserts |-> 2]

runInit ==
    /\ looked = "audited" /\ looked' = "written"
    /\ written' = buildInit
    /\ UNCHANGED <<project, found, hints>>

DetectionNext == DetectServices \/ detectExternalHosts \/ detectManifests \/ Audit \/ runInit

DetectionSpec == DetectionInit /\ [][DetectionNext]_detectionVars

=============================================================================
