--------------------------- MODULE PlanningProofs ---------------------------
(***************************************************************************)
(* Proofs about what is said before and around a run: what detection knows *)
(* of a system and init writes of it, the answers of an MCP session, and   *)
(* what a document says, as a run and as a script of another tool.         *)
(***************************************************************************)
EXTENDS FileClaims, Emit, OrderFacts, FiniteSetTheorems, SequenceTheorems, FunctionTheorems, TLAPS

-----------------------------------------------------------------------------
(* The loops of detection are recursive functions; this is what the first   *)
(* of them begins with.                                                     *)
Begin == [found EXCEPT !.sut = chooseSUT.sut, !.choice = chooseSUT.choice, !.gaps = chooseSUT.gaps,
                       !.ports = IF chooseSUT.sut = "" THEN {} ELSE listenPorts(chooseSUT.sut)]

(* b is what is known of the services after each of the first m.            *)
SurveyTo(b, m) == b = [n \in 0..m |-> IF n = 0 THEN Begin ELSE AddService(b[n - 1], project.order[n])]

(* Such a table is carried on by one turn.                                  *)
LEMMA SurveyOn ==
    ASSUME NEW m \in Nat \ {0}, NEW b, SurveyTo(b, m - 1)
    PROVE  \E c : SurveyTo(c, m)
<1> DEFINE c == [n \in 0..m |-> IF n = m THEN AddService(b[m - 1], project.order[m]) ELSE b[n]]
<1>1. ASSUME NEW n \in 0..m
      PROVE  c[n] = IF n = 0 THEN Begin ELSE AddService(c[n - 1], project.order[n])
  <2>1. CASE n = m
    <3>1. m - 1 \in 0..m /\ m - 1 # m /\ n # 0
      BY <2>1
    <3> QED
      BY <2>1, <3>1
  <2>2. CASE n # m
    <3>1. n \in 0..(m - 1) /\ c[n] = b[n]
      BY <2>2
    <3>2. b[n] = IF n = 0 THEN Begin ELSE AddService(b[n - 1], project.order[n])
      <4> HIDE DEF c
      <4> QED
        BY <3>1 DEF SurveyTo
    <3>3. CASE n # 0
      <4>1. n - 1 \in 0..m /\ n - 1 # m
        BY <3>1, <3>3
      <4>2. c[n - 1] = b[n - 1]
        BY <4>1
      <4> QED
        BY <3>1, <3>2, <3>3, <4>2
    <3> QED
      BY <3>1, <3>2, <3>3
  <2> QED
    BY <2>1, <2>2
<1>2. c = [n \in 0..m |-> c[n]]
  OBVIOUS
<1> HIDE DEF c
<1>3. SurveyTo(c, m)
  BY <1>1, <1>2 DEF SurveyTo
<1> QED
  BY <1>3

(* So there is one for any number of turns.                                 *)
LEMMA SurveyExists ==
    ASSUME NEW m \in Nat
    PROVE  \E b : SurveyTo(b, m)
<1> DEFINE T == {n \in Nat : ~\E b : SurveyTo(b, n)}
<1>1. SUFFICES ASSUME T # {} PROVE FALSE
  OBVIOUS
<1>2. PICK n \in T : \A i \in T : n <= i
  <2>1. T \in SUBSET Nat
    OBVIOUS
  <2> HIDE DEF T
  <2> QED
    BY <1>1, <2>1, LeastNat
<1>3. CASE n = 0
  <2> DEFINE b == [i \in 0..0 |-> Begin]
  <2>1. b = [i \in 0..0 |-> IF i = 0 THEN Begin ELSE AddService(b[i - 1], project.order[i])]
    OBVIOUS
  <2> HIDE DEF b
  <2>2. SurveyTo(b, 0)
    BY <2>1 DEF SurveyTo
  <2> QED
    BY <1>2, <1>3, <2>2
<1>4. CASE n # 0
  <2>1. n - 1 \in Nat /\ n - 1 \notin T /\ n \in Nat \ {0}
    BY <1>2, <1>4
  <2>2. PICK b : SurveyTo(b, n - 1)
    BY <2>1
  <2> QED
    BY <1>2, <2>1, <2>2, SurveyOn
<1> QED
  BY <1>3, <1>4

(* The loop over the services is such a table.                              *)
LEMMA SurveyIs ==
    ASSUME Len(project.order) \in Nat
    PROVE  /\ Surveyed[0] = Begin
           /\ \A n \in 1..Len(project.order) : Surveyed[n] = AddService(Surveyed[n - 1], project.order[n])
<1> DEFINE B == Surveyed
<1>1. B = CHOOSE b : b = [n \in 0..Len(project.order) |-> IF n = 0 THEN Begin ELSE AddService(b[n - 1], project.order[n])]
  BY DEF Surveyed, Begin
<1>2. B = CHOOSE b : SurveyTo(b, Len(project.order))
  BY <1>1, Zenon DEF SurveyTo
<1>3. SurveyTo(B, Len(project.order))
  BY <1>2, SurveyExists
<1> HIDE DEF B
<1>4. B[0] = Begin /\ \A n \in 1..Len(project.order) : B[n] = AddService(B[n - 1], project.order[n])
  BY <1>3 DEF SurveyTo
<1> QED
  BY <1>4 DEF B

(* One turn of the loop over imports. *)
Turn(deps, imports, service, n) ==
    IF imports[n].type # ""
    THEN attachClient(deps, imports[n].type, [import |-> imports[n].name, service |-> service])
    ELSE deps

(* b is the dependencies after each of the first m.                         *)
AttachTo(deps, imports, service, b, m) ==
    b = [n \in 0..m |-> IF n = 0 THEN deps ELSE Turn(b[n - 1], imports, service, n)]

(* Such a table is carried on by one turn.                                  *)
LEMMA AttachOn ==
    ASSUME NEW deps, NEW imports, NEW service, NEW m \in Nat \ {0}, NEW b,
           AttachTo(deps, imports, service, b, m - 1)
    PROVE  \E c : AttachTo(deps, imports, service, c, m)
<1> DEFINE c == [n \in 0..m |-> IF n = m THEN Turn(b[m - 1], imports, service, m) ELSE b[n]]
<1>1. ASSUME NEW n \in 0..m
      PROVE  c[n] = IF n = 0 THEN deps ELSE Turn(c[n - 1], imports, service, n)
  <2>1. CASE n = m
    <3>1. m - 1 \in 0..m /\ m - 1 # m /\ n # 0
      BY <2>1
    <3> QED
      BY <2>1, <3>1
  <2>2. CASE n # m
    <3>1. n \in 0..(m - 1) /\ c[n] = b[n]
      BY <2>2
    <3>2. b[n] = IF n = 0 THEN deps ELSE Turn(b[n - 1], imports, service, n)
      <4> HIDE DEF c
      <4> QED
        BY <3>1 DEF AttachTo
    <3>3. CASE n # 0
      <4>1. n - 1 \in 0..m /\ n - 1 # m
        BY <3>1, <3>3
      <4>2. c[n - 1] = b[n - 1]
        BY <4>1
      <4> QED
        BY <3>1, <3>2, <3>3, <4>2
    <3> QED
      BY <3>1, <3>2, <3>3
  <2> QED
    BY <2>1, <2>2
<1>2. c = [n \in 0..m |-> c[n]]
  OBVIOUS
<1> HIDE DEF c
<1>3. AttachTo(deps, imports, service, c, m)
  BY <1>1, <1>2 DEF AttachTo
<1> QED
  BY <1>3

(* So there is one for any number of turns.                                 *)
LEMMA AttachExists ==
    ASSUME NEW deps, NEW imports, NEW service, NEW m \in Nat
    PROVE  \E b : AttachTo(deps, imports, service, b, m)
<1> DEFINE T == {n \in Nat : ~\E b : AttachTo(deps, imports, service, b, n)}
<1>1. SUFFICES ASSUME T # {} PROVE FALSE
  OBVIOUS
<1>2. PICK n \in T : \A i \in T : n <= i
  <2>1. T \in SUBSET Nat
    OBVIOUS
  <2> HIDE DEF T
  <2> QED
    BY <1>1, <2>1, LeastNat
<1>3. CASE n = 0
  <2> DEFINE b == [i \in 0..0 |-> deps]
  <2>1. b = [i \in 0..0 |-> IF i = 0 THEN deps ELSE Turn(b[i - 1], imports, service, i)]
    OBVIOUS
  <2> HIDE DEF b
  <2>2. AttachTo(deps, imports, service, b, 0)
    BY <2>1 DEF AttachTo
  <2> QED
    BY <1>2, <1>3, <2>2
<1>4. CASE n # 0
  <2>1. n - 1 \in Nat /\ n - 1 \notin T /\ n \in Nat \ {0}
    BY <1>2, <1>4
  <2>2. PICK b : AttachTo(deps, imports, service, b, n - 1)
    BY <2>1
  <2> QED
    BY <1>2, <2>1, <2>2, AttachOn
<1> QED
  BY <1>3, <1>4

(* The loop over a manifest's imports is such a table.                      *)
LEMMA AttachIs ==
    ASSUME NEW deps, NEW imports, NEW service, Len(imports) \in Nat
    PROVE  /\ Attached(deps, imports, service)[0] = deps
           /\ \A n \in 1..Len(imports) :
                Attached(deps, imports, service)[n]
                  = Turn(Attached(deps, imports, service)[n - 1], imports, service, n)
<1> DEFINE B == Attached(deps, imports, service)
<1>1. B = CHOOSE b : b = [n \in 0..Len(imports) |-> IF n = 0 THEN deps ELSE Turn(b[n - 1], imports, service, n)]
  BY DEF Attached, Turn
<1>2. B = CHOOSE b : AttachTo(deps, imports, service, b, Len(imports))
  BY <1>1, Zenon DEF AttachTo
<1>3. AttachTo(deps, imports, service, B, Len(imports))
  BY <1>2, AttachExists
<1> HIDE DEF B
<1>4. B[0] = deps /\ \A n \in 1..Len(imports) : B[n] = Turn(B[n - 1], imports, service, n)
  BY <1>3 DEF AttachTo
<1> QED
  BY <1>4 DEF B

(* The manifest for s, if there is one. *)
AddRead(sys, order, s, owner) ==
    IF In(s).file = "none" THEN sys ELSE applyManifestFacts(sys, In(s), order[s], owner)

ReadStart(order) == AddRead(found, order, Root, serviceForDir("."))

ReadTurn(sys, order, n) ==
    IF project.order[n] \in Contexts THEN AddRead(sys, order, project.order[n], project.order[n])
    ELSE sys

(* b is what is known of the manifests after each of the first m.           *)
ReadTo(order, b, m) == b = [n \in 0..m |-> IF n = 0 THEN ReadStart(order) ELSE ReadTurn(b[n - 1], order, n)]

(* Such a table is carried on by one turn.                                  *)
LEMMA ReadOn ==
    ASSUME NEW order, NEW m \in Nat \ {0}, NEW b, ReadTo(order, b, m - 1)
    PROVE  \E c : ReadTo(order, c, m)
<1> DEFINE c == [n \in 0..m |-> IF n = m THEN ReadTurn(b[m - 1], order, m) ELSE b[n]]
<1>1. ASSUME NEW n \in 0..m
      PROVE  c[n] = IF n = 0 THEN ReadStart(order) ELSE ReadTurn(c[n - 1], order, n)
  <2>1. CASE n = m
    <3>1. m - 1 \in 0..m /\ m - 1 # m /\ n # 0
      BY <2>1
    <3> QED
      BY <2>1, <3>1
  <2>2. CASE n # m
    <3>1. n \in 0..(m - 1) /\ c[n] = b[n]
      BY <2>2
    <3>2. b[n] = IF n = 0 THEN ReadStart(order) ELSE ReadTurn(b[n - 1], order, n)
      <4> HIDE DEF c
      <4> QED
        BY <3>1 DEF ReadTo
    <3>3. CASE n # 0
      <4>1. n - 1 \in 0..m /\ n - 1 # m
        BY <3>1, <3>3
      <4>2. c[n - 1] = b[n - 1]
        BY <4>1
      <4> QED
        BY <3>1, <3>2, <3>3, <4>2
    <3> QED
      BY <3>1, <3>2, <3>3
  <2> QED
    BY <2>1, <2>2
<1>2. c = [n \in 0..m |-> c[n]]
  OBVIOUS
<1> HIDE DEF c
<1>3. ReadTo(order, c, m)
  BY <1>1, <1>2 DEF ReadTo
<1> QED
  BY <1>3

(* So there is one for any number of turns.                                 *)
LEMMA ReadExists ==
    ASSUME NEW order, NEW m \in Nat
    PROVE  \E b : ReadTo(order, b, m)
<1> DEFINE T == {n \in Nat : ~\E b : ReadTo(order, b, n)}
<1>1. SUFFICES ASSUME T # {} PROVE FALSE
  OBVIOUS
<1>2. PICK n \in T : \A i \in T : n <= i
  <2>1. T \in SUBSET Nat
    OBVIOUS
  <2> HIDE DEF T
  <2> QED
    BY <1>1, <2>1, LeastNat
<1>3. CASE n = 0
  <2> DEFINE b == [i \in 0..0 |-> ReadStart(order)]
  <2>1. b = [i \in 0..0 |-> IF i = 0 THEN ReadStart(order) ELSE ReadTurn(b[i - 1], order, i)]
    OBVIOUS
  <2> HIDE DEF b
  <2>2. ReadTo(order, b, 0)
    BY <2>1 DEF ReadTo
  <2> QED
    BY <1>2, <1>3, <2>2
<1>4. CASE n # 0
  <2>1. n - 1 \in Nat /\ n - 1 \notin T /\ n \in Nat \ {0}
    BY <1>2, <1>4
  <2>2. PICK b : ReadTo(order, b, n - 1)
    BY <2>1
  <2> QED
    BY <1>2, <2>1, <2>2, ReadOn
<1> QED
  BY <1>3, <1>4

(* The loop over the manifests is such a table.                             *)
LEMMA ReadIs ==
    ASSUME NEW order, Len(project.order) \in Nat
    PROVE  /\ Manifested(order)[0] = ReadStart(order)
           /\ \A n \in 1..Len(project.order) :
                Manifested(order)[n] = ReadTurn(Manifested(order)[n - 1], order, n)
<1> DEFINE B == Manifested(order)
<1>1. B = CHOOSE b : b = [n \in 0..Len(project.order) |-> IF n = 0 THEN ReadStart(order) ELSE ReadTurn(b[n - 1], order, n)]
  BY DEF Manifested, ReadStart, ReadTurn, AddRead
<1>2. B = CHOOSE b : ReadTo(order, b, Len(project.order))
  BY <1>1, Zenon DEF ReadTo
<1>3. ReadTo(order, B, Len(project.order))
  BY <1>2, ReadExists
<1>4. B = Manifested(order)
  OBVIOUS
<1> HIDE DEF B
<1>5. B = [n \in 0..Len(project.order) |-> IF n = 0 THEN ReadStart(order) ELSE ReadTurn(B[n - 1], order, n)]
  BY <1>3, Zenon DEF ReadTo
<1>6. B[0] = ReadStart(order) /\ \A n \in 1..Len(project.order) : B[n] = ReadTurn(B[n - 1], order, n)
  <2> DEFINE L == Len(project.order)
  <2>1. L \in Nat
    OBVIOUS
  <2> HIDE DEF L
  <2>2. \A n \in 1..L : B[n] = ReadTurn(B[n - 1], order, n)
    <3> TAKE n \in 1..L
    <3>1. n \in 0..L /\ n # 0
      BY <2>1
    <3> QED
      BY <1>5, <3>1 DEF L
  <2>3. B[0] = ReadStart(order)
    <3>1. 0 \in 0..L
      BY <2>1
    <3> QED
      BY <1>5, <3>1 DEF L
  <2> QED
    BY <2>2, <2>3 DEF L
<1> QED
  BY <1>4, <1>6, Zenon

(* What may be said of the service that is tortured.                        *)
Derived(sut, gaps) ==
    /\ sut \in Builds \/ sut = "" \/ sut = project.asked
    /\ sut # "" /\ project.asked = "" => Builds = {sut} \/ Roots = {sut}
    /\ sut = "" /\ Builds # {} => <<"system under test", "">> \in gaps

(* Several candidates are a gap and never a guess.                          *)
LEMMA SutIsDerived ==
    ASSUME IsProject(project)
    PROVE  Derived(chooseSUT.sut, chooseSUT.gaps)
<1>1. Builds \subseteq ServiceNames /\ Roots \subseteq Builds
  BY DEF Builds, Roots
<1>2. IsFiniteSet(Builds) /\ IsFiniteSet(Roots)
  BY <1>1, FS_Subset DEF IsProject, ServiceNames
<1>3. \A S : IsFiniteSet(S) /\ Cardinality(S) = 1 => S = {CHOOSE s \in S : TRUE}
  <2> SUFFICES ASSUME NEW S, IsFiniteSet(S), Cardinality(S) = 1 PROVE S = {CHOOSE s \in S : TRUE}
    OBVIOUS
  <2>1. PICK x : S = {x}
    BY FS_Singleton
  <2> QED
    BY <2>1
<1>4. Cardinality(Builds) \in Nat /\ (Cardinality(Builds) = 0 <=> Builds = {})
  BY <1>2, FS_CardinalityType, FS_EmptySet
<1>5. "" \notin Builds
  BY <1>1 DEF IsProject, ServiceNames
<1>6. /\ Builds = {} => Cardinality(Builds) # 1 /\ ~(Cardinality(Builds) > 1)
      /\ Cardinality(Builds) = 1 => Builds # {} /\ ~(Cardinality(Builds) > 1)
      /\ Cardinality(Builds) > 1 => Builds # {} /\ Cardinality(Builds) # 1
      /\ Builds = {} \/ Cardinality(Builds) = 1 \/ Cardinality(Builds) > 1
  BY <1>4
<1>7. CASE project.asked # ""
  <2>1. chooseSUT = Chosen(project.asked, "requested", {})
    BY <1>7, Zenon DEF chooseSUT
  <2>2. chooseSUT.sut = project.asked
    BY <2>1 DEF Chosen
  <2> QED
    BY <1>7, <2>2, Zenon DEF Derived
<1>8. CASE project.asked = "" /\ Builds = {}
  <2>1. chooseSUT = Chosen("", "none", {})
    BY <1>6, <1>8, Zenon DEF chooseSUT
  <2>2. chooseSUT.sut = ""
    BY <2>1, Zenon DEF Chosen
  <2> QED
    BY <1>8, <2>2, Zenon DEF Derived
<1>9. CASE project.asked = "" /\ Cardinality(Builds) = 1
  <2>1. chooseSUT = Chosen(CHOOSE s \in Builds : TRUE, "only", {})
    BY <1>6, <1>9, Zenon DEF chooseSUT
  <2>2. chooseSUT.sut = CHOOSE s \in Builds : TRUE
    BY <2>1, Zenon DEF Chosen
  <2>3. Builds = {chooseSUT.sut}
    BY <1>2, <1>3, <1>9, <2>2, Zenon
  <2> QED
    BY <1>5, <1>9, <2>3, Zenon DEF Derived
<1>10. CASE project.asked = "" /\ Cardinality(Builds) > 1
  <2>1. chooseSUT = IF Cardinality(Roots) = 1 THEN Chosen(CHOOSE s \in Roots : TRUE, "derived", {})
                    ELSE Chosen("", "undecided", {<<"system under test", "">>})
    BY <1>6, <1>10, Zenon DEF chooseSUT
  <2>2. CASE Cardinality(Roots) = 1
    <3>1. chooseSUT.sut = CHOOSE s \in Roots : TRUE
      BY <2>1, <2>2, Zenon DEF Chosen
    <3>2. Roots = {chooseSUT.sut}
      BY <1>2, <1>3, <2>2, <3>1, Zenon
    <3> QED
      BY <1>1, <1>5, <3>2, Zenon DEF Derived
  <2>3. CASE Cardinality(Roots) # 1
    <3>1. chooseSUT.sut = "" /\ chooseSUT.gaps = {<<"system under test", "">>}
      BY <2>1, <2>3, Zenon DEF Chosen
    <3> QED
      BY <3>1, Zenon DEF Derived
  <2> QED
    BY <2>2, <2>3
<1> QED
  BY <1>6, <1>7, <1>8, <1>9, <1>10, Zenon

-----------------------------------------------------------------------------
(* A client that a manifest names, of a service that is built.              *)
Supported(c, type) ==
    /\ c.service # "" => c.service \in Builds
    /\ \E dir \in DOMAIN project.manifests :
         \E i \in UNION {ToSet(m.imports) : m \in project.manifests[dir]} :
            i.name = c.import /\ i.type = type

DepsOK(deps) ==
    /\ Listed(deps)
    /\ \A k \in DOMAIN deps :
         /\ DOMAIN deps[k] = {"name", "type", "address", "clients"}
         /\ Listed(deps[k].clients)
         /\ \A j \in DOMAIN deps[k].clients : Supported(deps[k].clients[j], deps[k].type)

SystemOK(sys) ==
    /\ DOMAIN sys = {"sut", "choice", "ports", "deps", "obs", "class", "gaps", "seen", "lang", "facts"}
    /\ DepsOK(sys.deps)

(* No dependency is lost. *)
NamesKept(old, new) == \A k \in DOMAIN old : k \in DOMAIN new /\ new[k].name = old[k].name

(* What is known stays known. *)
Keeps(a, b) ==
    /\ b.sut = a.sut /\ b.ports = a.ports
    /\ a.gaps \subseteq b.gaps /\ a.obs \subseteq b.obs /\ a.seen \subseteq b.seen
    /\ NamesKept(a.deps, b.deps)

(* What stays known twice stays known.                                      *)
LEMMA KeepsOn ==
    ASSUME NEW a, NEW b, NEW c, Keeps(a, b), Keeps(b, c)
    PROVE  Keeps(a, c)
BY DEF Keeps, NamesKept

(* A system keeps what it has.                                              *)
LEMMA KeepsSame ==
    ASSUME NEW a
    PROVE  Keeps(a, a)
BY DEF Keeps, NamesKept

(* The image of s has been told of. *)
Covered(sys, s) ==
    \/ \E k \in DOMAIN sys.deps : sys.deps[k].name = s
    \/ Svc(s).image.kind = "observer" /\ sys.obs # {}
    \/ <<"unrecognized image", s>> \in sys.gaps

(* What has been told of stays told of.                                     *)
LEMMA StaysCovered ==
    ASSUME NEW a, NEW b, Keeps(a, b), NEW s, Covered(a, s)
    PROVE  Covered(b, s)
BY DEF Keeps, NamesKept, Covered

Unbuilt(sys, s) == s \notin Builds /\ s # sys.sut /\ Svc(s).image.kind # "none"

(* One more dependency, which has no clients yet.                           *)
LEMMA OneMoreDep ==
    ASSUME NEW deps, DepsOK(deps), NEW d, DOMAIN d = {"name", "type", "address", "clients"},
           Listed(d.clients), \A j \in DOMAIN d.clients : Supported(d.clients[j], d.type)
    PROVE  /\ DepsOK(Append(deps, d)) /\ NamesKept(deps, Append(deps, d))
           /\ \E k \in DOMAIN Append(deps, d) : Append(deps, d)[k] = d
<1> DEFINE q == Append(deps, d)
<1>1. /\ Listed(q) /\ Len(q) = Len(deps) + 1 /\ q[Len(deps) + 1] = d
      /\ \A i \in 1..Len(deps) : q[i] = deps[i]
  BY Appended DEF DepsOK
<1>2. Len(deps) \in Nat /\ DOMAIN deps = 1..Len(deps)
  BY ListIs DEF DepsOK
<1> HIDE DEF q
<1>3. DOMAIN q = 1..(Len(deps) + 1)
  BY <1>1, <1>2, ListIs
<1>4. \A k \in DOMAIN q : (k \in DOMAIN deps /\ q[k] = deps[k]) \/ q[k] = d
  BY <1>1, <1>2, <1>3
<1>5. DepsOK(q)
  BY <1>1, <1>4 DEF DepsOK
<1>6. NamesKept(deps, q)
  BY <1>1, <1>2, <1>3 DEF NamesKept
<1>7. \E k \in DOMAIN q : q[k] = d
  BY <1>1, <1>2, <1>3
<1> QED
  BY <1>5, <1>6, <1>7 DEF q

(* A service is told of, and what was known stays known.                    *)
LEMMA AddServiceTells ==
    ASSUME IsProject(project), NEW sys, SystemOK(sys), NEW s
    PROVE  /\ SystemOK(AddService(sys, s)) /\ Keeps(sys, AddService(sys, s))
           /\ s \in ServiceNames /\ Unbuilt(sys, s) => Covered(AddService(sys, s), s)
<1> DEFINE image == Svc(s).image
           next == AddService(sys, s)
<1>1. CASE Svc(s).build # "" \/ s = sys.sut \/ image.kind = "none"
  <2>1. next = sys
    BY <1>1, Zenon DEF AddService
  <2>2. s \in ServiceNames /\ Svc(s).build # "" => s \in Builds
    BY DEF Builds
  <2> QED
    BY <1>1, <2>1, <2>2, KeepsSame DEF Unbuilt
<1>2. CASE ~(Svc(s).build # "" \/ s = sys.sut \/ image.kind = "none") /\ image.kind = "observer"
  <2>1. next = [sys EXCEPT !.obs = @ \cup image.signals, !.seen = @ \cup ({image.sdk} \ {""})]
    BY <1>2, Zenon DEF AddService
  <2>2. s \in ServiceNames => image.signals # {}
    BY <1>2 DEF IsProject, IsImage, ServiceNames, Svc
  <2> HIDE DEF next
  <2>3. /\ DOMAIN next = DOMAIN sys /\ next.deps = sys.deps /\ next.sut = sys.sut
        /\ next.ports = sys.ports /\ next.gaps = sys.gaps
        /\ next.obs = sys.obs \cup image.signals /\ sys.seen \subseteq next.seen
    BY <2>1 DEF SystemOK
  <2>4. SystemOK(next) /\ Keeps(sys, next)
    BY <2>3 DEF SystemOK, Keeps, NamesKept
  <2>5. s \in ServiceNames => Covered(next, s)
    BY <1>2, <2>2, <2>3 DEF Covered
  <2> QED
    BY <2>4, <2>5 DEF next
<1>3. CASE /\ ~(Svc(s).build # "" \/ s = sys.sut \/ image.kind = "none")
           /\ image.kind # "observer" /\ image.kind = "dependency"
  <2>1. PICK type, addr :
          next = [sys EXCEPT !.deps = Append(@, [name |-> s, type |-> type, address |-> addr,
                                                 clients |-> <<>>]),
                             !.class = Classed(@, {addr} \ {""}, "internal")]
    BY <1>3, Zenon DEF AddService
  <2>2. PICK d : d = [name |-> s, type |-> type, address |-> addr, clients |-> <<>>]
    OBVIOUS
  <2>3. /\ DOMAIN d = {"name", "type", "address", "clients"} /\ d.clients = <<>> /\ d.name = s
    BY <2>2
  <2>4. Listed(<<>>) /\ DOMAIN <<>> = {}
    BY EmptySeq DEF Listed
  <2>5. /\ DepsOK(Append(sys.deps, d)) /\ NamesKept(sys.deps, Append(sys.deps, d))
        /\ \E k \in DOMAIN Append(sys.deps, d) : Append(sys.deps, d)[k] = d
    <3>1. DepsOK(sys.deps)
      BY DEF SystemOK
    <3>2. Listed(d.clients) /\ \A j \in DOMAIN d.clients : Supported(d.clients[j], d.type)
      BY <2>3, <2>4
    <3> QED
      BY <2>3, <3>1, <3>2, OneMoreDep
  <2>6. next = [sys EXCEPT !.deps = Append(@, d), !.class = Classed(@, {addr} \ {""}, "internal")]
    BY <2>1, <2>2
  <2> HIDE DEF next
  <2>7. /\ DOMAIN next = DOMAIN sys /\ next.deps = Append(sys.deps, d) /\ next.sut = sys.sut
        /\ next.ports = sys.ports /\ next.gaps = sys.gaps
        /\ next.obs = sys.obs /\ next.seen = sys.seen
    BY <2>6 DEF SystemOK
  <2>8. SystemOK(next) /\ Keeps(sys, next)
    BY <2>5, <2>7 DEF SystemOK, Keeps
  <2>9. Covered(next, s)
    BY <2>3, <2>5, <2>7 DEF Covered
  <2> QED
    BY <2>8, <2>9 DEF next
<1>4. CASE /\ ~(Svc(s).build # "" \/ s = sys.sut \/ image.kind = "none")
           /\ image.kind # "observer" /\ image.kind # "dependency"
  <2>1. next = [sys EXCEPT !.gaps = @ \cup {<<"unrecognized image", s>>}]
    BY <1>4, Zenon DEF AddService
  <2> HIDE DEF next
  <2>2. /\ DOMAIN next = DOMAIN sys /\ next.deps = sys.deps /\ next.sut = sys.sut
        /\ next.ports = sys.ports /\ next.gaps = sys.gaps \cup {<<"unrecognized image", s>>}
        /\ next.obs = sys.obs /\ sys.seen = next.seen
    BY <2>1 DEF SystemOK
  <2>3. SystemOK(next) /\ Keeps(sys, next) /\ Covered(next, s)
    BY <2>2 DEF SystemOK, Keeps, NamesKept, Covered
  <2> QED
    BY <2>3 DEF next
<1> QED
  BY <1>1, <1>2, <1>3, <1>4

(* Each of the first n services is told of.                                 *)
SurveyedTo(sys, n) ==
    /\ SystemOK(sys) /\ Keeps(Begin, sys)
    /\ \A k \in 1..n : LET s == project.order[k] IN Unbuilt(sys, s) => Covered(sys, s)

(* After all of them, each service has been told of.                        *)
LEMMA SurveyTells ==
    ASSUME IsProject(project), SystemOK(Begin)
    PROVE  SurveyedTo(Surveyed[Len(project.order)], Len(project.order))
<1> DEFINE N == Len(project.order)
           T == {n \in 0..N : ~SurveyedTo(Surveyed[n], n)}
<1>1. /\ N \in Nat /\ DOMAIN project.order = 1..N
      /\ \A k \in 1..N : project.order[k] \in ServiceNames
  BY LenProperties DEF IsProject, ServiceNames, ToSet
<1>2. /\ Surveyed[0] = Begin
      /\ \A n \in 1..N : Surveyed[n] = AddService(Surveyed[n - 1], project.order[n])
  BY <1>1, SurveyIs
<1> HIDE DEF N
<1>3. SUFFICES ASSUME T # {} PROVE FALSE
  BY <1>1 DEF N
<1>4. PICK n \in T : \A i \in T : n <= i
  <2>1. T \in SUBSET Nat
    OBVIOUS
  <2> HIDE DEF T
  <2> QED
    BY <1>3, <2>1, LeastNat
<1>5. CASE n = 0
  BY <1>2, <1>4, <1>5, KeepsSame DEF SurveyedTo
<1>6. CASE n # 0
  <2>1. n - 1 \in 0..N /\ n \in 1..N /\ n - 1 \notin T
    BY <1>1, <1>4, <1>6
  <2> DEFINE a == Surveyed[n - 1]
             b == Surveyed[n]
             s == project.order[n]
  <2>2. SurveyedTo(a, n - 1) /\ b = AddService(a, s) /\ s \in ServiceNames
    BY <1>1, <1>2, <2>1
  <2>3. SystemOK(b) /\ Keeps(a, b) /\ (Unbuilt(a, s) => Covered(b, s))
    BY <2>2, AddServiceTells DEF SurveyedTo
  <2>4. Keeps(Begin, b)
    BY <2>2, <2>3, KeepsOn DEF SurveyedTo
  <2>5. ASSUME NEW k \in 1..n, Unbuilt(b, project.order[k]) PROVE Covered(b, project.order[k])
    <3>1. Unbuilt(a, project.order[k])
      BY <2>3, <2>5 DEF Unbuilt, Keeps
    <3>2. CASE k = n
      BY <2>3, <3>1, <3>2
    <3>3. CASE k # n
      <4>1. k \in 1..(n - 1)
        BY <2>1, <3>3
      <4>2. Covered(a, project.order[k])
        BY <2>2, <3>1, <4>1 DEF SurveyedTo
      <4> QED
        BY <2>3, <4>2, StaysCovered
    <3> QED
      BY <3>2, <3>3
  <2>6. SurveyedTo(b, n)
    BY <2>3, <2>4, <2>5 DEF SurveyedTo
  <2> QED
    BY <1>4, <2>6
<1> QED
  BY <1>5, <1>6

(* A set of naturals has its least.                                         *)
LEMMA MinIs ==
    ASSUME NEW S \in SUBSET Nat, S # {}
    PROVE  Min(S) \in S /\ \A n \in S : Min(S) <= n
BY LeastNat DEF Min

(* A client attached to a dependency of its type is supported there.        *)
LEMMA AttachKeeps ==
    ASSUME NEW deps, DepsOK(deps), NEW type, NEW ref, Supported(ref, type)
    PROVE  DepsOK(attachClient(deps, type, ref)) /\ NamesKept(deps, attachClient(deps, type, ref))
<1> DEFINE alike == {k \in DOMAIN deps : deps[k].type = type}
           new == attachClient(deps, type, ref)
<1>1. Len(deps) \in Nat /\ DOMAIN deps = 1..Len(deps)
  BY ListIs DEF DepsOK
<1>2. CASE alike # {}
  <2> DEFINE i == Min(alike)
  <2>1. alike \in SUBSET Nat
    BY <1>1
  <2>2. i \in alike
    <3> HIDE DEF alike
    <3> QED
      BY <1>2, <2>1, MinIs
  <2>3. i \in DOMAIN deps /\ deps[i].type = type
    BY <2>2
  <2>4. new = [deps EXCEPT ![i].clients = Append(@, ref)]
    BY <1>2, Zenon DEF attachClient
  <2> HIDE DEF i, new
  <2>5. /\ DOMAIN new = DOMAIN deps /\ \A k \in DOMAIN deps : k # i => new[k] = deps[k]
        /\ new[i] = [deps[i] EXCEPT !.clients = Append(@, ref)]
        /\ new = [k \in DOMAIN deps |-> new[k]]
    BY <2>3, <2>4
  <2>6. /\ DOMAIN new[i] = {"name", "type", "address", "clients"}
        /\ new[i].name = deps[i].name /\ new[i].type = type
        /\ new[i].clients = Append(deps[i].clients, ref)
    BY <2>3, <2>5 DEF DepsOK
  <2>7. /\ Listed(new[i].clients)
        /\ \A j \in DOMAIN new[i].clients : Supported(new[i].clients[j], type)
    <3> DEFINE old == deps[i].clients
    <3>1. Listed(old) /\ \A j \in DOMAIN old : Supported(old[j], type)
      BY <2>3 DEF DepsOK
    <3> HIDE DEF old
    <3>2. /\ Listed(Append(old, ref)) /\ Len(Append(old, ref)) = Len(old) + 1
          /\ Append(old, ref)[Len(old) + 1] = ref
          /\ \A j \in 1..Len(old) : Append(old, ref)[j] = old[j]
      BY <3>1, Appended
    <3>3. Len(old) \in Nat /\ DOMAIN old = 1..Len(old) /\ DOMAIN Append(old, ref) = 1..(Len(old) + 1)
      BY <3>1, <3>2, ListIs
    <3>4. \A j \in DOMAIN Append(old, ref) : Supported(Append(old, ref)[j], type)
      BY <3>1, <3>2, <3>3
    <3> QED
      BY <2>6, <3>2, <3>4 DEF old
  <2>8. Listed(new)
    <3> DEFINE R == {new[k] : k \in DOMAIN new}
    <3>1. \A k \in 1..Len(deps) : new[k] \in R
      BY <1>1, <2>5
    <3> HIDE DEF R
    <3>2. new \in [1..Len(deps) -> R]
      BY <1>1, <2>5, <3>1
    <3>3. new \in Seq(R)
      BY <1>1, <3>2, SeqDef
    <3> QED
      BY <3>3 DEF R, Listed
  <2>9. ASSUME NEW k \in DOMAIN new
        PROVE  /\ DOMAIN new[k] = {"name", "type", "address", "clients"}
               /\ Listed(new[k].clients) /\ new[k].name = deps[k].name
               /\ \A j \in DOMAIN new[k].clients : Supported(new[k].clients[j], new[k].type)
    <3>1. CASE k = i
      BY <2>6, <2>7, <3>1
    <3>2. CASE k # i
      BY <2>5, <3>2 DEF DepsOK
    <3> QED
      BY <3>1, <3>2
  <2>10. DepsOK(new)
    BY <2>8, <2>9 DEF DepsOK
  <2>11. NamesKept(deps, new)
    BY <2>5, <2>9 DEF NamesKept
  <2> QED
    BY <2>10, <2>11 DEF new
<1>3. CASE alike = {} /\ type \in lockfileOnly
  <2>1. PICK d : d = [name |-> type, type |-> type, address |-> "", clients |-> <<ref>>]
    OBVIOUS
  <2>2. DOMAIN d = {"name", "type", "address", "clients"} /\ d.clients = <<ref>> /\ d.type = type
    BY <2>1, Zenon
  <2>3. Listed(<<ref>>) /\ \A j \in DOMAIN <<ref>> : <<ref>>[j] = ref
    <3>1. <<ref>> \in Seq({<<ref>>[j] : j \in DOMAIN <<ref>>}) /\ \A j \in DOMAIN <<ref>> : <<ref>>[j] = ref
      OBVIOUS
    <3> QED
      BY <3>1 DEF Listed
  <2>4. new = Append(deps, d)
    BY <1>3, <2>1, Zenon DEF attachClient
  <2>5. \A j \in DOMAIN d.clients : Supported(d.clients[j], d.type)
    BY <2>2, <2>3
  <2>6. DepsOK(Append(deps, d)) /\ NamesKept(deps, Append(deps, d))
    BY <2>2, <2>3, <2>5, OneMoreDep
  <2> QED
    BY <2>4, <2>6
<1>4. CASE alike = {} /\ type \notin lockfileOnly
  <2>1. new = deps
    BY <1>4, Zenon DEF attachClient
  <2> QED
    BY <2>1 DEF NamesKept
<1> QED
  BY <1>2, <1>3, <1>4

(* Names kept twice are kept.                                               *)
LEMMA NamesOn ==
    ASSUME NEW a, NEW b, NEW c, NamesKept(a, b), NamesKept(b, c)
    PROVE  NamesKept(a, c)
BY DEF NamesKept

(* The imports of a manifest that support the clients of a service.         *)
Imported(imports, service) ==
    \A n \in 1..Len(imports) :
       Supported([import |-> imports[n].name, service |-> service], imports[n].type)

(* All imports attached, every client is still supported.                   *)
LEMMA AttachedAreSupported ==
    ASSUME NEW deps, DepsOK(deps), NEW imports, NEW service, Len(imports) \in Nat,
           Imported(imports, service)
    PROVE  LET new == Attached(deps, imports, service)[Len(imports)] IN
           DepsOK(new) /\ NamesKept(deps, new)
<1> DEFINE B == Attached(deps, imports, service)
           N == Len(imports)
           T == {n \in 0..N : ~(DepsOK(B[n]) /\ NamesKept(deps, B[n]))}
<1>1. /\ B[0] = deps
      /\ \A n \in 1..N : B[n] = Turn(B[n - 1], imports, service, n)
  BY AttachIs
<1> HIDE DEF B, N
<1>2. SUFFICES ASSUME T # {} PROVE FALSE
  BY DEF B, N
<1>3. PICK n \in T : \A i \in T : n <= i
  <2>1. T \in SUBSET Nat
    OBVIOUS
  <2> HIDE DEF T
  <2> QED
    BY <1>2, <2>1, LeastNat
<1>4. CASE n = 0
  BY <1>1, <1>3, <1>4 DEF NamesKept
<1>5. CASE n # 0
  <2>1. n - 1 \in 0..N /\ n \in 1..N /\ n - 1 \notin T
    BY <1>3, <1>5 DEF N
  <2>2. DepsOK(B[n - 1]) /\ NamesKept(deps, B[n - 1]) /\ B[n] = Turn(B[n - 1], imports, service, n)
    BY <1>1, <2>1
  <2>3. Supported([import |-> imports[n].name, service |-> service], imports[n].type)
    BY <2>1 DEF Imported, N
  <2>4. DepsOK(B[n]) /\ NamesKept(B[n - 1], B[n])
    <3>1. CASE imports[n].type # ""
      <4>1. B[n] = attachClient(B[n - 1], imports[n].type, [import |-> imports[n].name, service |-> service])
        BY <2>2, <3>1, Zenon DEF Turn
      <4> QED
        BY <2>2, <2>3, <4>1, AttachKeeps
    <3>2. CASE imports[n].type = ""
      <4>1. B[n] = B[n - 1]
        BY <2>2, <3>2, Zenon DEF Turn
      <4> QED
        BY <2>2, <4>1 DEF NamesKept
    <3> QED
      BY <3>1, <3>2
  <2> QED
    BY <1>3, <2>2, <2>4, NamesOn
<1> QED
  BY <1>4, <1>5

-----------------------------------------------------------------------------
(* Of the manifests of a directory one is preferred to all others.          *)
LEMMA OneIsFirst ==
    ASSUME NEW M, M # {}, \A m \in M : m.file \in DOMAIN rank
    PROVE  \E m \in M : \A n \in M : rank[m.file] <= rank[n.file]
<1> DEFINE R == {rank[m.file] : m \in M}
<1>1. \A m \in M : rank[m.file] \in Nat
  BY DEF rank
<1>2. R \in SUBSET Nat /\ R # {}
  BY <1>1
<1>3. PICK r \in R : \A q \in R : r <= q
  <2> HIDE DEF R
  <2> QED
    BY <1>2, LeastNat
<1> QED
  BY <1>3

(* A manifest that is read is one that is there.                            *)
LEMMA ManifestIsThere ==
    ASSUME IsProject(project), NEW dir
    PROVE  /\ ManifestIn(dir).file # "none" =>
                /\ dir \in DOMAIN project.manifests /\ ManifestIn(dir) \in project.manifests[dir]
                /\ ManifestIn(dir).imports \in Seq(ToSet(ManifestIn(dir).imports))
           /\ ManifestIn(dir).file = "none" => ManifestIn(dir).unread = FALSE /\ ManifestIn(dir).imports = <<>>
<1>1. CASE Manifests(dir) # {}
  <2>1. dir \in DOMAIN project.manifests /\ Manifests(dir) = project.manifests[dir]
    BY <1>1, Zenon DEF Manifests
  <2>2. \A m \in Manifests(dir) : IsManifest(m)
    BY <2>1, Zenon DEF IsProject
  <2>3. \A m \in Manifests(dir) : m.file \in DOMAIN rank
    BY <2>2 DEF IsManifest
  <2>4. ManifestIn(dir) = CHOOSE m \in Manifests(dir) : \A n \in Manifests(dir) : rank[m.file] <= rank[n.file]
    BY <1>1, Zenon DEF ManifestIn, Preferred
  <2>5. \E m \in Manifests(dir) : \A n \in Manifests(dir) : rank[m.file] <= rank[n.file]
    BY <1>1, <2>3, OneIsFirst
  <2>6. ManifestIn(dir) \in Manifests(dir)
    BY <2>4, <2>5, Zenon
  <2>7. ManifestIn(dir).file # "none" /\ ManifestIn(dir).imports \in Seq(ToSet(ManifestIn(dir).imports))
    <3>1. "none" \notin DOMAIN rank
      BY DEF rank
    <3> QED
      BY <2>2, <2>6, <3>1, Zenon DEF IsManifest
  <2> QED
    BY <2>1, <2>6, <2>7, Zenon
<1>2. CASE Manifests(dir) = {}
  <2>1. ManifestIn(dir) = NoManifest
    BY <1>2, Zenon DEF ManifestIn
  <2> QED
    BY <2>1 DEF NoManifest
<1> QED
  BY <1>1, <1>2

DirOf(s) == IF s = Root THEN "." ELSE Svc(s).build

(* Whose manifest it is, and where.                                         *)
LEMMA InDir == ASSUME NEW s PROVE In(s) = ManifestIn(DirOf(s))
BY Zenon DEF In, DirOf

(* Whatever order the imports come in, they are those of the manifest.      *)
LEMMA OrdersAreOfAll ==
    ASSUME NEW m, m.imports \in Seq(ToSet(m.imports)), NEW q \in Orders(m)
    PROVE  Len(q) \in Nat /\ DOMAIN q = 1..Len(q) /\ ToSet(q) = ToSet(m.imports)
<1> DEFINE places == DOMAIN m.imports
<1>1. Len(m.imports) \in Nat /\ places = 1..Len(m.imports)
  BY LenProperties
<1>2. CASE q = m.imports
  BY <1>1, <1>2
<1>3. CASE q # m.imports
  <2>1. PICK at \in [places -> places] : IsInjective(at) /\ q = [k \in places |-> m.imports[at[k]]]
    BY <1>3, Zenon DEF Orders
  <2>2. at \in Injection(places, places)
    BY <2>1 DEF Injection
  <2>3. IsFiniteSet(places)
    BY <1>1, FS_Interval
  <2>4. at \in Surjection(places, places)
    <3> HIDE DEF places
    <3> QED
      BY <2>2, <2>3, FS_Injection
  <2>5. DOMAIN q = 1..Len(m.imports) /\ \A k \in places : q[k] = m.imports[at[k]] /\ at[k] \in places
    BY <1>1, <2>1
  <2>6. \A k \in places : \E j \in places : at[j] = k
    BY <2>4 DEF Surjection
  <2>7. ToSet(q) = ToSet(m.imports)
    <3> HIDE DEF places
    <3>1. ASSUME NEW k \in DOMAIN q PROVE q[k] \in ToSet(m.imports)
      <4>1. q[k] = m.imports[at[k]] /\ at[k] \in places
        BY <1>1, <2>5
      <4> QED
        BY <4>1 DEF ToSet, places
    <3>2. ASSUME NEW k \in places PROVE m.imports[k] \in ToSet(q)
      <4>1. PICK j \in places : at[j] = k
        BY <2>6
      <4> QED
        BY <1>1, <2>5, <4>1 DEF ToSet
    <3> QED
      BY <3>1, <3>2 DEF ToSet, places
  <2>8. q \in Seq(ToSet(q))
    <3> DEFINE n == Len(m.imports)
               T == ToSet(q)
    <3>1. q = [k \in 1..n |-> q[k]]
      BY <1>1, <2>1
    <3>2. \A k \in 1..n : q[k] \in T
      BY <2>5 DEF ToSet
    <3>3. n \in Nat
      BY <1>1
    <3> HIDE DEF n, T, places
    <3>4. q \in [1..n -> T]
      BY <3>1, <3>2
    <3>5. q \in Seq(T)
      BY <3>3, <3>4, SeqDef
    <3> QED
      BY <3>5 DEF T
  <2> QED
    BY <2>7, <2>8, LenProperties
<1> QED
  BY <1>2, <1>3

(* What the manifest for s says has been heard.                             *)
Heard(sys, s) ==
    /\ \A i \in ToSet(In(s).imports) : i.sdk \in sys.seen
    /\ In(s).unread => "unread" \in sys.seen

(* What has been heard stays heard.                                         *)
LEMMA StaysHeard ==
    ASSUME NEW a, NEW b, Keeps(a, b), NEW s, Heard(a, s)
    PROVE  Heard(b, s)
BY DEF Keeps, Heard

(* A client may be of this service.                                         *)
Owner(o) == o # "" => o \in Builds

(* One manifest is heard, and what was known stays known.                   *)
LEMMA AddReadHears ==
    ASSUME IsProject(project), NEW sys, SystemOK(sys), NEW order, NEW s, NEW o, Owner(o),
           order[s] \in Orders(In(s))
    PROVE  LET new == AddRead(sys, order, s, o) IN
           SystemOK(new) /\ Keeps(sys, new) /\ Heard(new, s)
<1> DEFINE new == AddRead(sys, order, s, o)
           m == In(s)
           q == order[s]
           dir == DirOf(s)
<1>1. m = ManifestIn(dir)
  BY InDir
<1>2. CASE m.file = "none"
  <2>1. new = sys
    BY <1>2, Zenon DEF AddRead
  <2>2. Heard(new, s)
    <3>1. m.unread = FALSE /\ m.imports = <<>>
      BY <1>1, <1>2, ManifestIsThere
    <3>2. ToSet(m.imports) = {}
      BY <3>1 DEF ToSet
    <3> QED
      BY <3>1, <3>2 DEF Heard
  <2> QED
    BY <2>1, <2>2, KeepsSame
<1>3. CASE m.file # "none"
  <2>1. /\ dir \in DOMAIN project.manifests /\ m \in project.manifests[dir]
        /\ m.imports \in Seq(ToSet(m.imports))
    <3> HIDE DEF dir
    <3> QED
      BY <1>1, <1>3, ManifestIsThere
  <2>2. Len(q) \in Nat /\ DOMAIN q = 1..Len(q) /\ ToSet(q) = ToSet(m.imports)
    BY <2>1, OrdersAreOfAll
  <2>3. Imported(q, o)
    <3> HIDE DEF q, dir, m
    <3> SUFFICES ASSUME NEW n \in 1..Len(q)
                 PROVE  Supported([import |-> q[n].name, service |-> o], q[n].type)
      BY DEF Imported
    <3>1. q[n] \in UNION {ToSet(w.imports) : w \in project.manifests[dir]}
      BY <2>1, <2>2 DEF ToSet
    <3>2. o # "" => o \in Builds
      BY Zenon DEF Owner
    <3>3. \A c : c.service = o /\ c.import = q[n].name => Supported(c, q[n].type)
      BY <2>1, <3>1, <3>2, Zenon DEF Supported
    <3> DEFINE c == [import |-> q[n].name, service |-> o]
    <3>4. c.service = o /\ c.import = q[n].name
      OBVIOUS
    <3> HIDE DEF c
    <3>5. Supported(c, q[n].type)
      BY <3>3, <3>4
    <3> QED
      BY <3>5 DEF c
  <2> DEFINE deps == Attached(sys.deps, q, o)[Len(q)]
             U == IF m.unread THEN {"unread"} ELSE {}
             G == IF m.unread THEN {<<"modules not read", o>>} ELSE {}
  <2>4. DepsOK(deps) /\ NamesKept(sys.deps, deps)
    <3> HIDE DEF q, m
    <3> QED
      BY <2>2, <2>3, AttachedAreSupported DEF SystemOK
  <2>5. new = [sys EXCEPT !.deps = deps, !.seen = @ \cup {i.sdk : i \in ToSet(q)} \cup U,
                          !.gaps = @ \cup G]
    BY <1>3, Zenon DEF AddRead, applyManifestFacts
  <2>6. m.unread => "unread" \in U
    OBVIOUS
  <2> HIDE DEF new, deps, U, G
  <2>7. /\ DOMAIN new = DOMAIN sys /\ new.deps = deps /\ new.sut = sys.sut
        /\ new.ports = sys.ports /\ new.gaps = sys.gaps \cup G /\ new.obs = sys.obs
        /\ new.seen = sys.seen \cup {i.sdk : i \in ToSet(q)} \cup U
    BY <2>5 DEF SystemOK
  <2>8. SystemOK(new) /\ Keeps(sys, new)
    BY <2>4, <2>7 DEF SystemOK, Keeps
  <2>9. Heard(new, s)
    BY <2>2, <2>6, <2>7 DEF Heard
  <2> QED
    BY <2>8, <2>9 DEF new
<1> QED
  BY <1>2, <1>3

(* The service that the root's manifest is of, and those with their own.    *)
LEMMA OwnersAreBuilt ==
    ASSUME IsProject(project)
    PROVE  Owner(serviceForDir(".")) /\ \A s \in Contexts : Owner(s)
<1> DEFINE at == {k \in DOMAIN project.order : Svc(project.order[k]).build = "."}
<1>1. DOMAIN project.order = 1..Len(project.order) /\ Len(project.order) \in Nat
  BY LenProperties DEF IsProject
<1>2. \A k \in DOMAIN project.order : project.order[k] \in ServiceNames
  BY DEF IsProject, ServiceNames, ToSet
<1>3. ASSUME at = {} PROVE Owner(serviceForDir("."))
  <2>1. serviceForDir(".") = ""
    BY <1>3, Zenon DEF serviceForDir
  <2> QED
    BY <2>1, Zenon DEF Owner
<1>4. ASSUME at # {} PROVE Owner(serviceForDir("."))
  <2>1. at \in SUBSET Nat
    BY <1>1
  <2>2. Min(at) \in at
    <3> HIDE DEF at
    <3> QED
      BY <1>4, <2>1, MinIs
  <2>3. serviceForDir(".") = project.order[Min(at)]
    BY <1>4, Zenon DEF serviceForDir
  <2>4. serviceForDir(".") \in ServiceNames /\ Svc(serviceForDir(".")).build = "."
    BY <1>2, <2>2, <2>3
  <2>5. "." # ""
    BY Zenon
  <2>6. \A s \in ServiceNames : Svc(s).build = "." => s \in Builds
    BY <2>5, Zenon DEF Builds
  <2>7. serviceForDir(".") \in Builds
    BY <2>4, <2>6, Zenon
  <2> QED
    BY <2>7, Zenon DEF Owner
<1>5. \A s \in Contexts : s \in Builds
  BY Zenon DEF Contexts, Builds
<1> QED
  BY <1>3, <1>4, <1>5, Zenon DEF Owner

(* The manifests of the root and of the first n services have been heard.   *)
HeardTo(sys, n) ==
    /\ SystemOK(sys) /\ Keeps(found, sys) /\ Heard(sys, Root)
    /\ \A k \in 1..n : project.order[k] \in Contexts => Heard(sys, project.order[k])

(* After all of them, each manifest has been heard.                         *)
LEMMA ManifestsAreHeard ==
    ASSUME IsProject(project), SystemOK(found), NEW order,
           \A s \in {Root} \cup Contexts : order[s] \in Orders(In(s))
    PROVE  LET N == Len(project.order) IN HeardTo(Manifested(order)[N], N)
<1> DEFINE N == Len(project.order)
           B == Manifested(order)
           T == {n \in 0..N : ~HeardTo(B[n], n)}
<1>1. N \in Nat
  BY LenProperties DEF IsProject
<1>2. /\ B[0] = ReadStart(order)
      /\ \A n \in 1..N : B[n] = ReadTurn(B[n - 1], order, n)
  BY <1>1, ReadIs
<1> HIDE DEF N, B
<1>3. SUFFICES ASSUME T # {} PROVE FALSE
  BY <1>1 DEF N, B
<1>4. PICK n \in T : \A i \in T : n <= i
  <2>1. T \in SUBSET Nat
    OBVIOUS
  <2> HIDE DEF T
  <2> QED
    BY <1>3, <2>1, LeastNat
<1>5. CASE n = 0
  <2>1. B[0] = AddRead(found, order, Root, serviceForDir("."))
    BY <1>2 DEF ReadStart
  <2>2. SystemOK(B[0]) /\ Keeps(found, B[0]) /\ Heard(B[0], Root)
    <3>1. \A o : Owner(o) =>
            LET new == AddRead(found, order, Root, o) IN
            SystemOK(new) /\ Keeps(found, new) /\ Heard(new, Root)
      BY AddReadHears
    <3> QED
      BY <2>1, <3>1, OwnersAreBuilt
  <2> QED
    BY <1>4, <1>5, <2>2 DEF HeardTo
<1>6. CASE n # 0
  <2>1. n - 1 \in 0..N /\ n \in 1..N /\ n - 1 \notin T
    BY <1>1, <1>4, <1>6
  <2> DEFINE a == B[n - 1]
             b == B[n]
             s == project.order[n]
  <2>2. HeardTo(a, n - 1) /\ b = ReadTurn(a, order, n)
    BY <1>2, <2>1
  <2>3. SystemOK(b) /\ Keeps(a, b) /\ (s \in Contexts => Heard(b, s))
    <3>1. CASE s \in Contexts
      <4>1. b = AddRead(a, order, s, s)
        BY <2>2, <3>1 DEF ReadTurn
      <4>2. Owner(s) /\ order[s] \in Orders(In(s))
        BY <3>1, OwnersAreBuilt
      <4> HIDE DEF a, b, s
      <4>3. SystemOK(a)
        BY <2>2 DEF HeardTo
      <4> QED
        BY <4>1, <4>2, <4>3, AddReadHears
    <3>2. CASE s \notin Contexts
      <4>1. b = a
        BY <2>2, <3>2 DEF ReadTurn
      <4> QED
        BY <2>2, <3>2, <4>1, KeepsSame DEF HeardTo
    <3> QED
      BY <3>1, <3>2
  <2>4. Keeps(found, b) /\ Heard(b, Root)
    BY <2>2, <2>3, KeepsOn, StaysHeard DEF HeardTo
  <2>5. ASSUME NEW k \in 1..n, project.order[k] \in Contexts PROVE Heard(b, project.order[k])
    <3>1. CASE k = n
      BY <2>3, <2>5, <3>1
    <3>2. CASE k # n
      <4>1. k \in 1..(n - 1)
        BY <2>1, <3>2
      <4>2. Heard(a, project.order[k])
        BY <2>2, <2>5, <4>1 DEF HeardTo
      <4> QED
        BY <2>3, <4>2, StaysHeard
    <3> QED
      BY <3>1, <3>2
  <2>6. HeardTo(b, n)
    BY <2>3, <2>4, <2>5 DEF HeardTo
  <2> QED
    BY <1>4, <2>6
<1> QED
  BY <1>5, <1>6

(* Settling the language loses nothing.                                     *)
LEMMA LangKeeps ==
    ASSUME NEW sys, SystemOK(sys)
    PROVE  SystemOK(resolveLang(sys)) /\ Keeps(sys, resolveLang(sys))
<1> DEFINE new == resolveLang(sys)
<1>1. \/ new = sys
      \/ \E l : new = [sys EXCEPT !.lang = l]
      \/ \E g : new = [sys EXCEPT !.gaps = @ \cup g]
  <2> DEFINE root == langOf[ManifestIn(".").file]
             own  == langOf[ManifestIn(Svc(sys.sut).build).file]
             others == {langOf[ManifestIn(Svc(s).build).file] : s \in Contexts \ {sys.sut}}
  <2>1. CASE root # ""
    BY <2>1, Zenon DEF resolveLang
  <2>2. CASE root = "" /\ sys.sut \in Contexts
    BY <2>2, Zenon DEF resolveLang
  <2>3. CASE root = "" /\ sys.sut \notin Contexts
    <3>1. new = IF Cardinality(others) = 1
                      THEN [sys EXCEPT !.lang = CHOOSE l \in others : TRUE]
                      ELSE IF others = {} THEN sys
                      ELSE [sys EXCEPT !.gaps = @ \cup {<<"language", "">>}]
      BY <2>3, Zenon DEF resolveLang
    <3> QED
      BY <3>1, Zenon
  <2> QED
    BY <2>1, <2>2, <2>3, Zenon
<1>2. CASE new = sys
  BY <1>2, KeepsSame
<1>3. ASSUME NEW l, new = [sys EXCEPT !.lang = l] PROVE SystemOK(new) /\ Keeps(sys, new)
  <2> HIDE DEF new
  <2>1. /\ DOMAIN new = DOMAIN sys /\ new.deps = sys.deps /\ new.sut = sys.sut
        /\ new.ports = sys.ports /\ new.gaps = sys.gaps /\ new.obs = sys.obs /\ new.seen = sys.seen
    BY <1>3 DEF SystemOK
  <2> QED
    BY <2>1 DEF SystemOK, Keeps, NamesKept
<1>4. ASSUME NEW g, new = [sys EXCEPT !.gaps = @ \cup g] PROVE SystemOK(new) /\ Keeps(sys, new)
  <2> HIDE DEF new
  <2>1. /\ DOMAIN new = DOMAIN sys /\ new.deps = sys.deps /\ new.sut = sys.sut
        /\ new.ports = sys.ports /\ new.gaps = sys.gaps \cup g /\ new.obs = sys.obs /\ new.seen = sys.seen
    BY <1>4 DEF SystemOK
  <2> QED
    BY <2>1 DEF SystemOK, Keeps, NamesKept
<1> QED
  BY <1>1, <1>2, <1>3, <1>4

(* What is denied has been looked for in every manifest.                    *)
FactsOK(sys) ==
    /\ \A s \in {Root} \cup Contexts : Heard(sys, s)
    /\ sys.facts["platform:aws"] = "false" => {"aws", "unread"} \cap sys.seen = {}
    /\ sys.facts["lacks:otel"] = "true" => {"otel", "unread"} \cap sys.seen = {}

(* A denial is of what no manifest showed, all read to the end.             *)
LEMMA FactsAreKnown ==
    ASSUME NEW sys
    PROVE  /\ Facts(sys)["platform:aws"] = "false" => {"aws", "unread"} \cap sys.seen = {}
           /\ Facts(sys)["lacks:otel"] = "true" => {"otel", "unread"} \cap sys.seen = {}
<1>1. Facts(sys)["platform:aws"] = manifestFact(sys, "aws")
  BY DEF Facts
<1>2. Facts(sys)["lacks:otel"] = lacksOtel(sys)
  BY DEF Facts
<1>3. manifestFact(sys, "aws") = "false" => {"aws", "unread"} \cap sys.seen = {}
  BY DEF manifestFact
<1>4. lacksOtel(sys) = "true" => {"otel", "unread"} \cap sys.seen = {}
  BY DEF lacksOtel
<1> QED
  BY <1>1, <1>2, <1>3, <1>4

(* What the manifests settle. *)
LEMMA ManifestsTell ==
    ASSUME IsProject(project), SystemOK(found), detectManifests, looked' # "failed"
    PROVE  SystemOK(found') /\ Keeps(found, found') /\ FactsOK(found')
<1>1. PICK order : /\ \A s \in {Root} \cup Contexts : order[s] \in Orders(In(s))
                   /\ LET sys == resolveLang(Manifested(order)[Len(project.order)])
                      IN  found' = [sys EXCEPT !.facts = Facts(sys)]
  BY Zenon DEF detectManifests, Look
<1> DEFINE N == Len(project.order)
           a == Manifested(order)[N]
           b == resolveLang(a)
<1>2. HeardTo(a, N)
  BY <1>1, ManifestsAreHeard
<1>3. SystemOK(b) /\ Keeps(a, b)
  <2> HIDE DEF a
  <2> QED
    BY <1>2, LangKeeps DEF HeardTo
<1>4. found' = [b EXCEPT !.facts = Facts(b)]
  BY <1>1
<1> HIDE DEF b, a
<1>5. /\ DOMAIN found' = DOMAIN b /\ found'.deps = b.deps /\ found'.sut = b.sut
      /\ found'.ports = b.ports /\ found'.gaps = b.gaps /\ found'.obs = b.obs /\ found'.seen = b.seen
      /\ found'.facts = Facts(b)
  BY <1>3, <1>4 DEF SystemOK
<1>6. SystemOK(found') /\ Keeps(b, found')
  BY <1>3, <1>5 DEF SystemOK, Keeps, NamesKept
<1>7. Keeps(found, found')
  BY <1>2, <1>3, <1>6, KeepsOn DEF HeardTo
<1>8. ASSUME NEW s \in {Root} \cup Contexts PROVE Heard(found', s)
  <2>1. CASE s = Root
    BY <1>2, <1>3, <1>6, <2>1, StaysHeard DEF HeardTo
  <2>2. CASE s \in Contexts
    <3>1. s \in DOMAIN project.services
      BY <2>2, Zenon DEF Contexts, ServiceNames
    <3>2. s \in ToSet(project.order) /\ DOMAIN project.order = 1..N
      BY <3>1, LenProperties DEF IsProject
    <3>3. PICK k \in 1..N : project.order[k] = s
      BY <3>2 DEF ToSet
    <3>4. Heard(a, s)
      BY <1>2, <2>2, <3>3 DEF HeardTo
    <3> QED
      BY <1>3, <1>6, <3>4, StaysHeard
  <2> QED
    BY <2>1, <2>2
<1>9. FactsOK(found')
  BY <1>5, <1>8, FactsAreKnown DEF FactsOK
<1> QED
  BY <1>6, <1>7, <1>9

PortsOf(s) == IF s = "" THEN {} ELSE listenPorts(s)

(* What is known once the compose file has been read.                       *)
ServicesKnown(sys) ==
    /\ Derived(sys.sut, sys.gaps)
    /\ \A s \in ServiceNames : Unbuilt(sys, s) => Covered(sys, s)
    /\ sys.ports = PortsOf(sys.sut)

HintsOK ==
    \A h \in hints :
       h.result # "not determined" =>
          \E f \in ToSet(project.source) :
             /\ h.type \in f.calls \/ h.type \in f.drivers
             /\ h.result = "present" /\ h.check = "timeout" => "timeout" \in f.sigs

(* What detection has settled at each of its stages.                        *)
DetectionInv ==
    /\ IsProject(project) /\ SystemOK(found)
    /\ looked \notin {"compose", "failed"} => ServicesKnown(found)
    /\ looked \in {"found", "audited", "written"} => FactsOK(found)
    /\ HintsOK
    /\ written # NoFile => written = buildInit /\ looked = "written"

(* More gaps said, no less derived.                                         *)
LEMMA DerivedOn ==
    ASSUME NEW sut, NEW a, NEW b, a \subseteq b, Derived(sut, a)
    PROVE  Derived(sut, b)
BY Zenon DEF Derived

(* What is known of the services stays known.                               *)
LEMMA ServicesStayKnown ==
    ASSUME NEW a, NEW b, Keeps(a, b), ServicesKnown(a)
    PROVE  ServicesKnown(b)
<1>1. Derived(b.sut, b.gaps)
  BY DerivedOn DEF ServicesKnown, Keeps
<1>2. \A s : Unbuilt(b, s) => Unbuilt(a, s)
  BY DEF Unbuilt, Keeps
<1> QED
  BY <1>1, <1>2, StaysCovered DEF ServicesKnown, Keeps

(* The same project says the same of the same system.                       *)
LEMMA SameProject ==
    ASSUME project' = project
    PROVE  /\ IsProject(project)' = IsProject(project)
           /\ SystemOK(found)' <=> SystemOK(found')
           /\ ServicesKnown(found)' <=> ServicesKnown(found')
           /\ FactsOK(found)' <=> FactsOK(found')
<1>1. IsProject(project)' = IsProject(project)
  BY DEF IsProject
<1>2. ServiceNames' = ServiceNames /\ \A s : Svc(s)' = Svc(s)
  BY DEF ServiceNames, Svc
<1>3. Builds' = Builds
  BY <1>2, Zenon DEF Builds
<1>4. Roots' = Roots
  BY <1>2, <1>3, Zenon DEF Roots
<1>5. \A c, t : Supported(c, t)' <=> Supported(c, t)
  BY <1>3, Zenon DEF Supported
<1>6. SystemOK(found)' <=> SystemOK(found')
  BY <1>5, Zenon DEF SystemOK, DepsOK
<1>7. \A s : PortsOf(s)' = PortsOf(s)
  BY <1>2, Zenon DEF PortsOf, listenPorts
<1>8. Derived(found.sut, found.gaps)' <=> Derived(found'.sut, found'.gaps)
  BY <1>3, <1>4, Zenon DEF Derived
<1>9. \A s : /\ Unbuilt(found, s)' <=> Unbuilt(found', s)
             /\ Covered(found, s)' <=> Covered(found', s)
  BY <1>2, <1>3, Zenon DEF Unbuilt, Covered
<1>10. ServicesKnown(found)' <=> ServicesKnown(found')
  BY <1>2, <1>7, <1>8, <1>9, Zenon DEF ServicesKnown
<1>11. Contexts' = Contexts /\ \A s : In(s)' = In(s)
  <2>1. \A dir : Manifests(dir)' = Manifests(dir)
    BY DEF Manifests
  <2>2. ASSUME NEW dir PROVE ManifestIn(dir)' = ManifestIn(dir)
    <3>1. CASE Manifests(dir) = {}
      BY <2>1, <3>1 DEF ManifestIn, NoManifest
    <3>2. CASE Manifests(dir) # {}
      BY <2>1, <3>2, Zenon DEF ManifestIn
    <3> QED
      BY <3>1, <3>2
  <2> QED
    BY <1>2, <2>2, Zenon DEF Contexts, In, Root
<1>12. FactsOK(found)' <=> FactsOK(found')
  BY <1>11, Zenon DEF FactsOK, Heard, Root
<1> QED
  BY <1>1, <1>6, <1>10, <1>12

(* The invariant holds at the start.                                        *)
LEMMA DetectionStarts == DetectionInit => DetectionInv
<1> SUFFICES ASSUME DetectionInit PROVE DetectionInv
  OBVIOUS
<1>1. IsProject(project)
  BY ProjectsAssumption DEF DetectionInit
<1>2. SystemOK(found)
  <2>1. PICK none : none = ""
    OBVIOUS
  <2>2. found = [sut |-> none, choice |-> none, ports |-> {}, deps |-> <<>>, obs |-> {},
                class |-> <<>>, gaps |-> {}, seen |-> {}, lang |-> none, facts |-> <<>>]
    BY <2>1, Zenon DEF DetectionInit
  <2>3. Listed(<<>>) /\ DOMAIN <<>> = {}
    BY EmptySeq DEF Listed
  <2>4. /\ DOMAIN found = {"sut", "choice", "ports", "deps", "obs", "class", "gaps", "seen", "lang", "facts"}
        /\ found.deps = <<>>
    BY <2>2
  <2> QED
    BY <2>3, <2>4 DEF SystemOK, DepsOK
<1>3. looked = "compose" /\ HintsOK /\ written = NoFile
  BY Zenon DEF DetectionInit, HintsOK
<1> QED
  BY <1>1, <1>2, <1>3 DEF DetectionInv

(* The service is derived, every image told of.                             *)
LEMMA ServicesAreKnown ==
    ASSUME IsProject(project), SystemOK(found)
    PROVE  LET sys == Surveyed[Len(project.order)] IN SystemOK(sys) /\ ServicesKnown(sys)
<1> DEFINE N == Len(project.order)
           sys == Surveyed[N]
<1>1. /\ DOMAIN Begin = DOMAIN found /\ Begin.deps = found.deps
      /\ Begin.sut = chooseSUT.sut /\ Begin.gaps = chooseSUT.gaps
      /\ Begin.ports = PortsOf(chooseSUT.sut)
  <2>1. Begin = [found EXCEPT !.sut = chooseSUT.sut, !.choice = chooseSUT.choice,
                              !.gaps = chooseSUT.gaps, !.ports = PortsOf(chooseSUT.sut)]
    BY Zenon DEF Begin, PortsOf
  <2> QED
    BY <2>1 DEF SystemOK
<1>2. SystemOK(Begin)
  BY <1>1 DEF SystemOK
<1>3. SurveyedTo(sys, N)
  BY <1>2, SurveyTells
<1> HIDE DEF sys
<1>4. Derived(sys.sut, sys.gaps)
  BY <1>1, <1>3, SutIsDerived, DerivedOn DEF SurveyedTo, Keeps
<1>5. ASSUME NEW s \in ServiceNames, Unbuilt(sys, s) PROVE Covered(sys, s)
  <2>1. DOMAIN project.order = 1..N /\ s \in ToSet(project.order)
    BY LenProperties DEF IsProject, ServiceNames
  <2>2. PICK k \in 1..N : project.order[k] = s
    BY <2>1 DEF ToSet
  <2> QED
    BY <1>3, <1>5, <2>2 DEF SurveyedTo
<1>6. sys.ports = PortsOf(sys.sut)
  BY <1>1, <1>3 DEF SurveyedTo, Keeps
<1> QED
  BY <1>3, <1>4, <1>5, <1>6 DEF SurveyedTo, ServicesKnown, sys

(* Places in the list of source files.                                      *)
LEMMA SitesArePlaces ==
    ASSUME IsProject(project), NEW type
    PROVE  Sites(type) \in SUBSET Nat
<1>1. DOMAIN project.source = 1..Len(project.source) /\ Len(project.source) \in Nat
  BY LenProperties DEF IsProject
<1> QED
  BY <1>1 DEF Sites

(* A hint is of the file that constructs the client.                        *)
LEMMA AuditedAreSites ==
    ASSUME IsProject(project), NEW type, NEW check, Inspect(type, check) # "not determined"
    PROVE  \E f \in ToSet(project.source) :
              /\ type \in f.calls \/ type \in f.drivers
              /\ Inspect(type, check) = "present" /\ check = "timeout" => "timeout" \in f.sigs
<1> DEFINE i == Min(Sites(type))
           f == project.source[i]
<1>1. type \in goSourceSites /\ Sites(type) # {}
  BY DEF Inspect
<1>2. Sites(type) \in SUBSET Nat
  BY SitesArePlaces
<1>3. i \in Sites(type)
  BY <1>1, <1>2, MinIs
<1> HIDE DEF i
<1>4. f \in ToSet(project.source) /\ Attributable(f, type)
  BY <1>3 DEF Sites, ToSet
<1>5. findConstructionSite(type) = f
  BY DEF findConstructionSite, i
<1>6. Inspect(type, check) = "present" /\ check = "timeout" => "timeout" \in f.sigs
  BY <1>1, <1>5 DEF Inspect
<1>7. type \in f.calls \/ type \in f.drivers
  BY <1>4 DEF Attributable
<1> QED
  BY <1>4, <1>6, <1>7

(* The same system has the same file. *)
LEMMA SameFile == found' = found => buildInit' = buildInit
<1> SUFFICES ASSUME found' = found PROVE buildInit' = buildInit
  OBVIOUS
<1>1. Internal' = Internal
  BY Zenon DEF Internal
<1>2. NotSaid' = NotSaid
  BY DEF NotSaid
<1>3. writeBaseURL' = writeBaseURL
  <2>1. CASE Cardinality(found.ports) = 1
    <3>1. writeBaseURL = "http://localhost:" \o ToString(CHOOSE p \in found.ports : TRUE)
      BY <2>1, Zenon DEF writeBaseURL
    <3>2. writeBaseURL' = "http://localhost:" \o ToString(CHOOSE p \in found'.ports : TRUE)
      BY <2>1, Zenon DEF writeBaseURL
    <3> QED
      BY <3>1, <3>2, Zenon
  <2>2. CASE Cardinality(found.ports) # 1
    BY <2>2, Zenon DEF writeBaseURL
  <2> QED
    BY <2>1, <2>2
<1> QED
  BY <1>1, <1>2, <1>3, Zenon DEF buildInit

(* Every step of detection, audit and init keeps the invariant.             *)
LEMMA DetectionGoesOn == DetectionInv /\ [DetectionNext]_detectionVars => DetectionInv'
<1> SUFFICES ASSUME DetectionInv, [DetectionNext]_detectionVars PROVE DetectionInv'
  OBVIOUS
<1>1. CASE DetectServices
  <2>1. /\ looked = "compose" /\ looked' \in {"hosts", "failed"} /\ UNCHANGED <<project, hints, written>>
        /\ looked' = "hosts" => found' = Surveyed[Len(project.order)]
        /\ looked' = "failed" => found' = found
    BY <1>1, Zenon DEF DetectServices, Look
  <2>2. SystemOK(found') /\ (looked' # "failed" => ServicesKnown(found'))
    BY <2>1, ServicesAreKnown DEF DetectionInv
  <2>3. HintsOK'
    BY <2>1, Zenon DEF DetectionInv, HintsOK
  <2>4. written' = NoFile /\ NoFile' = NoFile
    BY <2>1 DEF DetectionInv, NoFile
  <2> QED
    BY <2>1, <2>2, <2>3, <2>4, SameProject DEF DetectionInv
<1>2. CASE detectExternalHosts
  <2>1. looked = "hosts" /\ looked' = "manifests" /\ UNCHANGED <<project, hints, written>>
    BY <1>2 DEF detectExternalHosts, Look
  <2>2. PICK c : found' = [found EXCEPT !.class = c]
    BY <1>2, Zenon DEF detectExternalHosts
  <2>3. /\ DOMAIN found' = DOMAIN found /\ found'.deps = found.deps /\ found'.sut = found.sut
        /\ found'.ports = found.ports /\ found'.gaps = found.gaps /\ found'.obs = found.obs
        /\ found'.seen = found.seen
    BY <2>2 DEF DetectionInv, SystemOK
  <2>4. SystemOK(found') /\ Keeps(found, found')
    BY <2>3 DEF DetectionInv, SystemOK, Keeps, NamesKept
  <2>5. ServicesKnown(found')
    BY <2>1, <2>4, ServicesStayKnown DEF DetectionInv
  <2>6. HintsOK'
    BY <2>1, Zenon DEF DetectionInv, HintsOK
  <2>7. written' = NoFile /\ NoFile' = NoFile
    BY <2>1 DEF DetectionInv, NoFile
  <2> QED
    BY <2>1, <2>4, <2>5, <2>6, <2>7, SameProject DEF DetectionInv
<1>3. CASE detectManifests
  <2>1. /\ looked = "manifests" /\ looked' \in {"found", "failed"} /\ UNCHANGED <<project, hints, written>>
        /\ looked' = "failed" => found' = found
    BY <1>3, Zenon DEF detectManifests, Look
  <2>2. /\ SystemOK(found')
        /\ looked' # "failed" => Keeps(found, found') /\ FactsOK(found')
    BY <1>3, <2>1, ManifestsTell DEF DetectionInv
  <2>3. looked' # "failed" => ServicesKnown(found')
    BY <2>1, <2>2, ServicesStayKnown DEF DetectionInv
  <2>4. HintsOK'
    BY <2>1, Zenon DEF DetectionInv, HintsOK
  <2>5. written' = NoFile /\ NoFile' = NoFile
    BY <2>1 DEF DetectionInv, NoFile
  <2> QED
    BY <2>1, <2>2, <2>3, <2>4, <2>5, SameProject DEF DetectionInv
<1>4. CASE Audit
  <2>1. looked = "found" /\ looked' = "audited" /\ UNCHANGED <<project, found, written>>
    BY <1>4 DEF Audit
  <2>2. \A h \in hints' : h.result = Inspect(h.type, h.check)
    BY <1>4 DEF Audit
  <2>3. HintsOK'
    <3>1. \A h \in hints' :
             h.result # "not determined" =>
                \E f \in ToSet(project.source) :
                   /\ h.type \in f.calls \/ h.type \in f.drivers
                   /\ h.result = "present" /\ h.check = "timeout" => "timeout" \in f.sigs
      BY <2>2, AuditedAreSites DEF DetectionInv
    <3> QED
      BY <2>1, <3>1, Zenon DEF HintsOK
  <2>4. written' = NoFile /\ NoFile' = NoFile
    BY <2>1 DEF DetectionInv, NoFile
  <2> QED
    BY <2>1, <2>3, <2>4, SameProject DEF DetectionInv
<1>5. CASE runInit
  <2>1. /\ looked = "audited" /\ looked' = "written" /\ UNCHANGED <<project, found, hints>>
        /\ written' = buildInit
    BY <1>5 DEF runInit
  <2>2. buildInit' = buildInit
    BY <2>1, SameFile
  <2>3. HintsOK'
    BY <2>1, Zenon DEF DetectionInv, HintsOK
  <2> QED
    BY <2>1, <2>2, <2>3, SameProject DEF DetectionInv
<1>6. CASE UNCHANGED detectionVars
  <2>1. UNCHANGED <<project, found, looked, hints, written>>
    BY <1>6 DEF detectionVars
  <2>2. buildInit' = buildInit
    BY <2>1, SameFile
  <2>3. HintsOK'
    BY <2>1, Zenon DEF DetectionInv, HintsOK
  <2>4. NoFile' = NoFile
    BY DEF NoFile
  <2> QED
    BY <2>1, <2>2, <2>3, <2>4, SameProject DEF DetectionInv
<1> QED
  BY <1>1, <1>2, <1>3, <1>4, <1>5, <1>6 DEF DetectionNext

(* Where a manifest may be: at the root or in a build context.              *)
Dirs == {"."} \cup {Svc(s).build : s \in Builds}

(* Wherever it is, a manifest has been heard.                               *)
LEMMA HeardEverywhere ==
    ASSUME IsProject(project), NEW sys, \A s \in {Root} \cup Contexts : Heard(sys, s), NEW dir \in Dirs
    PROVE  /\ ManifestIn(dir).unread => "unread" \in sys.seen
           /\ \A i \in ToSet(ManifestIn(dir).imports) : i.sdk \in sys.seen
<1>1. CASE dir = "."
  <2>1. In(Root) = ManifestIn(dir)
    BY <1>1, Zenon DEF In
  <2> QED
    BY <2>1, Zenon DEF Heard
<1>2. CASE dir # "." /\ ManifestIn(dir).file = "none"
  <2>1. ManifestIn(dir).unread = FALSE /\ ManifestIn(dir).imports = <<>>
    BY <1>2, ManifestIsThere
  <2>2. ToSet(<<>>) = {}
    BY DEF ToSet
  <2> QED
    BY <2>1, <2>2
<1>3. CASE dir # "." /\ ManifestIn(dir).file # "none"
  <2>1. PICK s \in Builds : dir = Svc(s).build
    BY <1>3, Zenon DEF Dirs
  <2>2. s \in ServiceNames /\ dir # ""
    BY <2>1, Zenon DEF Builds
  <2>3. s \in Contexts
    BY <1>3, <2>1, <2>2, Zenon DEF Contexts
  <2>4. s # Root
    BY <2>2, Zenon DEF IsProject, ServiceNames, Root
  <2>5. In(s) = ManifestIn(dir)
    BY <2>1, <2>4, Zenon DEF In
  <2> QED
    BY <2>3, <2>5, Zenon DEF Heard
<1> QED
  BY <1>1, <1>2, <1>3

(* Of several terms the first that is not false decides.                    *)
LEMMA PredicateIsDecided ==
    ASSUME NEW p \in Predicates, p[1].ns \notin {"always", "never"}
    PROVE  /\ EvalPredicate(p) = "true"  => \E t \in ToSet(p) : evalTerm(t) = "true"
           /\ EvalPredicate(p) = "false" => \A t \in ToSet(p) : evalTerm(t) = "false"
<1> DEFINE told == {k \in DOMAIN p : evalTerm(p[k]) # "false"}
<1>1. p \in Seq(ToSet(p))
  BY PredicatesAssumption
<1>2. told \in SUBSET Nat
  <2>1. DOMAIN p = 1..Len(p) /\ Len(p) \in Nat
    BY <1>1, LenProperties
  <2> QED
    BY <2>1
<1>3. EvalPredicate(p) = IF told = {} THEN "false" ELSE evalTerm(p[Min(told)])
  BY Zenon DEF EvalPredicate
<1>4. CASE told = {}
  <2>1. EvalPredicate(p) = "false"
    BY <1>3, <1>4
  <2>2. \A t \in ToSet(p) : evalTerm(t) = "false"
    BY <1>4 DEF ToSet
  <2> QED
    BY <2>1, <2>2
<1>5. CASE told # {}
  <2>1. Min(told) \in told
    <3> HIDE DEF told
    <3> QED
      BY <1>2, <1>5, MinIs
  <2>2. EvalPredicate(p) = evalTerm(p[Min(told)])
    BY <1>3, <1>5
  <2> DEFINE k == Min(told)
  <2> HIDE DEF k
  <2>3. k \in DOMAIN p /\ evalTerm(p[k]) # "false" /\ EvalPredicate(p) = evalTerm(p[k])
    BY <2>1, <2>2 DEF k
  <2>4. p[k] \in ToSet(p)
    BY <2>3 DEF ToSet
  <2> QED
    BY <2>3, <2>4
<1> QED
  BY <1>4, <1>5

(* A list of one has one member.                                            *)
LEMMA OneOnly == \A x : \A i \in DOMAIN <<x>> : <<x>>[i] = x
OBVIOUS

(* The file that init writes parses when it has a service.                  *)
LEMMA StarterParses ==
    ASSUME written = buildInit
    PROVE  Starter!Parses <=> found.sut # ""
<1> DEFINE stage == [phase |-> "starter", to |-> 2, hold |-> NotSaid, over |-> 10, for |-> NotSaid]
<1>1. /\ written.keys = {"version", "target", "egress", "load", "assert"}
      /\ written.load = [model |-> "arrival_rate", stages |-> <<stage>>]
      /\ written.faults = <<>> /\ written.asserts = 2
  BY DEF buildInit
<1>2. Starter!EgressOK
  <2>1. /\ written.egress.default = "deny" /\ DOMAIN written.egress.hosts = Internal
        /\ \A h \in Internal : written.egress.hosts[h].class = "internal"
    BY DEF buildInit
  <2> QED
    BY <2>1 DEF Starter!EgressOK
<1>3. Starter!LoadOK
  <2>1. Starter!StageOK(stage)
    BY NotSaidAssumption DEF Starter!StageOK, Starter!Absent
  <2>2. written.load.model = "arrival_rate" /\ written.load.stages = <<stage>>
    BY <1>1
  <2>3. Starter!FlowsOK
    <3>1. written.scenarios = <<"method and path">>
      BY Zenon DEF buildInit
    <3> QED
      BY <3>1, OneOnly, Zenon DEF Starter!FlowsOK
  <2> HIDE DEF stage
  <2> QED
    BY <2>1, <2>2, <2>3 DEF Starter!LoadOK
<1>4. written.keys \subseteq {"version", "target", "egress", "reset", "load", "faults", "assert", "fuzz"}
  BY <1>1
<1>5. DOMAIN written.faults = {} /\ written.asserts > 0
  BY <1>1
<1>6. written.compose # "" /\ written.service = found.sut
  BY Zenon DEF buildInit
<1> QED
  BY <1>1, <1>2, <1>3, <1>4, <1>5, <1>6, Zenon DEF Starter!Parses

(* Under it every host that was not classified is refused. *)
LEMMA StarterDenies ==
    ASSUME written = buildInit
    PROVE  LET audit == Egress!EgressAudit(RunOf(written)) IN
           /\ audit.unclassified = DOMAIN found.class \ Internal
           /\ audit.real = {} /\ audit.mocked = {}
<1> DEFINE r == RunOf(written)
           C == Egress!Classes(r)
<1>1. DOMAIN written.egress.hosts = Internal /\ \A h \in Internal : written.egress.hosts[h].class = "internal"
  BY DEF buildInit
<1>2. /\ DOMAIN r.hosts = Internal /\ \A h \in Internal : r.hosts[h] = "internal"
      /\ r.detected = found.class
  BY <1>1 DEF RunOf
<1>3. Internal \subseteq DOMAIN found.class /\ \A h \in DOMAIN found.class \ Internal : found.class[h] # "internal"
  BY DEF Internal
<1> HIDE DEF r
<1>4. DOMAIN C = DOMAIN found.class /\ \A h \in DOMAIN C : C[h] = Egress!classifyOne(r, h)
  BY <1>2, <1>3 DEF Egress!Classes
<1>5. \A h \in Internal : Egress!classifyOne(r, h) = "internal"
  BY <1>2 DEF Egress!classifyOne, Egress!isKnownClass
<1>6. \A h \in DOMAIN found.class \ Internal : Egress!classifyOne(r, h) = "unclassified"
  BY <1>2, <1>3 DEF Egress!classifyOne
<1> HIDE DEF C
<1>7. /\ Egress!OfClass(r, {"unclassified"}) = DOMAIN found.class \ Internal
      /\ Egress!OfClass(r, {"real"}) = {} /\ Egress!OfClass(r, {"mock"}) = {}
  <2>1. \A S : Egress!OfClass(r, S) = {h \in DOMAIN C : C[h] \in S}
    BY DEF Egress!OfClass, C
  <2>2. \A h \in DOMAIN C : C[h] = IF h \in Internal THEN "internal" ELSE "unclassified"
    BY <1>4, <1>5, <1>6
  <2> QED
    BY <1>3, <1>4, <2>1, <2>2
<1> QED
  BY <1>7 DEF Egress!EgressAudit, r

(* What is settled at each stage is what may be claimed.                    *)
LEMMA ClaimsFollow == DetectionInv => KnowsOrSays
<1> SUFFICES ASSUME DetectionInv PROVE KnowsOrSays
  OBVIOUS
<1>1. ASSUME looked \notin {"compose", "failed"}
      PROVE  /\ found.sut \in Builds \/ found.sut = "" \/ found.sut = project.asked
             /\ found.sut # "" /\ project.asked = "" => Builds = {found.sut} \/ Roots = {found.sut}
             /\ found.sut = "" /\ Builds # {} => <<"system under test", "">> \in found.gaps
             /\ \A s \in ServiceNames \ (Builds \cup {found.sut}) :
                  Svc(s).image.kind # "none" =>
                    \/ \E d \in ToSet(found.deps) : d.name = s
                    \/ Svc(s).image.kind = "observer" /\ found.obs # {}
                    \/ <<"unrecognized image", s>> \in found.gaps
  <2>1. Derived(found.sut, found.gaps) /\ \A s \in ServiceNames : Unbuilt(found, s) => Covered(found, s)
    BY <1>1, Zenon DEF DetectionInv, ServicesKnown
  <2>2. \A k \in DOMAIN found.deps : found.deps[k] \in ToSet(found.deps)
    BY DEF ToSet
  <2>3. ASSUME NEW s \in ServiceNames \ (Builds \cup {found.sut}), Svc(s).image.kind # "none"
        PROVE  \/ \E d \in ToSet(found.deps) : d.name = s
               \/ Svc(s).image.kind = "observer" /\ found.obs # {}
               \/ <<"unrecognized image", s>> \in found.gaps
    <3>1. Covered(found, s)
      BY <2>1, <2>3, Zenon DEF Unbuilt
    <3> QED
      BY <2>2, <3>1, Zenon DEF Covered
  <2> QED
    BY <2>1, <2>3, Zenon DEF Derived
<1>2. ASSUME looked \in {"found", "audited", "written"}
      PROVE  LET readAll == \A dir \in Dirs : ~ManifestIn(dir).unread
                 sdks    == {i.sdk : i \in UNION {ToSet(ManifestIn(dir).imports) : dir \in Dirs}}
             IN  /\ found.facts["platform:aws"] = "false" => readAll /\ "aws" \notin sdks
                 /\ found.facts["lacks:otel"] = "true" => readAll /\ "otel" \notin sdks
  <2>1. FactsOK(found)
    BY <1>2 DEF DetectionInv
  <2>2. \A dir \in Dirs : /\ ManifestIn(dir).unread => "unread" \in found.seen
                          /\ \A i \in ToSet(ManifestIn(dir).imports) : i.sdk \in found.seen
    BY <2>1, HeardEverywhere DEF DetectionInv, FactsOK
  <2> QED
    BY <2>1, <2>2 DEF FactsOK
<1>3. ASSUME NEW d \in ToSet(found.deps), NEW c \in ToSet(d.clients)
      PROVE  /\ c.service # "" => c.service \in Builds
             /\ \E dir \in DOMAIN project.manifests :
                  \E i \in UNION {ToSet(m.imports) : m \in project.manifests[dir]} :
                     i.name = c.import /\ i.type = d.type
  <2>1. Supported(c, d.type)
    BY DEF ToSet, DetectionInv, SystemOK, DepsOK
  <2> QED
    BY <2>1, Zenon DEF Supported
<1>4. ASSUME written # NoFile
      PROVE  /\ Starter!Parses <=> found.sut # ""
             /\ written.baseURL # "" => Cardinality(listenPorts(found.sut)) = 1
             /\ LET audit == Egress!EgressAudit(RunOf(written))
                IN  /\ audit.unclassified = DOMAIN found.class \ Internal
                    /\ audit.real = {} /\ audit.mocked = {}
  <2>1. written = buildInit /\ looked = "written"
    BY <1>4, Zenon DEF DetectionInv
  <2>2. found.ports = PortsOf(found.sut)
    BY <2>1 DEF DetectionInv, ServicesKnown
  <2>3. ASSUME written.baseURL # "" PROVE Cardinality(listenPorts(found.sut)) = 1
    <3>1. written.baseURL = writeBaseURL
      BY <2>1 DEF buildInit
    <3>2. Cardinality(found.ports) = 1
      BY <2>3, <3>1, Zenon DEF writeBaseURL
    <3>3. Cardinality({}) # 1
      BY FS_EmptySet
    <3> QED
      BY <2>2, <3>2, <3>3, Zenon DEF PortsOf
  <2> QED
    BY <2>1, <2>3, StarterParses, StarterDenies, Zenon
<1> QED
  BY <1>1, <1>2, <1>3, <1>4, PredicateIsDecided, Zenon DEF KnowsOrSays, DetectionInv, HintsOK, Dirs

(* FileClaims's KnowsOrSays, for any projects, whatever their services,     *)
(* manifests and source files, and any registry of tools.                   *)
THEOREM ClaimsAreKnown == DetectionSpec => []KnowsOrSays
<1>1. DetectionInit => DetectionInv
  BY DetectionStarts
<1>2. DetectionInv /\ [DetectionNext]_detectionVars => DetectionInv'
  BY DetectionGoesOn
<1>3. DetectionInv => KnowsOrSays
  BY ClaimsFollow
<1> QED
  BY <1>1, <1>2, <1>3, PTL DEF DetectionSpec

-----------------------------------------------------------------------------
(* The MCP server.  What it has answered is told by counting: the k-th      *)
(* answer is to the k-th line that wants one.                               *)

(* The lines that may have run something. *)
Ran == {i \in DOMAIN read : read[i].tool = "run_experiment"}

(* The lines and the answers are lists. *)
LinesInv == /\ Listed(inbox) /\ Listed(read) /\ Listed(replies)
            /\ session \in {"down", "up", "running", "failed", "ended"}

(* One run at a time, begun by a line, with no findings until it is over.   *)
RunInv ==
    /\ lastRun \in Nat /\ DOMAIN runs \subseteq 1..lastRun
    /\ Listed(stack)
    /\ \A r \in DOMAIN runs :
         /\ Listed(runs[r].sys)
         /\ DOMAIN runs[r] = {"findings", "sys", "over"}
         /\ r # lastRun => runs[r].over
         /\ session = "up" => runs[r].over
    /\ session = "running" => lastRun \in DOMAIN runs /\ runs[lastRun].findings = {}
    /\ Cardinality(DOMAIN runs) <= Cardinality(Ran)

(* The answers settle the first lines that want one; all of them between    *)
(* two lines, all but the one in hand during a run.                         *)
AskInv ==
    /\ \A k \in DOMAIN replies : \E i \in Asked : Settles(k, i)
    /\ session = "up" => Len(replies) = Cardinality(Asked)
    /\ session = "running" => /\ read # <<>> /\ Executes(read[Len(read)])
                              /\ Len(replies) = Cardinality(Asked \ {Len(read)})
    /\ Cardinality(Asked) - Len(replies) \in {0, 1}

(* A verdict is the only one of its run, and that run is over; what         *)
(* explains a failure is of a run whose findings are told.                  *)
Grounded(k) ==
    /\ replies[k].kind = "verdict" =>
         /\ replies[k].run \in DOMAIN runs
         /\ session = "running" => replies[k].run # lastRun
         /\ \A m \in DOMAIN replies :
              replies[m].kind = "verdict" /\ replies[m].run = replies[k].run => m = k
    /\ replies[k].kind = "explanation" =>
         /\ replies[k].run \in DOMAIN runs
         /\ \E f \in runs[replies[k].run].findings :
               Explains(replies[k].says, f, runs[replies[k].run].sys)

SayInv == \A k \in DOMAIN replies : Grounded(k)

McpInv == LinesInv /\ RunInv /\ AskInv /\ SayInv

(* A line taken becomes the last one read.                                  *)
LEMMA TakeDoes ==
    ASSUME LinesInv, Take
    PROVE  LET n == Len(read) + 1 line == Head(inbox) IN
           /\ Listed(inbox)' /\ Listed(read)' /\ n \in Nat
           /\ Len(read') = n /\ read'[n] = line
           /\ \A i \in 1..Len(read) : read'[i] = read[i]
           /\ DOMAIN read = 1..Len(read) /\ DOMAIN read' = 1..n
           /\ Asked' = IF Answerable(line) THEN Asked \cup {n} ELSE Asked
           /\ Ran' = IF line.tool = "run_experiment" THEN Ran \cup {n} ELSE Ran
<1> DEFINE n == Len(read) + 1
           line == Head(inbox)
<1>0. inbox # <<>> /\ inbox' = Tail(inbox) /\ read' = Append(read, line) /\ Listed(inbox) /\ Listed(read)
  BY DEF Take, LinesInv
<1>7. Listed(Tail(inbox)) /\ Listed(Append(read, line))
  <2> HIDE DEF line
  <2> QED
    BY <1>0, Rest, Appended
<1>1. Listed(inbox)' /\ Listed(read)' /\ n \in Nat
  <2>1. Len(read) \in Nat
    BY <1>0, ListIs
  <2>2. (Listed(inbox)' <=> Listed(inbox')) /\ (Listed(read)' <=> Listed(read'))
    BY DEF Listed
  <2> HIDE DEF line
  <2> QED
    BY <1>0, <1>7, <2>1, <2>2
<1>2. Len(read') = n /\ read'[n] = line /\ \A i \in 1..Len(read) : read'[i] = read[i]
  BY <1>0, Appended
<1>3. DOMAIN read = 1..Len(read) /\ DOMAIN read' = 1..n /\ Len(read) \in Nat
  BY <1>0, <1>1, <1>2, ListIs DEF Listed
<1>4. Asked' = IF Answerable(line) THEN Asked \cup {n} ELSE Asked
  <2> HIDE DEF line
  <2> QED
    BY <1>1, <1>2, <1>3 DEF Asked, Answerable
<1>5. Ran' = IF line.tool = "run_experiment" THEN Ran \cup {n} ELSE Ran
  <2> HIDE DEF line
  <2> QED
    BY <1>1, <1>2, <1>3 DEF Ran
<1> QED
  BY <1>1, <1>2, <1>3, <1>4, <1>5

(* The lines that want an answer, and those that run something, are counted.*)
LEMMA IndicesAreFinite ==
    ASSUME LinesInv
    PROVE  /\ IsFiniteSet(Asked) /\ Cardinality(Asked) \in Nat
           /\ IsFiniteSet(Ran) /\ Cardinality(Ran) \in Nat
           /\ Asked \subseteq 1..Len(read) /\ Ran \subseteq 1..Len(read) /\ Len(read) \in Nat
<1>1. Asked \in SUBSET (DOMAIN read) /\ Ran \in SUBSET (DOMAIN read)
  BY DEF Asked, Ran
<1>2. IsFiniteSet(DOMAIN read) /\ DOMAIN read = 1..Len(read) /\ Len(read) \in Nat
  BY ListIs DEF LinesInv
<1> QED
  BY <1>1, <1>2, FS_Subset, FS_CardinalityType

(* A line taken counts once, after all those before it.                     *)
LEMMA Counted ==
    ASSUME LinesInv, Take
    PROVE  LET n == Len(read) + 1 line == Head(inbox) IN
           /\ Cardinality(Asked') = Cardinality(Asked) + (IF Answerable(line) THEN 1 ELSE 0)
           /\ Cardinality(Ran') = Cardinality(Ran) + (IF line.tool = "run_experiment" THEN 1 ELSE 0)
           /\ \A i \in Asked : i \in Asked' /\ read'[i] = read[i]
                               /\ {j \in Asked' : j <= i} = {j \in Asked : j <= i}
           /\ Answerable(line) => n \in Asked' /\ {j \in Asked' : j <= n} = Asked'
           /\ Asked' \ {n} = Asked
<1> DEFINE n == Len(read) + 1
           line == Head(inbox)
<1> HIDE DEF line
<1>1. /\ n \in Nat /\ \A i \in 1..Len(read) : read'[i] = read[i]
      /\ Asked' = IF Answerable(line) THEN Asked \cup {n} ELSE Asked
      /\ Ran' = IF line.tool = "run_experiment" THEN Ran \cup {n} ELSE Ran
  BY TakeDoes DEF line
<1>2. /\ IsFiniteSet(Asked) /\ Cardinality(Asked) \in Nat
      /\ IsFiniteSet(Ran) /\ Cardinality(Ran) \in Nat
      /\ Asked \subseteq 1..Len(read) /\ Ran \subseteq 1..Len(read) /\ Len(read) \in Nat
  BY IndicesAreFinite
<1>3. n \notin Asked /\ n \notin Ran
  BY <1>2
<1>4. Cardinality(Asked \cup {n}) = Cardinality(Asked) + 1 /\ Cardinality(Ran \cup {n}) = Cardinality(Ran) + 1
  <2> HIDE DEF n
  <2> QED
    BY <1>2, <1>3, FS_AddElement
<1>5. Cardinality(Asked') = Cardinality(Asked) + (IF Answerable(line) THEN 1 ELSE 0)
  BY <1>1, <1>2, <1>4
<1>6. Cardinality(Ran') = Cardinality(Ran) + (IF line.tool = "run_experiment" THEN 1 ELSE 0)
  BY <1>1, <1>2, <1>4
<1>7. ASSUME NEW i \in Asked
      PROVE  i \in Asked' /\ read'[i] = read[i] /\ {j \in Asked' : j <= i} = {j \in Asked : j <= i}
  <2>1. i \in 1..Len(read) /\ ~(n <= i)
    BY <1>2
  <2>2. i \in Asked' /\ read'[i] = read[i]
    BY <1>1, <2>1
  <2>3. \A j : j \in Asked' /\ j <= i <=> j \in Asked /\ j <= i
    BY <1>1, <2>1
  <2> QED
    BY <2>2, <2>3
<1>8. Answerable(line) => n \in Asked' /\ {j \in Asked' : j <= n} = Asked'
  <2>1. \A j \in Asked : j <= n
    BY <1>2
  <2> QED
    BY <1>1, <2>1
<1>9. Asked' \ {n} = Asked
  BY <1>1, <1>3
<1> QED
  BY <1>5, <1>6, <1>7, <1>8, <1>9 DEF line

(* An answer stays the answer to its line when another line is read.        *)
LEMMA SettledStays ==
    ASSUME LinesInv, Take, NEW k, \E i \in Asked : Settles(k, i), replies'[k] = replies[k]
    PROVE  (\E i \in Asked : Settles(k, i))'
<1>1. PICK i \in Asked : Settles(k, i)
  OBVIOUS
<1>2. /\ i \in Asked' /\ read'[i] = read[i]
      /\ {j \in Asked' : j <= i} = {j \in Asked : j <= i}
  BY Counted
<1>3. Cardinality({j \in Asked' : j <= i}) = k
  BY <1>1, <1>2 DEF Settles
<1>4. /\ replies'[k].id \in {0, read'[i].id}
      /\ replies'[k].kind = "parse error" <=> read'[i].form = "garbage"
  BY <1>1, <1>2 DEF Settles
<1> QED
  BY <1>2, <1>3, <1>4 DEF Settles

(* Neither asked nor answered: what the replies settle is as it was.        *)
LEMMA SettledSame ==
    ASSUME UNCHANGED read, NEW k, \E i \in Asked : Settles(k, i), replies'[k] = replies[k]
    PROVE  (\E i \in Asked : Settles(k, i))'
<1>1. PICK i \in Asked : Settles(k, i)
  OBVIOUS
<1>2. Asked' = Asked
  BY DEF Asked
<1> QED
  BY <1>1, <1>2 DEF Settles

(* An answer is written when, and only when, the line wants one.            *)
LEMMA ReplyDoes ==
    ASSUME LinesInv, NEW line, NEW kind, NEW run, NEW says, Reply(line, Told(kind, run, says))
    PROVE  /\ Listed(replies) /\ Listed(replies')
           /\ ~Answerable(line) => replies' = replies
           /\ Answerable(line) =>
                /\ Len(replies') = Len(replies) + 1
                /\ \A k \in 1..Len(replies) : replies'[k] = replies[k]
                /\ replies'[Len(replies) + 1].kind = kind
                /\ replies'[Len(replies) + 1].run = run
                /\ replies'[Len(replies) + 1].says = says
                /\ replies'[Len(replies) + 1].id = IF line.form = "garbage" THEN 0 ELSE line.id
<1> DEFINE x == [Told(kind, run, says) EXCEPT !.id = IF line.form = "garbage" THEN 0 ELSE line.id]
<1>1. Listed(replies)
  BY DEF LinesInv
<1>2. x.kind = kind /\ x.run = run /\ x.says = says /\ x.id = IF line.form = "garbage" THEN 0 ELSE line.id
  BY Zenon DEF Told
<1>3. replies' = IF Answerable(line) THEN Append(replies, x) ELSE replies
  BY DEF Reply
<1> HIDE DEF x
<1>4. CASE Answerable(line)
  <2>1. replies' = Append(replies, x)
    BY <1>3, <1>4
  <2>2. /\ Listed(replies') /\ Len(replies') = Len(replies) + 1
        /\ replies'[Len(replies) + 1] = x
        /\ \A k \in 1..Len(replies) : replies'[k] = replies[k]
    BY <1>1, <2>1, Appended
  <2> QED
    BY <1>1, <1>2, <1>4, <2>2
<1>5. CASE ~Answerable(line)
  BY <1>1, <1>3, <1>5
<1> QED
  BY <1>4, <1>5

(* The first dependency that the target names, by its name or its address. *)
LEMMA CandidatesExplain ==
    ASSUME NEW f, NEW deps, Listed(deps), f.candidates = {}
    PROVE  Explains(candidatesForTarget(f.target, deps), f, deps)
<1> DEFINE target == f.target
           hits   == {i \in DOMAIN deps : target \in {deps[i].name, deps[i].address}}
           first  == CHOOSE i \in hits : \A j \in hits : i <= j
           hit    == deps[first]
           named  == {d \in ToSet(deps) : target \in {d.name, d.address}}
           own    == {d \in named : d.clients # <<>> /\ d.type \in knobsByDepType}
           says   == candidatesForTarget(target, deps)
<1>1. says = IF hits = {} \/ hit.type \notin knobsByDepType \/ hit.clients = <<>> THEN {}
             ELSE {hit.clients[1].import}
  BY DEF candidatesForTarget
<1>2. hits = {} => named = {}
  BY DEF ToSet
<1>3. hits # {} => hit \in named
  <2>1. DOMAIN deps \subseteq Int
    BY ListIs
  <2>2. IsFiniteSet(DOMAIN deps)
    BY ListIs
  <2>3. hits \in SUBSET DOMAIN deps
    OBVIOUS
  <2>4. hits \subseteq Int /\ IsFiniteSet(hits)
    <3> HIDE DEF hits
    <3> QED
      BY <2>1, <2>2, <2>3, FS_Subset
  <2>5. hits # {} => first \in hits
    <3> HIDE DEF hits
    <3> QED
      BY <2>4, Least
  <2> QED
    BY <2>5 DEF ToSet
<1>4. /\ says \subseteq {d.clients[1].import : d \in own}
      /\ named # {} /\ named = own => says # {}
  <2>1. CASE hits = {}
    BY <1>1, <1>2, <2>1
  <2>2. CASE hits # {} /\ (hit.type \notin knobsByDepType \/ hit.clients = <<>>)
    <3>1. says = {} /\ hit \in named /\ hit \notin own
      <4> HIDE DEF hit, hits, says
      <4> QED
        BY <1>1, <1>3, <2>2, Zenon
    <3> QED
      BY <3>1, Zenon
  <2>3. CASE hits # {} /\ ~(hit.type \notin knobsByDepType \/ hit.clients = <<>>)
    <3>1. says = {hit.clients[1].import} /\ hit \in own
      <4> HIDE DEF hit, hits, says
      <4> QED
        BY <1>1, <1>3, <2>3, Zenon
    <3> HIDE DEF says, own, hit, named
    <3> QED
      BY <3>1
  <2> QED
    BY <2>1, <2>2, <2>3
<1>5. Explains(says, f, deps)
  <2> HIDE DEF says
  <2> QED
    BY <1>4, Zenon DEF Explains
<1> QED
  BY <1>5

(* What explain_failure says is grounded in the finding it was asked about. *)
LEMMA FailureIsExplained ==
    ASSUME NEW run, Listed(run.sys), NEW finding, \E f \in run.findings : f.id = finding
    PROVE  \E f \in run.findings : Explains(ExplainFailure(run, run.sys, finding), f, run.sys)
<1> DEFINE f == CHOOSE g \in run.findings : g.id = finding
           says == ExplainFailure(run, run.sys, finding)
<1>1. f \in run.findings
  OBVIOUS
<1>2. says = IF f.candidates # {} \/ f.target = "" THEN f.candidates
             ELSE candidatesForTarget(f.target, run.sys)
  BY DEF ExplainFailure
<1> HIDE DEF f, says
<1>3. Explains(says, f, run.sys)
  <2>1. CASE f.candidates # {}
    BY <1>2, <2>1, Zenon DEF Explains
  <2>2. CASE f.candidates = {} /\ f.target = ""
    <3>1. says = {}
      BY <1>2, <2>2, Zenon
    <3> QED
      BY <2>2, <3>1, Zenon DEF Explains
  <2>3. CASE f.candidates = {} /\ f.target # ""
    BY <1>2, <2>3, CandidatesExplain, Zenon
  <2> QED
    BY <2>1, <2>2, <2>3
<1> QED
  BY <1>1, <1>3 DEF says

(* What a line that runs nothing may be answered. *)
Sound(line, kind, run, says) ==
    /\ kind # "verdict"
    /\ kind = "parse error" <=> line.form = "garbage"
    /\ kind = "explanation" =>
         /\ run \in DOMAIN runs
         /\ \E f \in runs[run].findings : Explains(says, f, runs[run].sys)

(* A line that runs nothing is told no verdict, and no explanation but of a *)
(* finding of this process.                                                 *)
LEMMA DispatchSays ==
    ASSUME RunInv, NEW line
    PROVE  \E kind, run, says :
             dispatch(line) = Told(kind, run, says) /\ Sound(line, kind, run, says)
<1>1. CASE line.form = "garbage"
  <2>1. dispatch(line) = Told("parse error", NoRun, {})
    BY <1>1, Zenon DEF dispatch, Error
  <2>2. Sound(line, "parse error", NoRun, {})
    BY <1>1 DEF Sound
  <2> QED
    BY <2>1, <2>2, Zenon
<1>2. CASE line.form # "garbage"
  <2> DEFINE Plain == {"system", "fragments", "script", "error", "capabilities", "tools", "nothing",
                       "invalid params", "method not found"}
  <2>1. \A kind \in Plain : \A says : Sound(line, kind, NoRun, says)
    BY <1>2 DEF Sound
  <2>2. ASSUME NEW kind \in Plain, NEW says, dispatch(line) = Told(kind, NoRun, says)
        PROVE  \E k, r, s : dispatch(line) = Told(k, r, s) /\ Sound(line, k, r, s)
    <3> HIDE DEF Plain
    <3> QED
      BY <2>1, <2>2, Zenon
  <2>3. CASE line.method # "tools/call"
    <3>1. \E kind \in Plain : dispatch(line) = Told(kind, NoRun, {})
      BY <1>2, <2>3, Zenon DEF dispatch, Error
    <3> HIDE DEF Plain
    <3>2. QED
      BY <2>2, <3>1
  <2>4. CASE line.method = "tools/call" /\ ~line.params
    <3>1. dispatch(line) = Told("invalid params", NoRun, {}) /\ "invalid params" \in Plain
      BY <1>2, <2>4, Zenon DEF dispatch, Error
    <3> HIDE DEF Plain
    <3>2. QED
      BY <2>2, <3>1
  <2>5. CASE line.method = "tools/call" /\ line.params
    <3>1. dispatch(line) = callTool(line)
      BY <1>2, <2>5, Zenon DEF dispatch
    <3>2. CASE line.tool # "explain_failure"
      <4>1. \E kind \in Plain : \E says : callTool(line) = Told(kind, NoRun, says)
        <5>1. CASE line.tool = "describe_system"
          BY <5>1, Zenon DEF callTool, Error
        <5>2. CASE line.tool = "propose_experiments"
          BY <5>2, Zenon DEF callTool, Error
        <5>3. CASE line.tool = "emit_k6_script"
          BY <5>3, Zenon DEF callTool, Error
        <5>4. CASE line.tool \notin {"describe_system", "propose_experiments", "emit_k6_script"}
          BY <5>4, <3>2, Zenon DEF callTool, Error
        <5> QED
          BY <5>1, <5>2, <5>3, <5>4, Zenon
      <4> HIDE DEF Plain
      <4>2. QED
        BY <2>2, <3>1, <4>1
    <3>3. CASE line.tool = "explain_failure"
      <4>1. callTool(line) = callExplainFailure(line)
        BY <3>3, Zenon DEF callTool
      <4>2. CASE line.run \notin DOMAIN runs
        <5>1. callExplainFailure(line) = Told("error", NoRun, {}) /\ "error" \in Plain
          BY <4>2, Zenon DEF callExplainFailure, Error
        <5> HIDE DEF Plain
        <5>2. QED
          BY <2>2, <3>1, <4>1, <5>1
      <4>3. CASE line.run \in DOMAIN runs /\ ~\E f \in runs[line.run].findings : f.id = line.finding
        <5>1. callExplainFailure(line) = Told("error", NoRun, {}) /\ "error" \in Plain
          BY <4>3, Zenon DEF callExplainFailure, Error
        <5> HIDE DEF Plain
        <5>2. QED
          BY <2>2, <3>1, <4>1, <5>1
      <4>4. CASE line.run \in DOMAIN runs /\ \E f \in runs[line.run].findings : f.id = line.finding
        <5> DEFINE says == ExplainFailure(runs[line.run], runs[line.run].sys, line.finding)
        <5>1. callExplainFailure(line) = Told("explanation", line.run, says)
          BY <4>4, Zenon DEF callExplainFailure
        <5>2. Listed(runs[line.run].sys)
          BY <4>4 DEF RunInv
        <5>3. \E f \in runs[line.run].findings : Explains(says, f, runs[line.run].sys)
          BY <4>4, <5>2, FailureIsExplained
        <5> HIDE DEF says
        <5>4. Sound(line, "explanation", line.run, says)
          BY <1>2, <4>4, <5>3 DEF Sound
        <5> QED
          BY <3>1, <4>1, <5>1, <5>4, Zenon
      <4> QED
        BY <4>2, <4>3, <4>4
    <3> QED
      BY <3>2, <3>3
  <2> QED
    BY <2>3, <2>4, <2>5
<1> QED
  BY <1>1, <1>2

(* A step that touches no line read, no answer and no run.                  *)
LEMMA Quiet ==
    ASSUME McpInv, UNCHANGED <<read, replies, runs, lastRun>>, Listed(inbox'), Listed(stack'),
           session' = session \/ session' \in {"ended", "failed"}
    PROVE  McpInv'
<1> USE DEF McpInv
<1>1. LinesInv'
  BY DEF LinesInv, Listed
<1>2. RunInv'
  <2>1. Ran' = Ran
    BY DEF Ran
  <2>2. Listed(stack)'
    BY DEF Listed
  <2>3. ASSUME NEW r \in DOMAIN runs
        PROVE  /\ Listed(runs[r].sys)' /\ (DOMAIN runs[r])' = {"findings", "sys", "over"}
               /\ r # lastRun' => runs'[r].over
               /\ session' = "up" => runs'[r].over
    <3>1. /\ Listed(runs[r].sys) /\ DOMAIN runs[r] = {"findings", "sys", "over"}
          /\ r # lastRun => runs[r].over
          /\ session = "up" => runs[r].over
      BY DEF RunInv
    <3>2. session' = "up" => session = "up"
      OBVIOUS
    <3>3. Listed(runs[r].sys)'
      BY <3>1 DEF Listed
    <3> QED
      BY <3>1, <3>2, <3>3
  <2>4. session' = "running" => session = "running"
    OBVIOUS
  <2>5. (DOMAIN runs)' = DOMAIN runs /\ runs' = runs /\ lastRun' = lastRun
    OBVIOUS
  <2> HIDE DEF McpInv
  <2>6. RunInv
    BY DEF McpInv
  <2> QED
    BY <2>1, <2>2, <2>3, <2>4, <2>5, <2>6, Zenon DEF RunInv
<1>3. AskInv'
  <2>1. Asked' = Asked
    BY DEF Asked
  <2>2. \A k \in DOMAIN replies' : (\E i \in Asked : Settles(k, i))'
    BY SettledSame DEF AskInv
  <2> QED
    BY <2>1, <2>2 DEF AskInv
<1>4. SayInv'
  BY DEF SayInv, Grounded
<1> QED
  BY <1>1, <1>2, <1>3, <1>4


(* Before the first session nothing was read, answered or run.              *)
LEMMA McpStarts == ASSUME McpInit PROVE McpInv
<1>1. Listed(<<>>) /\ DOMAIN <<>> = {}
  BY DEF Listed
<1>2. LinesInv
  BY <1>1 DEF McpInit, LinesInv
<1>3. Asked = {} /\ Ran = {} /\ Cardinality({}) = 0
  BY <1>1, FS_EmptySet DEF McpInit, Asked, Ran
<1>4. Len(replies) = 0 /\ DOMAIN replies = {} /\ DOMAIN runs = {}
  BY <1>1 DEF McpInit
<1>5. RunInv
  BY <1>1, <1>3, <1>4 DEF McpInit, RunInv
<1>6. AskInv
  BY <1>3, <1>4 DEF McpInit, AskInv
<1>7. SayInv
  BY <1>4 DEF SayInv
<1> QED
  BY <1>2, <1>5, <1>6, <1>7 DEF McpInv

(* A new process begins with none of the old one's lines, answers and runs. *)
LEMMA StartStep ==
    ASSUME McpInv, Start, Listed(found.deps)
    PROVE  McpInv'
<1>1. Listed(<<>>) /\ DOMAIN <<>> = {}
  BY DEF Listed
<1>2. LinesInv'
  BY <1>1 DEF Start, LinesInv, Listed
<1>3. Asked' = {} /\ Ran' = {} /\ Cardinality({}) = 0
  BY <1>1, FS_EmptySet DEF Start, Asked, Ran
<1>4. Len(replies') = 0 /\ DOMAIN replies' = {} /\ DOMAIN runs' = {} /\ session' = "up"
      /\ lastRun' \in Nat /\ stack' = found.deps
  BY <1>1 DEF Start, McpInv, RunInv
<1>5. RunInv'
  <2>1. Listed(stack)'
    BY <1>4 DEF Listed
  <2>2. Cardinality(DOMAIN runs') <= Cardinality(Ran')
    BY <1>3, <1>4
  <2> QED
    BY <1>3, <1>4, <2>1, <2>2 DEF RunInv
<1>6. AskInv'
  BY <1>3, <1>4 DEF AskInv
<1>7. SayInv'
  BY <1>4 DEF SayInv
<1> QED
  BY <1>2, <1>5, <1>6, <1>7 DEF McpInv

(* Lines of which none was answered, in a session that ends by it.          *)
LEMMA FailStep ==
    ASSUME McpInv, Fail
    PROVE  McpInv'
<1>1. /\ Take /\ session' = "failed" /\ session = "up"
      /\ UNCHANGED <<replies, runs, lastRun, stack>>
  BY DEF Fail, Take
<1>2. LinesInv
  BY DEF McpInv
<1>3. LinesInv'
  <2>1. Listed(inbox)' /\ Listed(read)'
    BY <1>1, <1>2, TakeDoes
  <2> QED
    BY <1>1, <1>2, <2>1 DEF LinesInv, Listed
<1>4. /\ Cardinality(Asked') \in {Cardinality(Asked), Cardinality(Asked) + 1}
      /\ Cardinality(Ran') \in {Cardinality(Ran), Cardinality(Ran) + 1}
      /\ Cardinality(Asked) \in Nat /\ Cardinality(Ran) \in Nat
  BY <1>1, <1>2, Counted, IndicesAreFinite
<1>5. RunInv'
  <2>1. /\ RunInv /\ runs' = runs /\ lastRun' = lastRun /\ session' = "failed"
        /\ DOMAIN runs \subseteq 1..lastRun /\ lastRun \in Nat
    BY <1>1 DEF McpInv, RunInv
  <2>2. Cardinality(DOMAIN runs) \in Nat
    <3>1. IsFiniteSet(1..lastRun)
      BY <2>1, FS_Interval
    <3> QED
      BY <2>1, <3>1, FS_Subset, FS_CardinalityType
  <2>3. Cardinality((DOMAIN runs)') <= Cardinality(Ran')
    BY <1>4, <2>1, <2>2 DEF RunInv
  <2>4. Listed(stack)' /\ \A r \in DOMAIN runs : Listed(runs[r].sys)'
    BY <1>1, <2>1 DEF RunInv, Listed
  <2> QED
    BY <2>1, <2>3, <2>4 DEF RunInv
<1>6. AskInv'
  <2>1. Len(replies) = Cardinality(Asked) /\ AskInv
    BY <1>1 DEF McpInv, AskInv
  <2>2. \A k \in DOMAIN replies' : (\E i \in Asked : Settles(k, i))'
    BY <1>1, <1>2, <2>1, SettledStays DEF AskInv
  <2> QED
    BY <1>1, <1>4, <2>1, <2>2 DEF AskInv
<1>7. SayInv'
  BY <1>1 DEF McpInv, SayInv, Grounded
<1> QED
  BY <1>3, <1>5, <1>6, <1>7 DEF McpInv

(* The runs of a process are counted by their ids.                          *)
LEMMA RunsAreFinite ==
    ASSUME RunInv
    PROVE  IsFiniteSet(DOMAIN runs) /\ Cardinality(DOMAIN runs) \in Nat
<1>1. DOMAIN runs \subseteq 1..lastRun /\ lastRun \in Nat
  BY DEF RunInv
<1>2. IsFiniteSet(1..lastRun)
  BY <1>1, FS_Interval
<1> QED
  BY <1>1, <1>2, FS_Subset, FS_CardinalityType

(* A line handled leaves the runs as they were.                             *)
LEMMA RunsKept ==
    ASSUME McpInv, Take, UNCHANGED <<session, runs, lastRun, stack>>
    PROVE  RunInv'
<1>1. LinesInv /\ RunInv /\ session = "up"
  BY DEF McpInv, Take
<1>2. /\ Cardinality(Ran') \in {Cardinality(Ran), Cardinality(Ran) + 1}
      /\ Cardinality(Ran) \in Nat /\ Cardinality(DOMAIN runs) \in Nat
  BY <1>1, Counted, IndicesAreFinite, RunsAreFinite
<1>3. Cardinality((DOMAIN runs)') <= Cardinality(Ran')
  <2>1. Cardinality(DOMAIN runs) <= Cardinality(Ran)
    BY <1>1 DEF RunInv
  <2> QED
    BY <1>2, <2>1
<1>4. Listed(stack)' /\ \A r \in DOMAIN runs : Listed(runs[r].sys)'
  BY <1>1 DEF RunInv, Listed
<1> QED
  BY <1>1, <1>3, <1>4 DEF RunInv

(* What a line that runs nothing does.                                      *)
LEMMA HandlingDoes ==
    ASSUME McpInv, handleLine
    PROVE  LET line == Head(inbox) IN
           /\ Take /\ UNCHANGED <<session, runs, lastRun, stack>> /\ session = "up"
           /\ \/ ~Answerable(line) /\ replies' = replies
              \/ \E kind, run, says :
                    Reply(line, Told(kind, run, says)) /\ Sound(line, kind, run, says)
<1> DEFINE line == Head(inbox)
<1>1. /\ Take /\ UNCHANGED <<session, runs, lastRun, stack>> /\ session = "up" /\ RunInv
      /\ \/ line.form = "blank" /\ UNCHANGED replies
         \/ line.form # "blank" /\ Reply(line, dispatch(line))
         \/ ReadsAFile(line) /\ Reply(line, Error("error"))
  BY DEF handleLine, Take, McpInv
<1> HIDE DEF line
<1>2. CASE line.form = "blank" /\ UNCHANGED replies
  <2>1. ~Answerable(line)
    BY <1>2, Zenon DEF Answerable
  <2> QED
    BY <1>1, <1>2, <2>1 DEF line
<1>3. CASE Reply(line, dispatch(line))
  <2>1. PICK kind, run, says :
          dispatch(line) = Told(kind, run, says) /\ Sound(line, kind, run, says)
    BY <1>1, DispatchSays
  <2>2. Reply(line, Told(kind, run, says)) /\ Sound(line, kind, run, says)
    BY <1>3, <2>1, Zenon
  <2> QED
    BY <1>1, <2>2 DEF line
<1>4. CASE ReadsAFile(line) /\ Reply(line, Error("error"))
  <2>1. Reply(line, Told("error", NoRun, {}))
    BY <1>4, Zenon DEF Error
  <2>2. Sound(line, "error", NoRun, {})
    BY <1>4 DEF Sound, ReadsAFile, Calls
  <2> QED
    BY <1>1, <2>1, <2>2 DEF line
<1> QED
  BY <1>1, <1>2, <1>3, <1>4

(* A line that runs nothing is answered by what it asked.                   *)
LEMMA HandleStep ==
    ASSUME McpInv, handleLine
    PROVE  McpInv'
<1> DEFINE line == Head(inbox)
           n == Len(read) + 1
           m == Len(replies) + 1
<1>1. /\ Take /\ UNCHANGED <<session, runs, lastRun, stack>> /\ session = "up"
      /\ \/ ~Answerable(line) /\ replies' = replies
         \/ \E kind, run, says :
               Reply(line, Told(kind, run, says)) /\ Sound(line, kind, run, says)
  BY HandlingDoes
<1>2. LinesInv /\ RunInv /\ AskInv /\ SayInv
  BY DEF McpInv
<1> HIDE DEF line
<1>3. RunInv'
  BY <1>1, RunsKept
<1>4. Listed(inbox)' /\ Listed(read)' /\ Len(replies) = Cardinality(Asked)
      /\ Cardinality(Asked) \in Nat /\ Listed(replies) /\ DOMAIN replies = 1..Len(replies)
      /\ session' = "up"
  BY <1>1, <1>2, TakeDoes, IndicesAreFinite, ListIs DEF AskInv, LinesInv
<1>5. CASE ~Answerable(line)
  <2>1. replies' = replies
    <3>1. CASE \E kind, run, says : Reply(line, Told(kind, run, says))
      BY <1>5, <3>1, Zenon DEF Reply
    <3> QED
      BY <1>1, <3>1
  <2>2. LinesInv'
    BY <1>2, <1>4, <2>1 DEF LinesInv, Listed
  <2>3. Cardinality(Asked') = Cardinality(Asked)
    BY <1>1, <1>2, <1>4, <1>5, Counted DEF line
  <2>4. \A k \in DOMAIN replies' : (\E i \in Asked : Settles(k, i))'
    BY <1>1, <1>2, <2>1, SettledStays DEF AskInv
  <2>5. AskInv'
    BY <1>4, <2>1, <2>3, <2>4 DEF AskInv
  <2>6. SayInv'
    BY <1>1, <1>2, <2>1 DEF SayInv, Grounded
  <2> QED
    BY <1>3, <2>2, <2>5, <2>6 DEF McpInv
<1>6. CASE Answerable(line)
  <2>1. PICK kind, run, says :
          Reply(line, Told(kind, run, says)) /\ Sound(line, kind, run, says)
    BY <1>1, <1>6
  <2>2. /\ Listed(replies') /\ Len(replies') = m
        /\ \A k \in 1..Len(replies) : replies'[k] = replies[k]
        /\ replies'[m].kind = kind /\ replies'[m].run = run /\ replies'[m].says = says
        /\ replies'[m].id = IF line.form = "garbage" THEN 0 ELSE line.id
    BY <1>2, <1>6, <2>1, ReplyDoes
  <2>3. DOMAIN replies' = 1..m /\ m \in Nat
    BY <1>4, <2>2, ListIs
  <2>4. LinesInv'
    <3>1. Listed(replies)'
      BY <2>2 DEF Listed
    <3> QED
      BY <1>2, <1>4, <3>1 DEF LinesInv
  <2>5. /\ Cardinality(Asked') = m /\ n \in Asked' /\ {j \in Asked' : j <= n} = Asked'
        /\ read'[n] = line
    BY <1>1, <1>2, <1>4, <1>6, Counted, TakeDoes DEF line
  <2>6. ASSUME NEW k \in DOMAIN replies'
        PROVE  (\E i \in Asked : Settles(k, i))'
    <3>1. CASE k \in DOMAIN replies
      BY <1>1, <1>2, <1>4, <2>2, <3>1, SettledStays DEF AskInv
    <3>2. CASE k = m
      <4>1. Cardinality({j \in Asked' : j <= n}) = k
        BY <2>5, <3>2
      <4>2. replies'[k].id \in {0, read'[n].id}
        <5>1. replies'[k].id = 0 \/ replies'[k].id = line.id
          BY <2>2, <3>2, Zenon
        <5> HIDE DEF n, m
        <5> QED
          BY <2>5, <5>1
      <4>3. replies'[k].kind = "parse error" <=> read'[n].form = "garbage"
        BY <2>1, <2>2, <2>5, <3>2 DEF Sound
      <4> QED
        BY <2>5, <4>1, <4>2, <4>3 DEF Settles
    <3> QED
      BY <1>4, <2>3, <3>1, <3>2
  <2>7. AskInv'
    BY <1>4, <2>2, <2>3, <2>5, <2>6 DEF AskInv
  <2>8. ASSUME NEW k \in DOMAIN replies' PROVE Grounded(k)'
    <3>1. CASE k \in DOMAIN replies
      <4>1. Grounded(k) /\ replies'[k] = replies[k]
        BY <1>2, <1>4, <2>2, <3>1 DEF SayInv
      <4>2. replies'[m].kind # "verdict"
        BY <2>1, <2>2 DEF Sound
      <4>3. \A j \in DOMAIN replies' : j # m => j \in DOMAIN replies /\ replies'[j] = replies[j]
        BY <1>4, <2>2, <2>3
      <4> HIDE DEF m
      <4> QED
        BY <1>1, <1>4, <4>1, <4>2, <4>3 DEF Grounded
    <3>2. CASE k = m
      <4> HIDE DEF m
      <4> QED
        BY <1>1, <2>1, <2>2, <3>2 DEF Grounded, Sound
    <3> QED
      BY <1>4, <2>3, <3>1, <3>2
  <2> QED
    BY <1>3, <2>4, <2>7, <2>8 DEF McpInv, SayInv
<1> QED
  BY <1>5, <1>6

(* A run begun has an id of its own and no findings yet.                    *)
LEMMA BeginRunStep ==
    ASSUME McpInv, BeginRun
    PROVE  McpInv'
<1> DEFINE line == Head(inbox)
           n == Len(read) + 1
           new == lastRun + 1
<1>1. /\ Take /\ Executes(line) /\ session = "up" /\ session' = "running" /\ lastRun' = new
      /\ UNCHANGED <<replies, stack>>
      /\ runs' = [r \in DOMAIN runs \cup {new} |->
                    IF r = new THEN [findings |-> {}, sys |-> stack, over |-> FALSE] ELSE runs[r]]
  BY DEF BeginRun, Take
<1>2. LinesInv /\ RunInv /\ AskInv /\ SayInv
  BY DEF McpInv
<1> HIDE DEF line
<1>3. /\ Listed(inbox)' /\ Listed(read)' /\ Len(replies) = Cardinality(Asked)
      /\ Len(read') = n /\ read'[n] = line /\ n \in Nat
      /\ Cardinality(Asked) \in Nat /\ Listed(replies)
      /\ lastRun \in Nat /\ DOMAIN runs \subseteq 1..lastRun /\ new \notin DOMAIN runs
  BY <1>1, <1>2, TakeDoes, IndicesAreFinite, ListIs DEF AskInv, LinesInv, RunInv, line
<1>4. LinesInv'
  BY <1>1, <1>2, <1>3 DEF LinesInv, Listed
<1>5. /\ DOMAIN runs' = DOMAIN runs \cup {new}
      /\ runs'[new] = [findings |-> {}, sys |-> stack, over |-> FALSE]
      /\ \A r \in DOMAIN runs : runs'[r] = runs[r] /\ r # new
  BY <1>1, <1>3
<1>6. RunInv'
  <2>1. Cardinality(DOMAIN runs') = Cardinality(DOMAIN runs) + 1 /\ Cardinality(DOMAIN runs) \in Nat
    <3> HIDE DEF new
    <3> QED
      BY <1>2, <1>3, <1>5, RunsAreFinite, FS_AddElement
  <2>2. Cardinality(Ran') = Cardinality(Ran) + 1 /\ Cardinality(Ran) \in Nat
    <3>1. line.tool = "run_experiment"
      BY <1>1 DEF Executes
    <3> QED
      BY <1>1, <1>2, <3>1, Counted, IndicesAreFinite DEF line
  <2>3. Cardinality((DOMAIN runs)') <= Cardinality(Ran')
    BY <1>2, <2>1, <2>2 DEF RunInv
  <2>4. Listed(stack)' /\ Listed(stack)
    BY <1>1, <1>2 DEF RunInv, Listed
  <2>5. DOMAIN runs' \subseteq 1..new /\ new \in Nat
    BY <1>3, <1>5
  <2>6. ASSUME NEW r \in DOMAIN runs'
        PROVE  /\ Listed(runs[r].sys)' /\ (DOMAIN runs[r])' = {"findings", "sys", "over"}
               /\ r # new => runs'[r].over
    <3>1. CASE r = new
      <4>1. runs'[r].sys = stack /\ DOMAIN (runs'[r]) = {"findings", "sys", "over"}
        BY <1>5, <3>1
      <4>2. Listed(runs'[r].sys)
        BY <2>4, <4>1
      <4> QED
        BY <3>1, <4>1, <4>2 DEF Listed
    <3>2. CASE r \in DOMAIN runs
      <4>1. runs'[r] = runs[r]
        BY <1>5, <3>2
      <4>2. Listed(runs[r].sys) /\ DOMAIN runs[r] = {"findings", "sys", "over"} /\ runs[r].over
        BY <1>1, <1>2, <3>2 DEF RunInv
      <4> QED
        BY <4>1, <4>2 DEF Listed
    <3> QED
      BY <1>5, <3>1, <3>2
  <2>7. runs'[new].findings = {}
    BY <1>5
  <2> HIDE DEF new
  <2> QED
    BY <1>1, <1>5, <2>3, <2>4, <2>5, <2>6, <2>7 DEF RunInv
<1>7. AskInv'
  <2>1. \A k \in DOMAIN replies' : (\E i \in Asked : Settles(k, i))'
    BY <1>1, <1>2, SettledStays DEF AskInv
  <2>2. Asked' \ {n} = Asked
    BY <1>1, <1>2, Counted DEF line
  <2>3. Cardinality(Asked') \in {Cardinality(Asked), Cardinality(Asked) + 1}
    BY <1>1, <1>2, <1>3, Counted DEF line
  <2>4. read' # <<>> /\ Executes(read'[Len(read')])
    <3>1. Len(read') > 0
      <4>1. Len(read) \in Nat
        BY <1>2, IndicesAreFinite
      <4> QED
        BY <1>3, <4>1
    <3>2. Len(<<>>) = 0
      OBVIOUS
    <3> HIDE DEF n
    <3> QED
      BY <1>1, <1>3, <3>1, <3>2
  <2>5. Executes(read[Len(read)])'
    BY <2>4 DEF Executes, Calls
  <2>6. Len(replies') = Cardinality(Asked' \ {Len(read')}) /\ Cardinality(Asked') - Len(replies') \in {0, 1}
    <3>1. Asked' \ {Len(read')} = Asked /\ replies' = replies
      BY <1>1, <1>3, <2>2
    <3>2. Len(replies') = Cardinality(Asked) /\ Len(replies') \in Nat
      BY <1>3, <3>1
    <3>3. Cardinality(Asked' \ {Len(read')}) = Cardinality(Asked)
      BY <3>1, Zenon
    <3>4. Cardinality(Asked') - Len(replies') \in {0, 1}
      <4> DEFINE a == Cardinality(Asked)
                 b == Cardinality(Asked')
                 c == Len(replies')
      <4>1. b \in {a, a + 1} /\ c = a /\ a \in Nat
        BY <2>3, <3>2
      <4> HIDE DEF a, b, c
      <4>2. b - c \in {0, 1}
        BY <4>1
      <4> QED
        BY <4>2 DEF b, c
    <3> QED
      BY <3>2, <3>3, <3>4
  <2> QED
    BY <1>1, <2>1, <2>4, <2>5, <2>6 DEF AskInv
<1>8. SayInv'
  <2>1. ASSUME NEW k \in DOMAIN replies PROVE Grounded(k)'
    <3>1. Grounded(k)
      BY <1>2 DEF SayInv
    <3> HIDE DEF new
    <3> QED
      BY <1>1, <1>5, <3>1 DEF Grounded
  <2> QED
    BY <1>1, <2>1 DEF SayInv
<1> QED
  BY <1>4, <1>6, <1>7, <1>8 DEF McpInv

(* The verdict of a run is the first answer about it.                       *)
LEMMA FinishRunStep ==
    ASSUME McpInv, FinishRun
    PROVE  McpInv'
<1> DEFINE n == Len(read)
           line == read[n]
           m == Len(replies) + 1
<1>1. /\ session = "running" /\ session' = "up" /\ UNCHANGED <<inbox, read, lastRun, stack>>
      /\ Reply(line, Told("verdict", lastRun, {}))
  BY DEF FinishRun
<1>2. PICK fs : runs' = [runs EXCEPT ![lastRun].findings = fs, ![lastRun].over = TRUE]
  BY DEF FinishRun
<1>3. LinesInv /\ RunInv /\ AskInv /\ SayInv
  BY DEF McpInv
<1>4. /\ lastRun \in DOMAIN runs /\ runs[lastRun].findings = {} /\ lastRun \in Nat
      /\ DOMAIN runs[lastRun] = {"findings", "sys", "over"}
  BY <1>1, <1>3 DEF RunInv
<1>5. /\ DOMAIN runs' = DOMAIN runs
      /\ \A r \in DOMAIN runs : r # lastRun => runs'[r] = runs[r]
      /\ runs'[lastRun].sys = runs[lastRun].sys /\ runs'[lastRun].over
      /\ DOMAIN (runs'[lastRun]) = {"findings", "sys", "over"}
  BY <1>2, <1>4
<1>6. /\ Listed(replies) /\ Listed(replies') /\ Executes(line)
      /\ Len(replies) = Cardinality(Asked \ {n})
      /\ DOMAIN replies = 1..Len(replies) /\ Len(replies) \in Nat
  BY <1>1, <1>3, ReplyDoes, ListIs DEF AskInv, LinesInv
<1>7. LinesInv'
  BY <1>1, <1>3, <1>6 DEF LinesInv, Listed
<1>8. RunInv'
  <2>1. Ran' = Ran
    BY <1>1 DEF Ran
  <2>2. Listed(stack)'
    BY <1>1, <1>3 DEF RunInv, Listed
  <2>3. ASSUME NEW r \in DOMAIN runs
        PROVE  /\ Listed(runs[r].sys)' /\ (DOMAIN runs[r])' = {"findings", "sys", "over"}
               /\ runs'[r].over
    <3>1. runs'[r].sys = runs[r].sys /\ runs'[r].over
          /\ DOMAIN (runs'[r]) = {"findings", "sys", "over"}
      BY <1>3, <1>5 DEF RunInv
    <3>2. Listed(runs'[r].sys)
      BY <1>3, <3>1 DEF RunInv
    <3> QED
      BY <3>1, <3>2 DEF Listed
  <2> QED
    BY <1>1, <1>3, <1>5, <2>1, <2>2, <2>3 DEF RunInv
<1> HIDE DEF line
<1>9. Asked' = Asked /\ read'[n] = line
  BY <1>1 DEF Asked, line
<1>10. n \in DOMAIN read /\ n \in Nat /\ \A j \in DOMAIN read : j <= n
  <2>1. Listed(read) /\ read # <<>>
    BY <1>1, <1>3 DEF LinesInv, AskInv
  <2> QED
    BY <2>1, ListIs
<1>11. \A k \in DOMAIN replies : Grounded(k) /\ ~(replies[k].kind \in {"verdict", "explanation"}
                                                  /\ replies[k].run = lastRun)
  BY <1>1, <1>3, <1>4 DEF SayInv, Grounded
<1>12. CASE ~Answerable(line)
  <2>1. replies' = replies
    BY <1>1, <1>12, Zenon DEF Reply
  <2>2. Asked \ {n} = Asked
    BY <1>12 DEF Asked, line
  <2>3. \A k \in DOMAIN replies' : (\E i \in Asked : Settles(k, i))'
    BY <1>1, <1>3, <2>1, SettledSame DEF AskInv
  <2>6. Len(replies') = Cardinality(Asked') /\ Cardinality(Asked') - Len(replies') \in {0, 1}
    <3>1. Len(replies) = Cardinality(Asked')
      BY <1>6, <1>9, <2>2, Zenon
    <3>2. Len(replies') = Cardinality(Asked') /\ Len(replies') \in Nat
      BY <1>6, <2>1, <3>1
    <3> QED
      BY <3>2
  <2>4. AskInv'
    BY <1>1, <2>3, <2>6 DEF AskInv
  <2>5. SayInv'
    BY <1>1, <1>5, <1>11, <2>1 DEF SayInv, Grounded
  <2> QED
    BY <1>7, <1>8, <2>4, <2>5 DEF McpInv
<1>13. CASE Answerable(line)
  <2>1. /\ Len(replies') = m /\ \A k \in 1..Len(replies) : replies'[k] = replies[k]
        /\ replies'[m].kind = "verdict" /\ replies'[m].run = lastRun
        /\ replies'[m].id = IF line.form = "garbage" THEN 0 ELSE line.id
    BY <1>1, <1>3, <1>13, ReplyDoes
  <2>2. DOMAIN replies' = 1..m /\ m \in Nat
    BY <1>6, <2>1, ListIs
  <2>3. n \in Asked /\ {j \in Asked : j <= n} = Asked
    BY <1>10, <1>13 DEF Asked, line
  <2>4. Cardinality(Asked) = m
    <3>1. IsFiniteSet(Asked) /\ Cardinality(Asked) \in Nat
      BY <1>3, IndicesAreFinite
    <3>2. Cardinality(Asked \ {n}) = Cardinality(Asked) - 1
      <4> HIDE DEF n
      <4> QED
        BY <2>3, <3>1, FS_RemoveElement
    <3> QED
      BY <1>6, <3>1, <3>2
  <2>5. ASSUME NEW k \in DOMAIN replies'
        PROVE  (\E i \in Asked : Settles(k, i))'
    <3>1. CASE k \in DOMAIN replies
      BY <1>1, <1>3, <1>6, <2>1, <3>1, SettledSame DEF AskInv
    <3>2. CASE k = m
      <4>1. Cardinality({j \in Asked' : j <= n}) = k
        BY <1>9, <2>3, <2>4, <3>2
      <4>2. replies'[k].id \in {0, read'[n].id}
        <5>1. replies'[k].id = 0 \/ replies'[k].id = line.id
          BY <2>1, <3>2, Zenon
        <5> HIDE DEF n, m
        <5> QED
          BY <1>9, <5>1
      <4>3. replies'[k].kind = "parse error" <=> read'[n].form = "garbage"
        <5>1. line.form = "request"
          BY <1>6 DEF Executes, Calls
        <5> QED
          BY <1>9, <2>1, <3>2, <5>1
      <4>4. n \in Asked'
        BY <1>9, <2>3
      <4> QED
        BY <4>1, <4>2, <4>3, <4>4 DEF Settles
    <3> QED
      BY <1>6, <2>2, <3>1, <3>2
  <2>6. AskInv'
    BY <1>1, <1>9, <2>1, <2>2, <2>4, <2>5 DEF AskInv
  <2>7. ASSUME NEW k \in DOMAIN replies' PROVE Grounded(k)'
    <3>1. ASSUME NEW j \in DOMAIN replies', j # m
          PROVE  j \in DOMAIN replies /\ replies'[j] = replies[j]
      <4>1. j \in 1..Len(replies)
        BY <1>6, <2>2, <3>1
      <4> QED
        BY <1>6, <2>1, <4>1
    <3> HIDE DEF m
    <3>2. CASE k # m
      <4>1. /\ k \in DOMAIN replies /\ replies'[k] = replies[k] /\ Grounded(k)
            /\ ~(replies[k].kind \in {"verdict", "explanation"} /\ replies[k].run = lastRun)
        BY <1>11, <3>1, <3>2
      <4> QED
        BY <1>1, <1>5, <2>1, <3>1, <4>1 DEF Grounded
    <3>3. CASE k = m
      BY <1>1, <1>4, <1>5, <1>11, <2>1, <3>1, <3>3 DEF Grounded
    <3> QED
      BY <3>2, <3>3
  <2> QED
    BY <1>7, <1>8, <2>6, <2>7 DEF McpInv, SayInv
<1> QED
  BY <1>12, <1>13

(* Every step of the server keeps the invariant.                            *)
LEMMA McpStep ==
    ASSUME McpInv, DetectionInv, [McpNext]_<<mcpVars, detectionVars>>
    PROVE  McpInv'
<1> USE DEF mcpVars
<1>1. Listed(inbox) /\ Listed(stack)
  BY DEF McpInv, LinesInv, RunInv
<1>2. CASE Start
  <2>1. Listed(found.deps)
    BY DEF DetectionInv, SystemOK, DepsOK
  <2> QED
    BY <1>2, <2>1, StartStep
<1>3. CASE Edit
  <2>1. Listed(stack')
    BY <1>3 DEF Edit, Listed
  <2> QED
    BY <1>1, <1>3, <2>1, Quiet DEF Edit
<1>4. CASE EndOfInput \/ Killed \/ UNCHANGED <<mcpVars, detectionVars>>
  <2>1. /\ UNCHANGED <<inbox, read, replies, runs, lastRun, stack>>
        /\ session' = session \/ session' \in {"ended", "failed"}
    BY <1>4 DEF EndOfInput, Killed
  <2> QED
    BY <1>1, <2>1, Quiet
<1>5. ASSUME NEW line \in Lines, Write(line) PROVE McpInv'
  <2>1. Listed(inbox')
    BY <1>1, <1>5, Appended DEF Write
  <2> QED
    BY <1>1, <1>5, <2>1, Quiet DEF Write
<1> QED
  BY <1>2, <1>3, <1>4, <1>5, HandleStep, BeginRunStep, FinishRunStep, FailStep DEF McpNext

(* What the invariant says of the property's parts.                         *)
LEMMA McpKept ==
    ASSUME McpInv PROVE AnswersAreOfThisSession
<1>1. LinesInv /\ RunInv /\ AskInv /\ SayInv
  BY DEF McpInv
<1>2. Cardinality({r \in DOMAIN runs : ~runs[r].over}) <= 1
  <2> DEFINE U == {r \in DOMAIN runs : ~runs[r].over}
  <2>1. U \subseteq {lastRun}
    BY <1>1 DEF RunInv
  <2>2. IsFiniteSet({lastRun}) /\ Cardinality({lastRun}) = 1
    BY FS_Singleton
  <2>3. IsFiniteSet(U) /\ Cardinality(U) <= Cardinality({lastRun})
    <3> HIDE DEF U
    <3> QED
      BY <2>1, <2>2, FS_Subset
  <2> HIDE DEF U
  <2>4. Cardinality(U) <= 1
    BY <2>2, <2>3
  <2> QED
    BY <2>4 DEF U
<1>3. \A k \in DOMAIN replies : replies[k].kind = "verdict" =>
        \A m \in DOMAIN replies : replies[m] = replies[k] => m = k
  BY <1>1 DEF SayInv, Grounded
<1>4. Cardinality(DOMAIN runs) <=
        Cardinality({i \in DOMAIN read : read[i].tool = "run_experiment"})
  BY <1>1 DEF RunInv, Ran
<1> QED
  BY <1>1, <1>2, <1>3, <1>4 DEF AnswersAreOfThisSession, AskInv, RunInv, SayInv, Grounded

(* The server and detection step by step: one waits while the other works.  *)
LEMMA ServerOverDetection ==
    ASSUME McpInv, DetectionInv,
           [McpNext \/ (DetectionNext /\ UNCHANGED mcpVars)]_<<mcpVars, detectionVars>>
    PROVE  McpInv' /\ DetectionInv'
<1>1. CASE McpNext
  <2>1. UNCHANGED detectionVars
    BY <1>1 DEF McpNext
  <2> QED
    BY <1>1, <2>1, McpStep, DetectionGoesOn
<1>2. CASE UNCHANGED mcpVars /\ [DetectionNext]_detectionVars
  <2>1. UNCHANGED <<session, inbox, read, replies, runs, lastRun, stack>>
    BY <1>2 DEF mcpVars
  <2>2. Listed(inbox) /\ Listed(stack)
    BY DEF McpInv, LinesInv, RunInv
  <2>3. McpInv'
    BY <2>1, <2>2, Quiet
  <2> QED
    BY <1>2, <2>3, DetectionGoesOn
<1> QED
  BY <1>1, <1>2

(* McpServer's AnswersAreOfThisSession, for any lines that a client writes, *)
(* any projects, and any bound on lines and runs.                           *)
THEOREM AnswersAreInOrder == McpSpec => []AnswersAreOfThisSession
<1>1. DetectionInit /\ McpInit => McpInv /\ DetectionInv
  BY McpStarts, DetectionStarts
<1>2. McpInv /\ DetectionInv
        /\ [McpNext \/ (DetectionNext /\ UNCHANGED mcpVars)]_<<mcpVars, detectionVars>>
      => McpInv' /\ DetectionInv'
  BY ServerOverDetection
<1>3. McpInv => AnswersAreOfThisSession
  BY McpKept
<1> QED
  BY <1>1, <1>2, <1>3, PTL DEF McpSpec

-----------------------------------------------------------------------------
(* What is known of a fault that parsing has accepted.                      *)
IsFault(f) == /\ f \in [at : STRING, offset : Int, for : Int, target : STRING, inject : {f.inject}]
              /\ \A k \in DOMAIN f.inject : f.inject[k].n \in Int

(* Such a fault has one verb, and an amount for it.                         *)
LEMMA OneVerb ==
    ASSUME NEW f, FaultOK(f)
    PROVE  Verb(f) \in DOMAIN f.inject /\ Verb(f) \in DOMAIN configVerbs
<1>1. Cardinality(VerbsOf(f)) = 1
  BY DEF FaultOK
<1>2. VerbsOf(f) # {}
  BY <1>1, FS_EmptySet
<1>3. Verb(f) \in VerbsOf(f)
  BY <1>2, Zenon DEF Verb
<1> QED
  BY <1>3, Zenon DEF VerbsOf

(* The three tables agree: a verb has one owner, and the modifiers that     *)
(* torture.yaml admits.                                                     *)
LEMMA TablesAgree ==
    ASSUME NEW v \in DOMAIN configVerbs
    PROVE  /\ v \in toxicVerbs \/ v \in dockerVerbs \/ v \in DOMAIN otherLayerOwner
           /\ ~(v \in toxicVerbs /\ v \in dockerVerbs)
           /\ v \in DOMAIN otherLayerOwner => v \notin toxicVerbs /\ v \notin dockerVerbs
           /\ faultVerbs[v] = configVerbs[v]
           /\ v \in DOMAIN queueVerbs => queueVerbs[v] = configVerbs[v]
           /\ v \in DOMAIN otherLayerOwner => v = "error_rate" \/ v \in DOMAIN queueVerbs
<1>1. faultVerbs[v] = configVerbs[v]
  BY DEF faultVerbs
<1>2. v \in DOMAIN queueVerbs => queueVerbs[v] = configVerbs[v]
  BY DEF configVerbs, queueVerbs
<1>3. v \in toxicVerbs \/ v \in dockerVerbs \/ v \in DOMAIN otherLayerOwner
  BY DEF configVerbs, toxicVerbs, dockerVerbs, otherLayerOwner
<1>4. ~(v \in toxicVerbs /\ v \in dockerVerbs)
  BY DEF toxicVerbs, dockerVerbs
<1>5. v \in DOMAIN otherLayerOwner => v \notin toxicVerbs /\ v \notin dockerVerbs
  BY DEF toxicVerbs, dockerVerbs, otherLayerOwner
<1>6. v \in DOMAIN otherLayerOwner => v = "error_rate" \/ v \in DOMAIN queueVerbs
  BY DEF queueVerbs, otherLayerOwner
<1> QED
  BY <1>1, <1>2, <1>3, <1>4, <1>5, <1>6

(* A layer that cannot read its amount fails; another takes the fault.      *)
LEMMA TookIs ==
    ASSUME NEW layer, NEW amount
    PROVE  /\ amount = Malformed => Took(layer, amount).layer = "error" /\ Took(layer, amount).amount = 0
           /\ amount # Malformed => /\ Took(layer, amount).layer = layer
                                    /\ Took(layer, amount).amount = amount
           /\ Refused.layer = "error"
<1>1. amount = Malformed => Took(layer, amount).layer = "error" /\ Took(layer, amount).amount = 0
  BY DEF Took
<1>2. amount # Malformed => Took(layer, amount).layer = layer /\ Took(layer, amount).amount = amount
  BY DEF Took
<1>3. Refused = [layer |-> "error", amount |-> 0]
  BY Zenon DEF Refused, Took
<1> QED
  BY <1>1, <1>2, <1>3

(* A number within the bounds of every layer, in thousandths.               *)
Bounded(v) == v.n \in Int /\ ~(v.n < 0 \/ v.n > 100000)

(* One of the amounts is no number, or is not within them.                  *)
Unreadable(f) == \E k \in DOMAIN f.inject : ~Number(f.inject[k]) \/ ~Bounded(f.inject[k])

(* A number within the bounds is not the mark of an error, nor rounds to it.*)
LEMMA BoundedIs ==
    ASSUME NEW v, Bounded(v)
    PROVE  Rounded(v.n) # Malformed /\ v.n # Malformed
<1> DEFINE n == v.n
<1>1. n \in Int /\ n >= 0 /\ n <= 100000
  BY DEF Bounded
<1> HIDE DEF n
<1>2. Rounded(n) # Malformed
  BY <1>1, SMT DEF Rounded, Malformed
<1>3. n # Malformed
  BY <1>1, SMT DEF Malformed
<1> QED
  BY <1>2, <1>3 DEF n

(* What a reader makes of a number within bounds is no Malformed.           *)
LEMMA NumbersAreRead ==
    ASSUME NEW v, Bounded(v), Number(v)
    PROVE  parseMillis(v) # Malformed /\ parseRateKBps(v) # Malformed
<1>1. parseMillis(v) = Rounded(v.n) /\ parseRateKBps(v) = Rounded(v.n)
  BY DEF Number, parseMillis, parseRateKBps
<1>2. Rounded(v.n) # Malformed
  BY BoundedIs
<1> QED
  BY <1>1, <1>2

(* A percentage within the bounds is read.                                  *)
LEMMA PercentIsRead ==
    ASSUME NEW v, Bounded(v), Number(v)
    PROVE  parsePercent(v) # Malformed
<1>1. parsePercent(v) = Rounded(v.n)
  BY SMT DEF Number, parsePercent, Bounded
<1>2. Rounded(v.n) # Malformed
  BY BoundedIs
<1> QED
  BY <1>1, <1>2

(* The fault layer's part: who takes a toxic or a docker verb, and why not. *)
LEMMA ToxicIs ==
    ASSUME NEW f, IsFault(f), FaultOK(f), Verb(f) \in toxicVerbs
    PROVE  /\ translateToxic(f).layer \in {"toxiproxy", "error"}
           /\ translateToxic(f).layer = "error" => Unreadable(f)
           /\ Verb(f) = "bandwidth" =>
                translateToxic(f) = Took("toxiproxy", parseRateKBps(f.inject["bandwidth"]))
<1> USE TookIs, OneVerb
<1>1. CASE Verb(f) = "latency"
  <2>1. translateToxic(f) =
           IF "jitter" \in DOMAIN f.inject /\ parseMillis(f.inject["jitter"]) = Malformed
           THEN Refused ELSE Took("toxiproxy", parseMillis(f.inject["latency"]))
    BY <1>1, Zenon DEF translateToxic
  <2>2. "latency" \in DOMAIN f.inject
    BY <1>1
  <2>3. CASE "jitter" \in DOMAIN f.inject /\ parseMillis(f.inject["jitter"]) = Malformed
    <3>1. Unreadable(f)
      BY <2>3, NumbersAreRead, Zenon DEF Unreadable
    <3>2. translateToxic(f).layer = "error"
      BY <2>1, <2>3
    <3> QED
      BY <1>1, <3>1, <3>2
  <2>4. CASE ~("jitter" \in DOMAIN f.inject /\ parseMillis(f.inject["jitter"]) = Malformed)
    <3>1. parseMillis(f.inject["latency"]) = Malformed => Unreadable(f)
      BY <2>2, NumbersAreRead, Zenon DEF Unreadable
    <3>2. translateToxic(f).layer = IF parseMillis(f.inject["latency"]) = Malformed
                                    THEN "error" ELSE "toxiproxy"
      BY <2>1, <2>4
    <3> QED
      BY <1>1, <3>1, <3>2
  <2> QED
    BY <2>3, <2>4
<1>2. CASE Verb(f) = "bandwidth"
  <2>1. translateToxic(f) = Took("toxiproxy", parseRateKBps(f.inject["bandwidth"]))
    BY <1>2, Zenon DEF translateToxic
  <2>2. translateToxic(f).layer = "error" => parseRateKBps(f.inject["bandwidth"]) = Malformed
    BY <2>1
  <2>3. translateToxic(f).layer = "error" => Unreadable(f)
    BY <2>2, <1>2, NumbersAreRead, Zenon DEF Unreadable
  <2>4. translateToxic(f).layer \in {"toxiproxy", "error"}
    BY <2>1
  <2> QED
    BY <2>1, <2>3, <2>4
<1>3. CASE Verb(f) # "latency" /\ Verb(f) # "bandwidth"
  <2>1. translateToxic(f) = Took("toxiproxy", 0)
    BY <1>3, Zenon DEF translateToxic
  <2>2. 0 # Malformed
    BY SMT DEF Malformed
  <2>3. translateToxic(f).layer = "toxiproxy"
    BY <2>1, <2>2
  <2> QED
    BY <2>3, <1>3
<1> QED
  BY <1>1, <1>2, <1>3

(* The docker layer takes what it can read.                                 *)
LEMMA DockerIs ==
    ASSUME NEW f, IsFault(f), FaultOK(f)
    PROVE  /\ translateDocker(f).layer \in {"docker", "error"}
           /\ translateDocker(f).layer = "error" => Unreadable(f)
<1> USE TookIs, OneVerb
<1>1. CASE Verb(f) = "cpu"
  <2>1. translateDocker(f) = Took("docker", parsePercent(f.inject["cpu"]))
    BY <1>1, Zenon DEF translateDocker
  <2>2. translateDocker(f).layer = "error" => parsePercent(f.inject["cpu"]) = Malformed
    BY <2>1
  <2>3. translateDocker(f).layer = "error" => Unreadable(f)
    BY <2>2, <1>1, PercentIsRead, Zenon DEF Unreadable
  <2>4. translateDocker(f).layer \in {"docker", "error"}
    BY <2>1
  <2> QED
    BY <2>3, <2>4
<1>2. CASE Verb(f) # "cpu"
  <2>1. translateDocker(f) = Took("docker", 0)
    BY <1>2, Zenon DEF translateDocker
  <2>2. 0 # Malformed
    BY SMT DEF Malformed
  <2>3. translateDocker(f).layer = "docker"
    BY <2>1, <2>2
  <2> QED
    BY <2>3
<1> QED
  BY <1>1, <1>2

(* The layers that own the other verbs.                                     *)
Mocked == {h \in DOMAIN doc.egress.hosts : doc.egress.hosts[h].class = "mock"}

(* An error rate fails for its wiring or its target only.                   *)
LEMMA RateIs ==
    ASSUME NEW f, IsFault(f), FaultOK(f), Verb(f) = "error_rate"
    PROVE  /\ TranslateErrorRate(f).layer \in {"mock", "error"}
           /\ TranslateErrorRate(f).layer = "mock" => doc.egress.hosts[f.target].class = "mock"
           /\ TranslateErrorRate(f).layer = "error" =>
                Unreadable(f) \/ "mock" \notin doc.wired \/ f.target \notin Mocked
<1>1. "error_rate" \in DOMAIN f.inject
  BY OneVerb
<1>2. Fraction(f.inject["error_rate"])
  BY <1>1, Zenon DEF FaultOK
<1>3. Bounded(f.inject["error_rate"])
  BY <1>1, <1>2 DEF Fraction, IsFault, Bounded
<1>4. f.inject["error_rate"].n # Malformed
  BY <1>3, BoundedIs
<1> DEFINE ok == /\ f.target \in DOMAIN doc.egress.hosts /\ doc.egress.hosts[f.target].class = "mock"
                 /\ "mock" \in doc.wired
                 /\ "status" \in DOMAIN f.inject => Number(f.inject["status"])
<1>5. TranslateErrorRate(f) = IF ok THEN Took("mock", f.inject["error_rate"].n) ELSE Refused
  BY <1>2, Zenon DEF TranslateErrorRate
<1>6. TranslateErrorRate(f).layer = IF ok THEN "mock" ELSE "error"
  BY <1>4, <1>5, TookIs
<1>7. "mock" # "error"
  OBVIOUS
<1> QED
  BY <1>6, <1>7, Zenon DEF Unreadable, Mocked

(* A queue fault fails for want of a broker only.                           *)
LEMMA QueueIs ==
    ASSUME NEW f, IsFault(f), FaultOK(f), Verb(f) \in DOMAIN queueVerbs
    PROVE  /\ "broker" \in doc.wired =>
                queueTranslate(f).layer = "broker" /\ queueTranslate(f) = queueAmount(f)
           /\ "broker" \notin doc.wired => queueTranslate(f).layer = "error"
<1>1. queueAmount(f).layer = "broker"
  <2>1. CASE Verb(f) = "duplicate"
    <3>1. "duplicate" \in DOMAIN f.inject
      BY <2>1, OneVerb
    <3>2. Fraction(f.inject["duplicate"])
      BY <3>1, Zenon DEF FaultOK
    <3>3. f.inject["duplicate"].n # Malformed
      BY <3>1, <3>2, SMT DEF Fraction, Malformed, IsFault
    <3>4. queueAmount(f) = Took("broker", f.inject["duplicate"].n)
      BY <2>1 DEF queueAmount
    <3> QED
      BY <3>3, <3>4, TookIs
  <2>2. CASE Verb(f) # "duplicate" /\ "count" \in DOMAIN f.inject
    <3>1. PositiveInt(f.inject["count"])
      BY <2>2, Zenon DEF FaultOK
    <3>2. f.inject["count"].n \div 1000 # Malformed
      BY <2>2, <3>1, SMT DEF PositiveInt, Malformed, IsFault
    <3>3. queueAmount(f) = Took("broker", f.inject["count"].n \div 1000)
      BY <2>2 DEF queueAmount
    <3> QED
      BY <3>2, <3>3, TookIs
  <2>3. CASE Verb(f) # "duplicate" /\ "count" \notin DOMAIN f.inject
    <3>1. 1 # Malformed
      BY SMT DEF Malformed
    <3>2. queueAmount(f) = Took("broker", 1)
      BY <2>3, Zenon DEF queueAmount
    <3> QED
      BY <3>1, <3>2, TookIs
  <2> QED
    BY <2>1, <2>2, <2>3
<1> QED
  BY <1>1, TookIs, Zenon DEF queueTranslate

(* The layer that takes a fault at its time, or an error.                   *)
Outcome(f) == IF f.offset = Malformed THEN Refused ELSE Translate(f)

(* Of a fault that parsing accepted, the owner of the verb decides.         *)
LEMMA TranslateIs ==
    ASSUME NEW f, IsFault(f), FaultOK(f)
    PROVE  /\ Verb(f) \in DOMAIN otherLayerOwner =>
                Translate(f) = IF Verb(f) = "error_rate" THEN TranslateErrorRate(f)
                               ELSE queueTranslate(f)
           /\ Verb(f) \notin DOMAIN otherLayerOwner =>
                Translate(f) = IF f.for = Malformed THEN Refused
                               ELSE IF Verb(f) \in toxicVerbs THEN translateToxic(f)
                               ELSE translateDocker(f)
<1>1. Verb(f) \in DOMAIN f.inject /\ Verb(f) \in DOMAIN configVerbs
  BY OneVerb
<1> DEFINE v == Verb(f)
<1>2. DOMAIN f.inject \subseteq {v} \cup configVerbs[v]
  BY Zenon DEF FaultOK
<1>3. /\ v \in toxicVerbs \/ v \in dockerVerbs \/ v \in DOMAIN otherLayerOwner
      /\ ~(v \in toxicVerbs /\ v \in dockerVerbs)
      /\ faultVerbs[v] = configVerbs[v]
      /\ v \in DOMAIN queueVerbs => queueVerbs[v] = configVerbs[v]
      /\ v \in DOMAIN otherLayerOwner => v = "error_rate" \/ v \in DOMAIN queueVerbs
  BY <1>1, TablesAgree
<1>4. CASE v \in DOMAIN otherLayerOwner
  <2>1. Translate(f) = routePassedOver(f)
    BY <1>2, <1>3, <1>4, Zenon DEF Translate
  <2>2. CASE v = "error_rate"
    <3>1. otherLayerOwner[v] = "egress"
      BY <2>2 DEF otherLayerOwner
    <3> QED
      BY <2>1, <2>2, <3>1, <1>4, Zenon DEF routePassedOver
  <2>3. CASE v # "error_rate"
    <3>1. otherLayerOwner[v] # "egress"
      BY <2>3, <1>4 DEF otherLayerOwner
    <3> QED
      BY <2>1, <2>3, <3>1, <1>2, <1>3, <1>4, Zenon DEF routePassedOver
  <2> QED
    BY <2>2, <2>3
<1>5. CASE v \notin DOMAIN otherLayerOwner
  <2>1. "workers" \in DOMAIN f.inject => PositiveInt(f.inject["workers"])
    BY Zenon DEF FaultOK
  <2>2. Translate(f) = IF f.for = Malformed THEN Refused
                       ELSE CASE v \in toxicVerbs  -> translateToxic(f)
                              [] v \in dockerVerbs -> translateDocker(f)
                              [] OTHER              -> Refused
    BY <1>2, <1>3, <1>5, <2>1, Zenon DEF Translate, translateOwn
  <2> QED
    BY <1>3, <1>5, <2>2, Zenon
<1> QED
  BY <1>4, <1>5

(* The layer that takes a fault is its owner; why one fails.                *)
LEMMA OutcomeIs ==
    ASSUME NEW f, IsFault(f), FaultOK(f)
    PROVE  /\ Outcome(f).layer = "toxiproxy" => Verb(f) \in toxicVerbs
           /\ Outcome(f).layer = "docker" => Verb(f) \in dockerVerbs
           /\ Outcome(f).layer = "mock" => doc.egress.hosts[f.target].class = "mock"
           /\ Outcome(f).layer = "error" =>
                \/ f.for = Malformed \/ f.offset = Malformed \/ Unreadable(f)
                \/ Verb(f) \in DOMAIN otherLayerOwner /\ {"mock", "broker"} \ doc.wired # {}
                \/ Verb(f) = "error_rate" /\ f.target \notin Mocked
           /\ Outcome(f).layer = "toxiproxy" /\ Verb(f) = "bandwidth" =>
                /\ parseRateKBps(f.inject["bandwidth"]) # Malformed
                /\ Outcome(f).amount = parseRateKBps(f.inject["bandwidth"])
<1> DEFINE v == Verb(f)
<1>1. v \in DOMAIN configVerbs
  BY OneVerb
<1>2. CASE f.offset = Malformed
  <2>1. Outcome(f).layer = "error"
    BY <1>2, TookIs DEF Outcome
  <2> QED
    BY <1>2, <2>1
<1>3. CASE f.offset # Malformed /\ v \in DOMAIN otherLayerOwner
  <2>1. Outcome(f) = IF v = "error_rate" THEN TranslateErrorRate(f) ELSE queueTranslate(f)
    BY <1>3, TranslateIs, Zenon DEF Outcome
  <2>2. v # "bandwidth"
    BY <1>3 DEF otherLayerOwner
  <2>3. CASE v = "error_rate"
    BY <2>1, <2>2, <2>3, <1>3, RateIs
  <2>4. CASE v # "error_rate"
    <3>1. v \in DOMAIN queueVerbs
      BY <1>1, <1>3, <2>4, TablesAgree
    <3>2. /\ "broker" \in doc.wired => Outcome(f).layer = "broker"
          /\ "broker" \notin doc.wired => Outcome(f).layer = "error"
      BY <2>1, <2>4, <3>1, QueueIs
    <3> QED
      BY <2>2, <3>2, <1>3
  <2> QED
    BY <2>3, <2>4
<1>4. CASE f.offset # Malformed /\ v \notin DOMAIN otherLayerOwner
  <2>1. Outcome(f) = IF f.for = Malformed THEN Refused
                     ELSE IF v \in toxicVerbs THEN translateToxic(f) ELSE translateDocker(f)
    BY <1>4, TranslateIs, Zenon DEF Outcome
  <2>2. CASE f.for = Malformed
    <3>1. Outcome(f).layer = "error"
      BY <2>1, <2>2, TookIs
    <3> QED
      BY <2>2, <3>1
  <2>3. CASE f.for # Malformed /\ v \in toxicVerbs
    <3>1. Outcome(f) = translateToxic(f)
      BY <2>1, <2>3
    <3>2. /\ Outcome(f).layer \in {"toxiproxy", "error"}
          /\ Outcome(f).layer = "error" => Unreadable(f)
          /\ v = "bandwidth" => Outcome(f) = Took("toxiproxy", parseRateKBps(f.inject["bandwidth"]))
      BY <2>3, <3>1, ToxicIs
    <3> QED
      BY <2>3, <3>2, TookIs
  <2>4. CASE f.for # Malformed /\ v \notin toxicVerbs
    <3>1. v \in dockerVerbs /\ v # "bandwidth"
      BY <1>1, <1>4, <2>4, TablesAgree DEF toxicVerbs
    <3>2. Outcome(f) = translateDocker(f)
      BY <2>1, <2>4
    <3> QED
      BY <3>1, <3>2, DockerIs
  <2> QED
    BY <2>2, <2>3, <2>4
<1> QED
  BY <1>2, <1>3, <1>4

(* A rate in kbps keeps its magnitude.                                      *)
LEMMA RateKept ==
    ASSUME NEW v, v.n \in Int, v.unit = "kbps", NEW amount, amount = parseRateKBps(v)
    PROVE  ToHalfAStep(amount, v.n)
<1> DEFINE n == v.n
<1>1. parseRateKBps(v) = Rounded(n \div 8)
  BY DEF parseRateKBps, Number
<1>2. n \in Int
  OBVIOUS
<1> HIDE DEF n
<1> DEFINE q == n \div 8
<1>3. q \in Int /\ 8 * q <= n /\ n < 8 * q + 8
  BY <1>2
<1> HIDE DEF q
<1> DEFINE r == (q + 500) \div 1000
<1>4. r \in Int /\ 1000 * r <= q + 500 /\ q + 500 < 1000 * r + 1000
  BY <1>3
<1>5. amount = r
  BY <1>1 DEF Rounded, r, q
<1> HIDE DEF r
<1>6. ToHalfAStep(r, n)
  BY <1>2, <1>3, <1>4 DEF ToHalfAStep
<1> QED
  BY <1>5, <1>6 DEF n

-----------------------------------------------------------------------------
(* b is the sums of the first m numbers of the list.                        *)
SumsTo(list, b, m) == b = [k \in 0..m |-> IF k = 0 THEN 0 ELSE b[k - 1] + list[k]]

(* A table of sums is carried on by one number.                             *)
LEMMA SumsOn ==
    ASSUME NEW list, NEW m \in Nat \ {0}, NEW b, SumsTo(list, b, m - 1)
    PROVE  \E c : SumsTo(list, c, m)
<1> DEFINE c == [k \in 0..m |-> IF k = m THEN b[m - 1] + list[m] ELSE b[k]]
<1>1. ASSUME NEW k \in 0..m
      PROVE  c[k] = IF k = 0 THEN 0 ELSE c[k - 1] + list[k]
  <2>1. CASE k = m
    <3>1. m - 1 \in 0..m /\ m - 1 # m /\ k # 0
      BY <2>1
    <3> QED
      BY <2>1, <3>1
  <2>2. CASE k # m
    <3>1. k \in 0..(m - 1) /\ c[k] = b[k]
      BY <2>2
    <3>2. b[k] = IF k = 0 THEN 0 ELSE b[k - 1] + list[k]
      <4> HIDE DEF c
      <4> QED
        BY <3>1 DEF SumsTo
    <3>3. CASE k # 0
      <4>1. k - 1 \in 0..m /\ k - 1 # m
        BY <3>1, <3>3
      <4>2. c[k - 1] = b[k - 1]
        BY <4>1
      <4> QED
        BY <3>1, <3>2, <3>3, <4>2
    <3> QED
      BY <3>1, <3>2, <3>3
  <2> QED
    BY <2>1, <2>2
<1>2. c = [k \in 0..m |-> c[k]]
  OBVIOUS
<1> HIDE DEF c
<1>3. SumsTo(list, c, m)
  BY <1>1, <1>2 DEF SumsTo
<1> QED
  BY <1>3

(* There is a table of sums, so that CHOOSE finds it.                       *)
LEMMA SumsExist ==
    ASSUME NEW list, NEW m \in Nat
    PROVE  \E b : SumsTo(list, b, m)
<1> DEFINE T == {n \in Nat : ~\E b : SumsTo(list, b, n)}
<1>1. SUFFICES ASSUME T # {} PROVE FALSE
  OBVIOUS
<1>2. PICK n \in T : \A i \in T : n <= i
  <2>1. T \in SUBSET Nat
    OBVIOUS
  <2> HIDE DEF T
  <2> QED
    BY <1>1, <2>1, LeastNat
<1>3. CASE n = 0
  <2> DEFINE b == [i \in 0..0 |-> 0]
  <2>1. b = [i \in 0..0 |-> IF i = 0 THEN 0 ELSE b[i - 1] + list[i]]
    OBVIOUS
  <2> HIDE DEF b
  <2>2. SumsTo(list, b, 0)
    BY <2>1 DEF SumsTo
  <2> QED
    BY <1>2, <1>3, <2>2
<1>4. CASE n # 0
  <2>1. n - 1 \in Nat /\ n - 1 \notin T /\ n \in Nat \ {0}
    BY <1>2, <1>4
  <2>2. PICK b : SumsTo(list, b, n - 1)
    BY <2>1
  <2> QED
    BY <1>2, <2>1, <2>2, SumsOn
<1> QED
  BY <1>3, <1>4

(* The sums of a list, one number at a time.                                *)
LEMMA SumsAre ==
    ASSUME NEW list, Len(list) \in Nat
    PROVE  /\ Sums(list)[0] = 0
           /\ \A k \in 1..Len(list) : Sums(list)[k] = Sums(list)[k - 1] + list[k]
<1> DEFINE B == Sums(list)
<1>1. B = CHOOSE b : b = [k \in 0..Len(list) |-> IF k = 0 THEN 0 ELSE b[k - 1] + list[k]]
  BY DEF Sums
<1>2. B = CHOOSE b : SumsTo(list, b, Len(list))
  BY <1>1, Zenon DEF SumsTo
<1>3. SumsTo(list, B, Len(list))
  BY <1>2, SumsExist
<1> HIDE DEF B
<1>4. B[0] = 0 /\ \A k \in 1..Len(list) : B[k] = B[k - 1] + list[k]
  BY <1>3 DEF SumsTo
<1> QED
  BY <1>4 DEF B

(* Of two lists of numbers the greater ones have the greater sums.          *)
LEMMA SumsGrow ==
    ASSUME NEW a, NEW b, NEW n \in Nat, Len(a) = n, Len(b) = n,
           \A k \in 1..n : a[k] \in Int /\ b[k] \in Int /\ a[k] <= b[k]
    PROVE  \A k \in 0..n : Sums(a)[k] \in Int /\ Sums(b)[k] \in Int /\ Sums(a)[k] <= Sums(b)[k]
<1> DEFINE A == Sums(a)
           B == Sums(b)
           T == {k \in 0..n : ~(A[k] \in Int /\ B[k] \in Int /\ A[k] <= B[k])}
<1>1. /\ A[0] = 0 /\ \A k \in 1..n : A[k] = A[k - 1] + a[k]
      /\ B[0] = 0 /\ \A k \in 1..n : B[k] = B[k - 1] + b[k]
  BY SumsAre
<1> HIDE DEF A, B
<1>2. SUFFICES ASSUME T # {} PROVE FALSE
  BY DEF A, B
<1>3. PICK k \in T : \A i \in T : k <= i
  <2>1. T \in SUBSET Nat
    OBVIOUS
  <2> HIDE DEF T
  <2> QED
    BY <1>2, <2>1, LeastNat
<1>4. k \in 1..n
  BY <1>1, <1>3
<1>5. k - 1 \in 0..n /\ k - 1 \notin T
  BY <1>3, <1>4
<1>6. A[k - 1] \in Int /\ B[k - 1] \in Int /\ A[k - 1] <= B[k - 1]
  BY <1>5
<1>7. A[k] = A[k - 1] + a[k] /\ B[k] = B[k - 1] + b[k] /\ a[k] \in Int /\ b[k] \in Int /\ a[k] <= b[k]
  BY <1>1, <1>4
<1>8. A[k] \in Int /\ B[k] \in Int /\ A[k] <= B[k]
  <2> HIDE DEF T
  <2> QED
    BY <1>6, <1>7
<1> QED
  BY <1>3, <1>8

-----------------------------------------------------------------------------
(* The plan of an accepted document.                                        *)
StageCount == Len(doc.load.stages)

(* The stages of a document, and their numbers.                             *)
LEMMA StagesAre ==
    ASSUME IsDocument(doc)
    PROVE  /\ StageCount \in Nat /\ DOMAIN doc.load.stages = 1..StageCount
           /\ \A k \in 1..StageCount : LET s == doc.load.stages[k]
                                       IN  /\ s.to \in Int /\ s.hold \in Int
                                           /\ s.over \in Int /\ s.for \in Int
           /\ doc.load.stages # <<>> => StageCount \in 1..StageCount
<1> DEFINE R  == [phase : STRING, to : Int, hold : Int, over : Int, for : Int]
           st == doc.load.stages
<1>1. st \in Seq(R)
  BY Zenon DEF IsDocument
<1> HIDE DEF st
<1>2. Len(st) \in Nat /\ DOMAIN st = 1..Len(st) /\ \A k \in 1..Len(st) : st[k] \in R
  <2> HIDE DEF R
  <2> QED
    BY <1>1, LenProperties
<1>3. st # <<>> => Len(st) \in Nat \ {0}
  <2> HIDE DEF R
  <2> QED
    BY <1>1, EmptySeq
<1>4. \A k \in 1..Len(st) : /\ st[k].to \in Int /\ st[k].hold \in Int
                            /\ st[k].over \in Int /\ st[k].for \in Int
  BY <1>2
<1> QED
  BY <1>2, <1>3, <1>4 DEF st, StageCount

(* The bound on the co-driven tools is more than the last stage's end.      *)
LEMMA DriveOutlasts ==
    ASSUME IsDocument(doc), Compiles, NEW p, p = resolveStages,
           \A k \in DOMAIN doc.load.stages :
               doc.load.stages[k].to = Absent => doc.load.stages[k].over = Absent
    PROVE  driveDuration > Last(p).start + Length(Last(doc.load.stages))
<1>1. /\ StageCount \in Nat /\ DOMAIN doc.load.stages = 1..StageCount
      /\ \A k \in 1..StageCount : LET s == doc.load.stages[k]
                                  IN  /\ s.to \in Int /\ s.hold \in Int
                                      /\ s.over \in Int /\ s.for \in Int
  BY StagesAre
<1>2. StageCount \in 1..StageCount
  BY StagesAre DEF Compiles
<1>3. Absent \in Int /\ Absent < 0
  BY SMT DEF Absent
<1>4. \A k \in 1..StageCount : /\ Length(doc.load.stages[k]) \in Int /\ Length(doc.load.stages[k]) >= 0
                               /\ drives[k] \in Int /\ Length(doc.load.stages[k]) <= drives[k]
  <2> TAKE k \in 1..StageCount
  <2> DEFINE s == doc.load.stages[k]
  <2>1. /\ s.to \in Int /\ s.over \in Int /\ s.for \in Int
        /\ s.to = Absent => s.over = Absent
        /\ Length(s) >= 0
    BY <1>1 DEF Compiles
  <2>2. drives[k] = Max2(0, IF s.over # Absent THEN s.over ELSE s.for)
    BY <1>1 DEF drives
  <2> HIDE DEF s
  <2>3. /\ Length(s) \in Int /\ Length(s) >= 0
        /\ drives[k] \in Int /\ Length(s) <= drives[k]
    BY <1>3, <2>1, <2>2 DEF Length, Max2
  <2> QED
    BY <2>3 DEF s
<1>5. /\ lengths = [k \in 1..StageCount |-> Length(doc.load.stages[k])]
      /\ Len(lengths) = StageCount /\ Len(drives) = StageCount
  BY <1>1 DEF lengths, drives
<1>6. \A k \in 0..StageCount : /\ Sums(lengths)[k] \in Int /\ Sums(drives)[k] \in Int
                               /\ Sums(lengths)[k] <= Sums(drives)[k]
  BY <1>1, <1>4, <1>5, SumsGrow
<1>7. Sums(lengths)[StageCount] = Sums(lengths)[StageCount - 1] + Length(doc.load.stages[StageCount])
  BY <1>1, <1>2, <1>5, SumsAre
<1>8. Last(p).start = Sums(lengths)[StageCount - 1]
  <2>1. p = [k \in 1..StageCount |->
            [phase |-> doc.load.stages[k].phase, rate |-> Rate(doc.load.stages[k]),
             start |-> Sums(lengths)[k - 1]]]
    BY <1>1 DEF resolveStages
  <2>2. Len(p) = StageCount
    BY <1>1, <2>1
  <2> QED
    BY <1>2, <2>1, <2>2 DEF Last
<1>9. Length(Last(doc.load.stages)) = Length(doc.load.stages[StageCount])
  BY DEF Last, StageCount
<1>10. StageCount \in 0..StageCount /\ driveDuration = Max2(10, Sums(drives)[StageCount] + 30)
  BY <1>1 DEF driveDuration, StageCount
<1> QED
  BY <1>6, <1>7, <1>8, <1>9, <1>10 DEF Max2

-----------------------------------------------------------------------------
(* What a document says does not change while it is carried out.            *)
LEMMA DocumentStays ==
    ASSUME doc' = doc
    PROVE  /\ Parses' <=> Parses
           /\ Compiles' <=> Compiles
           /\ resolveStages' = resolveStages
           /\ \A f : Outcome(f)' = Outcome(f)
<1>1. EgressOK' <=> EgressOK
  BY Zenon DEF EgressOK
<1>2. LoadOK' <=> LoadOK
  BY Zenon DEF LoadOK, FlowsOK
<1>3. \A f : FaultOK(f)' <=> FaultOK(f)
  BY Zenon DEF FaultOK, Phases
<1>4. Parses' <=> Parses
  BY <1>1, <1>2, <1>3, Zenon DEF Parses
<1>5. Compiles' <=> Compiles
  BY Zenon DEF Compiles
<1>6. resolveStages' = resolveStages
  BY Zenon DEF resolveStages, lengths
<1>7. \A f : TranslateErrorRate(f)' = TranslateErrorRate(f)
  BY Zenon DEF TranslateErrorRate
<1>8. \A f : queueTranslate(f)' = queueTranslate(f)
  BY Zenon DEF queueTranslate
<1>9. \A f : routePassedOver(f)' = routePassedOver(f)
  BY <1>7, <1>8, Zenon DEF routePassedOver
<1>10. \A f : Translate(f)' = Translate(f)
  BY <1>9, Zenon DEF Translate
<1>11. \A f : Outcome(f)' = Outcome(f)
  BY <1>10, Zenon DEF Outcome
<1> QED
  BY <1>4, <1>5, <1>6, <1>11, Zenon

(* Of a document that parses every fault is one that parsing accepts.       *)
LEMMA FaultsAre ==
    ASSUME IsDocument(doc), Parses, NEW i \in DOMAIN doc.faults
    PROVE  IsFault(doc.faults[i]) /\ FaultOK(doc.faults[i])
<1>1. FaultOK(doc.faults[i])
  BY Zenon DEF Parses
<1>2. doc.faults[i] \in ToSet(doc.faults)
  BY DEF ToSet
<1> QED
  BY <1>1, <1>2, Zenon DEF IsDocument, IsFault

(* What is routed is what the fault's outcome says.                         *)
RoutedAs(r, i) == r = [fault |-> i, layer |-> Outcome(doc.faults[i]).layer,
                       amount |-> Outcome(doc.faults[i]).amount]

(* The invariant: what is past a step has passed it, and what is routed     *)
(* is the outcome of one of the faults.                                     *)
ScenarioInv ==
    /\ IsDocument(doc)
    /\ scen \in {"flags", "compile", "fire", "done"} => Parses
    /\ scen \in {"fire", "done"} => Compiles /\ plan = resolveStages
    /\ routed # {} => scen \in {"fire", "done"}
    /\ \A r \in routed : \E i \in DOMAIN doc.faults : RoutedAs(r, i)

(* Every step keeps it.                                                     *)
LEMMA ScenarioStep == ScenarioInv /\ [ScenarioNext]_scenarioVars => ScenarioInv'
<1> SUFFICES ASSUME ScenarioInv, [ScenarioNext]_scenarioVars
             PROVE  ScenarioInv'
  OBVIOUS
<1>1. doc' = doc
  BY DEF ScenarioNext, scenarioVars, Parse, CheckDriveFlags, Compile, EndOfLoad, Fire
<1>2. /\ Parses' <=> Parses
      /\ Compiles' <=> Compiles
      /\ resolveStages' = resolveStages
      /\ \A f : Outcome(f)' = Outcome(f)
  BY <1>1, DocumentStays
<1>3. IsDocument(doc)'
  BY <1>1 DEF ScenarioInv, IsDocument
<1>4. \A r, i : RoutedAs(r, i)' <=> RoutedAs(r, i)
  BY <1>1, <1>2, Zenon DEF RoutedAs
<1>5. CASE Parse
  BY <1>1, <1>2, <1>3, <1>4, <1>5 DEF ScenarioInv, Parse, Step
<1>6. CASE CheckDriveFlags
  BY <1>1, <1>2, <1>3, <1>4, <1>6 DEF ScenarioInv, CheckDriveFlags, Step
<1>7. CASE Compile
  BY <1>1, <1>2, <1>3, <1>4, <1>7 DEF ScenarioInv, Compile, Step
<1>8. CASE EndOfLoad
  BY <1>1, <1>2, <1>3, <1>4, <1>8 DEF ScenarioInv, EndOfLoad
<1>9. ASSUME NEW i \in DOMAIN doc.faults, Fire(i) PROVE ScenarioInv'
  <2> DEFINE r == [fault |-> i, layer |-> Outcome(doc.faults[i]).layer,
                   amount |-> Outcome(doc.faults[i]).amount]
  <2>1. routed' = routed \cup {r} /\ scen = "fire" /\ scen' = scen /\ plan' = plan
    BY <1>9, Zenon DEF Fire, Outcome
  <2>2. RoutedAs(r, i)
    BY DEF RoutedAs
  <2> HIDE DEF r
  <2> QED
    BY <1>1, <1>2, <1>3, <1>4, <2>1, <2>2 DEF ScenarioInv
<1>10. CASE UNCHANGED scenarioVars
  BY <1>1, <1>2, <1>3, <1>4, <1>10 DEF ScenarioInv, scenarioVars
<1> QED
  BY <1>5, <1>6, <1>7, <1>8, <1>9, <1>10 DEF ScenarioNext

(* A phase that parsing admits is that of one stage.                        *)
LEMMA PhaseIsOne ==
    ASSUME IsDocument(doc), Parses, Compiles, NEW i \in DOMAIN doc.faults, doc.faults[i].at # "t="
    PROVE  \E k \in DOMAIN doc.load.stages :
             {m \in DOMAIN doc.load.stages : doc.load.stages[m].phase = doc.faults[i].at} = {k}
<1>1. LoadOK /\ FaultOK(doc.faults[i])
  BY Zenon DEF Parses, Compiles
<1>2. doc.faults[i].at \in Phases
  BY <1>1, Zenon DEF FaultOK
<1>3. PICK k \in DOMAIN doc.load.stages : doc.load.stages[k].phase = doc.faults[i].at
  BY <1>2, Zenon DEF Phases
<1>4. \A m \in DOMAIN doc.load.stages : doc.load.stages[m].phase = doc.load.stages[k].phase => m = k
  BY <1>1, Zenon DEF LoadOK
<1>5. {m \in DOMAIN doc.load.stages : doc.load.stages[m].phase = doc.faults[i].at} = {k}
  BY <1>3, <1>4
<1> QED
  BY <1>5

(* It implies the property.                                                 *)
LEMMA PlanMeans == ScenarioInv => PlanMeansWhatItSays
<1> SUFFICES ASSUME ScenarioInv PROVE PlanMeansWhatItSays
  OBVIOUS
<1>1. IsDocument(doc)
  BY DEF ScenarioInv
<1>2. ASSUME scen \in {"fire", "done"}, NEW i \in DOMAIN doc.faults, doc.faults[i].at # "t="
      PROVE  Cardinality({k \in DOMAIN plan : plan[k].phase = doc.faults[i].at}) = 1
  <2>1. Parses /\ Compiles /\ plan = resolveStages
    BY <1>2 DEF ScenarioInv
  <2>2. PICK k : {m \in DOMAIN doc.load.stages : doc.load.stages[m].phase = doc.faults[i].at} = {k}
    BY <1>1, <1>2, <2>1, PhaseIsOne
  <2>3. DOMAIN plan = DOMAIN doc.load.stages
        /\ \A m \in DOMAIN plan : plan[m].phase = doc.load.stages[m].phase
    BY <2>1 DEF resolveStages
  <2>4. {m \in DOMAIN plan : plan[m].phase = doc.faults[i].at} = {k}
    BY <2>2, <2>3
  <2> QED
    BY <2>4, FS_Singleton
<1>3. ASSUME scen \in {"fire", "done"},
             \A k \in DOMAIN doc.load.stages :
               doc.load.stages[k].to = Absent => doc.load.stages[k].over = Absent
      PROVE  driveDuration > Last(plan).start + Length(Last(doc.load.stages))
  <2>1. Compiles /\ plan = resolveStages
    BY <1>3 DEF ScenarioInv
  <2> QED
    BY <1>1, <1>3, <2>1, DriveOutlasts
<1>4. ASSUME NEW r \in routed
      PROVE  TakenAsItSays(r)
  <2>1. PICK i \in DOMAIN doc.faults : RoutedAs(r, i)
    BY DEF ScenarioInv
  <2> DEFINE f == doc.faults[i]
  <2>2. r.fault = i /\ r.layer = Outcome(f).layer /\ r.amount = Outcome(f).amount
    BY <2>1 DEF RoutedAs
  <2>3. Parses
    BY DEF ScenarioInv
  <2>4. IsFault(f) /\ FaultOK(f)
    BY <1>1, <2>3, FaultsAre
  <2>5. {q \in routed : q.fault = r.fault} = {r}
    <3>1. ASSUME NEW q \in routed, q.fault = i PROVE q = r
      <4>1. PICK j \in DOMAIN doc.faults : RoutedAs(q, j)
        BY DEF ScenarioInv
      <4>2. j = i
        BY <3>1, <4>1 DEF RoutedAs
      <4> QED
        BY <2>1, <4>1, <4>2, Zenon DEF RoutedAs
    <3> QED
      BY <2>2, <3>1
  <2>6. Cardinality({q \in routed : q.fault = r.fault}) = 1
    BY <2>5, FS_Singleton
  <2> HIDE DEF f
  <2>7. /\ r.layer = "toxiproxy" => Verb(f) \in toxicVerbs
        /\ r.layer = "docker" => Verb(f) \in dockerVerbs
        /\ r.layer = "mock" => doc.egress.hosts[f.target].class = "mock"
        /\ r.layer = "error" =>
             \/ f.for = Malformed \/ f.offset = Malformed \/ Unreadable(f)
             \/ Verb(f) \in DOMAIN otherLayerOwner /\ {"mock", "broker"} \ doc.wired # {}
             \/ Verb(f) = "error_rate" /\ f.target \notin Mocked
    BY <2>2, <2>4, OutcomeIs, Zenon
  <2>8. Unreadable(f) => \E k \in DOMAIN f.inject : \/ ~Number(f.inject[k])
                                                   \/ f.inject[k].n < 0 \/ f.inject[k].n > 100000
    BY <2>4 DEF Unreadable, Bounded, IsFault
  <2>9. ASSUME r.layer = "toxiproxy", Verb(f) = "bandwidth", f.inject["bandwidth"].unit = "kbps"
        PROVE  ToHalfAStep(r.amount, f.inject["bandwidth"].n)
    <3> DEFINE v == f.inject["bandwidth"]
    <3>1. r.amount = parseRateKBps(v)
      BY <2>2, <2>4, <2>9, OutcomeIs
    <3>2. v.n \in Int /\ v.unit = "kbps"
      BY <2>4, <2>9, OneVerb DEF IsFault
    <3> HIDE DEF v
    <3>3. ToHalfAStep(r.amount, v.n)
      BY <3>1, <3>2, RateKept
    <3> QED
      BY <3>3 DEF v
  <2>10. doc.faults[r.fault] = f
    BY <2>2 DEF f
  <2> QED
    BY <2>6, <2>7, <2>8, <2>9, <2>10 DEF Mocked, TakenAsItSays
<1> QED
  BY <1>2, <1>3, <1>4 DEF PlanMeansWhatItSays

(* Scenario's PlanMeansWhatItSays, for any documents of YAML's shape: any   *)
(* number of stages and faults, any rates, durations and amounts.           *)
THEOREM PlansMeanWhatTheySay == ScenarioSpec => []PlanMeansWhatItSays
<1>1. ScenarioInit => ScenarioInv
  BY DocumentsAssumption, Zenon DEF ScenarioInit, ScenarioInv
<1> QED
  BY <1>1, ScenarioStep, PlanMeans, PTL DEF ScenarioSpec

-----------------------------------------------------------------------------
(* A script says the same of a document that does not change.               *)
LEMMA ScriptStays ==
    ASSUME doc' = doc
    PROVE  /\ \A t : HasNeeds(t)' <=> HasNeeds(t)
           /\ StepsOK' <=> StepsOK
           /\ \A t : TranslatesAll(t)' <=> TranslatesAll(t)
           /\ buildSteps' = buildSteps
           /\ \A t : Blocks(t)' = Blocks(t)
<1>1. \A t : HasNeeds(t)' <=> HasNeeds(t)
  BY Zenon DEF HasNeeds
<1>2. StepsOK' <=> StepsOK
  BY Zenon DEF StepsOK
<1>3. buildSteps' = buildSteps
  BY Zenon DEF buildSteps
<1>4. \A f : TranslateErrorRate(f)' = TranslateErrorRate(f)
  BY Zenon DEF TranslateErrorRate
<1>5. \A f : queueTranslate(f)' = queueTranslate(f)
  BY Zenon DEF queueTranslate
<1>6. \A f : routePassedOver(f)' = routePassedOver(f)
  BY <1>4, <1>5, Zenon DEF routePassedOver
<1>7. \A f : Translate(f)' = Translate(f)
  BY <1>6, Zenon DEF Translate
<1>8. \A f : Act(f)' = Act(f)
  BY <1>7, Zenon DEF Act
<1>9. \A t : TranslatesAll(t)' <=> TranslatesAll(t)
  BY <1>8, Zenon DEF TranslatesAll
<1>10. \A t, f : Translatable(t, f)' <=> Translatable(t, f)
  BY Zenon DEF Translatable
<1>11. \A f : resolveContainer(f)' = resolveContainer(f)
  BY Zenon DEF resolveContainer
<1>12. \A t, f : Place(t, f)' = Place(t, f)
  BY <1>11, Zenon DEF Place
<1>13. \A f : Amount(f)' = Amount(f)
  BY <1>8, Zenon DEF Amount
<1>14. \A f : obsPhaseOffset(f)' = obsPhaseOffset(f)
  <2>1. lasts' = lasts
    BY Zenon DEF lasts
  <2>2. \A f : stageOf(f)' = stageOf(f)
    BY Zenon DEF stageOf
  <2> QED
    BY <2>1, <2>2, Zenon DEF obsPhaseOffset
<1>15. \A t, i : BlockOf(t, i)' = BlockOf(t, i)
  BY <1>10, <1>12, <1>13, <1>14, Zenon DEF BlockOf
<1>16. \A t : Blocks(t)' = Blocks(t)
  BY <1>15, Zenon DEF Blocks
<1> QED
  BY <1>1, <1>2, <1>3, <1>9, <1>16, Zenon

(* What becomes of an emit. *)
Emitted ==
    \/ /\ emitExit = 2 /\ script = NoScript
       /\ \/ ~Parses
          \/ emitter \notin registry
          \/ emitter \in Steppers /\ ~StepsOK
          \/ ~TranslatesAll(emitter)
    \/ emitExit = 0 /\ script = NoScript /\ ~HasNeeds(emitter)
    \/ /\ emitExit = 0 /\ Parses /\ emitter \in registry /\ TranslatesAll(emitter)
       /\ script = [steps  |-> IF emitter \in Steppers \ {"jmeter"} THEN buildSteps ELSE <<>>,
                    blocks |-> Blocks(emitter)]

(* The invariant: until it is done an emit has written nothing.             *)
EmitInv ==
    /\ IsDocument(doc)
    /\ emission \in {"parse", "emit", "done"}
    /\ emission # "done" => script = NoScript /\ emitExit = 0
    /\ emission = "emit" => Parses
    /\ emission = "done" => Emitted

(* Every step keeps it.                                                     *)
LEMMA EmitStep == EmitInv /\ [EmitNext]_<<emitVars, scenarioVars>> => EmitInv'
<1> SUFFICES ASSUME EmitInv, [EmitNext]_<<emitVars, scenarioVars>>
             PROVE  EmitInv'
  OBVIOUS
<1>1. doc' = doc /\ emitter' = emitter
  BY DEF EmitNext, runEmit, EmitScript, emitVars, scenarioVars
<1>2. /\ Parses' <=> Parses
      /\ IsDocument(doc)'
      /\ \A t : HasNeeds(t)' <=> HasNeeds(t)
      /\ StepsOK' <=> StepsOK
      /\ \A t : TranslatesAll(t)' <=> TranslatesAll(t)
      /\ buildSteps' = buildSteps
      /\ \A t : Blocks(t)' = Blocks(t)
  <2>1. IsDocument(doc)'
    BY <1>1 DEF EmitInv, IsDocument
  <2> QED
    BY <1>1, <2>1, DocumentStays, ScriptStays, Zenon
<1>3. CASE runEmit
  <2>1. emission = "parse" /\ script = NoScript /\ emitExit = 0 /\ script' = script
    BY <1>3 DEF EmitInv, runEmit
  <2>2. CASE Parses
    <3>1. emission' = "emit" /\ emitExit' = emitExit
      BY <1>3, <2>2 DEF runEmit
    <3> QED
      BY <1>2, <2>1, <2>2, <3>1 DEF EmitInv, NoScript
  <2>3. CASE ~Parses
    <3>1. emission' = "done" /\ emitExit' = 2
      BY <1>3, <2>3 DEF runEmit, Done
    <3>2. Emitted'
      BY <1>2, <2>1, <2>3, <3>1, Zenon DEF Emitted
    <3> QED
      BY <1>2, <3>1, <3>2 DEF EmitInv
  <2> QED
    BY <2>2, <2>3
<1>4. CASE EmitScript
  <2>1. emission = "emit" /\ script = NoScript /\ emitExit = 0 /\ Parses
    BY <1>4 DEF EmitInv, EmitScript
  <2>2. emission' = "done"
    BY <1>4 DEF EmitScript, Done
  <2>3. Emitted'
    <3>1. CASE emitter \notin registry
      <4>1. emitExit' = 2 /\ script' = script
        BY <1>4, <3>1, Zenon DEF EmitScript, Done
      <4> QED
        BY <1>1, <2>1, <3>1, <4>1, Zenon DEF Emitted
    <3>2. CASE emitter \in registry /\ ~HasNeeds(emitter)
      <4>1. emitExit' = 0 /\ script' = script
        BY <1>4, <3>2, Zenon DEF EmitScript, Done
      <4> QED
        BY <1>1, <1>2, <2>1, <3>2, <4>1, Zenon DEF Emitted
    <3>3. CASE /\ emitter \in registry /\ HasNeeds(emitter)
               /\ (emitter \in Steppers => StepsOK) /\ TranslatesAll(emitter)
      <4>1. /\ emitExit' = 0
            /\ script' = [steps  |-> IF emitter \in Steppers \ {"jmeter"} THEN buildSteps ELSE <<>>,
                          blocks |-> Blocks(emitter)]
        BY <1>4, <3>3, Zenon DEF EmitScript, Done
      <4> QED
        BY <1>1, <1>2, <2>1, <3>3, <4>1, Zenon DEF Emitted
    <3>4. CASE /\ emitter \in registry /\ HasNeeds(emitter)
               /\ ~((emitter \in Steppers => StepsOK) /\ TranslatesAll(emitter))
      <4>1. emitExit' = 2 /\ script' = script
        BY <1>4, <3>4, Zenon DEF EmitScript, Done
      <4> QED
        BY <1>1, <1>2, <2>1, <3>4, <4>1, Zenon DEF Emitted
    <3> QED
      BY <3>1, <3>2, <3>3, <3>4, Zenon
  <2> QED
    BY <1>2, <2>2, <2>3 DEF EmitInv
<1>5. CASE UNCHANGED <<emitVars, scenarioVars>>
  <2>1. emission' = emission /\ script' = script /\ emitExit' = emitExit
    BY <1>5 DEF emitVars
  <2>2. Emitted => Emitted'
    BY <1>1, <1>2, <2>1, Zenon DEF Emitted
  <2> QED
    BY <1>2, <2>1, <2>2 DEF EmitInv, NoScript
<1> QED
  BY <1>3, <1>4, <1>5 DEF EmitNext

(* A fault that has no duration.                                            *)
Lasting(f) == [f EXCEPT !.for = Absent]

(* It is the same fault otherwise.                                          *)
LEMMA LastingIs ==
    ASSUME NEW f, IsFault(f), FaultOK(f)
    PROVE  /\ IsFault(Lasting(f)) /\ FaultOK(Lasting(f))
           /\ Lasting(f).inject = f.inject /\ Lasting(f).target = f.target
           /\ Lasting(f).for # Malformed
           /\ Verb(Lasting(f)) = Verb(f)
<1> DEFINE g == Lasting(f)
<1>1. Absent \in Int /\ Absent # Malformed
  BY SMT DEF Absent, Malformed
<1>2. /\ g.inject = f.inject /\ g.target = f.target /\ g.at = f.at /\ g.for = Absent
      /\ g \in [at : STRING, offset : Int, for : Int, target : STRING, inject : {g.inject}]
  <2> HIDE DEF Absent
  <2> QED
    BY <1>1 DEF Lasting, IsFault
<1> HIDE DEF g
<1>3. IsFault(g)
  BY <1>2 DEF IsFault
<1>4. VerbsOf(g) = VerbsOf(f)
  BY <1>2, Zenon DEF VerbsOf
<1>5. Verb(g) = Verb(f)
  BY <1>4, Zenon DEF Verb
<1>6. FaultOK(g)
  BY <1>2, <1>4, <1>5, Zenon DEF FaultOK
<1> QED
  BY <1>1, <1>2, <1>3, <1>5, <1>6 DEF g

(* An emit reads a fault as a run does, but for its duration.               *)
LEMMA ForIsAll ==
    ASSUME NEW f, IsFault(f), FaultOK(f)
    PROVE  /\ Translate(Lasting(f)).layer = "error" => Translate(f).layer = "error"
           /\ Verb(f) \in DOMAIN otherLayerOwner => Act(f).layer # "error"
           /\ Verb(f) \notin DOMAIN otherLayerOwner =>
                /\ Act(f) = Translate(Lasting(f))
                /\ Act(f).layer \in {"toxiproxy", "docker", "error"}
           /\ Verb(f) \in DOMAIN queueVerbs /\ "broker" \in doc.wired =>
                /\ Translate(Lasting(f)).layer = "broker"
                /\ Translate(Lasting(f)) = queueAmount(f)
<1> DEFINE g == Lasting(f)
           v == Verb(f)
<1>1. /\ IsFault(g) /\ FaultOK(g)
      /\ g.inject = f.inject /\ g.target = f.target /\ g.for # Malformed /\ Verb(g) = v
  BY LastingIs
<1>2. v \in DOMAIN configVerbs
  BY OneVerb
<1>3. /\ Act(f) = IF v \in DOMAIN otherLayerOwner
                  THEN IF DOMAIN f.inject \subseteq {v} \cup faultVerbs[v]
                       THEN Took("passed", 0) ELSE Refused
                  ELSE Translate(g)
  BY Zenon DEF Act, Lasting
<1> HIDE DEF g
<1>4. CASE v \in DOMAIN otherLayerOwner
  <2>1. DOMAIN f.inject \subseteq {v} \cup faultVerbs[v]
    <3>1. DOMAIN f.inject \subseteq {v} \cup configVerbs[v]
      BY Zenon DEF FaultOK
    <3> QED
      BY <1>2, <3>1, TablesAgree
  <2>2. Act(f).layer = "passed"
    <3>1. 0 # Malformed
      BY SMT DEF Malformed
    <3> QED
      BY <1>3, <1>4, <2>1, <3>1, TookIs
  <2>8. TranslateErrorRate(g) = TranslateErrorRate(f)
    BY <1>1, Zenon DEF TranslateErrorRate
  <2>9. queueAmount(g) = queueAmount(f)
    BY <1>1, SMT DEF queueAmount
  <2>3. TranslateErrorRate(g) = TranslateErrorRate(f) /\ queueTranslate(g) = queueTranslate(f)
        /\ queueAmount(g) = queueAmount(f)
    BY <2>8, <2>9, Zenon DEF queueTranslate
  <2>4. Translate(g) = Translate(f)
    BY <1>1, <1>4, <2>3, TranslateIs, Zenon
  <2>5. v \in DOMAIN queueVerbs => v # "error_rate"
    BY DEF queueVerbs
  <2>6. v \in DOMAIN queueVerbs /\ "broker" \in doc.wired =>
          Translate(g).layer = "broker" /\ Translate(g) = queueAmount(f)
    BY <1>4, <2>4, <2>5, TranslateIs, QueueIs
  <2>7. "passed" # "error"
    OBVIOUS
  <2> QED
    BY <1>4, <2>2, <2>4, <2>6, <2>7 DEF g
<1>5. CASE v \notin DOMAIN otherLayerOwner
  <2>1. translateToxic(g) = translateToxic(f) /\ translateDocker(g) = translateDocker(f)
    BY <1>1, Zenon DEF translateToxic, translateDocker
  <2>2. Translate(g) = IF v \in toxicVerbs THEN translateToxic(f) ELSE translateDocker(f)
    BY <1>1, <1>5, <2>1, TranslateIs, Zenon
  <2>3. Translate(f) = IF f.for = Malformed THEN Refused ELSE Translate(g)
    BY <1>5, <2>2, TranslateIs, Zenon
  <2>4. Translate(g).layer = "error" => Translate(f).layer = "error"
    BY <2>3, TookIs
  <2>5. Translate(g).layer \in {"toxiproxy", "docker", "error"}
    <3>1. CASE v \in toxicVerbs
      BY <2>2, <3>1, ToxicIs
    <3>2. CASE v \notin toxicVerbs
      BY <2>2, <3>2, DockerIs
    <3> QED
      BY <3>1, <3>2
  <2>6. v \notin DOMAIN queueVerbs
    BY <1>5 DEF queueVerbs, otherLayerOwner
  <2> QED
    BY <1>3, <1>5, <2>4, <2>5, <2>6 DEF g
<1> QED
  BY <1>4, <1>5

(* The two readings of a stage agree.                                       *)
LEMMA StagesAgree ==
    ASSUME IsDocument(doc), Parses, Compiles
    PROVE  /\ StageCount \in 1..StageCount /\ DOMAIN doc.load.stages = 1..StageCount
           /\ StepsOK
           /\ \A k \in 1..StageCount : /\ stepRate(doc.load.stages[k]) = Rate(doc.load.stages[k])
                                       /\ stepSecs(doc.load.stages[k]) = Length(doc.load.stages[k])
           /\ Len(resolveStages) = StageCount /\ DOMAIN resolveStages = 1..StageCount
           /\ Len(buildSteps) = StageCount /\ DOMAIN buildSteps = 1..StageCount
<1>1. /\ StageCount \in Nat /\ DOMAIN doc.load.stages = 1..StageCount /\ StageCount \in 1..StageCount
  BY StagesAre DEF Compiles
<1>2. LoadOK
  BY Zenon DEF Parses, Compiles
<1>3. ASSUME NEW k \in 1..StageCount
      PROVE  /\ stepRate(doc.load.stages[k]) = Rate(doc.load.stages[k])
             /\ stepSecs(doc.load.stages[k]) = Length(doc.load.stages[k])
  <2> DEFINE s == doc.load.stages[k]
  <2>1. StageOK(s)
    BY <1>1, <1>2, Zenon DEF LoadOK
  <2> HIDE DEF s
  <2>2. (s.to = Absent) # (s.hold = Absent)
    BY <2>1, Zenon DEF StageOK
  <2>3. s.to = Absent <=> s.hold # Absent
    BY <2>2, Zenon
  <2>4. stepRate(s) = Rate(s) /\ stepSecs(s) = Length(s)
    BY <2>3, Zenon DEF stepRate, stepSecs, Rate, Length
  <2> QED
    BY <2>4 DEF s
<1>4. StepsOK
  BY <1>1, <1>3 DEF StepsOK, Compiles
<1>5. DOMAIN resolveStages = 1..StageCount /\ DOMAIN buildSteps = 1..StageCount
  BY <1>1 DEF resolveStages, buildSteps
<1>6. Len(resolveStages) = StageCount
  BY <1>1 DEF resolveStages
<1>7. Len(buildSteps) = StageCount
  BY <1>1 DEF buildSteps
<1> QED
  BY <1>1, <1>3, <1>4, <1>5, <1>6, <1>7

(* What is refused, a run refuses or reports.                               *)
LEMMA RefusedByBoth ==
    ASSUME IsDocument(doc), Parses, Compiles, emitter \in registry,
           (emitter \in Steppers /\ ~StepsOK) \/ ~TranslatesAll(emitter)
    PROVE  \E i \in DOMAIN doc.faults : Translate(doc.faults[i]).layer = "error"
<1>1. StepsOK
  BY StagesAgree
<1>2. PICK i \in DOMAIN doc.faults : Act(doc.faults[i]).layer = "error"
  BY <1>1, Zenon DEF TranslatesAll
<1> DEFINE f == doc.faults[i]
<1>3. IsFault(f) /\ FaultOK(f)
  BY FaultsAre
<1> HIDE DEF f
<1>4. Act(f).layer = "error" => Translate(f).layer = "error"
  BY <1>3, ForIsAll
<1> QED
  BY <1>2, <1>4 DEF f

(* The steps are the compiled stages.                                       *)
LEMMA StepsAreStages ==
    ASSUME IsDocument(doc), Parses, Compiles, NEW steps, steps = buildSteps
    PROVE  /\ Len(steps) = Len(resolveStages)
           /\ \A k \in DOMAIN steps :
                /\ steps[k].phase = resolveStages[k].phase
                /\ steps[k].to = resolveStages[k].rate
                /\ k > 1 => resolveStages[k].start = resolveStages[k - 1].start + steps[k - 1].secs
                /\ k > 1 => \/ steps[k].from = steps[k - 1].to
                            \/ steps[k].from = steps[k].to
<1>1. /\ StageCount \in 1..StageCount /\ DOMAIN doc.load.stages = 1..StageCount
      /\ \A k \in 1..StageCount : /\ stepRate(doc.load.stages[k]) = Rate(doc.load.stages[k])
                                  /\ stepSecs(doc.load.stages[k]) = Length(doc.load.stages[k])
      /\ Len(resolveStages) = StageCount /\ Len(buildSteps) = StageCount
      /\ DOMAIN buildSteps = 1..StageCount
  BY StagesAgree
<1> DEFINE st == doc.load.stages
<1>2. \A k \in 1..StageCount : /\ steps[k].phase = st[k].phase /\ steps[k].to = stepRate(st[k])
                               /\ steps[k].secs = stepSecs(st[k])
                               /\ steps[k].from = IF st[k].hold # Absent THEN st[k].hold
                                                  ELSE IF k = 1 THEN 0 ELSE stepRate(st[k - 1])
  BY <1>1 DEF buildSteps
<1>3. \A k \in 1..StageCount : /\ resolveStages[k].phase = st[k].phase
                               /\ resolveStages[k].rate = Rate(st[k])
                               /\ resolveStages[k].start = Sums(lengths)[k - 1]
  BY <1>1 DEF resolveStages
<1>4. /\ Len(lengths) = StageCount /\ \A k \in 1..StageCount : lengths[k] = Length(st[k])
  BY <1>1 DEF lengths
<1> HIDE DEF st
<1>5. \A k \in 1..StageCount : Sums(lengths)[k] = Sums(lengths)[k - 1] + lengths[k]
  BY <1>1, <1>4, SumsAre
<1>6. ASSUME NEW k \in 1..StageCount, k > 1
      PROVE  /\ resolveStages[k].start = resolveStages[k - 1].start + steps[k - 1].secs
             /\ steps[k].from = steps[k - 1].to \/ steps[k].from = steps[k].to
  <2>1. k - 1 \in 1..StageCount /\ (k - 1) - 1 = k - 2
    BY <1>1, <1>6
  <2>2. Sums(lengths)[k - 1] = Sums(lengths)[(k - 1) - 1] + lengths[k - 1]
    BY <1>5, <2>1
  <2>3. lengths[k - 1] = steps[k - 1].secs
    BY <1>1, <1>2, <1>4, <2>1 DEF st
  <2>4. resolveStages[k].start = resolveStages[k - 1].start + steps[k - 1].secs
    BY <1>3, <2>1, <2>2, <2>3
  <2>5. CASE st[k].hold # Absent
    <3>1. stepRate(st[k]) = st[k].hold
      BY <2>5, Zenon DEF stepRate
    <3> QED
      BY <1>2, <2>4, <2>5, <3>1
  <2>6. CASE st[k].hold = Absent
    BY <1>2, <1>6, <2>1, <2>4, <2>6
  <2> QED
    BY <2>5, <2>6
<1> QED
  BY <1>1, <1>2, <1>3, <1>6 DEF st

(* A command of an injector is the fault of a run: its magnitude, its      *)
(* place and its window.                                                    *)
RunsAs(b, f) ==
    LET ran == Translate([f EXCEPT !.for = Absent])
    IN  /\ ran.layer \notin {"error", "mock"}
        /\ b.amount = IF Verb(f) = "bandwidth" THEN 8 * ran.amount ELSE ran.amount
        /\ \/ ran.layer = "broker"
           \/ b.place.box = f.target
           \/ b.place.box = doc.service /\ f.target \in DOMAIN doc.egress.hosts
        /\ b.window \in {Absent, f.for} \/ f.for = Absent
        /\ b.window # Absent \/ f.for \in {Absent, Malformed} \/ ran.layer = "broker"
           \/ Verb(f) \in {"kill", "graceful"} \/ emitter = "hoverfly"

(* A window of pyroscope begins when the fault would.                       *)
BeginsAs(b, f) ==
    b.from = f.offset + IF f.at = "t=" THEN 0
             ELSE resolveStages[CHOOSE k \in DOMAIN resolveStages :
                                  resolveStages[k].phase = f.at].start

(* What a tool commands, a layer takes.                                     *)
LEMMA CommandsAreTaken ==
    ASSUME NEW f, IsFault(f), FaultOK(f), NEW t \in Injectors, Translatable(t, f),
           Act(f).layer # "error",
           Verb(f) \in DOMAIN queueVerbs => "broker" \in doc.wired
    PROVE  /\ Verb(f) \in DOMAIN queueVerbs =>
                Translate(Lasting(f)).layer = "broker" /\ Translate(Lasting(f)) = queueAmount(f)
           /\ Verb(f) \notin DOMAIN queueVerbs =>
                Act(f) = Translate(Lasting(f)) /\ Translate(Lasting(f)).layer \in {"toxiproxy", "docker"}
           /\ t = "kafka-load" => Verb(f) \in DOMAIN queueVerbs
<1>1. Verb(f) \in Verbs(t)
  BY DEF Translatable
<1>2. /\ t = "kafka-load" => Verb(f) \in DOMAIN queueVerbs
      /\ Verb(f) \notin DOMAIN queueVerbs => Verb(f) \notin DOMAIN otherLayerOwner
  <2>1. DOMAIN queueVerbs = {"poison_pill", "duplicate"}
        /\ DOMAIN otherLayerOwner = {"error_rate", "poison_pill", "duplicate"}
    BY DEF queueVerbs, otherLayerOwner
  <2>2. Verb(f) # "error_rate"
    BY <1>1 DEF Verbs, Injectors
  <2>3. t = "kafka-load" => Verb(f) \in {"poison_pill", "duplicate"}
    BY <1>1 DEF Verbs
  <2> QED
    BY <2>1, <2>2, <2>3
<1> QED
  BY <1>2, ForIsAll

(* So a command is the fault of a run.                                      *)
LEMMA CommandRunsAs ==
    ASSUME NEW f, IsFault(f), FaultOK(f), emitter \in Injectors, Translatable(emitter, f),
           Act(f).layer # "error",
           Verb(f) \in DOMAIN queueVerbs => "broker" \in doc.wired,
           NEW i
    PROVE  RunsAs(Block(TRUE, i, Amount(f), Place(emitter, f), Window(emitter, f), Absent), f)
<1> DEFINE ran == Translate(Lasting(f))
           b == Block(TRUE, i, Amount(f), Place(emitter, f), Window(emitter, f), Absent)
<1>1. /\ Verb(f) \in DOMAIN queueVerbs => ran.layer = "broker" /\ ran = queueAmount(f)
      /\ Verb(f) \notin DOMAIN queueVerbs => Act(f) = ran /\ ran.layer \in {"toxiproxy", "docker"}
      /\ emitter = "kafka-load" => Verb(f) \in DOMAIN queueVerbs
  BY CommandsAreTaken
<1>2. b.amount = Amount(f) /\ b.place = Place(emitter, f) /\ b.window = Window(emitter, f)
  BY Zenon DEF Block
<1>3. ran = Translate([f EXCEPT !.for = Absent])
  BY Zenon DEF Lasting
<1> HIDE DEF ran, b
<1>4. DOMAIN queueVerbs = {"poison_pill", "duplicate"}
  BY DEF queueVerbs
<1>5. ran.layer \notin {"error", "mock"}
  BY <1>1
<1>6. b.amount = IF Verb(f) = "bandwidth" THEN 8 * ran.amount ELSE ran.amount
  <2>1. CASE Verb(f) = "bandwidth"
    <3>1. Verb(f) \notin DOMAIN queueVerbs
      BY <1>4, <2>1
    <3>2. Amount(f) = 8 * Act(f).amount
      BY <2>1, <3>1 DEF Amount
    <3> QED
      BY <1>1, <1>2, <2>1, <3>1, <3>2
  <2>2. CASE Verb(f) \in DOMAIN queueVerbs
    <3>1. Verb(f) # "bandwidth"
      BY <1>4, <2>2
    <3>2. Amount(f) = queueAmount(f).amount
      BY <2>2, <3>1 DEF Amount
    <3> QED
      BY <1>1, <1>2, <2>2, <3>1, <3>2
  <2>3. CASE Verb(f) # "bandwidth" /\ Verb(f) \notin DOMAIN queueVerbs
    <3>1. Amount(f) = Act(f).amount
      BY <2>3 DEF Amount
    <3> QED
      BY <1>1, <1>2, <2>3, <3>1
  <2> QED
    BY <2>1, <2>2, <2>3
<1>7. \/ ran.layer = "broker"
      \/ b.place.box = f.target
      \/ b.place.box = doc.service /\ f.target \in DOMAIN doc.egress.hosts
  <2>1. f.target = doc.service \/ f.target \in DOMAIN doc.egress.hosts
    BY Zenon DEF FaultOK
  <2>2. resolveContainer(f).box \in {f.target, doc.service}
    BY DEF resolveContainer
  <2>3. emitter # "kafka-load" => Place(emitter, f).box \in {f.target, doc.service}
    BY <2>2 DEF Place
  <2> QED
    BY <1>1, <1>2, <2>1, <2>3
<1>8. b.window \in {Absent, f.for} \/ f.for = Absent
  BY <1>2 DEF Window
<1>9. b.window # Absent \/ f.for \in {Absent, Malformed} \/ ran.layer = "broker"
      \/ Verb(f) \in {"kill", "graceful"} \/ emitter = "hoverfly"
  BY <1>1, <1>2, <1>4 DEF Window
<1> QED
  BY <1>3, <1>5, <1>6, <1>7, <1>8, <1>9, Zenon DEF RunsAs, b

(* The table of pyroscope and the plan of a run have the same starts.       *)
LEMMA WindowBeginsAs ==
    ASSUME NEW f \in ToSet(doc.faults), IsFault(f), FaultOK(f), IsDocument(doc), Parses, Compiles,
           obsPhaseOffset(f) >= 0, NEW b, b.from = obsPhaseOffset(f),
           \A k \in DOMAIN doc.load.stages :
              doc.load.stages[k].over = Absent \/ doc.load.stages[k].for = Absent
    PROVE  BeginsAs(b, f)
<1>1. ~(Malformed >= 0) /\ ~(Absent >= 0)
  BY SMT DEF Malformed, Absent
<1>2. f.offset \in Int
  BY DEF IsFault
<1>3. CASE f.at = "t="
  <2>1. obsPhaseOffset(f) = f.offset
    BY <1>3, Zenon DEF obsPhaseOffset
  <2> QED
    BY <1>2, <1>3, <2>1 DEF BeginsAs
<1>4. CASE f.at # "t="
  <2>1. obsPhaseOffset(f) = Sums(lasts)[stageOf(f) - 1] + f.offset
    BY <1>1, <1>4, Zenon DEF obsPhaseOffset
  <2>2. lasts = lengths
    <3>1. ASSUME NEW k \in DOMAIN doc.load.stages
          PROVE  (IF doc.load.stages[k].for # Absent
                  THEN doc.load.stages[k].for ELSE doc.load.stages[k].over)
                 = Length(doc.load.stages[k])
      <4> DEFINE s == doc.load.stages[k]
      <4>1. Length(s) >= 0
        BY Zenon DEF Compiles
      <4>2. s.over = Absent \/ s.for = Absent
        OBVIOUS
      <4> HIDE DEF s
      <4>3. Length(s) = IF s.to = Absent THEN s.for ELSE s.over
        BY Zenon DEF Length
      <4>4. Length(s) # Absent
        BY <1>1, <4>1, Zenon
      <4>5. CASE s.to = Absent
        BY <4>3, <4>4, <4>5 DEF s
      <4>6. CASE s.to # Absent
        BY <4>2, <4>3, <4>4, <4>6 DEF s
      <4> QED
        BY <4>5, <4>6
    <3> QED
      BY <3>1, Zenon DEF lasts, lengths
  <2>3. PICK i \in DOMAIN doc.faults : doc.faults[i] = f
    BY DEF ToSet
  <2>4. PICK k : {m \in DOMAIN doc.load.stages : doc.load.stages[m].phase = f.at} = {k}
    BY <1>4, <2>3, PhaseIsOne
  <2>5. stageOf(f) = k
    BY <2>4 DEF stageOf
  <2>6. /\ DOMAIN resolveStages = DOMAIN doc.load.stages
        /\ \A m \in DOMAIN doc.load.stages : /\ resolveStages[m].phase = doc.load.stages[m].phase
                                             /\ resolveStages[m].start = Sums(lengths)[m - 1]
    BY DEF resolveStages
  <2>7. (CHOOSE m \in DOMAIN resolveStages : resolveStages[m].phase = f.at) = k
    BY <2>4, <2>6
  <2>8. Sums(lengths)[k - 1] \in Int
    <3>1. /\ StageCount \in Nat /\ DOMAIN doc.load.stages = 1..StageCount
          /\ \A m \in 1..StageCount : LET s == doc.load.stages[m]
                                      IN  /\ s.to \in Int /\ s.hold \in Int
                                          /\ s.over \in Int /\ s.for \in Int
      BY StagesAre
    <3>2. \A m \in 1..StageCount : lengths[m] \in Int
      BY <3>1 DEF lengths, Length
    <3>3. Len(lengths) = StageCount
      BY <3>1 DEF lengths
    <3>4. k - 1 \in 0..StageCount
      BY <2>4, <3>1
    <3>5. \A m \in 1..StageCount : lengths[m] \in Int /\ lengths[m] \in Int /\ lengths[m] <= lengths[m]
      BY <3>2
    <3>6. \A m \in 0..StageCount : Sums(lengths)[m] \in Int
      BY <3>1, <3>3, <3>5, SumsGrow
    <3> QED
      BY <3>4, <3>6
  <2>9. resolveStages[k].start = Sums(lengths)[k - 1]
    BY <2>4, <2>6
  <2> HIDE DEF resolveStages
  <2>10. b.from = f.offset + resolveStages[k].start
    BY <1>2, <2>1, <2>2, <2>5, <2>8, <2>9
  <2> QED
    BY <1>4, <2>7, <2>10, Zenon DEF BeginsAs
<1> QED
  BY <1>3, <1>4

(* One fault of a finished script.                                          *)
OneBlock(i) ==
    LET f    == doc.faults[i]
        mine == {b \in ToSet(script.blocks) : b.fault = i}
        ran  == Translate([f EXCEPT !.for = Absent])
    IN  /\ Cardinality(mine) = 1 /\ Len(script.blocks) = Len(doc.faults)
        /\ \A b \in {m \in mine : m.does /\ emitter \in Injectors
                                   /\ (Verb(f) \in DOMAIN queueVerbs => "broker" \in doc.wired)} :
             RunsAs(b, f)
        /\ \A b \in {m \in mine : m.does /\ emitter = "pyroscope"} :
             (\A k \in DOMAIN doc.load.stages :
                doc.load.stages[k].over = Absent \/ doc.load.stages[k].for = Absent) /\ Compiles
               => BeginsAs(b, f)

(* Every fault is one block, which says what the run would do.              *)
LEMMA BlockIsOne ==
    ASSUME IsDocument(doc), Parses, TranslatesAll(emitter), emitter \notin FaultBlind,
           script.blocks = Blocks(emitter), NEW i \in DOMAIN doc.faults
    PROVE  OneBlock(i)
<1> DEFINE f    == doc.faults[i]
           B    == BlockOf(emitter, i)
           mine == {b \in ToSet(script.blocks) : b.fault = i}
<1>1. IsFault(f) /\ FaultOK(f) /\ f \in ToSet(doc.faults)
  BY FaultsAre DEF ToSet
<1>2. /\ DOMAIN script.blocks = DOMAIN doc.faults
      /\ \A k \in DOMAIN doc.faults : script.blocks[k] = BlockOf(emitter, k)
  BY Zenon DEF Blocks
<1>3. Len(script.blocks) = Len(doc.faults)
  <2>1. doc.faults \in Seq(ToSet(doc.faults))
    BY Zenon DEF IsDocument
  <2>2. Len(doc.faults) \in Nat /\ DOMAIN doc.faults = 1..Len(doc.faults)
    BY <2>1, LenProperties
  <2> QED
    BY <1>2, <2>2
<1>4. \A k : BlockOf(emitter, k).fault = k
  BY DEF BlockOf, Says, Block
<1>5. mine = {B}
  <2>1. B.fault = i /\ B \in ToSet(script.blocks)
    BY <1>2, <1>4, Zenon DEF ToSet
  <2>2. ASSUME NEW b \in ToSet(script.blocks), b.fault = i PROVE b = B
    <3>1. PICK k \in DOMAIN script.blocks : b = script.blocks[k]
      BY <2>2, Zenon DEF ToSet
    <3>2. b = BlockOf(emitter, k)
      BY <1>2, <3>1, Zenon
    <3>3. k = i
      BY <1>4, <2>2, <3>2, Zenon
    <3> QED
      BY <3>2, <3>3, Zenon
  <2> QED
    BY <2>1, <2>2, Zenon
<1>6. Cardinality(mine) = 1
  BY <1>5, FS_Singleton
<1>7. Injectors \cap (FaultBlind \cup Listers \cup {"pyroscope"}) = {} /\ "pyroscope" \notin Injectors
  BY DEF Injectors, FaultBlind, Listers
<1> HIDE DEF f
<1>8. ASSUME B.does, emitter \in Injectors, Verb(f) \in DOMAIN queueVerbs => "broker" \in doc.wired
      PROVE  RunsAs(B, f)
  <2>1. Translatable(emitter, f)
    <3>1. emitter # "pyroscope"
      BY <1>7, <1>8
    <3>2. SUFFICES ASSUME ~Translatable(emitter, f) PROVE FALSE
      OBVIOUS
    <3>3. B = Says(i)
      BY <3>1, <3>2, Zenon DEF BlockOf, f
    <3>4. ~Says(i).does
      BY DEF Says, Block
    <3> QED
      BY <1>8, <3>3, <3>4
  <2>2. B = Block(TRUE, i, Amount(f), Place(emitter, f), Window(emitter, f), Absent)
    BY <1>8, <2>1, Zenon DEF BlockOf, f
  <2>3. Act(f).layer # "error"
    BY <1>7, <1>8, Zenon DEF TranslatesAll, f
  <2> HIDE DEF B
  <2> QED
    BY <1>1, <1>8, <2>1, <2>2, <2>3, CommandRunsAs
<1>9. ASSUME B.does, emitter = "pyroscope", Compiles,
             \A k \in DOMAIN doc.load.stages :
               doc.load.stages[k].over = Absent \/ doc.load.stages[k].for = Absent
      PROVE  BeginsAs(B, f)
  <2>1. obsPhaseOffset(f) >= 0 /\ f.for >= 0
    <3>1. SUFFICES ASSUME ~(obsPhaseOffset(f) >= 0 /\ f.for >= 0) PROVE FALSE
      OBVIOUS
    <3>3. B = Says(i)
      BY <1>7, <1>9, <3>1, Zenon DEF BlockOf, f
    <3>4. ~Says(i).does
      BY DEF Says, Block
    <3> QED
      BY <1>9, <3>3, <3>4
  <2>2. PICK place, window : B = Block(TRUE, i, 0, place, window, obsPhaseOffset(f))
    BY <1>7, <1>9, <2>1, Zenon DEF BlockOf, f
  <2> HIDE DEF B
  <2>3. B.from = obsPhaseOffset(f)
    BY <2>2, SMT DEF Block
  <2> QED
    BY <1>1, <1>9, <2>1, <2>3, WindowBeginsAs
<1> HIDE DEF B
<1> QED
  BY <1>3, <1>5, <1>6, <1>8, <1>9, Zenon DEF OneBlock, f

(* The invariant implies the property.                                      *)
LEMMA ScriptPlays == EmitInv => ScriptIsTheScenario
<1> SUFFICES ASSUME EmitInv, emission = "done" PROVE ScriptIsTheScenario
  BY DEF ScriptIsTheScenario
<1>1. IsDocument(doc) /\ Emitted
  BY DEF EmitInv
<1>2. ASSUME emitExit = 2
      PROVE  \/ emitter \notin registry \/ ~Parses \/ ~Compiles
             \/ \E i \in DOMAIN doc.faults : Translate(doc.faults[i]).layer = "error"
  <2>1. \/ ~Parses
        \/ emitter \notin registry
        \/ (emitter \in Steppers /\ ~StepsOK) \/ ~TranslatesAll(emitter)
    BY <1>1, <1>2 DEF Emitted
  <2> QED
    BY <1>1, <2>1, RefusedByBoth
<1>3. ASSUME script.steps # <<>>, Compiles
      PROVE  /\ Len(script.steps) = Len(resolveStages)
             /\ \A k \in DOMAIN script.steps :
                  /\ script.steps[k].phase = resolveStages[k].phase
                  /\ script.steps[k].to = resolveStages[k].rate
                  /\ k > 1 => resolveStages[k].start
                              = resolveStages[k - 1].start + script.steps[k - 1].secs
                  /\ k > 1 => \/ script.steps[k].from = script.steps[k - 1].to
                              \/ script.steps[k].from = script.steps[k].to
  <2>1. NoScript.steps = <<>>
    BY Zenon DEF NoScript
  <2>2. Parses /\ script.steps = buildSteps
    <3>1. /\ Parses
          /\ script.steps = IF emitter \in Steppers \ {"jmeter"} THEN buildSteps ELSE <<>>
      BY <1>1, <1>3, <2>1, SMT DEF Emitted
    <3> QED
      BY <1>3, <3>1, Zenon
  <2> QED
    BY <1>1, <1>3, <2>2, StepsAreStages
<1>4. ASSUME emitExit = 0, HasNeeds(emitter), emitter \notin FaultBlind, NEW i \in DOMAIN doc.faults
      PROVE  OneBlock(i)
  <2>1. Parses /\ TranslatesAll(emitter) /\ script.blocks = Blocks(emitter)
    <3>1. emitExit # 2
      BY <1>4
    <3> QED
      BY <1>1, <1>4, <3>1, SMT DEF Emitted
  <2> QED
    BY <1>1, <1>4, <2>1, BlockIsOne
<1> QED
  BY <1>2, <1>3, <1>4, Zenon DEF ScriptIsTheScenario, OneBlock, RunsAs, BeginsAs

(* Emit's ScriptIsTheScenario, for any documents of YAML's shape and any    *)
(* tool that is asked for.                                                  *)
THEOREM ScriptsPlayTheScenario == EmitSpec => []ScriptIsTheScenario
<1>1. EmitInit => EmitInv
  BY EmitDocumentsAssumption, Zenon DEF EmitInit, EmitInv
<1> QED
  BY <1>1, EmitStep, ScriptPlays, PTL DEF EmitSpec

=============================================================================
