---------------------------- MODULE ModMetadata ----------------------------
(***************************************************************************)
(* What is known of mods from their JARs: the metadata of the four loaders *)
(* merged into one (jar_metadata.rs), the side they run on (mod_compat.rs),*)
(* the plan that leaves client mods out of a server (dependency_graph.rs), *)
(* and what the mods ask of the loader, with whether the configured one    *)
(* suits them all (loader_compat_advisor.rs).                              *)
(*                                                                         *)
(* A list whose order the code does not use is a set; an absent value is   *)
(* "none"; a version of a loader is the sequence of its numbers, <<>> if   *)
(* it cannot be parsed.  Definitions marked FAULTY are variants, with a    *)
(* plausible bug, of the definition below them.                            *)
(***************************************************************************)
EXTENDS Naturals, Sequences, FiniteSets, SequencesExt

(***************************************************************************)
(* read_jar_mod_metadata.  A JAR is its metadata files, in the order in    *)
(* which they are read; one that is missing or cannot be parsed is not in  *)
(* the list.  A file has a loader, mod ids, an environment and             *)
(* dependencies.                                                           *)
(***************************************************************************)

LoaderMetadataKind == <<"Fabric", "Quilt", "Forge", "NeoForge">>

\* is_platform_id, and platform_id_to_loader_kind for the loaders among them.
PlatformLoader == [forge |-> "Forge", neoforge |-> "NeoForge", fabricloader |-> "Fabric",
                   fabric |-> "Fabric", quilt_loader |-> "Quilt"]
IsPlatformId(id) == id \in DOMAIN PlatformLoader \cup {"minecraft", "java"}

\* parse_fabric_deps and parse_quilt_deps list what is depended on and what is
\* suggested; parse_forge_deps reads a flag, true if absent, and a type.
DependencyKind(loader, dep) ==
    IF loader \in {"Fabric", "Quilt"}
    THEN IF dep.section = "depends" THEN "Required" ELSE "Optional"
    ELSE IF dep.mandatory \in {"yes", "absent"} \/ dep.type = "required" THEN "Required" ELSE "Optional"

\* parse_fabric_environment, and clientSideOnly of the Forge family.
DeclaredEnvironment(file) ==
    CASE file.loader \in {"Fabric", "Quilt"} ->
            IF file.side \in {"Client", "Server", "Universal"} THEN {file.side} ELSE {}
      [] OTHER -> IF file.side \in {"Client", "Universal"} THEN {file.side} ELSE {}

\* The mod ids that a file adds: all of Forge's that are new, one of Quilt's
\* if there is none yet.
IdsRepeated(ids, file) == ids \o file.ids \* FAULTY
IdsWith(ids, file) ==
    CASE file.loader = "Fabric" -> ids \o file.ids
      [] file.loader = "Quilt" -> IF ids = <<>> THEN file.ids ELSE ids
      [] OTHER -> FoldLeft(LAMBDA acc, id : IF Contains(acc, id) THEN acc ELSE Append(acc, id), ids, file.ids)

EmptyMetadata == [loader |-> "none", ids |-> <<>>, sides |-> {}, deps |-> {}, loaders |-> {}]

AddFile(meta, file) ==
    [loader |-> IF meta.loader = "none" THEN file.loader ELSE meta.loader,
     ids |-> IdsWith(meta.ids, file),
     sides |-> meta.sides \cup {<<file.loader, e>> : e \in DeclaredEnvironment(file)},
     deps |-> meta.deps \cup
        {[id |-> d.id, kind |-> DependencyKind(file.loader, d), version |-> d.version] :
            d \in {e \in file.deps : ~IsPlatformId(e.id)}},
     loaders |-> meta.loaders \cup
        {[loader |-> PlatformLoader[d.id], version |-> d.version,
          mandatory |-> DependencyKind(file.loader, d) = "Required"] :
            d \in {e \in file.deps : e.id \in DOMAIN PlatformLoader}}]

ReadMetadata(jar) == FoldLeft(AddFile, EmptyMetadata, jar)

\* classify_mod_local with resolve_multiple_findings: nothing said is nothing
\* known; sides that differ are unknown, but explicitly so.
CompatibilityOf(side) ==
    CASE side = "Client" -> "ClientOnly" [] side = "Server" -> "ServerOk" [] OTHER -> "Both"
Classify(meta) ==
    LET found == {CompatibilityOf(s[2]) : s \in meta.sides}
    IN CASE found = {} -> [compat |-> "Unknown", confidence |-> "None"]
         [] Cardinality(found) = 1 -> [compat |-> CHOOSE c \in found : TRUE, confidence |-> "Explicit"]
         [] OTHER -> [compat |-> "Unknown", confidence |-> "Explicit"]

-----------------------------------------------------------------------------
(***************************************************************************)
(* The dependency graph of a sequence of JARs.                             *)
(***************************************************************************)

Node(jar) == LET meta == ReadMetadata(jar) IN [meta |-> meta, side |-> Classify(meta)]
Build(jars) == [i \in DOMAIN jars |-> Node(jars[i])]

\* by_mod_id: an id has an entry for every time a JAR declares it.
Occurrences(graph, id) ==
    UNION {{<<i, k>> : k \in {j \in DOMAIN graph[i].meta.ids : graph[i].meta.ids[j] = id}} : i \in DOMAIN graph}
IsAmbiguous(graph, id) == Cardinality(Occurrences(graph, id)) > 1
IdsOf(graph, nodes) == UNION {Range(graph[i].meta.ids) : i \in nodes}

\* find_by_mod_id: the nodes, one or none.
FindByModId(graph, id) ==
    IF IsAmbiguous(graph, id) THEN {} ELSE {o[1] : o \in Occurrences(graph, id)}

\* dependents_of, and those of them that a server keeps.
DependentsOf(graph, id) == {i \in DOMAIN graph : \E d \in graph[i].meta.deps : d.id = id}
RetainedDependentsOf(graph, id) ==
    {i \in DependentsOf(graph, id) : graph[i].side.compat # "ClientOnly"}

\* create_plan.
Excluded(graph) ==
    {i \in DOMAIN graph : graph[i].side = [compat |-> "ClientOnly", confidence |-> "Explicit"]}
Needs(graph, i) == {d.id : d \in {e \in graph[i].meta.deps : e.kind = "Required"}}

\* What stands in the way of a dependency of a retained mod, in this order.
ObstacleOfPrimary(graph, id) == \* FAULTY
    CASE IsAmbiguous(graph, id) -> "ambiguous"
      [] id \in {graph[i].meta.ids[1] : i \in {j \in Excluded(graph) : graph[j].meta.ids # <<>>}} -> "conflict"
      [] id \notin IdsOf(graph, DOMAIN graph) -> "missing"
      [] OTHER -> "nothing"
Obstacle(graph, id) ==
    CASE IsAmbiguous(graph, id) -> "ambiguous"
      [] ~IsAmbiguous(graph, id) /\ id \in IdsOf(graph, Excluded(graph)) -> "conflict"
      [] id \notin IdsOf(graph, DOMAIN graph) -> "missing"
      [] OTHER -> "nothing"

CreatePlan(graph) ==
    LET retained == DOMAIN graph \ Excluded(graph)
        required == UNION {{i} \X Needs(graph, i) : i \in retained}
        obstacles(kind) == {r \in required : Obstacle(graph, r[2]) = kind}
    IN [exclude |-> Excluded(graph), retain |-> retained,
        conflicts |-> obstacles("conflict"),
        missing |-> obstacles("missing"),
        ambiguous |-> obstacles("ambiguous")]

\* check_dependency_impact of recovery_actions.rs: the mods, known by an id, that
\* would lose what they require.
Impact(graph, id) == {i \in DependentsOf(graph, id) : id \in Needs(graph, i) /\ graph[i].meta.ids # <<>>}

-----------------------------------------------------------------------------
(***************************************************************************)
(* Properties of every graph.                                              *)
(***************************************************************************)

\* A JAR that describes itself to several loaders is one provider of its mods:
\* an id is ambiguous only when two JARs declare it.
OneJarIsNotAmbiguous(jars) ==
    LET graph == Build(jars)
    IN \A i \in DOMAIN graph : \A id \in Range(graph[i].meta.ids) :
        IsAmbiguous(graph, id) => \E j \in DOMAIN graph \ {i} : Contains(graph[j].meta.ids, id)

\* A plan without obstacles can be carried out: each mod that stays has one
\* provider, which stays, for everything that it requires.
CleanPlanIsClosed(jars) ==
    LET graph == Build(jars)
        plan == CreatePlan(graph)
    IN plan.conflicts \cup plan.missing \cup plan.ambiguous = {} =>
        \A i \in plan.retain : \A id \in Needs(graph, i) :
            \E j \in plan.retain : FindByModId(graph, id) = {j}

\* A plan without obstacles stays one when a JAR with one mod is taken away that has
\* no impact on the others, which all have an id.
NoImpactNoObstacle(jars) ==
    LET graph == Build(jars)
        obstacles(plan) == plan.conflicts \cup plan.missing \cup plan.ambiguous
    IN (/\ \A i \in DOMAIN graph : graph[i].meta.ids # <<>>
        /\ obstacles(CreatePlan(graph)) = {}) =>
         \A i \in DOMAIN graph :
            Cardinality(Range(graph[i].meta.ids)) = 1 /\ Impact(graph, graph[i].meta.ids[1]) = {} =>
                obstacles(CreatePlan(RemoveAt(graph, i))) = {}

\* No mod is left out of a server on weak or contradictory evidence.
OnlyClientsAreExcluded(jars) ==
    LET graph == Build(jars)
    IN \A i \in CreatePlan(graph).exclude : \A file \in Range(jars[i]) : file.side \in {"Client", "none"}

-----------------------------------------------------------------------------
(***************************************************************************)
(* Versions of a loader.                                                   *)
(***************************************************************************)

LoaderFamily == {"Forge", "NeoForge", "Fabric", "Quilt"}
Version == Seq(Nat)

\* Versions are compared number by number, the shorter filled with zeroes.
Part(v, i) == IF i \in DOMAIN v THEN v[i] ELSE 0
Before(v, w) ==
    \E i \in DOMAIN w : Part(v, i) < Part(w, i) /\ \A j \in 1..(i - 1) : Part(v, j) = Part(w, j)
Same(v, w) == \A i \in DOMAIN v \cup DOMAIN w : Part(v, i) = Part(w, i)
AtMost(v, w) == Before(v, w) \/ Same(v, w)
Higher(v, w) == IF Before(w, v) THEN v ELSE w
Lower(v, w) == IF Before(w, v) THEN w ELSE v

-----------------------------------------------------------------------------
(***************************************************************************)
(* Constraints.  One with a single bound has it twice.                     *)
(***************************************************************************)

Operator == {"Exact", "Gte", "Gt", "Lte", "Lt", "AtLeast",
             "ClosedInterval", "HalfOpen", "HalfOpenLo", "OpenInterval", "UnknownConstraint"}
Constraint == [op : Operator, lo : Version, hi : Version]
Interval(op, lo, hi) == [op |-> op, lo |-> lo, hi |-> hi]
Only(op, v) == Interval(op, v, v)
UnknownConstraint == Only("UnknownConstraint", <<>>)

\* LoaderVersionConstraint::parse, of a text that is a version between two
\* marks or a version with a mark before or after it.
Brackets == [ClosedInterval |-> "[]", HalfOpen |-> "[)",
             HalfOpenLo |-> "(]", OpenInterval |-> "()"]
Marks == [Gte |-> ">=", Gt |-> ">", Lte |-> "<=", Lt |-> "<", AtLeast |-> "+", Exact |-> "="]
ParseConstraint(text) ==
    CASE text.lo = <<>> \/ text.hi = <<>> -> UnknownConstraint
      [] text.mark \in {Brackets[op] : op \in DOMAIN Brackets} ->
            Interval(CHOOSE op \in DOMAIN Brackets : Brackets[op] = text.mark, text.lo, text.hi)
      [] text.mark \in {Marks[op] : op \in DOMAIN Marks} ->
            Only(CHOOSE op \in DOMAIN Marks : Marks[op] = text.mark, text.lo)
      [] OTHER -> Only("Exact", text.lo)

SatisfiedBy(c, v) ==
    CASE c.op = "Exact" -> Same(v, c.lo)
      [] c.op \in {"Gte", "AtLeast"} -> AtMost(c.lo, v)
      [] c.op = "Gt" -> Before(c.lo, v)
      [] c.op = "Lte" -> AtMost(v, c.hi)
      [] c.op = "Lt" -> Before(v, c.hi)
      [] c.op = "ClosedInterval" -> AtMost(c.lo, v) /\ AtMost(v, c.hi)
      [] c.op = "HalfOpen" -> AtMost(c.lo, v) /\ Before(v, c.hi)
      [] c.op = "HalfOpenLo" -> Before(c.lo, v) /\ AtMost(v, c.hi)
      [] c.op = "OpenInterval" -> Before(c.lo, v) /\ Before(v, c.hi)
      [] OTHER -> FALSE

\* intersect_constraints with the first constraint on the left of its arm: the
\* intersection, or nothing, which stands for a conflict as well as for a
\* combination that is not handled.
From == {"Gte", "AtLeast"}
IfAny(guard, c) == IF guard THEN {c} ELSE {}
TighterIfAbove(a, b) == \* FAULTY
    CASE a.op = "Gt" /\ b.op = "Gte" -> {IF Before(b.lo, a.lo) THEN a ELSE b}
      [] OTHER -> {}
Tighter(a, b) ==
    CASE a.op = "Gt" /\ b.op = "Gte" -> {IF AtMost(b.lo, a.lo) THEN a ELSE b}
      [] OTHER -> {}
Arm(a, b) ==
    CASE a.op \in From /\ b.op \in From ->
            {Only(IF a.op = b.op THEN a.op ELSE "Gte", Higher(a.lo, b.lo))}
      [] a.op = b.op /\ a.op = "Gt" -> {Only("Gt", Higher(a.lo, b.lo))}
      [] a.op = b.op /\ a.op \in {"Lt", "Lte"} -> {Only(a.op, Lower(a.hi, b.hi))}
      [] a.op \in From /\ b.op = "Lt" -> IfAny(Before(a.lo, b.hi), Interval("HalfOpen", a.lo, b.hi))
      [] a.op = "Gte" /\ b.op = "Lte" -> IfAny(AtMost(a.lo, b.hi), Interval("ClosedInterval", a.lo, b.hi))
      [] a.op = "Gt" /\ b.op = "Lt" -> IfAny(Before(a.lo, b.hi), Interval("OpenInterval", a.lo, b.hi))
      [] a.op = "Exact" /\ b.op \in {"Gte", "Exact", "Lt", "Lte"} -> IfAny(SatisfiedBy(b, a.lo), a)
      [] a.op = "Gte" /\ b.op = "HalfOpen" ->
            IfAny(Before(Higher(a.lo, b.lo), b.hi), Interval("HalfOpen", Higher(a.lo, b.lo), b.hi))
      [] OTHER -> Tighter(a, b)
Intersect(a, b) == IF Arm(a, b) # {} THEN Arm(a, b) ELSE Arm(b, a)

-----------------------------------------------------------------------------
(***************************************************************************)
(* Requirements: a family, a constraint and where they were read.          *)
(***************************************************************************)

IsKnown(c) == c.op # "UnknownConstraint"
Requirement(family, c, source) == [family |-> family, constraint |-> c, source |-> source]

\* requirements_from_jar_metadata
JarRequirements(loaders) ==
    {Requirement(l.loader, ParseConstraint(l.version), "JarMetadata") : l \in {k \in loaders : k.mandatory}}

\* parse_loader_requirements_from_log.  A line asks for a version: "requires" a
\* text, after which the line ends, goes on in words, or has a dot; or "is
\* required", of Forge.  A mark >= is stripped, and what then starts with a
\* version of several numbers is a lower bound.  Forge's other texts are parsed
\* as they stand, if they end the line.
IsDotted(line) ==
    /\ line.text.mark \in {"", ">=", "+"}
    /\ Len(line.text.lo) > 1 \/ (line.after = "dot" /\ line.text.mark # "+")

\* LoaderVersion::parse(..).unwrap(), of a version with the dot that ends the
\* sentence: the whole log is not read.
Panics(line) == line.asks = "requires" /\ IsDotted(line) /\ line.after = "dot" /\ line.text.mark # "+"

Stripped(text) == IF text.mark = ">=" THEN [text EXCEPT !.mark = ""] ELSE text
LogConstraints(line) ==
    IF line.asks = "is required"
    THEN {Only("Gte", t.lo) : t \in {u \in {line.text} : line.family = "Forge" /\ u.mark = "" /\ Len(u.lo) > 1}}
    ELSE IF IsDotted(line) THEN {Only(IF line.text.mark = "+" THEN "AtLeast" ELSE "Gte", line.text.lo)}
    ELSE IF line.family = "Forge" /\ line.after = "nothing"
    THEN {c \in {ParseConstraint(Stripped(line.text))} : IsKnown(c)}
    ELSE {}
LogRequirements(line) ==
    IF Panics(line) THEN {} ELSE {Requirement(line.family, c, "BootLog") : c \in LogConstraints(line)}

AggregateAny(requirements) == \* FAULTY
    {requirements[i].constraint : i \in {j \in 1..1 : j \in DOMAIN requirements /\ IsKnown(requirements[j].constraint)}}

\* aggregate_requirements: the intersection of the first n known constraints,
\* in their order.
Aggregate(requirements) ==
    LET known == SelectSeq(requirements, LAMBDA r : IsKnown(r.constraint))
        met[n \in 0..Len(known)] ==
            CASE n = 0 -> {}
              [] n = 1 -> {known[1].constraint}
              [] OTHER -> UNION {Intersect(c, known[n].constraint) : c \in met[n - 1]}
    IN met[Len(known)]

\* analyze_loader_compatibility; a family or a pin that is absent is "none" or
\* <<>>, and so is a version that is not recommended.
Report(status, recommended) == [status |-> status, recommended |-> recommended]
AnalyzeLoader(family, current, requirements, pin) ==
    LET families == {requirements[i].family : i \in DOMAIN requirements}
        aggregated == Aggregate(requirements)
        suits(v) == v # <<>> /\ \A c \in aggregated : SatisfiedBy(c, v)
    IN IF family # "none" /\ families \ {family} # {} THEN Report("WrongLoaderFamily", <<>>)
       ELSE IF aggregated = {} \/ \E f, g \in families : f # g THEN Report("ConflictingRequirements", <<>>)
       ELSE IF suits(current) THEN Report("Compatible", <<>>)
       ELSE Report("Incompatible", IF suits(pin) THEN pin ELSE <<>>)

-----------------------------------------------------------------------------
(***************************************************************************)
(* Properties of every constraint and of every list of requirements.       *)
(***************************************************************************)

\* intersect_constraints: an intersection, when one is given, admits exactly
\* the versions that both constraints admit.
IntersectionIsExact(a, b, v) ==
    \A c \in Intersect(a, b) : SatisfiedBy(c, v) <=> SatisfiedBy(a, v) /\ SatisfiedBy(b, v)

\* The fallback of parse_forge_log_requirement, "try parsing remaining text as full
\* constraint": a text with a mark is read as the constraint that it writes.
ConstraintIsRead(line, v) ==
    line.text.mark # "" =>
        \A r \in LogRequirements(line) : SatisfiedBy(r.constraint, v) <=> SatisfiedBy(ParseConstraint(line.text), v)

\* analyze_loader_compatibility: a loader that is called compatible, or is
\* recommended, satisfies each requirement that could be read.
AdviceSatisfiesAll(family, current, requirements, pin) ==
    LET report == AnalyzeLoader(family, current, requirements, pin)
        advised == IF report.status = "Compatible" THEN current ELSE report.recommended
    IN advised # <<>> =>
        \A i \in DOMAIN requirements :
            LET c == requirements[i].constraint
            IN IsKnown(c) => SatisfiedBy(c, advised)
=============================================================================
