--------------------------- MODULE StackRegistry ---------------------------
(***************************************************************************)
(* The stack registry (config/finops-stacks.yml, src/finops/stacks.py) and  *)
(* the classification of changed files (src/finops/plan/detector.py), as    *)
(* operators.                                                               *)
(*                                                                          *)
(* A path is a sequence of the pieces its text is made of: names, "/", a    *)
(* leading ".", and the extension, which is the last piece of a file.       *)
(* String prefixes are prefixes of such sequences, and of two prefixes of   *)
(* one path the longer string is the longer sequence.                       *)
(*                                                                          *)
(* A registry is the sequence of its entries, in the order of the file:     *)
(*    [name, dir, cloud, environment, deployable, key, paths, fields]       *)
(* where key is [cloud, environment, workload] as the state key spells them *)
(* (a key in the older form, without a cloud, spells "none"), paths may be  *)
(* empty, and fields are the names of the fields that are filled in.        *)
(***************************************************************************)
EXTENDS Integers, FiniteSets, SequencesExt

Path == Seq(STRING) \ {<<>>}

\* As YAML spells it: paths and directories are text, and may be empty.
IsRegistry(registry) ==
    /\ Len(registry) \in Nat /\ DOMAIN registry = 1 .. Len(registry)
    /\ \A i \in DOMAIN registry :
        registry[i].dir \in Seq(STRING) /\ registry[i].paths \in Seq(Seq(STRING))

SupportedClouds == {"aws", "azure", "gcp"}

RequiredFields(cloud) ==
    {"terraform_dir", "cloud", "environment", "state_key"} \cup
    CASE cloud = "aws" -> {}
      [] cloud = "azure" -> {"subscription_id", "location", "resource_group", "name_prefix"}
      [] cloud = "gcp" -> {"project_id", "region", "name_prefix"}

(* --- load_stacks ------------------------------------------------------------ *)

LeavesRepository(dir) == Head(dir) = "/" \/ Contains(dir, "..")

\* AWS keys are older than the convention and exempt from it.
ConformingKey(entry) ==
    entry.cloud # "aws" =>
        entry.key.cloud = entry.cloud /\ entry.key.environment = entry.environment

ValidEntry(entry) ==
    /\ entry.cloud \in SupportedClouds
    /\ RequiredFields(entry.cloud) \subseteq entry.fields
    /\ ~LeavesRepository(entry.dir)
    /\ ConformingKey(entry)

\* Anything else is a ConfigurationError.
Loads(registry) ==
    /\ registry # <<>>
    /\ \A i \in DOMAIN registry : ValidEntry(registry[i])
    /\ \A i, j \in DOMAIN registry : registry[i].key = registry[j].key => i = j

\* The directory itself when no paths are registered.
PathsOf(entry) == IF entry.paths = <<>> THEN <<Append(entry.dir, "/")>> ELSE entry.paths

Entry(registry, name) ==
    registry[CHOOSE i \in DOMAIN registry : registry[i].name = name]

Names(registry) == {registry[i].name : i \in DOMAIN registry}

\* What the operator selected has to be what the registry says.
SelectionAgrees(entry, cloud, environment) ==
    entry.cloud = cloud /\ entry.environment = environment

(* --- select_stacks ----------------------------------------------------------- *)

\* lstrip("./") removes every leading dot and slash, not the prefix "./".
Normalised(path) ==
    LET first == SelectInSeq(path, LAMBDA piece : piece \notin {".", "/"})
    IN  IF first = 0 THEN <<>> ELSE SubSeq(path, first, Len(path))

\* Every registered path with the place of its entry in the registry.
RegisteredPaths(registry) ==
    UNION {{[at |-> i, prefix |-> prefix] : prefix \in ToSet(PathsOf(registry[i]))} :
               i \in DOMAIN registry}

\* Mutant: in the order of the registry, without sorting by length.
PreferredFirst(p, q) == p.at <= q.at

\* Longest first; the sort is stable, so that the order of the registry decides
\* between equals.
Preferred(p, q) ==
    \/ Len(p.prefix) > Len(q.prefix)
    \/ Len(p.prefix) = Len(q.prefix) /\ p.at <= q.at

\* The stack a file belongs to: one, or none.
OwnersOf(registry, path) ==
    LET matching == {p \in RegisteredPaths(registry) : IsPrefix(p.prefix, Normalised(path))}
    IN  {registry[p.at].name : p \in {q \in matching : \A r \in matching : Preferred(q, r)}}

SelectStacks(registry, files) == UNION {OwnersOf(registry, path) : path \in files}

(* --- change detection ----------------------------------------------------------- *)

InfrastructureExtensions == {".tf", ".tf.json", ".tfvars", ".tfvars.json", ".hcl"}

\* **/.terraform/** and **/*.md; the globs win over those for infrastructure.
Ignored(path) ==
    \/ Last(path) = ".md"
    \/ \E i \in 1 .. Len(path) - 1 : path[i] = ".terraform" /\ path[i + 1] = "/"

IsInfrastructure(path) == ~Ignored(path) /\ Last(path) \in InfrastructureExtensions

InfrastructureFiles(files) == {path \in files : IsInfrastructure(path)}

\* `git diff --name-only`: a file that was moved goes by its new name alone.
ChangedFiles(edited, moved) == edited \cup {move[2] : move \in moved}

(* --- what select_stacks promises --------------------------------------------------- *)

\* The directories a file is in, by walking up from it.
DirectoriesAbove(path) == {SubSeq(path, 1, n) : n \in {m \in 1 .. Len(path) - 1 : path[m] = "/"}}

\* The stack that registered the nearest of them, the first when several did.
NearestOwner(registry, path) ==
    LET owners(d) == {i \in DOMAIN registry : Contains(PathsOf(registry[i]), d)}
        registered == {d \in DirectoriesAbove(path) : owners(d) # {}}
        nearest == CHOOSE d \in registered : \A e \in registered : Len(d) >= Len(e)
    IN  IF registered = {} THEN {} ELSE {registry[Min(owners(nearest))].name}

\* Every registered path names a directory, with its final slash, and no path is
\* one that lstrip would shorten.
PathsAreDirectories(registry, files) ==
    /\ \A p \in RegisteredPaths(registry) :
        p.prefix # <<>> /\ Last(p.prefix) = "/" /\ Head(p.prefix) \notin {".", "/"}
    /\ \A f \in files : Head(f) # "."

=============================================================================
