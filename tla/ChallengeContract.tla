-------------------------- MODULE ChallengeContract --------------------------
(* The contract of a challenge, from the author's directory to the ranked      *)
(* result. The same contract is read by five programs at different times: the  *)
(* review of a proposal, publication, startup seeding, submission admission,   *)
(* and the runner, which reads it again from the bundle the job was admitted   *)
(* with. Texts (titles, notes, labels, messages) are left out; a path is a     *)
(* sequence of names, a bundle a function from its files to their contents.    *)
EXTENDS Integers, Sequences, FiniteSets, SequencesExt

CONSTANTS
    Proposals,       \* challenge directories with their manifests and private assets
    Updates,         \* those a later startup may find for the published challenge
    Results,         \* what an evaluator may leave in result.json
    PinsRequired,    \* requires_digest_pinned_images()
    MaxRuns,         \* MAX_CHALLENGE_RUNS_PER_EVALUATION and limits.max_runs
    MaxAssetFiles,   \* MAX_PRIVATE_ASSET_FILE_COUNT
    MaxAssetBytes,   \* challenge_private_asset_bytes_per_review_record
    MaxSeedings,     \* bound: startups that seed
    MaxKept,         \* bound: results kept
    MaxTime          \* bound: the clock

\* A directory tree: its files, and the directories an archive names, by path.
IsTree(tree) ==
    /\ DOMAIN tree \subseteq Seq(STRING)
    /\ \A p \in DOMAIN tree : tree[p].kind \in {"file", "dir"}

Topologies == {"separated_evaluator", "piped_stdio", "coexecuted_benchmark"}

ASSUME ProposalsAssumption ==
    \A p \in Proposals \cup Updates :
        /\ p.origin \in {"review", "seed"}
        /\ p.spec.mode \in Topologies
        /\ p.spec.metrics.ties \in Seq(STRING)
        /\ IsTree(p.files)

ASSUME ResultsAssumption ==
    \A r \in Results : \A i \in DOMAIN r.metrics : r.metrics[i].value \in Int

VARIABLES
    challenge,       \* the published row and the bundles its keys name
    job,             \* one admitted job, with the bundle keys it was admitted with
    outcome,         \* what became of that job
    kept,            \* metric payloads of stored official results
    seedings,        \* startups so far
    now              \* the clock

vars == <<challenge, job, outcome, kept, seedings, now>>

NoPath == <<>>
NotFinite == 99
Modes == {"validation", "official"}

----------------------------------------------------------------------------
(* Trees *)

IsFile(tree, path) == path \in DOMAIN tree /\ tree[path].kind = "file"

IsDirectory(tree, path) ==
    \E p \in DOMAIN tree : IsPrefix(path, p) /\ (p # path \/ tree[p].kind = "dir")

PathExists(tree, path) == IsFile(tree, path) \/ IsDirectory(tree, path)

CopyExcluding(tree, dir) ==
    [p \in {q \in DOMAIN tree : ~IsPrefix(dir, q)} |-> tree[p]]

----------------------------------------------------------------------------
(* spec.json *)

RuntimeName(mode) == [separated_evaluator |-> "separated-evaluator",
                      piped_stdio |-> "interactive-evaluator",
                      coexecuted_benchmark |-> "coexecuted-evaluator"][mode]

ScriptMatchesRuntime(script, mode) ==
    script = NoPath \/ IsPrefix(<<RuntimeName(mode)>>, script)

SetupIsValid(setup, mode) == setup.declared => ScriptMatchesRuntime(setup.script, mode)

KeywordsAreValid(keywords) == Len(keywords) \in 1..6 /\ IsInjective(keywords)

TargetHasShape(t, platform, accelerator) ==
    t.platform = platform /\ t.accelerator = accelerator

TargetIsHosted(t) ==
    \/ t.name = "linux-arm64-cpu" /\ TargetHasShape(t, "linux/arm64", "none")
    \/ t.name = "linux-arm64-cuda" /\ TargetHasShape(t, "linux/arm64", "gpu")

CudaVersion == [cu126 |-> "12.6", cu130 |-> "13.0", cu132 |-> "13.2"]

CudaHardwareIsValid(hardware) ==
    /\ hardware.kind = "cuda"
    /\ hardware.gpus > 0
    /\ hardware.variant \in DOMAIN CudaVersion
    /\ hardware.version = CudaVersion[hardware.variant]

ImageIsSupported(image, repository, tag) == image.repository = repository /\ image.tag = tag

TargetImagesAreSupported(t) ==
    \A image \in {t.solutionImage, t.evaluatorImage} :
        IF t.accelerator = "gpu"
        THEN ImageIsSupported(image, "cuda", t.hardware.variant)
        ELSE ImageIsSupported(image, "cpu", "ubuntu26.04")

TargetIsValid(t) ==
    /\ TargetIsHosted(t)
    /\ t.accelerator = "gpu" => CudaHardwareIsValid(t.hardware)
    /\ TargetImagesAreSupported(t)

TargetsAreValid(spec) ==
    /\ spec.targets # <<>>
    /\ \A i \in DOMAIN spec.targets : TargetIsValid(spec.targets[i])
    /\ IsInjective([i \in DOMAIN spec.targets |-> spec.targets[i].name])

ImageIsPinned(image) == ~image.local /\ image.digest

ImagesArePinned(spec) ==
    \A i \in DOMAIN spec.targets :
        ImageIsPinned(spec.targets[i].solutionImage) /\ ImageIsPinned(spec.targets[i].evaluatorImage)

ValidationEnabled(spec) == \E i \in DOMAIN spec.targets : spec.targets[i].validation

\* A time or a limit that is absent is -1.
PolicyIsValid(spec) ==
    /\ spec.closes # -1 => spec.closes > spec.starts
    /\ spec.publication = "public_after_close" => spec.closes # -1
    /\ spec.validationLimit # 0 /\ spec.officialLimit # 0
    /\ ValidationEnabled(spec) => spec.validationLimit # -1

\* Separated runs and piped sessions are declared the same way: a manifest in
\* the bundle or a setup command that writes one, never both.
RunInputsAreDeclared(spec) ==
    /\ ~(spec.validationLocator # NoPath /\ spec.validationSetup.declared)
    /\ ~(spec.officialLocator # NoPath /\ spec.officialSetup.declared)
    /\ ValidationEnabled(spec) => spec.validationLocator # NoPath \/ spec.validationSetup.declared
    /\ spec.privateEnabled => spec.officialLocator # NoPath \/ spec.officialSetup.declared

SeparatedIsValid(spec) == RunInputsAreDeclared(spec)

PipedStdioIsValid(spec) == spec.acknowledged /\ RunInputsAreDeclared(spec)

CoexecutedIsValid(spec) == spec.acknowledged

RunStagesAreValid(spec) ==
    \A i \in DOMAIN spec.targets :
        spec.targets[i].runStage = (spec.mode # "coexecuted_benchmark")

ExecutionIsValid(spec) ==
    /\ CASE spec.mode = "separated_evaluator" -> SeparatedIsValid(spec)
         [] spec.mode = "piped_stdio" -> PipedStdioIsValid(spec)
         [] spec.mode = "coexecuted_benchmark" -> CoexecutedIsValid(spec)
    /\ SetupIsValid(spec.validationSetup, spec.mode)
    /\ SetupIsValid(spec.officialSetup, spec.mode)
    /\ RunStagesAreValid(spec)

UsesStaticOfficialLocator(spec) ==
    spec.mode # "coexecuted_benchmark" /\ spec.officialLocator # NoPath

MetricNames(schema) == {schema.metrics[i].name : i \in DOMAIN schema.metrics}

MetricSchemaIsValid(schema) ==
    /\ schema.metrics # <<>>
    /\ IsInjective([i \in DOMAIN schema.metrics |-> schema.metrics[i].name])
    /\ schema.primary \in MetricNames(schema)
    /\ Range(schema.ties) \subseteq MetricNames(schema) \ {schema.primary}
    /\ IsInjective(schema.ties)

SpecIsValid(spec) ==
    /\ KeywordsAreValid(spec.keywords)
    /\ spec.schemaVersion = 1
    /\ spec.protocol = "zip_project"
    /\ ScriptMatchesRuntime(spec.evaluator, spec.mode)
    /\ TargetsAreValid(spec)
    /\ PolicyIsValid(spec)
    /\ ExecutionIsValid(spec)
    /\ spec.privateEnabled /\ UsesStaticOfficialLocator(spec) => spec.privateDir # NoPath
    /\ MetricSchemaIsValid(spec.metrics)

----------------------------------------------------------------------------
(* Run and session manifests *)

\* sources: which of source_path, content and content_json an input declares.
InputIsValid(input) == Cardinality(input.sources) = 1

InputsAreValid(inputs) ==
    /\ \A i \in DOMAIN inputs : InputIsValid(inputs[i])
    /\ IsInjective([i \in DOMAIN inputs |-> inputs[i].path])

RunIsValid(run) ==
    /\ run.name # "runs.json"                   \* GENERATED_EVALUATOR_RUNS_FILE
    /\ Cardinality(run.stdin) <= 1
    /\ InputsAreValid(run.inputs)
    /\ IsInjective(run.outputs)
    /\ ~run.reservedMetadata

RunManifestIsValid(manifest) ==
    /\ Len(manifest.runs) \in 1..MaxRuns
    /\ \A i \in DOMAIN manifest.runs : RunIsValid(manifest.runs[i])
    /\ IsInjective([i \in DOMAIN manifest.runs |-> manifest.runs[i].name])

SourcesExist(tree, inputs) ==
    \A i \in DOMAIN inputs :
        "source_path" \in inputs[i].sources => IsFile(tree, inputs[i].source)

RunManifestIsReadable(tree, path) == IsFile(tree, path) /\ RunManifestIsValid(tree[path])

SessionManifestIsReadable(tree, path) ==
    IsFile(tree, path) /\ InputsAreValid(tree[path].inputs)

StaticRunManifestIsValid(tree, path) ==
    /\ RunManifestIsReadable(tree, path)
    /\ \A i \in DOMAIN tree[path].runs : SourcesExist(tree, tree[path].runs[i].inputs)

StaticSessionManifestIsValid(tree, path) ==
    SessionManifestIsReadable(tree, path) /\ SourcesExist(tree, tree[path].inputs)

LocatorIsValid(tree, spec, path) ==
    path # NoPath =>
        CASE spec.mode = "separated_evaluator" -> StaticRunManifestIsValid(tree, path)
          [] spec.mode = "piped_stdio" -> StaticSessionManifestIsValid(tree, path)
          [] OTHER -> TRUE

----------------------------------------------------------------------------
(* The bundle a runner is given *)

DeclaredScripts(spec) ==
    {spec.evaluator} \cup {s.script : s \in {t \in {spec.validationSetup, spec.officialSetup} : t.declared}}

ScriptsExist(tree, spec) ==
    \A script \in DeclaredScripts(spec) \ {NoPath} : IsFile(tree, script)

\* Mutant: the validation manifest is checked only with a private benchmark.
DeclaredInputsAreValid_PrivateOnly(tree, spec) ==
    /\ spec.privateEnabled => LocatorIsValid(tree, spec, spec.validationLocator)
    /\ spec.privateEnabled => LocatorIsValid(tree, spec, spec.officialLocator)

DeclaredInputsAreValid(tree, spec) ==
    /\ ValidationEnabled(spec) => LocatorIsValid(tree, spec, spec.validationLocator)
    /\ spec.privateEnabled => LocatorIsValid(tree, spec, spec.officialLocator)

BundleIsValid(tree, spec) ==
    /\ SpecIsValid(spec)
    /\ IsFile(tree, <<"spec.json">>)
    /\ IsFile(tree, <<"statement.md">>)
    /\ ScriptsExist(tree, spec)
    /\ IsDirectory(tree, spec.publicDir)
    /\ DeclaredInputsAreValid(tree, spec)
    /\ spec.privateEnabled /\ spec.privateDir # NoPath => IsDirectory(tree, spec.privateDir)

----------------------------------------------------------------------------
(* Private asset overlays *)

ArchiveIsSafe(asset) ==
    /\ Cardinality(DOMAIN asset.files) <= MaxAssetFiles
    /\ asset.bytes <= MaxAssetBytes
    /\ \A p \in DOMAIN asset.files : p # NoPath /\ ".." \notin Range(p)

FilesOf(tree) == {p \in DOMAIN tree : tree[p].kind = "file"}

\* Extraction creates every file anew and the directories above it: an overlay
\* replaces nothing, and no entry is a file's child.
OverlayFits(tree, added) ==
    /\ \A p \in FilesOf(added) : ~PathExists(tree, p)
    /\ \A p \in DOMAIN added, q \in FilesOf(tree) : ~IsPrefix(q, p)
    /\ \A p \in DOMAIN added, q \in FilesOf(added) : IsPrefix(q, p) => p = q

ProvidesPaths(tree, requirement) ==
    \A path \in Range(requirement.paths) : PathExists(tree, path)

\* names[i] is the asset of overlay i. Each one fits what is there when its turn
\* comes: the tree and the overlays before it.
OverlaysFit(tree, names, uploads) ==
    \A i \in DOMAIN names :
        /\ OverlayFits(tree, uploads[names[i]].files)
        /\ \A k \in DOMAIN names : k < i => OverlayFits(uploads[names[k]].files, uploads[names[i]].files)

\* The tree after overlays that fit: no two bring the same file.
OverlayAll(tree, names, uploads) ==
    LET Added(i) == uploads[names[i]].files
    IN [path \in DOMAIN tree \cup UNION {DOMAIN Added(i) : i \in DOMAIN names} |->
          IF path \in DOMAIN tree THEN tree[path]
          ELSE Added(CHOOSE i \in DOMAIN names : path \in DOMAIN Added(i))[path]]

OverlayFiles(names, uploads) == UNION {FilesOf(uploads[names[i]].files) : i \in DOMAIN names}

----------------------------------------------------------------------------
(* Review: the public repository and the assets uploaded for it *)

Requirement(manifest, name) ==
    CHOOSE r \in Range(manifest.assets) : r.name = name

AssetNames(manifest) == [i \in DOMAIN manifest.assets |-> manifest.assets[i].name]

AssetRequirementsAreValid(assets) ==
    /\ IsInjective([i \in DOMAIN assets |-> assets[i].name])
    /\ \A i \in DOMAIN assets : IsInjective(assets[i].paths)

ManifestIsValid(manifest) ==
    /\ manifest.schemaVersion = 1
    /\ KeywordsAreValid(manifest.keywords)
    /\ AssetRequirementsAreValid(manifest.assets)
    /\ manifest.request = "new_challenge" => manifest.bundlePath /\ ~manifest.archive
    /\ manifest.request = "archive_challenge" => ~manifest.bundlePath /\ manifest.archive

\* is_forbidden_public_repo_name, by one name of each kind.
ForbiddenNames == {".env", "id_rsa", "secrets", "private", "heldout", "reference-outputs", "tls.key"}

NothingPrivateCommitted(tree) == \A p \in DOMAIN tree : Range(p) \cap ForbiddenNames = {}

PublicBundleIsValid(tree, spec, manifest) ==
    /\ SpecIsValid(spec) /\ IsFile(tree, <<"spec.json">>)
    /\ spec.name = manifest.name
    /\ spec.keywords = manifest.keywords
    /\ IsFile(tree, <<"statement.md">>)
    /\ IsDirectory(tree, spec.publicDir)
    /\ spec.privateDir # NoPath => ~PathExists(tree, spec.privateDir)
    /\ ValidationEnabled(spec) => LocatorIsValid(tree, spec, spec.validationLocator)

RepositoryIsValid(p) ==
    /\ ManifestIsValid(p.manifest)
    /\ NothingPrivateCommitted(p.files)
    /\ p.manifest.bundlePath => PublicBundleIsValid(p.files, p.spec, p.manifest)

\* p.uploaded lists the record's active assets.
AssetsArePresent(p) ==
    /\ \A r \in Range(p.manifest.assets) : r.required => r.name \in Range(p.uploaded)
    /\ p.spec.privateEnabled /\ UsesStaticOfficialLocator(p.spec) /\ ~p.spec.officialSetup.declared =>
          \E name \in Range(p.uploaded) : p.uploads[name].kind = "private_benchmark_data"

UploadIsValid(asset, requirement) ==
    /\ ArchiveIsSafe(asset)
    /\ \A path \in Range(requirement.paths) :
          \E f \in DOMAIN asset.files : IsPrefix(path, f)

RequiredPathsExist(p, tree) ==
    \A name \in Range(p.uploaded) : ProvidesPaths(tree, Requirement(p.manifest, name))

RuntimeBundleAssembles(p) ==
    /\ AssetsArePresent(p)
    /\ Range(p.uploaded) \subseteq Range(AssetNames(p.manifest))
    /\ \A name \in Range(p.uploaded) : UploadIsValid(p.uploads[name], Requirement(p.manifest, name))
    /\ OverlaysFit(p.files, p.uploaded, p.uploads)
    /\ RequiredPathsExist(p, OverlayAll(p.files, p.uploaded, p.uploads))

RuntimeBundle(p) == OverlayAll(p.files, p.uploaded, p.uploads)

\* Mutant: validation runs in a copy of the runtime bundle.
PublicBundle_Runtime(p) == RuntimeBundle(p)

PublicBundle(p) == p.files

ReviewAccepts(p) ==
    /\ p.manifest.request = "new_challenge"
    /\ RepositoryIsValid(p)
    /\ RuntimeBundleAssembles(p)
    /\ BundleIsValid(RuntimeBundle(p), p.spec)
    /\ PinsRequired => ImagesArePinned(p.spec)

----------------------------------------------------------------------------
(* Startup seeding: the same directory, with assets restored from backups *)

RequiredAssets(manifest) == {i \in DOMAIN manifest.assets : manifest.assets[i].required}

\* A backup made before assets had names of their own stands in for a missing one.
RestoredAsset(p, name) == IF name \in DOMAIN p.uploads THEN name ELSE "official-runs"

SeedOverlays(p) ==
    IF p.manifest.present
    THEN [i \in RequiredAssets(p.manifest) |-> RestoredAsset(p, p.manifest.assets[i].name)]
    ELSE <<>>

SeededBundle(p) == OverlayAll(p.files, SeedOverlays(p), p.uploads)

SeededBundleAssembles(p) ==
    /\ p.manifest.present => ManifestIsValid(p.manifest)
    /\ ~p.manifest.present => ~p.spec.privateEnabled
    /\ Range(SeedOverlays(p)) \subseteq DOMAIN p.uploads        \* every backup is found
    /\ \A name \in Range(SeedOverlays(p)) : ArchiveIsSafe(p.uploads[name])
    /\ OverlaysFit(p.files, SeedOverlays(p), p.uploads)
    /\ p.manifest.present =>
          \A r \in Range(p.manifest.assets) : r.required => ProvidesPaths(SeededBundle(p), r)

SeededPublicBundle(p) ==
    IF p.spec.privateEnabled /\ p.spec.privateDir # NoPath
    THEN CopyExcluding(p.files, p.spec.privateDir)
    ELSE p.files

SeedAccepts(p) ==
    /\ SpecIsValid(p.spec) /\ IsFile(p.files, <<"spec.json">>)
    /\ SeededBundleAssembles(p)
    /\ BundleIsValid(SeededBundle(p), p.spec)

----------------------------------------------------------------------------
(* Admission and the runner *)

DeclaresOfficialRuns(spec) ==
    \/ spec.mode = "coexecuted_benchmark"
    \/ spec.officialLocator # NoPath
    \/ spec.officialSetup.declared

TargetOf(spec, name) == {t \in Range(spec.targets) : t.name = name}

TargetSupports(spec, name, mode) ==
    \E t \in TargetOf(spec, name) :
        /\ mode = "validation" => t.validation
        /\ mode = "official" => DeclaresOfficialRuns(spec)

AcceptsSubmissions(spec) == spec.starts <= now /\ (spec.closes # -1 => now < spec.closes)

JobBundle(c, mode) == IF mode = "validation" THEN c.public ELSE c.runtime

Locator(spec, mode) ==
    IF mode = "validation" THEN spec.validationLocator ELSE spec.officialLocator

Setup(spec, mode) == IF mode = "validation" THEN spec.validationSetup ELSE spec.officialSetup

RunCountIsAllowed(manifest) == Len(manifest.runs) \in 1..MaxRuns

\* run_manifest_source and resolve_run_plan; what a setup command writes is not
\* part of the contract.
RunPlanResolves(spec, mode, tree) ==
    LET path == Locator(spec, mode) IN
    \/ /\ path # NoPath
       /\ RunManifestIsReadable(tree, path)
       /\ RunCountIsAllowed(tree[path])
       /\ \A i \in DOMAIN tree[path].runs : SourcesExist(tree, tree[path].runs[i].inputs)
    \/ path = NoPath /\ Setup(spec, mode).declared

SessionPlanResolves(spec, mode, tree) ==
    LET path == Locator(spec, mode) IN
    \/ /\ path # NoPath
       /\ SessionManifestIsReadable(tree, path)
       /\ SourcesExist(tree, tree[path].inputs)
    \/ path = NoPath /\ Setup(spec, mode).declared

RunnerAccepts(j) ==
    /\ SpecIsValid(j.spec)
    /\ PinsRequired => ImagesArePinned(j.spec)
    /\ TargetOf(j.spec, j.target) # {}
    /\ CASE j.spec.mode = "separated_evaluator" -> RunPlanResolves(j.spec, j.mode, j.tree)
         [] j.spec.mode = "piped_stdio" -> SessionPlanResolves(j.spec, j.mode, j.tree)
         [] j.spec.mode = "coexecuted_benchmark" -> TRUE

----------------------------------------------------------------------------
(* result.json and ranking *)

SummaryIsValid(s) == s.score # NotFinite /\ s.passed >= 0 /\ s.passed <= s.total

MetricsAreValid(metrics) ==
    /\ \A i \in DOMAIN metrics : metrics[i].value # NotFinite
    /\ IsInjective([i \in DOMAIN metrics |-> metrics[i].name])

ResultFitsMode(r, mode) ==
    /\ r.mode \in {"none", mode}
    /\ MetricsAreValid(r.metrics)
    /\ \A s \in Range(r.summaries) : SummaryIsValid(s)
    /\ mode \in DOMAIN r.summaries

MetricVisible(mode, metric) == mode = "validation" => metric.visibility # "official"

ResultFitsSchema(r, mode, schema) ==
    /\ schema.metrics # <<>>
    /\ \A i \in DOMAIN r.metrics :
          \E d \in Range(schema.metrics) : d.name = r.metrics[i].name /\ MetricVisible(mode, d)
    /\ mode = "official" => \E i \in DOMAIN r.metrics : r.metrics[i].name = schema.primary

ResultIsValid(r, mode, schema) == ResultFitsMode(r, mode) /\ ResultFitsSchema(r, mode, schema)

\* The values a payload has for a metric: at most one.
ValueOf(metrics, name) == {metrics[i].value : i \in {k \in DOMAIN metrics : metrics[k].name = name}}

\* -1 when a ranks first, 1 when b does.
CompareNumbers(a, b) ==
    IF NotFinite \in {a, b} \/ a = b THEN 0 ELSE IF a < b THEN -1 ELSE 1

\* Mutant: a metric one side lacks does not count.
CompareByDirection_Missing(direction, as, bs) ==
    IF as = {} \/ bs = {} THEN 0
    ELSE LET a == CHOOSE x \in as : TRUE  b == CHOOSE x \in bs : TRUE
         IN IF direction = "minimize" THEN CompareNumbers(a, b) ELSE CompareNumbers(b, a)

CompareByDirection(direction, as, bs) ==
    IF as = {} \/ bs = {} THEN Cardinality(bs) - Cardinality(as)
    ELSE LET a == CHOOSE x \in as : TRUE  b == CHOOSE x \in bs : TRUE
         IN IF direction = "minimize" THEN CompareNumbers(a, b) ELSE CompareNumbers(b, a)

\* The first metric of the ranking that tells the payloads apart decides.
CompareByRanking(schema, a, b) ==
    LET order == <<schema.primary>> \o schema.ties
        Direction(name) == (CHOOSE d \in Range(schema.metrics) : d.name = name).direction
        Compared(i) == CompareByDirection(Direction(order[i]), ValueOf(a, order[i]), ValueOf(b, order[i]))
        deciding == {i \in DOMAIN order : Compared(i) # 0}
    IN IF deciding = {} THEN 0
       ELSE Compared(CHOOSE i \in deciding : \A k \in deciding : i <= k)

----------------------------------------------------------------------------
(* The life of one challenge *)

NoChallenge == [published |-> FALSE]
NoJob == [admitted |-> FALSE]

Init ==
    /\ challenge = NoChallenge
    /\ job = NoJob
    /\ outcome = "none"
    /\ kept = {}
    /\ seedings = 0
    /\ now = 0

Published(p, runtime, public, overlaid) ==
    [published |-> TRUE, runtime |-> runtime, public |-> public, spec |-> p.spec,
     origin |-> p.origin, overlaid |-> overlaid]

Reviewable == {p \in Proposals : p.origin = "review" /\ ReviewAccepts(p)}

Seedable(directories) == {p \in directories : p.origin = "seed" /\ SeedAccepts(p)}
FirstSeeds == Seedable(Proposals)
LaterSeeds == Seedable(Updates)

PublishReviewed(p) ==
    /\ ~challenge.published
    /\ challenge' = Published(p, RuntimeBundle(p), PublicBundle(p), OverlayFiles(p.uploaded, p.uploads))
    /\ UNCHANGED <<job, outcome, kept, seedings, now>>

\* A startup publishes the seeded challenge or refreshes the row of that name,
\* whoever published it.
SeedChallenge(p) ==
    /\ seedings < MaxSeedings
    /\ challenge' = Published(p, SeededBundle(p), SeededPublicBundle(p), OverlayFiles(SeedOverlays(p), p.uploads))
    /\ seedings' = seedings + 1
    /\ UNCHANGED <<job, outcome, kept, now>>

Admit(mode, target) ==
    /\ challenge.published
    /\ outcome = "none"
    /\ AcceptsSubmissions(challenge.spec)
    /\ TargetSupports(challenge.spec, target, mode)
    /\ job' = [admitted |-> TRUE, mode |-> mode, target |-> target, spec |-> challenge.spec,
               origin |-> challenge.origin, runtime |-> challenge.runtime,
               tree |-> JobBundle(challenge, mode)]
    /\ outcome' = "queued"
    /\ UNCHANGED <<challenge, kept, seedings, now>>

PlanRun ==
    /\ outcome = "queued"
    /\ outcome' = IF RunnerAccepts(job) THEN "planned" ELSE "contract_error"
    /\ UNCHANGED <<challenge, job, kept, seedings, now>>

\* The runner validates the result against the schema of the job's own bundle.
Evaluate(r) ==
    /\ outcome = "planned"
    /\ IF ResultIsValid(r, job.mode, job.spec.metrics)
       THEN /\ outcome' = "completed"
            /\ kept' = IF job.mode = "official" /\ Cardinality(kept) < MaxKept
                       THEN kept \cup {r.metrics} ELSE kept
       ELSE outcome' = "invalid_result" /\ UNCHANGED kept
    /\ UNCHANGED <<challenge, job, seedings, now>>

NextJob ==
    /\ outcome \in {"contract_error", "invalid_result", "completed"}
    /\ outcome' = "none"
    /\ job' = NoJob
    /\ UNCHANGED <<challenge, kept, seedings, now>>

Tick ==
    /\ now < MaxTime
    /\ now' = now + 1
    /\ UNCHANGED <<challenge, job, outcome, kept, seedings>>

Next ==
    \/ \E p \in IF challenge.published THEN {} ELSE Reviewable : PublishReviewed(p)
    \/ \E p \in IF challenge.published THEN LaterSeeds ELSE FirstSeeds : SeedChallenge(p)
    \/ \E mode \in Modes, target \in {"linux-arm64-cpu", "linux-arm64-cuda"} : Admit(mode, target)
    \/ PlanRun
    \/ \E r \in Results : Evaluate(r)
    \/ NextJob
    \/ Tick

Spec == Init /\ [][Next]_vars

----------------------------------------------------------------------------
(* Properties *)

\* Contract checks of the runner that nothing before it makes: image pins of a
\* seeded challenge, an official manifest declared while the private benchmark
\* is off, and what validation reads of a seeded challenge whose public bundle
\* lacks an overlay or the private part of the directory: only the runtime
\* bundle was validated.
UncheckedBeforeTheRunner(j) ==
    \/ j.origin = "seed" /\ PinsRequired /\ ~ImagesArePinned(j.spec)
    \/ j.mode = "official" /\ ~j.spec.privateEnabled
    \/ j.origin = "seed" /\ j.mode = "validation" /\ j.tree # j.runtime

\* What publication and admission let through, the runner can run: an admitted
\* evaluation fails on its contract only where UncheckedBeforeTheRunner says, and
\* a startup that reseeds the challenge meanwhile changes nothing for it.
AdmittedEvaluationRuns ==
    outcome = "contract_error" => UncheckedBeforeTheRunner(job)

\* Nothing a private asset brought into the runtime bundle, and nothing of an
\* enabled private benchmark, is in the bundle validation runs see.
PublicBundleHidesOverlays ==
    challenge.published =>
        /\ DOMAIN challenge.public \cap challenge.overlaid = {}
        /\ challenge.spec.privateEnabled /\ challenge.spec.privateDir # NoPath =>
              \A p \in DOMAIN challenge.public : ~IsPrefix(challenge.spec.privateDir, p)

\* However the ranking schema changed between the results that were stored, the
\* comparison the leaderboard sorts by is one order: antisymmetric and transitive.
RankingIsConsistent ==
    challenge.published =>
        LET cmp == [a \in kept |-> [b \in kept |-> CompareByRanking(challenge.spec.metrics, a, b)]] IN
        \A a, b \in kept :
            /\ cmp[a][b] = - cmp[b][a]
            /\ cmp[a][b] <= 0 => \A c \in kept : cmp[b][c] <= 0 => cmp[a][c] <= 0

=============================================================================
