------------------------- MODULE MCChallengeContract -------------------------
(* Challenge directories around a valid one: every combination of the          *)
(* execution and dataset declarations, and single deviations elsewhere.        *)
EXTENDS ChallengeContract, TLC

File == [kind |-> "file", runs |-> <<>>, inputs |-> <<>>]

Input(source) == [path |-> "data", sources |-> {"source_path"}, source |-> source]

Run(name, source) ==
    [name |-> name, stdin |-> {}, inputs |-> <<Input(source)>>, outputs |-> <<"out">>,
     reservedMetadata |-> FALSE]

Manifest(source) == [kind |-> "file", runs |-> <<Run("r1", source)>>, inputs |-> <<Input(source)>>]

PublicData == <<"data", "in.txt">>
PrivateData == <<"benchmark", "in.txt">>
ValidationRuns == <<"data", "validation.json">>
OfficialRuns == <<"benchmark", "official.json">>

Files ==
    (<<"spec.json">> :> File) @@ (<<"statement.md">> :> File)
    @@ (<<"separated-evaluator", "run.py">> :> File) @@ (<<"interactive-evaluator", "run.py">> :> File)
    @@ (<<"coexecuted-evaluator", "run.py">> :> File)
    @@ (PublicData :> File) @@ (ValidationRuns :> Manifest(PublicData))

Benchmark ==
    [kind |-> "private_benchmark_data", bytes |-> 1,
     files |-> (PrivateData :> File) @@ (OfficialRuns :> Manifest(PrivateData))]

Generator ==
    [kind |-> "private_seeds", bytes |-> 1,
     files |-> <<"benchmark", "seeds">> :> File]

NoHardware == [kind |-> "none", gpus |-> 0, variant |-> "none", version |-> "none"]
Cuda == [kind |-> "cuda", gpus |-> 1, variant |-> "cu130", version |-> "13.0"]
Image(repository, tag) == [repository |-> repository, tag |-> tag, digest |-> TRUE, local |-> FALSE]

CpuTarget ==
    [name |-> "linux-arm64-cpu", platform |-> "linux/arm64", accelerator |-> "none",
     validation |-> TRUE, runStage |-> TRUE, hardware |-> NoHardware,
     solutionImage |-> Image("cpu", "ubuntu26.04"), evaluatorImage |-> Image("cpu", "ubuntu26.04")]

GpuTarget ==
    [CpuTarget EXCEPT !.name = "linux-arm64-cuda", !.accelerator = "gpu", !.hardware = Cuda,
                      !.solutionImage = Image("cuda", "cu130"), !.evaluatorImage = Image("cuda", "cu130")]

Metric(name, direction, visibility) ==
    [name |-> name, direction |-> direction, visibility |-> visibility]

Metrics ==
    [metrics |-> <<Metric("score", "maximize", "public"), Metric("time", "minimize", "official")>>,
     primary |-> "score", ties |-> <<"time">>]

NoSetup == [declared |-> FALSE, script |-> NoPath]
SetupOf(mode) == [declared |-> TRUE, script |-> <<RuntimeName(mode), "run.py">>]

BaseSpec ==
    [name |-> "c", schemaVersion |-> 1, protocol |-> "zip_project", keywords |-> <<"k">>,
     mode |-> "separated_evaluator", acknowledged |-> TRUE,
     evaluator |-> <<"separated-evaluator", "run.py">>,
     validationLocator |-> ValidationRuns, validationSetup |-> NoSetup,
     officialLocator |-> OfficialRuns, officialSetup |-> NoSetup,
     privateEnabled |-> TRUE, privateDir |-> <<"benchmark">>, publicDir |-> <<"data">>,
     targets |-> <<CpuTarget>>, starts |-> 0, closes |-> -1, publication |-> "private",
     validationLimit |-> 1, officialLimit |-> -1, metrics |-> Metrics]

BaseManifest ==
    [present |-> TRUE, schemaVersion |-> 1, request |-> "new_challenge", name |-> "c",
     keywords |-> <<"k">>, bundlePath |-> TRUE, archive |-> FALSE,
     assets |-> <<[name |-> "data", required |-> TRUE, paths |-> <<OfficialRuns>>]>>]

Base(origin) ==
    [origin |-> origin, manifest |-> BaseManifest, files |-> Files, spec |-> BaseSpec,
     uploaded |-> <<"data">>, uploads |-> [data |-> Benchmark]]

\* No private benchmark: validation only.
Open(origin) ==
    [Base(origin) EXCEPT !.spec.privateEnabled = FALSE, !.spec.privateDir = NoPath,
                         !.spec.officialLocator = NoPath, !.manifest.assets = <<>>, !.uploaded = <<>>]

Origins == {"review", "seed"}

\* Every way to declare the runs of the two modes, with and without the asset.
Executions ==
    {[Base(o) EXCEPT
        !.spec.mode = mode, !.spec.evaluator = <<RuntimeName(mode), "run.py">>,
        !.spec.acknowledged = ack \/ mode = "separated_evaluator",
        !.spec.validationLocator = vl, !.spec.validationSetup = IF vs THEN SetupOf(mode) ELSE NoSetup,
        !.spec.officialLocator = ol, !.spec.officialSetup = IF os THEN SetupOf(mode) ELSE NoSetup,
        !.spec.privateEnabled = private, !.spec.privateDir = IF private THEN <<"benchmark">> ELSE NoPath,
        !.spec.targets = <<[CpuTarget EXCEPT !.validation = validation, !.runStage = mode # "coexecuted_benchmark"]>>,
        !.manifest.assets = IF asset THEN @ ELSE <<>>, !.uploaded = IF asset THEN @ ELSE <<>>] :
        o \in Origins, mode \in {"separated_evaluator", "piped_stdio", "coexecuted_benchmark"},
        ack \in BOOLEAN, vl \in {NoPath, ValidationRuns}, vs \in BOOLEAN,
        ol \in {NoPath, OfficialRuns}, os \in BOOLEAN, private \in BOOLEAN,
        validation \in BOOLEAN, asset \in BOOLEAN}

\* Files and manifests that are not what the specification declares.
Trees ==
    UNION {{[Base(o) EXCEPT !.files = CopyExcluding(@, path)] : path \in DOMAIN Files}
           \cup {[b EXCEPT !.files = (ValidationRuns :> m) @@ @] :
                    b \in {Base(o), Open(o)},
                    m \in {[Manifest(PublicData) EXCEPT !.runs = <<>>],
                           [Manifest(PublicData) EXCEPT !.runs = @ \o @],
                           [Manifest(PublicData) EXCEPT !.runs = <<@[1], Run("r2", PublicData), Run("r3", PublicData)>>],
                           [Manifest(PublicData) EXCEPT !.runs = <<Run("runs.json", PublicData)>>],
                           [Manifest(PublicData) EXCEPT !.runs[1].stdin = {"json", "text"}],
                           [Manifest(PublicData) EXCEPT !.runs[1].inputs[1].sources = {}],
                           Manifest(PrivateData)}}
           \cup {[Base(o) EXCEPT !.uploads.data.files = f @@ @] :
                    f \in {ValidationRuns :> Manifest(PrivateData), <<"..", "x">> :> File,
                           <<"data", "extra">> :> File, <<"data">> :> [kind |-> "dir"],
                           <<"statement.md", "x">> :> File}}
           \cup {[Base(o) EXCEPT !.uploads.data.bytes = MaxAssetBytes + 1],
                 [Base(o) EXCEPT !.files = Benchmark.files @@ @, !.manifest.assets = <<>>, !.uploaded = <<>>],
                 \* validation reads what the directory keeps in its private part
                 [Base(o) EXCEPT !.files = Benchmark.files @@ @, !.manifest.assets = <<>>, !.uploaded = <<>>,
                                 !.spec.validationLocator = OfficialRuns],
                 [Base(o) EXCEPT !.files = (<<"secrets">> :> File) @@ @],
                 [Base(o) EXCEPT !.manifest.assets = @ \o @],
                 [Base(o) EXCEPT !.manifest.present = FALSE],
                 [Base(o) EXCEPT !.manifest.name = "other"],
                 \* the validation manifest comes with the asset
                 [Base(o) EXCEPT !.files = CopyExcluding(@, ValidationRuns),
                                 !.uploads.data.files = (ValidationRuns :> Manifest(PublicData)) @@ @],
                 \* one backup from before assets had names
                 [Base("seed") EXCEPT !.uploaded = <<>>, !.uploads = "official-runs" :> Benchmark]}
           \* two assets, that fit or bring the same file
           \cup {[Base(o) EXCEPT !.manifest.assets = @ \o <<[name |-> "seeds", required |-> TRUE, paths |-> <<>>]>>,
                                 !.uploaded = @ \o <<"seeds">>,
                                 !.uploads = [data |-> Benchmark, seeds |-> seeds]] :
                    seeds \in {Generator, Benchmark}} : o \in Origins}

\* Targets, window and limits.
Policies ==
    UNION {{[Base(o) EXCEPT !.spec.targets = ts] :
               ts \in {<<>>, <<CpuTarget, GpuTarget>>, <<CpuTarget, CpuTarget>>,
                       <<[CpuTarget EXCEPT !.accelerator = "gpu"]>>,
                       <<[CpuTarget EXCEPT !.name = "linux-amd64-cpu"]>>,
                       <<[CpuTarget EXCEPT !.runStage = FALSE]>>,
                       <<[CpuTarget EXCEPT !.solutionImage.digest = FALSE]>>,
                       <<[GpuTarget EXCEPT !.hardware.version = "12.6"]>>,
                       <<[GpuTarget EXCEPT !.evaluatorImage.tag = "cu126"]>>,
                       <<[GpuTarget EXCEPT !.validation = FALSE]>>}}
           \cup {[Base(o) EXCEPT !.spec.closes = 1], [Base(o) EXCEPT !.spec.starts = 1],
                 [Base(o) EXCEPT !.spec.closes = 0],
                 [Base(o) EXCEPT !.spec.publication = "public_after_close"],
                 [Base(o) EXCEPT !.spec.validationLimit = -1],
                 [Base(o) EXCEPT !.spec.officialLimit = 0],
                 [Base(o) EXCEPT !.spec.evaluator = <<"elsewhere", "run.py">>]} : o \in Origins}

Schemas ==
    {[Base("seed") EXCEPT !.spec.metrics = m] :
        m \in {[Metrics EXCEPT !.ties = <<>>],
               [Metrics EXCEPT !.primary = "time", !.ties = <<"score">>],
               [Metrics EXCEPT !.primary = "unknown"],
               [Metrics EXCEPT !.ties = <<"score">>]}}

MCProposals == Executions \cup Trees \cup Policies \cup Schemas
MCUpdates == Schemas \cup {Base("seed")}

Value(name, value) == [name |-> name, value |-> value]
Summary == [score |-> 1, passed |-> 1, total |-> 1]
Both == [validation |-> Summary, official |-> Summary]

MCResults ==
    {[mode |-> "none", metrics |-> m, summaries |-> Both] :
        m \in {<<Value("score", 1), Value("time", 1)>>, <<Value("score", 1), Value("time", 2)>>,
               <<Value("score", 1)>>, <<Value("time", 1)>>,
               <<Value("score", NotFinite)>>, <<Value("score", 1), Value("score", 2)>>}}
    \cup {[mode |-> m, metrics |-> <<Value("score", 1)>>, summaries |-> m :> s] :
             m \in Modes, s \in {Summary, [Summary EXCEPT !.passed = 2]}}

=============================================================================
