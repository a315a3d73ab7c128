-------------------------- MODULE ProvenanceProofs --------------------------
(***************************************************************************)
(* Proofs about Provenance, for any commits, patches, edits, jobs, kills   *)
(* and versions.                                                           *)
(***************************************************************************)
EXTENDS Provenance, FiniteSetTheorems, TLAPS

-----------------------------------------------------------------------------
(* The inductive invariant *)

\* While the patches go on, those that are not to do are there; when a target
\* is compiled, all are.  An empty scratch has no targets.
TreeInProgress ==
    /\ job \in Builders /\ at \notin {"llama", "remote"} => AtPin
    /\ Ready("patch") =>
          /\ todo \subseteq llama_patches(job)
          /\ llama_patches(job) \ todo \subseteq tree.patches
    /\ Ready("cmake") => llama_patches(job) \subseteq tree.patches
    /\ tree = None => built = NothingBuilt

\* Until the pins change, the tree has nothing that is not pinned.
TreeOfThePin ==
    ~moved =>
        /\ tree # None => tree.commit = pin.commit /\ tree.patches \subseteq pin.patches
        /\ \A t \in Targets : built["cuda"][t] \in {None, pin}

\* What a conversion has made when it is at a place, and what is recorded.
ConversionInProgress ==
    /\ job = "convert" /\ at \in {"converting", "quantize"} => f16 # None
    /\ job = "convert" /\ at \in {"converting", "quantize"} =>
          built["cpu"]["llama-quantize"] # None
    /\ Converting("quantizing") => requantizes /\ quantized # None
    /\ Converting("audit") \/ Converting("record") => Artifact # None
    /\ Converting("record") /\ requantizes => ~Cut(Artifact)

\* What a publication knows.
PublicationInProgress ==
    /\ Publishing("upload") =>
          /\ Artifact # None /\ converted # published
          /\ requantizes => ~Cut(Artifact)
          /\ ~blind => Artifact = converted
    /\ Publishing("record") /\ ~blind => hub # << >> /\ hub[Len(hub)] = converted
    /\ Publishing("register") /\ ~blind => converted \in Versions

\* The last version is not the recorded one, and no upload is being recorded.
Unsettled ==
    hub # << >> /\ hub[Len(hub)] # published /\ ~Publishing("record")

\* Every version sent again was paid with a kill, and so is the one that the
\* next publication may send again.
KillsPay ==
    ~blind => Cardinality(Resent) + (IF Unsettled THEN 1 ELSE 0) <= stops

\* The file a setup printed is there.
PreparedThere ==
    prepared.place # "none" =>
        /\ prepared.place = "hub" => prepared.version \in 1..Len(hub)
        /\ BytesAt(prepared.place, prepared.version) # None

\* What it hashed against models.yaml is what models.yaml says, and nobody is
\* writing it.
PreparedStays ==
    prepared.hashed =>
        /\ prepared.place # "none"
        /\ block # None
        /\ block.sha = BytesAt(prepared.place, prepared.version)
        /\ prepared.place = "gguf" =>
              /\ requantizes => ~Converting("quantizing")
              /\ ~requantizes => ~Converting("converting")

IInv ==
    /\ TypeOK
    /\ TreeInProgress /\ TreeOfThePin
    /\ ConversionInProgress /\ QuantizedIsWhole
    /\ PublicationInProgress /\ PublishedIsOnHub /\ KillsPay
    /\ PreparedThere /\ PreparedStays /\ PreparedManifestIsTrue

-----------------------------------------------------------------------------
(* Types *)

LEMMA NothingBuiltType == NothingBuilt \in [Dirs -> [Targets -> Sources \cup {None}]]
BY DEF NothingBuilt

LEMMA InitIInv == Init => IInv
<1> SUFFICES ASSUME Init PROVE IInv
  OBVIOUS
<1> USE SourceAssumption, WeightsAssumption, ForeignAssumption DEF Init, TreeInit, WeightsInit
<1>1. TypeOK
  <2>1. TreeTypeOK
    <3>1. todo \in SUBSET Patches
      OBVIOUS
    <3>2. jobs \in 0..MaxJobs /\ edits \in 0..MaxEdits
      OBVIOUS
    <3> QED
      BY <3>1, <3>2, NothingBuiltType DEF TreeTypeOK
  <2>2. WeightsTypeOK
    <3>1. hub \in Seq(Ours) /\ Len(hub) <= MaxVersions /\ stops \in 0..MaxStops
      OBVIOUS
    <3>2. prepared \in [place : Places \cup {"none"}, version : 0..MaxVersions,
                        hashed : BOOLEAN]
      BY DEF NothingPrepared
    <3>3. block \in Blocks \cup {None}
      BY DEF Blocks, Contents
    <3> QED
      BY <3>1, <3>2, <3>3 DEF WeightsTypeOK
  <2> QED
    BY <2>1, <2>2 DEF TypeOK, Steps, Jobs
<1>2. TreeInProgress /\ TreeOfThePin
  BY DEF TreeInProgress, TreeOfThePin, Ready, NothingBuilt, Dirs, Builders
<1>3. /\ ConversionInProgress /\ PublicationInProgress
      /\ PreparedThere /\ PreparedStays /\ PreparedManifestIsTrue
  BY DEF ConversionInProgress, PublicationInProgress, PreparedThere, PreparedStays, PreparedManifestIsTrue,
         Converting, Publishing, NothingPrepared
<1>4. QuantizedIsWhole /\ PublishedIsOnHub
  BY DEF QuantizedIsWhole, PublishedIsOnHub, Versions, Cut
<1>5. KillsPay
  <2>1. Resent = {}
    BY DEF Resent
  <2> QED
    BY <2>1, FS_EmptySet DEF KillsPay, Unsettled
<1> QED
  BY <1>1, <1>2, <1>3, <1>4, <1>5 DEF IInv

\* What the steps on the source tree do to the job.
LEMMA TreeStepPlaces ==
  ASSUME TypeOK, TreeStep \/ EditPin \/ \E j \in Builders : StartBuilder(j)
  PROVE  /\ job' \in Builders \cup {None}
         /\ at' \in {"idle", "llama", "remote", "patch", "cmake", "weights"}
         /\ job' = None => at' = "idle" /\ todo' = {}
BY SourceAssumption DEF TypeOK, TreeStep, EditPin, StartBuilder, GitInit, AddRemote, KeepTree, Checkout,
       CheckoutRefused, ApplyPatch, PatchRefused, SkipBuild, Configure, Compile,
       EndJob, GoTo, Ready

LEMMA TreeTypeStep ==
  ASSUME TypeOK, TreeInProgress,
         TreeStep \/ EditPin \/ \E j \in Builders : StartBuilder(j)
  PROVE  TreeTypeOK'
<1> USE DEF TypeOK, TreeTypeOK
<1>1. CASE GitInit \/ AddRemote \/ CheckoutRefused \/ PatchRefused \/ SkipBuild
  BY <1>1 DEF GitInit, AddRemote, CheckoutRefused, PatchRefused, SkipBuild, EndJob
<1>2. CASE KeepTree
  BY <1>2 DEF KeepTree, llama_patches, Sources
<1>3. CASE Checkout
  BY <1>3 DEF Checkout, llama_patches, Sources
<1>4. ASSUME NEW p \in Patches, ApplyPatch(p) PROVE TreeTypeOK'
  <2>1. tree \in Sources
    BY <1>4 DEF ApplyPatch, TreeInProgress, Ready, AtPin
  <2>2. tree' \in Sources
    BY <1>4, <2>1 DEF ApplyPatch, Sources
  <2> QED
    BY <1>4, <2>2 DEF ApplyPatch
<1>5. CASE Configure
  <2>1. job \in Builders
    BY <1>5 DEF Configure, Ready
  <2>2. build_targets(job) \subseteq Targets
    BY <2>1 DEF Builders, build_targets, Targets
  <2> QED
    BY <1>5, <2>2 DEF Configure
<1>6. ASSUME NEW t \in Targets, Compile(t) PROVE TreeTypeOK'
  BY <1>6 DEF Compile, build_dir, Dirs
<1>7. CASE EditPin
  BY <1>7, SourceAssumption DEF EditPin
<1>8. ASSUME NEW j \in Builders, StartBuilder(j) PROVE TreeTypeOK'
  BY <1>8, SourceAssumption DEF StartBuilder
<1> QED
  BY <1>1, <1>2, <1>3, <1>4, <1>5, <1>6, <1>7, <1>8 DEF TreeStep

LEMMA AcquiredPlace == Acquired \in Places \cup {"none"}
BY DEF Acquired, Places

\* What is at a place is a file or nothing.
LEMMA BytesType ==
  ASSUME TypeOK, NEW place \in Places, NEW version,
         place = "hub" => version \in 1..Len(hub)
  PROVE  BytesAt(place, version) \in Contents \cup {None}
<1> USE DEF TypeOK, WeightsTypeOK, Contents
<1>1. CASE place = "hub"
  BY <1>1 DEF BytesAt
<1>2. CASE place # "hub"
  BY <1>2 DEF BytesAt, Places, Artifact
<1> QED
  BY <1>1, <1>2

PreparedPaths ==
    [place : Places \cup {"none"}, version : 0..MaxVersions, hashed : BOOLEAN]

LEMMA RegisterType ==
  ASSUME TypeOK, NEW b \in Blocks, NEW force \in BOOLEAN, Register(b, force)
  PROVE  block' \in Blocks \cup {None} /\ prepared' \in PreparedPaths
<1>1. prepared \in PreparedPaths /\ block \in Blocks \cup {None}
  BY DEF TypeOK, WeightsTypeOK, PreparedPaths
<1>2. block' \in Blocks \cup {None}
  BY <1>1 DEF Register
<1>3. Outdated(prepared) \in PreparedPaths
  BY <1>1 DEF Outdated, PreparedPaths
<1> QED
  BY <1>1, <1>2, <1>3 DEF Register

\* A conversion finds or makes files of ours.
LEMMA ConvertTypeStep ==
  ASSUME IInv, ConvertStep
  PROVE  TypeOK'
<1> USE DEF IInv, TypeOK
<1>1. TreeTypeOK'
  BY DEF TreeTypeOK, ConvertStep, NoQuantizer, StartConverter, ConverterDone, AlreadyConverted,
         StartQuantizer, QuantizerDone, AlreadyQuantized, Audit, WriteRecord,
         RegisterConverted, Stay, EndJob
<1>2. /\ job' \in Jobs \cup {None} /\ at' \in Steps
      /\ job' = None => at' = "idle" /\ todo' = {}
  BY SourceAssumption
     DEF ConvertStep, NoQuantizer, StartConverter, ConverterDone, AlreadyConverted,
         StartQuantizer, QuantizerDone, AlreadyQuantized, Audit, WriteRecord,
         RegisterConverted, EndJob, GoTo, Steps, Converting, ReadyToConvert, Jobs, Builders
<1>3. WeightsTypeOK'
  <2> USE DEF WeightsTypeOK
  <2>1. CASE NoQuantizer \/ AlreadyConverted \/ AlreadyQuantized
    BY <2>1 DEF NoQuantizer, AlreadyConverted, AlreadyQuantized, Stay, disk, records, rest
  <2>2. CASE StartConverter
    <3>1. f16' \in Ours
      BY <2>2 DEF StartConverter, ReadyToConvert, Converting, TreeInProgress, Builders, AtPin,
                  TreeTypeOK, Sources, Ours
    <3> QED
      BY <2>2, <3>1 DEF StartConverter, Stay, records, rest
  <2>3. CASE ConverterDone
    <3>1. f16' \in Ours
      BY <2>3 DEF ConverterDone, Converting, ConversionInProgress, Finished, Ours
    <3> QED
      BY <2>3, <3>1 DEF ConverterDone, Stay, records, rest
  <2>4. CASE StartQuantizer
    <3>1. quantized' \in Ours \cup {None}
      <4>1. CASE Cut(f16)
        BY <2>4, <4>1 DEF StartQuantizer
      <4>2. CASE ~Cut(f16)
        <5>1. f16 \in Ours /\ built["cpu"]["llama-quantize"] \in Sources
          BY <2>4 DEF StartQuantizer, Converting, ConversionInProgress, TreeTypeOK, Dirs, Targets
        <5>2. built["cpu"]["llama-quantize"].commit \in Commits /\ f16.converter \in Commits
          BY <5>1 DEF Sources, Ours
        <5>3. quantized' = [converter |-> f16.converter, whole |-> FALSE,
                            quantizer |-> built["cpu"]["llama-quantize"].commit]
          BY <2>4, <4>2 DEF StartQuantizer
        <5> QED
          BY <5>2, <5>3 DEF Ours
      <4> QED
        BY <4>1, <4>2
    <3> QED
      BY <2>4, <3>1 DEF StartQuantizer, Stay, records, rest
  <2>5. CASE QuantizerDone
    <3>1. quantized' \in Ours
      BY <2>5 DEF QuantizerDone, ConversionInProgress, Finished, Ours
    <3> QED
      BY <2>5, <3>1 DEF QuantizerDone, Stay, records, rest
  <2>6. CASE Audit
    <3>1. f16' \in Ours \cup {None}
      BY <2>6 DEF Audit
    <3> QED
      BY <2>6, <3>1 DEF Audit, Stay, records, rest
  <2>7. CASE WriteRecord
    <3>1. converted' \in Ours \cup {None}
      BY <2>7 DEF WriteRecord, Artifact
    <3> QED
      BY <2>7, <3>1 DEF WriteRecord, Stay, disk, rest
  <2>8. CASE RegisterConverted
    <3>1. block' \in Blocks \cup {None} /\ prepared' \in PreparedPaths
      <4>1. CASE KeepBlock
        BY <4>1 DEF KeepBlock, PreparedPaths
      <4>2. ASSUME NEW force \in BOOLEAN,
                   Register([from |-> "local", sha |-> converted], force)
            PROVE  block' \in Blocks \cup {None} /\ prepared' \in PreparedPaths
        <5>1. [from |-> "local", sha |-> converted] \in Blocks
          BY DEF Blocks, Contents
        <5> QED
          BY <4>2, <5>1, RegisterType
      <4> QED
        BY <2>8, <4>1, <4>2 DEF RegisterConverted
    <3> QED
      BY <2>8, <3>1 DEF RegisterConverted, Stay, disk, PreparedPaths
  <2> QED
    BY <2>1, <2>2, <2>3, <2>4, <2>5, <2>6, <2>7, <2>8 DEF ConvertStep
<1> QED
  BY <1>1, <1>2, <1>3

LEMMA PublishTypeStep ==
  ASSUME IInv, PublishStep
  PROVE  TypeOK'
<1> USE DEF IInv, TypeOK
<1>1. TreeTypeOK'
  BY DEF TreeTypeOK, PublishStep, StartPublish, Upload, WritePublishRecord,
         RegisterPublished, Stay, EndJob
<1>2. /\ job' \in Jobs \cup {None} /\ at' \in Steps
      /\ job' = None => at' = "idle" /\ todo' = {}
  BY WeightsAssumption
     DEF PublishStep, StartPublish, Upload, WritePublishRecord, RegisterPublished,
         Publishing, EndJob, GoTo, Steps, Jobs
<1>3. WeightsTypeOK'
  <2> USE DEF WeightsTypeOK
  <2>1. ASSUME NEW rehash \in BOOLEAN, StartPublish(rehash) PROVE WeightsTypeOK'
    BY <2>1 DEF StartPublish, Stay, disk, records
  <2>2. CASE Upload
    <3>1. Artifact \in Ours
      BY <2>2 DEF Upload, PublicationInProgress, Artifact
    <3>2. hub' \in Seq(Ours) /\ Len(hub') = Len(hub) + 1
      BY <2>2, <3>1 DEF Upload
    <3>3. Len(hub') <= MaxVersions
      BY <2>2, <3>2, WeightsAssumption DEF Upload
    <3> QED
      BY <2>2, <3>2, <3>3 DEF Upload, Stay, disk, rest
  <2>3. CASE WritePublishRecord
    BY <2>3 DEF WritePublishRecord, Stay, disk, rest
  <2>4. CASE RegisterPublished
    <3>1. block' \in Blocks \cup {None} /\ prepared' \in PreparedPaths
      <4>1. CASE KeepBlock
        BY <4>1 DEF KeepBlock, PreparedPaths
      <4>2. ASSUME NEW force \in BOOLEAN,
                   Register([from |-> "kaggle", sha |-> converted], force)
            PROVE  block' \in Blocks \cup {None} /\ prepared' \in PreparedPaths
        <5>1. [from |-> "kaggle", sha |-> converted] \in Blocks
          BY DEF Blocks, Contents
        <5> QED
          BY <4>2, <5>1, RegisterType
      <4> QED
        BY <2>4, <4>1, <4>2 DEF RegisterPublished
    <3> QED
      BY <2>4, <3>1 DEF RegisterPublished, Stay, disk, PreparedPaths
  <2> QED
    BY <2>1, <2>2, <2>3, <2>4 DEF PublishStep
<1> QED
  BY <1>1, <1>2, <1>3

LEMMA SetupTypeStep ==
  ASSUME IInv, SetupStep
  PROVE  TypeOK'
<1> USE DEF IInv, TypeOK
<1>1. TreeTypeOK'
  BY DEF TreeTypeOK, SetupStep, Download, Prepare, SetupRefuses, Stay, EndJob
<1>2. /\ job' \in Jobs \cup {None} /\ at' \in Steps
      /\ job' = None => at' = "idle" /\ todo' = {}
  BY DEF SetupStep, Download, Prepare, SetupRefuses, EndJob, Steps
<1>3. WeightsTypeOK'
  <2> USE DEF WeightsTypeOK
  <2>1. CASE Download
    BY <2>1 DEF Download, Stay, records, rest
  <2>2. ASSUME NEW hashed \in BOOLEAN, Prepare(hashed) PROVE WeightsTypeOK'
    <3>1. prepared' \in [place : Places \cup {"none"}, version : 0..MaxVersions,
                         hashed : BOOLEAN]
      BY <2>2, AcquiredPlace, WeightsAssumption DEF Prepare
    <3> QED
      BY <2>2, <3>1 DEF Prepare, Stay, disk, records
  <2>3. ASSUME NEW hashed \in BOOLEAN, SetupRefuses(hashed) PROVE WeightsTypeOK'
    BY <2>3 DEF SetupRefuses, Stay, disk, records, rest
  <2> QED
    BY <2>1, <2>2, <2>3 DEF SetupStep
<1> QED
  BY <1>1, <1>2, <1>3

LEMMA CollectTypeStep ==
  ASSUME IInv, CollectDone \/ \E given \in BOOLEAN : Collect(given)
  PROVE  TypeOK'
<1> USE DEF IInv, TypeOK
<1>1. TreeTypeOK'
  BY DEF TreeTypeOK, Collect, CollectDone, Stay, EndJob
<1>2. /\ job' \in Jobs \cup {None} /\ at' \in Steps
      /\ job' = None => at' = "idle" /\ todo' = {}
  BY WeightsAssumption DEF Collect, CollectDone, EndJob, GoTo, Steps, Jobs
<1>3. WeightsTypeOK'
  <2> USE DEF WeightsTypeOK
  <2>1. CASE CollectDone
    BY <2>1 DEF CollectDone, Stay, disk, records
  <2>2. ASSUME NEW given \in BOOLEAN, Collect(given) PROVE WeightsTypeOK'
    <3>2. manifest' \in [claim : Contents, bytes : Contents, as_prepared : BOOLEAN]
      <4>1. block.sha \in Contents
        BY <2>2 DEF Collect, Blocks
      <4>2. GivenOrFound(given) \in Contents
        <5>1. CASE given
          <6>1. /\ prepared.place \in Places
                /\ prepared.place = "hub" => prepared.version \in 1..Len(hub)
                /\ BytesAt(prepared.place, prepared.version) # None
            BY <2>2, <5>1 DEF Collect, PreparedThere
          <6> QED
            BY <5>1, <6>1, BytesType DEF GivenOrFound
        <5>2. CASE ~given
          BY <2>2, <5>2 DEF Collect, GivenOrFound, Found, Named, Contents
        <5> QED
          BY <5>1, <5>2
      <4> QED
        BY <2>2, <4>1, <4>2 DEF Collect
    <3> QED
      BY <2>2, <3>2 DEF Collect, Stay, disk, records
  <2> QED
    BY <2>1, <2>2
<1> QED
  BY <1>1, <1>2, <1>3

LEMMA EnvironmentTypeStep ==
  ASSUME IInv, NewSession \/ Stop
  PROVE  TypeOK'
<1> USE DEF IInv, TypeOK
<1>1. TreeTypeOK'
  <2>1. CASE NewSession
    BY <2>1, NothingBuiltType DEF TreeTypeOK, NewSession, EmptyScratch, EndJob
  <2>2. CASE Stop
    BY <2>2 DEF TreeTypeOK, Stop, Stay, EndJob
  <2> QED
    BY <2>1, <2>2
<1>2. /\ job' \in Jobs \cup {None} /\ at' \in Steps
      /\ job' = None => at' = "idle" /\ todo' = {}
  BY DEF NewSession, Stop, EmptyScratch, EndJob, Steps
<1>3. WeightsTypeOK'
  <2> USE DEF WeightsTypeOK
  <2>1. CASE NewSession
    <3>1. Versions \subseteq Ours /\ Artifact \in Ours \cup {None}
      BY DEF Versions, Artifact
    <3>2. attached' \in Contents \cup {None}
      BY <2>1, <3>1 DEF NewSession, Contents
    <3>3. prepared' \in [place : Places \cup {"none"}, version : 0..MaxVersions,
                         hashed : BOOLEAN]
      BY <2>1, WeightsAssumption DEF NewSession, NothingPrepared
    <3> QED
      BY <2>1, <3>2, <3>3 DEF NewSession, records
  <2>2. CASE Stop
    BY <2>2, WeightsAssumption DEF Stop, Stay, disk, records
  <2> QED
    BY <2>1, <2>2
<1> QED
  BY <1>1, <1>2, <1>3

LEMMA TypeStep ==
  ASSUME IInv, Next
  PROVE  TypeOK'
<1>1. CASE (EditPin \/ TreeStep \/ \E j \in Builders : StartBuilder(j)) /\ UNCHANGED weightVars
  <2>1. TreeTypeOK'
    BY <1>1, TreeTypeStep DEF IInv
  <2>2. WeightsTypeOK'
    BY <1>1 DEF IInv, TypeOK, WeightsTypeOK, weightVars
  <2>3. /\ job' \in Jobs \cup {None} /\ at' \in Steps
        /\ job' = None => at' = "idle" /\ todo' = {}
    BY <1>1, TreeStepPlaces DEF IInv, Jobs, Steps
  <2> QED
    BY <2>1, <2>2, <2>3 DEF TypeOK
<1> QED
  BY <1>1, ConvertTypeStep, PublishTypeStep, SetupTypeStep, CollectTypeStep,
     EnvironmentTypeStep DEF Next

-----------------------------------------------------------------------------
(* The tree *)

\* Away from the tree's own steps a job starts, moves on or ends among places
\* that come after the build.
LEMMA WeightsStepPlaces ==
  ASSUME TypeOK,
         \/ ConvertStep \/ PublishStep \/ SetupStep \/ CollectDone \/ Stop
         \/ \E given \in BOOLEAN : Collect(given)
  PROVE  /\ Stay
         /\ \/ job' = None
            \/ job' = job /\ at \notin {"llama", "remote"} /\ at' \notin {"patch", "cmake"}
            \/ job' \notin Builders
<1>1. CASE ConvertStep
  BY <1>1
     DEF ConvertStep, NoQuantizer, StartConverter, ConverterDone, AlreadyConverted,
         StartQuantizer, QuantizerDone, AlreadyQuantized, Audit, WriteRecord,
         RegisterConverted, EndJob, GoTo, Converting, ReadyToConvert
<1>2. CASE PublishStep
  BY <1>2 DEF PublishStep, StartPublish, Upload, WritePublishRecord, RegisterPublished,
              Publishing, EndJob, GoTo, Builders
<1>3. CASE SetupStep
  BY <1>3 DEF SetupStep, Download, Prepare, SetupRefuses, SettingUp, EndJob
<1>4. CASE CollectDone \/ Stop \/ \E given \in BOOLEAN : Collect(given)
  BY <1>4 DEF Collect, CollectDone, Stop, EndJob, Builders
<1> QED
  BY <1>1, <1>2, <1>3, <1>4

LEMMA TreeInProgressStep ==
  ASSUME IInv, Next
  PROVE  TreeInProgress'
<1> USE DEF IInv, TypeOK, TreeTypeOK, TreeInProgress, Ready, AtPin, llama_patches
<1>1. CASE GitInit \/ AddRemote \/ CheckoutRefused \/ PatchRefused
  BY <1>1, SourceAssumption
     DEF GitInit, AddRemote, CheckoutRefused, PatchRefused, EndJob, GoTo
<1>2. CASE KeepTree
  BY <1>2 DEF KeepTree, GoTo
<1>3. CASE Checkout
  <2>1. tree' \in Sources /\ tree' # None
    BY <1>3, SourceAssumption DEF Checkout, Sources
  <2> QED
    BY <1>3, <2>1 DEF Checkout, GoTo
<1>4. ASSUME NEW p \in Patches, ApplyPatch(p) PROVE TreeInProgress'
  <2>1. tree \in Sources /\ tree # None
    BY <1>4 DEF ApplyPatch
  <2>2. tree' \in Sources /\ tree' # None
    BY <1>4, <2>1, SourceAssumption DEF ApplyPatch, Sources
  <2> QED
    BY <1>4, <2>1, <2>2 DEF ApplyPatch
<1>5. CASE SkipBuild \/ Configure
  BY <1>5 DEF SkipBuild, Configure, GoTo
<1>6. ASSUME NEW t \in Targets, Compile(t) PROVE TreeInProgress'
  BY <1>6 DEF Compile, GoTo
<1>7. CASE EditPin
  BY <1>7, SourceAssumption DEF EditPin
<1>8. ASSUME NEW j \in Builders, StartBuilder(j) PROVE TreeInProgress'
  BY <1>8 DEF StartBuilder, GoTo
<1>9. CASE \/ ConvertStep \/ PublishStep \/ SetupStep \/ CollectDone \/ Stop
           \/ \E given \in BOOLEAN : Collect(given)
  BY <1>9, WeightsStepPlaces, SourceAssumption DEF Stay
<1>10. CASE NewSession
  BY <1>10, SourceAssumption DEF NewSession, EmptyScratch, EndJob
<1> QED
  BY <1>1, <1>2, <1>3, <1>4, <1>5, <1>6, <1>7, <1>8, <1>9, <1>10 DEF Next, TreeStep

LEMMA TreeOfThePinStep ==
  ASSUME IInv, Next
  PROVE  TreeOfThePin'
<1> USE DEF IInv, TypeOK, TreeTypeOK, TreeOfThePin, TreeInProgress, Ready, AtPin, llama_patches
<1>1. CASE GitInit \/ AddRemote \/ CheckoutRefused \/ PatchRefused \/ KeepTree \/ SkipBuild \/ Configure
  BY <1>1
     DEF GitInit, AddRemote, CheckoutRefused, PatchRefused, KeepTree, SkipBuild, Configure
<1>2. CASE Checkout
  BY <1>2 DEF Checkout, Sources
<1>3. ASSUME NEW p \in Patches, ApplyPatch(p) PROVE TreeOfThePin'
  <2>1. tree \in Sources /\ tree # None /\ p \in pin.patches
    BY <1>3 DEF ApplyPatch
  <2> QED
    BY <1>3, <2>1 DEF ApplyPatch, Sources
<1>4. ASSUME NEW t \in Targets, Compile(t) PROVE TreeOfThePin'
  <2>1. CASE job = "convert"
    BY <1>4, <2>1 DEF Compile, build_dir, Dirs
  <2>2. CASE job # "convert"
    <3>1. tree \in Sources /\ tree # None /\ pin \in Sources
      BY <1>4 DEF Compile
    <3>2. ~moved => tree.commit = pin.commit /\ tree.patches = pin.patches
      BY <1>4, <2>2, <3>1 DEF Compile
    <3>3. ~moved => tree = pin
      BY <3>1, <3>2 DEF Sources
    <3> QED
      BY <1>4, <3>3 DEF Compile, build_dir, Dirs
  <2> QED
    BY <2>1, <2>2
<1>5. CASE EditPin
  <2>1. ~moved' => tree = None /\ built = NothingBuilt
    BY <1>5 DEF EditPin
  <2>2. built = NothingBuilt => \A t \in Targets : built["cuda"][t] = None
    BY DEF NothingBuilt, Dirs
  <2> QED
    BY <1>5, <2>1, <2>2 DEF EditPin
<1>6. ASSUME NEW j \in Builders, StartBuilder(j) PROVE TreeOfThePin'
  BY <1>6 DEF StartBuilder
<1>7. CASE \/ ConvertStep \/ PublishStep \/ SetupStep \/ CollectDone \/ Stop
           \/ \E given \in BOOLEAN : Collect(given)
  BY <1>7, WeightsStepPlaces DEF Stay
<1>8. CASE NewSession
  BY <1>8 DEF NewSession, EmptyScratch, NothingBuilt, Dirs
<1> QED
  BY <1>1, <1>2, <1>3, <1>4, <1>5, <1>6, <1>7, <1>8 DEF Next, TreeStep

-----------------------------------------------------------------------------
(* Conversions *)

TreeNext == EditPin \/ TreeStep \/ \E j \in Builders : StartBuilder(j)

LEMMA NoneIsNotOurs == None \notin Contents /\ ~Cut(None)
BY WeightsAssumption, ForeignAssumption DEF Contents, Cut

LEMMA FinishedIsWhole ==
  ASSUME NEW c \in Ours
  PROVE  Finished(c) \in Ours /\ ~Cut(Finished(c))
BY DEF Finished, Ours, Cut

LEMMA ConversionInProgressStep ==
  ASSUME IInv, Next
  PROVE  ConversionInProgress'
<1> USE DEF IInv, ConversionInProgress, Converting
<1>1. CASE TreeNext /\ UNCHANGED weightVars
  BY <1>1, TreeStepPlaces DEF TreeNext
<1>2. CASE NoQuantizer \/ WriteRecord \/ RegisterConverted
  BY <1>2, SourceAssumption DEF NoQuantizer, WriteRecord, RegisterConverted, EndJob, GoTo, Builders
<1>3. CASE AlreadyConverted \/ AlreadyQuantized
  BY <1>3, SourceAssumption
     DEF AlreadyConverted, AlreadyQuantized, ReadyToConvert, GoTo, Artifact, disk, Stay
<1>4. CASE StartConverter
  <2>1. f16' # None
    <3>1. f16' \in Ours
      BY <1>4 DEF StartConverter, ReadyToConvert, TreeInProgress, Builders, AtPin,
                  TypeOK, TreeTypeOK, Sources, Ours
    <3> QED
      BY <3>1, ForeignAssumption
  <2> QED
    BY <1>4, <2>1 DEF StartConverter, ReadyToConvert, GoTo, Stay
<1>5. CASE ConverterDone
  <2>1. f16' \in Ours
    BY <1>5, FinishedIsWhole DEF ConverterDone, TypeOK, WeightsTypeOK
  <2> QED
    BY <1>5, <2>1, ForeignAssumption DEF ConverterDone, GoTo, Stay
<1>6. CASE StartQuantizer
  <2>1. CASE Cut(f16)
    BY <1>6, <2>1, SourceAssumption DEF StartQuantizer, EndJob, Builders
  <2>2. CASE ~Cut(f16)
    <3>1. quantized' # None
      <4>1. f16 \in Ours /\ built["cpu"]["llama-quantize"] \in Sources
        BY <1>6 DEF StartQuantizer, TypeOK, WeightsTypeOK, TreeTypeOK, Dirs, Targets
      <4>2. built["cpu"]["llama-quantize"].commit \in Commits /\ f16.converter \in Commits
        BY <4>1 DEF Sources, Ours
      <4>3. quantized' = [converter |-> f16.converter, whole |-> FALSE,
                          quantizer |-> built["cpu"]["llama-quantize"].commit]
        BY <1>6, <2>2 DEF StartQuantizer
      <4>4. quantized' \in Ours
        BY <4>2, <4>3 DEF Ours
      <4> QED
        BY <4>4, ForeignAssumption
    <3>2. requantizes' /\ at' = "quantizing"
      BY <1>6, <2>2 DEF StartQuantizer, GoTo, Stay
    <3> QED
      BY <3>1, <3>2
  <2> QED
    BY <2>1, <2>2
<1>7. CASE QuantizerDone
  <2>1. quantized' \in Ours /\ ~Cut(quantized')
    BY <1>7, FinishedIsWhole DEF QuantizerDone, TypeOK, WeightsTypeOK
  <2> QED
    BY <1>7, <2>1, ForeignAssumption DEF QuantizerDone, GoTo, Stay, Artifact
<1>8. CASE Audit
  <2>1. CASE AuditPasses(Artifact)
    <3>1. Artifact' = Artifact /\ at' = "record" /\ (requantizes => ~Cut(Artifact))
      BY <1>8, <2>1 DEF Audit, Artifact, AuditPasses, GoTo, Stay
    <3>2. Cut(Artifact)' = Cut(Artifact)
      BY <3>1 DEF Cut
    <3> QED
      BY <1>8, <3>1, <3>2 DEF Audit, Stay
  <2>2. CASE ~AuditPasses(Artifact)
    BY <1>8, <2>2, SourceAssumption DEF Audit, EndJob, Builders
  <2> QED
    BY <2>1, <2>2
<1>9. CASE PublishStep
  BY <1>9, SourceAssumption
     DEF PublishStep, StartPublish, Upload, WritePublishRecord, RegisterPublished,
         Publishing, EndJob, Builders
<1>10. CASE SetupStep
  BY <1>10, SourceAssumption DEF SetupStep, Download, Prepare, SetupRefuses, SettingUp, EndJob, Builders
<1>11. CASE \/ CollectDone \/ NewSession \/ Stop
            \/ \E given \in BOOLEAN : Collect(given)
  BY <1>11, SourceAssumption DEF CollectDone, NewSession, EmptyScratch, Stop, Collect, EndJob, Builders
<1> QED
  BY <1>1, <1>2, <1>3, <1>4, <1>5, <1>6, <1>7, <1>8, <1>9, <1>10, <1>11
     DEF Next, TreeNext, ConvertStep

\* What an action does to the versions and to what is recorded of a conversion.
LEMMA UploadVersions ==
  ASSUME IInv, Upload
  PROVE  /\ Artifact \in Ours /\ hub \in Seq(Ours)
         /\ hub' = Append(hub, Artifact)
         /\ Len(hub') = Len(hub) + 1
         /\ Versions' = Versions \cup {Artifact}
<1>1. Artifact \in Ours /\ hub \in Seq(Ours) /\ hub' = Append(hub, Artifact)
  BY DEF IInv, TypeOK, WeightsTypeOK, Upload, PublicationInProgress, Artifact
<1>2. Len(hub') = Len(hub) + 1 /\ DOMAIN hub = 1..Len(hub) /\ DOMAIN hub' = 1..(Len(hub) + 1)
  BY <1>1
<1>3. \A i \in 1..Len(hub) : hub'[i] = hub[i]
  BY <1>1
<1>4. hub'[Len(hub) + 1] = Artifact
  BY <1>1
<1> QED
  BY <1>1, <1>2, <1>3, <1>4 DEF Versions

LEMMA RecordsKept ==
  ASSUME Next, ~Upload, ~WriteRecord
  PROVE  converted' = converted /\ hub' = hub /\ Versions' = Versions /\ requantizes' = requantizes
<1>1. converted' = converted /\ hub' = hub /\ requantizes' = requantizes
  BY DEF Next, weightVars, ConvertStep, NoQuantizer, StartConverter, ConverterDone,
         AlreadyConverted, StartQuantizer, QuantizerDone, AlreadyQuantized, Audit,
         RegisterConverted, PublishStep, StartPublish, WritePublishRecord,
         RegisterPublished, SetupStep, Download, Prepare, SetupRefuses, Collect,
         CollectDone, NewSession, EmptyScratch, Stop, Stay, records
<1> QED
  BY <1>1 DEF Versions

LEMMA QuantizedIsWholeStep ==
  ASSUME IInv, Next
  PROVE  QuantizedIsWhole'
<1> USE DEF IInv, QuantizedIsWhole
<1>1. CASE Upload
  <2>1. requantizes' = requantizes /\ converted' = converted
    BY <1>1 DEF Upload, Stay
  <2> QED
    BY <1>1, <2>1, UploadVersions DEF Upload, PublicationInProgress, Cut
<1>2. CASE WriteRecord
  <2>1. requantizes' = requantizes /\ converted' = Artifact /\ Versions' = Versions
    BY <1>2 DEF WriteRecord, Stay, Versions
  <2> QED
    BY <1>2, <2>1 DEF WriteRecord, ConversionInProgress, Cut
<1>3. CASE ~Upload /\ ~WriteRecord
  BY <1>3, RecordsKept DEF Cut
<1> QED
  BY <1>1, <1>2, <1>3

-----------------------------------------------------------------------------
(* Publications *)

\* What the steps that are not of a publication leave of it.
LEMMA NotPublishing ==
  ASSUME TypeOK, Next, ~PublishStep
  PROVE  /\ job' # "publish" \/ (job' = job /\ at' = at)
         /\ published' = published /\ hub' = hub /\ blind' = blind
<1>1. CASE TreeNext /\ UNCHANGED weightVars
  BY <1>1, TreeStepPlaces, WeightsAssumption DEF TreeNext, weightVars, Builders
<1>2. CASE ConvertStep
  BY <1>2, WeightsAssumption
     DEF ConvertStep, NoQuantizer, StartConverter, ConverterDone, AlreadyConverted,
         StartQuantizer, QuantizerDone, AlreadyQuantized, Audit, WriteRecord,
         RegisterConverted, EndJob, Converting, ReadyToConvert, records, rest
<1>3. CASE SetupStep
  BY <1>3, WeightsAssumption
     DEF SetupStep, Download, Prepare, SetupRefuses, EndJob, records, rest
<1>4. CASE \/ CollectDone \/ NewSession \/ Stop
           \/ \E given \in BOOLEAN : Collect(given)
  BY <1>4, WeightsAssumption
     DEF CollectDone, NewSession, EmptyScratch, Stop, Collect, EndJob, records
<1> QED
  BY <1>1, <1>2, <1>3, <1>4 DEF Next, TreeNext

\* While a publication runs nothing else changes what it is about.
LEMMA PublicationUndisturbed ==
  ASSUME TypeOK, Next, ~PublishStep, job' = "publish"
  PROVE  /\ job = "publish" /\ at' = at
         /\ Artifact' = Artifact /\ converted' = converted /\ requantizes' = requantizes
<1>1. job = "publish" /\ at' = at
  BY NotPublishing
<1>2. CASE TreeNext /\ UNCHANGED weightVars
  BY <1>1, <1>2 DEF weightVars, Artifact
<1>3. CASE ConvertStep
  BY <1>1, <1>3
     DEF ConvertStep, NoQuantizer, StartConverter, ConverterDone, AlreadyConverted,
         StartQuantizer, QuantizerDone, AlreadyQuantized, Audit, WriteRecord,
         RegisterConverted, Converting, ReadyToConvert
<1>4. CASE SetupStep
  BY <1>1, <1>4 DEF SetupStep, Download, Prepare, SetupRefuses, SettingUp, Artifact, Stay, disk, records, EndJob, Builders
<1>5. CASE \/ CollectDone \/ NewSession \/ Stop
           \/ \E given \in BOOLEAN : Collect(given)
  BY <1>1, <1>5, WeightsAssumption
     DEF CollectDone, NewSession, EmptyScratch, Stop, Collect, EndJob
<1> QED
  BY <1>1, <1>2, <1>3, <1>4, <1>5 DEF Next, TreeNext

LEMMA PublicationInProgressStep ==
  ASSUME IInv, Next
  PROVE  PublicationInProgress'
<1> USE DEF IInv, PublicationInProgress, Publishing
<1>1. ASSUME NEW rehash \in BOOLEAN, StartPublish(rehash) PROVE PublicationInProgress'
  <2>1. /\ Artifact' = Artifact /\ converted' = converted /\ published' = published
        /\ requantizes' = requantizes /\ hub' = hub /\ Versions' = Versions
    BY <1>1 DEF StartPublish, Artifact, disk, records, Stay, Versions
  <2>2. Artifact # None /\ (requantizes => ~Cut(Artifact))
    <3>1. converted \in Ours /\ Artifact \in Ours
      BY <1>1 DEF StartPublish, TypeOK, WeightsTypeOK, Artifact
    <3> QED
      BY <1>1, <3>1 DEF StartPublish, MatchesRecord, SameSize, QuantizedIsWhole, Cut
  <2>3. ~blind' => ~blind /\ Artifact = converted
    BY <1>1 DEF StartPublish, MatchesRecord
  <2>4. CASE already_published
    <3>1. ~blind => converted \in Versions
      BY <1>1, <2>4 DEF StartPublish, already_published, PublishedIsOnHub
    <3> QED
      BY <1>1, <2>1, <2>3, <2>4, <3>1 DEF StartPublish, GoTo
  <2>5. CASE ~already_published
    <3>1. at' = "upload" /\ converted # published
      BY <1>1, <2>5 DEF StartPublish, GoTo, already_published
    <3> QED
      BY <2>1, <2>2, <2>3, <3>1 DEF Cut
  <2> QED
    BY <2>4, <2>5
<1>2. CASE Upload
  <2>1. /\ at' = "record" /\ converted' = converted /\ blind' = blind
        /\ ~blind => Artifact = converted
    BY <1>2 DEF Upload, GoTo, rest
  <2>2. hub' # << >> /\ hub'[Len(hub')] = Artifact
    BY <1>2, UploadVersions
  <2> QED
    BY <2>1, <2>2
<1>3. CASE WritePublishRecord
  <2>1. /\ at' = "register" /\ converted' = converted /\ blind' = blind
        /\ Versions' = Versions
    BY <1>3 DEF WritePublishRecord, GoTo, rest, Versions
  <2>2. ~blind => converted \in Versions
    BY <1>3 DEF WritePublishRecord, Versions, TypeOK, WeightsTypeOK
  <2> QED
    BY <2>1, <2>2
<1>4. CASE RegisterPublished
  BY <1>4, WeightsAssumption DEF RegisterPublished, EndJob
<1>5. CASE ~PublishStep
  <2>1. CASE job' # "publish"
    BY <2>1
  <2>2. CASE job' = "publish"
    <3>1. /\ job = "publish" /\ at' = at /\ Artifact' = Artifact /\ converted' = converted
          /\ requantizes' = requantizes /\ published' = published /\ hub' = hub
          /\ blind' = blind /\ Versions' = Versions
      BY <1>5, <2>2, NotPublishing, PublicationUndisturbed DEF Versions
    <3> QED
      BY <3>1 DEF Cut
  <2> QED
    BY <2>1, <2>2
<1> QED
  BY <1>1, <1>2, <1>3, <1>4, <1>5 DEF PublishStep

\* models.yaml only changes when a conversion or a publication registers.
LEMMA BlockKept ==
  ASSUME Next, ~RegisterConverted, ~RegisterPublished
  PROVE  block' = block
BY DEF Next, weightVars, ConvertStep, NoQuantizer, StartConverter, ConverterDone,
       AlreadyConverted, StartQuantizer, QuantizerDone, AlreadyQuantized, Audit,
       WriteRecord, PublishStep, StartPublish, Upload, WritePublishRecord,
       SetupStep, Download, Prepare, SetupRefuses, Collect,
       CollectDone, NewSession, EmptyScratch, Stop, records

LEMMA PublishedIsOnHubStep ==
  ASSUME IInv, Next
  PROVE  PublishedIsOnHub'
<1> USE DEF IInv, PublishedIsOnHub
<1>1. CASE RegisterConverted
  <2>1. /\ published' = published /\ blind' = blind /\ Versions' = Versions
    BY <1>1 DEF RegisterConverted, Versions
  <2>2. block' = block \/ block'.from = "local"
    BY <1>1 DEF RegisterConverted, KeepBlock, Register
  <2> QED
    BY <2>1, <2>2
<1>2. CASE RegisterPublished
  <2>1. /\ published' = published /\ blind' = blind /\ Versions' = Versions
    BY <1>2 DEF RegisterPublished, Versions
  <2>2. block' = block \/ block' = [from |-> "kaggle", sha |-> converted]
    BY <1>2 DEF RegisterPublished, KeepBlock, Register
  <2>3. ~blind => converted \in Versions
    BY <1>2 DEF RegisterPublished, PublicationInProgress
  <2> QED
    BY <2>1, <2>2, <2>3
<1>3. CASE WritePublishRecord
  <2>1. /\ published' = converted /\ blind' = blind /\ Versions' = Versions /\ block' = block
    BY <1>3 DEF WritePublishRecord, Versions, rest
  <2>2. ~blind => converted \in Versions
    BY <1>3 DEF WritePublishRecord, PublicationInProgress, Versions, TypeOK, WeightsTypeOK
  <2> QED
    BY <2>1, <2>2
<1>4. CASE Upload
  <2>1. /\ published' = published /\ blind' = blind /\ block' = block
        /\ Versions \subseteq Versions'
    BY <1>4, UploadVersions DEF Upload, rest
  <2> QED
    BY <2>1
<1>5. ASSUME NEW rehash \in BOOLEAN, StartPublish(rehash) PROVE PublishedIsOnHub'
  BY <1>5 DEF StartPublish, records, Versions
<1>6. CASE ~PublishStep /\ ~RegisterConverted
  <2>1. /\ published' = published /\ blind' = blind /\ Versions' = Versions /\ block' = block
    BY <1>6, NotPublishing, BlockKept DEF Versions, PublishStep
  <2> QED
    BY <2>1
<1> QED
  BY <1>1, <1>2, <1>3, <1>4, <1>5, <1>6 DEF PublishStep

\* Versions sent again, and their number.
LEMMA ResentIsFinite ==
  ASSUME TypeOK
  PROVE  IsFiniteSet(Resent) /\ Cardinality(Resent) \in Nat
<1>1. Len(hub) \in Nat
  BY DEF TypeOK, WeightsTypeOK
<1>2. IsFiniteSet(2..Len(hub))
  BY <1>1, FS_Interval
<1>3. Resent \subseteq 2..Len(hub)
  BY DEF Resent
<1> QED
  BY <1>2, <1>3, FS_Subset, FS_CardinalityType

\* One more version is one more sent again at most, and only if it is the last.
LEMMA ResentByUpload ==
  ASSUME IInv, Upload
  PROVE  /\ hub # << >> /\ hub[Len(hub)] = Artifact =>
               Cardinality(Resent') = Cardinality(Resent) + 1
         /\ ~(hub # << >> /\ hub[Len(hub)] = Artifact) => Resent' = Resent
<1> DEFINE n == Len(hub)
<1>1. /\ n \in Nat /\ Len(hub') = n + 1 /\ hub'[n + 1] = Artifact
      /\ \A i \in 1..n : hub'[i] = hub[i]
      /\ (hub # << >> <=> n # 0)
  BY UploadVersions
<1>2. Resent' = Resent \cup {i \in {n + 1} : n # 0 /\ hub[n] = Artifact}
  <2>1. ASSUME NEW i \in 2..n PROVE i \in Resent' <=> i \in Resent
    BY <1>1 DEF Resent
  <2>2. ASSUME n # 0 PROVE n + 1 \in Resent' <=> hub[n] = Artifact
    BY <1>1, <2>2 DEF Resent
  <2>3. Resent' \subseteq 2..(n + 1) /\ Resent \subseteq 2..n
    BY <1>1 DEF Resent
  <2>4. CASE n = 0
    <3>1. 2..n = {} /\ 2..(n + 1) = {}
      BY <2>4
    <3> QED
      BY <2>3, <2>4, <3>1
  <2>5. CASE n # 0
    <3>1. 2..(n + 1) \subseteq 2..n \cup {n + 1}
      BY <1>1
    <3> QED
      BY <1>1, <2>1, <2>2, <2>3, <2>5, <3>1
  <2> QED
    BY <2>4, <2>5
<1>3. CASE hub # << >> /\ hub[n] = Artifact
  <2>1. Resent' = Resent \cup {n + 1}
    BY <1>1, <1>2, <1>3
  <2>2. IsFiniteSet(Resent) /\ Cardinality(Resent) \in Nat
    BY ResentIsFinite DEF IInv
  <2>3. n + 1 \notin Resent
    BY <1>1 DEF Resent
  <2>4. Cardinality(Resent') = Cardinality(Resent) + 1
    BY <2>1, <2>2, <2>3, FS_AddElement
  <2> QED
    BY <1>3, <2>2, <2>4
<1>4. CASE ~(hub # << >> /\ hub[n] = Artifact)
  BY <1>1, <1>2, <1>4
<1> QED
  BY <1>3, <1>4

\* Only a kill takes a publication off its course.
LEMMA OnlyStopInterrupts ==
  ASSUME TypeOK, Next, ~PublishStep, ~Stop
  PROVE  ~Publishing("record") /\ ~Publishing("record")' /\ stops' = stops
<1> USE DEF Publishing
<1>1. CASE TreeNext /\ UNCHANGED weightVars
  <2>1. job # "publish" /\ stops' = stops
    BY <1>1, WeightsAssumption
       DEF TreeNext, TreeStep, EditPin, StartBuilder, GitInit, AddRemote, KeepTree, Checkout,
           CheckoutRefused, ApplyPatch, PatchRefused, SkipBuild, Configure, Compile,
           Ready, weightVars, Builders
  <2> QED
    BY <2>1, NotPublishing
<1>2. CASE ConvertStep
  <2>1. job # "publish" /\ stops' = stops
    BY <1>2
       DEF ConvertStep, NoQuantizer, StartConverter, ConverterDone, AlreadyConverted,
           StartQuantizer, QuantizerDone, AlreadyQuantized, Audit, WriteRecord,
           RegisterConverted, Converting, ReadyToConvert, rest
  <2> QED
    BY <2>1, NotPublishing
<1>3. CASE SetupStep
  <2>1. job # "publish" /\ stops' = stops
    BY <1>3 DEF SetupStep, Download, Prepare, SetupRefuses, SettingUp, rest, Builders
  <2> QED
    BY <2>1, NotPublishing
<1>4. CASE CollectDone \/ NewSession \/ \E given \in BOOLEAN : Collect(given)
  <2>1. job # "publish" /\ stops' = stops
    BY <1>4, WeightsAssumption DEF CollectDone, NewSession, Collect
  <2> QED
    BY <2>1, NotPublishing
<1> QED
  BY <1>1, <1>2, <1>3, <1>4 DEF Next, TreeNext

LEMMA KillsPayStep ==
  ASSUME IInv, Next
  PROVE  KillsPay'
<1> USE DEF IInv, KillsPay, Unsettled, Publishing
<1>1. Cardinality(Resent) \in Nat /\ stops \in Nat
  BY ResentIsFinite DEF TypeOK, WeightsTypeOK
<1>2. CASE Upload
  <2>1. /\ Publishing("record")' /\ blind' = blind /\ stops' = stops
        /\ ~Publishing("record")
        /\ ~blind => Artifact # published
    BY <1>2 DEF Upload, GoTo, rest, PublicationInProgress
  <2>2. CASE hub # << >> /\ hub[Len(hub)] = Artifact
    BY <1>1, <1>2, <2>1, <2>2, ResentByUpload
  <2>3. CASE ~(hub # << >> /\ hub[Len(hub)] = Artifact)
    <3>1. Resent' = Resent
      BY <1>2, <2>3, ResentByUpload
    <3> QED
      BY <1>1, <2>1, <3>1
  <2> QED
    BY <2>2, <2>3
<1>3. ASSUME hub' = hub PROVE Resent' = Resent
  BY <1>3 DEF Resent
<1>4. ASSUME NEW rehash \in BOOLEAN, StartPublish(rehash) PROVE KillsPay'
  BY <1>1, <1>3, <1>4, WeightsAssumption DEF StartPublish, records, GoTo
<1>5. CASE WritePublishRecord
  <2>1. /\ hub' = hub /\ published' = converted /\ blind' = blind /\ stops' = stops
        /\ ~blind => hub[Len(hub)] = converted
    BY <1>5 DEF WritePublishRecord, rest, PublicationInProgress
  <2> QED
    BY <1>1, <1>3, <1>5, <2>1 DEF WritePublishRecord
<1>6. CASE RegisterPublished
  BY <1>1, <1>3, <1>6, WeightsAssumption DEF RegisterPublished, EndJob
<1>7. CASE Stop
  <2>1. /\ hub' = hub /\ published' = published /\ blind' = blind /\ stops' = stops + 1
    BY <1>7 DEF Stop, records
  <2> QED
    BY <1>1, <1>3, <2>1
<1>8. CASE ~PublishStep /\ ~Stop
  BY <1>1, <1>3, <1>8, NotPublishing, OnlyStopInterrupts
<1> QED
  BY <1>2, <1>4, <1>5, <1>6, <1>7, <1>8 DEF PublishStep

-----------------------------------------------------------------------------
(* The file that a setup printed *)

\* A file of ours that is there stays, and changes only while it is written.
LEMMA ArtifactKept ==
  ASSUME IInv, Next, ~NewSession, Artifact # None
  PROVE  /\ Artifact' # None
         /\ \/ Artifact' = Artifact
            \/ requantizes /\ Converting("quantizing")
            \/ ~requantizes /\ Converting("converting")
<1> USE DEF Artifact
<1>1. CASE TreeNext /\ UNCHANGED weightVars
  BY <1>1 DEF weightVars
<1>2. CASE NoQuantizer \/ AlreadyConverted \/ AlreadyQuantized \/ WriteRecord \/ RegisterConverted
  BY <1>2 DEF NoQuantizer, AlreadyConverted, AlreadyQuantized, WriteRecord, RegisterConverted, disk, Stay
<1>3. CASE StartConverter
  BY <1>3 DEF StartConverter, Stay
<1>4. CASE ConverterDone
  <2>1. f16' \in Ours
    BY <1>4, FinishedIsWhole
       DEF ConverterDone, Converting, IInv, ConversionInProgress, TypeOK, WeightsTypeOK
  <2> QED
    BY <1>4, <2>1, ForeignAssumption DEF ConverterDone, Stay
<1>5. CASE StartQuantizer
  BY <1>5 DEF StartQuantizer
<1>6. CASE QuantizerDone
  <2>1. quantized' \in Ours
    BY <1>6, FinishedIsWhole
       DEF QuantizerDone, Converting, IInv, ConversionInProgress, TypeOK, WeightsTypeOK
  <2> QED
    BY <1>6, <2>1, ForeignAssumption DEF QuantizerDone, Stay
<1>7. CASE Audit
  BY <1>7 DEF Audit, Stay
<1>8. CASE PublishStep
  BY <1>8 DEF PublishStep, StartPublish, Upload, WritePublishRecord, RegisterPublished, disk, Stay
<1>9. CASE SetupStep
  BY <1>9 DEF SetupStep, Download, Prepare, SetupRefuses, disk, Stay
<1>10. CASE CollectDone \/ Stop \/ \E given \in BOOLEAN : Collect(given)
  BY <1>10 DEF CollectDone, Stop, Collect, disk, Stay
<1> QED
  BY <1>1, <1>2, <1>3, <1>4, <1>5, <1>6, <1>7, <1>8, <1>9, <1>10 DEF Next, TreeNext, ConvertStep

\* The two files of others are only ever added.
LEMMA OthersKept ==
  ASSUME IInv, Next, ~NewSession
  PROVE  attached' = attached /\ (models # None => models' = models)
<1>1. attached' = attached /\ models' \in {models, Foreign}
  BY DEF Next, weightVars, ConvertStep, NoQuantizer, StartConverter, ConverterDone,
         AlreadyConverted, StartQuantizer, QuantizerDone, AlreadyQuantized, Audit,
         WriteRecord, RegisterConverted, PublishStep, StartPublish, Upload,
         WritePublishRecord, RegisterPublished, SetupStep, Download, Prepare,
         SetupRefuses, Collect, CollectDone, Stop, disk
<1> QED
  BY <1>1 DEF IInv, TypeOK, WeightsTypeOK

\* A version of the hub is never replaced.
LEMMA VersionKept ==
  ASSUME IInv, Next, NEW v \in 1..Len(hub)
  PROVE  v \in 1..Len(hub') /\ hub'[v] = hub[v]
<1>1. CASE Upload
  BY <1>1, UploadVersions
<1>2. CASE ~Upload
  <2>1. hub' = hub
    BY <1>2 DEF Next, weightVars, ConvertStep, NoQuantizer, StartConverter, ConverterDone,
         AlreadyConverted, StartQuantizer, QuantizerDone, AlreadyQuantized, Audit,
         WriteRecord, RegisterConverted, PublishStep, StartPublish, WritePublishRecord,
         RegisterPublished, SetupStep, Download, Prepare, SetupRefuses, Collect,
         CollectDone, NewSession, EmptyScratch, Stop, Stay, records
  <2> QED
    BY <2>1
<1> QED
  BY <1>1, <1>2

LEMMA BytesKept ==
  ASSUME IInv, Next, ~NewSession, NEW place \in Places, NEW v,
         place = "hub" => v \in 1..Len(hub),
         BytesAt(place, v) # None
  PROVE  /\ BytesAt(place, v)' # None
         /\ \/ BytesAt(place, v)' = BytesAt(place, v)
            \/ /\ place = "gguf"
               /\ \/ requantizes /\ Converting("quantizing")
                  \/ ~requantizes /\ Converting("converting")
<1>1. CASE place = "hub"
  BY <1>1, VersionKept DEF BytesAt
<1>2. CASE place = "gguf"
  BY <1>2, ArtifactKept DEF BytesAt
<1>3. CASE place = "attached"
  BY <1>3, OthersKept DEF BytesAt
<1>4. CASE place = "models"
  BY <1>4, OthersKept DEF BytesAt
<1> QED
  BY <1>1, <1>2, <1>3, <1>4 DEF Places

\* A file is written from when its writer starts, and there was none before.
LEMMA WritersStart ==
  ASSUME TypeOK, Next
  PROVE  /\ requantizes /\ Converting("quantizing")' =>
               Artifact = None \/ Converting("quantizing")
         /\ ~requantizes /\ Converting("converting")' =>
               Artifact = None \/ Converting("converting")
<1> USE DEF Converting
<1>1. CASE TreeNext /\ UNCHANGED weightVars
  BY <1>1, TreeStepPlaces DEF TreeNext
<1>2. CASE ConvertStep
  <2>1. CASE StartConverter \/ StartQuantizer
    BY <2>1, SourceAssumption
       DEF StartConverter, StartQuantizer, ReadyToConvert, EndJob, GoTo, Artifact, Builders
  <2>2. CASE NoQuantizer \/ RegisterConverted
    BY <2>2, SourceAssumption DEF NoQuantizer, RegisterConverted, EndJob, Builders
  <2>3. CASE Audit
    BY <2>3, SourceAssumption DEF Audit, EndJob, GoTo, Builders
  <2>4. CASE \/ ConverterDone \/ AlreadyConverted \/ QuantizerDone
             \/ AlreadyQuantized \/ WriteRecord
    BY <2>4 DEF ConverterDone, AlreadyConverted, QuantizerDone, AlreadyQuantized, WriteRecord, GoTo
  <2> QED
    BY <1>2, <2>1, <2>2, <2>3, <2>4 DEF ConvertStep
<1>3. CASE PublishStep
  BY <1>3, SourceAssumption
     DEF PublishStep, StartPublish, Upload, WritePublishRecord, RegisterPublished,
         Publishing, EndJob, Builders
<1>4. CASE SetupStep
  BY <1>4, SourceAssumption DEF SetupStep, Download, Prepare, SetupRefuses, SettingUp, EndJob, Builders
<1>5. CASE \/ CollectDone \/ NewSession \/ Stop
           \/ \E given \in BOOLEAN : Collect(given)
  BY <1>5, SourceAssumption DEF CollectDone, NewSession, EmptyScratch, Stop, Collect, EndJob, Builders
<1> QED
  BY <1>1, <1>2, <1>3, <1>4, <1>5 DEF Next, TreeNext

\* What a setup printed stays, or is outdated by a change of models.yaml.
LEMMA PreparedKept ==
  ASSUME Next, ~NewSession, \A hashed \in BOOLEAN : ~Prepare(hashed)
  PROVE  \/ prepared' = prepared /\ block' = block
         \/ prepared' = Outdated(prepared)
BY DEF Next, weightVars, ConvertStep, NoQuantizer, StartConverter, ConverterDone,
       AlreadyConverted, StartQuantizer, QuantizerDone, AlreadyQuantized, Audit,
       WriteRecord, RegisterConverted, PublishStep, StartPublish, Upload,
       WritePublishRecord, RegisterPublished, SetupStep, Download,
       SetupRefuses, Collect, CollectDone, Stop, records, rest, KeepBlock, Register

LEMMA RequantizesKept ==
  ASSUME Next PROVE requantizes' = requantizes
BY DEF Next, weightVars, ConvertStep, NoQuantizer, StartConverter, ConverterDone,
       AlreadyConverted, StartQuantizer, QuantizerDone, AlreadyQuantized, Audit,
       WriteRecord, RegisterConverted, PublishStep, StartPublish, Upload,
       WritePublishRecord, RegisterPublished, SetupStep, Download, Prepare,
       SetupRefuses, Collect, CollectDone, NewSession, Stop, Stay

\* What a setup has just printed.
LEMMA PrepareStep ==
  ASSUME IInv, NEW hashed \in BOOLEAN, Prepare(hashed)
  PROVE  PreparedThere' /\ PreparedStays'
<1>1. /\ prepared'.place = Acquired /\ Acquired \in Places
      /\ prepared'.hashed = (hashed /\ block.sha # None)
      /\ prepared'.version = IF Acquired = "hub" THEN Len(hub) ELSE 0
  BY AcquiredPlace DEF Prepare
<1>2. block # None /\ block' = block /\ hub' = hub /\ job' = None
  BY DEF Prepare, records, EndJob
<1>3. Acquired = "hub" => Len(hub) \in 1..Len(hub)
  BY DEF Acquired, IInv, TypeOK, WeightsTypeOK
<1>4. BytesAt(Acquired, Len(hub)) # None
  <2>1. CASE Acquired = "hub"
    <3>1. hub[Len(hub)] \in Ours
      BY <1>3, <2>1 DEF IInv, TypeOK, WeightsTypeOK
    <3> QED
      BY <2>1, <3>1, ForeignAssumption DEF BytesAt
  <2>2. CASE Acquired = "attached"
    <3>1. attached # None
      BY <2>2 DEF Acquired, Named
    <3> QED
      BY <2>2, <3>1 DEF BytesAt
  <2>3. CASE Acquired = "models"
    <3>1. models # None
      BY <2>3 DEF Acquired, Named
    <3> QED
      BY <2>3, <3>1 DEF BytesAt
  <2>4. CASE Acquired = "gguf"
    <3>1. Artifact # None
      BY <2>4 DEF Acquired, Named
    <3> QED
      BY <2>4, <3>1 DEF BytesAt
  <2> QED
    BY <1>1, <2>1, <2>2, <2>3, <2>4 DEF Places
<1>5. BytesAt(prepared.place, prepared.version)' = BytesAt(Acquired, Len(hub))
  <2>1. /\ attached' = attached /\ models' = models /\ Artifact' = Artifact /\ hub' = hub
    BY DEF Prepare, disk, records, Stay, Artifact
  <2>2. CASE Acquired = "hub"
    BY <1>1, <2>1, <2>2 DEF BytesAt
  <2>3. CASE Acquired # "hub"
    BY <1>1, <2>1, <2>3 DEF BytesAt
  <2> QED
    BY <2>2, <2>3
<1>6. hashed /\ block.sha # None => block.sha = BytesAt(Acquired, Len(hub))
  BY DEF Prepare, Verified
<1>7. Acquired # "none"
  BY <1>1 DEF Places
<1>8. PreparedThere'
  BY <1>1, <1>2, <1>3, <1>4, <1>5 DEF PreparedThere
<1>9. PreparedStays'
  BY <1>1, <1>2, <1>5, <1>6, <1>7, SourceAssumption DEF PreparedStays, Converting, Builders
<1> QED
  BY <1>8, <1>9

LEMMA PreparedStep ==
  ASSUME IInv, Next
  PROVE  PreparedThere' /\ PreparedStays'
<1>1. CASE NewSession
  BY <1>1 DEF NewSession, NothingPrepared, PreparedThere, PreparedStays
<1>2. CASE \E hashed \in BOOLEAN : Prepare(hashed)
  BY <1>2, PrepareStep
<1>3. CASE ~NewSession /\ \A hashed \in BOOLEAN : ~Prepare(hashed)
  <2>1. prepared'.place = prepared.place /\ prepared'.version = prepared.version
    BY <1>3, PreparedKept DEF Outdated
  <2>2. prepared'.hashed => prepared.hashed /\ block' = block
    BY <1>3, PreparedKept DEF Outdated
  <2>3. CASE prepared.place = "none"
    BY <2>1, <2>2, <2>3 DEF IInv, PreparedThere, PreparedStays
  <2>4. CASE prepared.place # "none"
    <3>1. /\ prepared.place \in Places
          /\ prepared.place = "hub" => prepared.version \in 1..Len(hub)
          /\ BytesAt(prepared.place, prepared.version) # None
      BY <2>4 DEF IInv, TypeOK, WeightsTypeOK, PreparedThere
    <3>2. /\ BytesAt(prepared.place, prepared.version)' # None
          /\ \/ BytesAt(prepared.place, prepared.version)'
                   = BytesAt(prepared.place, prepared.version)
             \/ /\ prepared.place = "gguf"
                /\ \/ requantizes /\ Converting("quantizing")
                   \/ ~requantizes /\ Converting("converting")
      BY <1>3, <2>1, <3>1, BytesKept DEF BytesAt
    <3>3. PreparedThere'
      BY <2>1, <3>1, <3>2, VersionKept DEF PreparedThere
    <3>4. ASSUME prepared'.hashed PROVE PreparedStays'
      <4>1. prepared.hashed /\ block' = block /\ block # None
            /\ block.sha = BytesAt(prepared.place, prepared.version)
        BY <2>2, <3>4 DEF IInv, PreparedStays
      <4>2. prepared.place = "gguf" =>
              /\ requantizes => ~Converting("quantizing") /\ ~Converting("quantizing")'
              /\ ~requantizes => ~Converting("converting") /\ ~Converting("converting")'
        <5>1. prepared.place = "gguf" => Artifact # None
          BY <3>1 DEF BytesAt
        <5> QED
          BY <4>1, <5>1, WritersStart DEF IInv, PreparedStays
      <4> QED
        BY <2>1, <2>4, <3>2, <4>1, <4>2, RequantizesKept DEF PreparedStays
    <3>5. ~prepared'.hashed => PreparedStays'
      BY DEF PreparedStays
    <3> QED
      BY <3>3, <3>4, <3>5
  <2> QED
    BY <2>3, <2>4
<1> QED
  BY <1>1, <1>2, <1>3

LEMMA PreparedManifestIsTrueStep ==
  ASSUME IInv, Next
  PROVE  PreparedManifestIsTrue'
<1> USE DEF IInv, PreparedManifestIsTrue
<1>1. ASSUME NEW given \in BOOLEAN, Collect(given) PROVE PreparedManifestIsTrue'
  BY <1>1 DEF Collect, GivenOrFound, PreparedStays
<1>2. CASE ~(\E given \in BOOLEAN : Collect(given))
  <2>1. manifest' = manifest \/ manifest' = None
    BY <1>2 DEF Next, weightVars, ConvertStep, NoQuantizer, StartConverter, ConverterDone,
         AlreadyConverted, StartQuantizer, QuantizerDone, AlreadyQuantized, Audit,
         WriteRecord, RegisterConverted, PublishStep, StartPublish, Upload,
         WritePublishRecord, RegisterPublished, SetupStep, Download, Prepare,
         SetupRefuses, CollectDone, NewSession, Stop, rest
  <2> QED
    BY <2>1
<1> QED
  BY <1>1, <1>2

-----------------------------------------------------------------------------
(* Theorems *)

LEMMA StutterIInv == IInv /\ UNCHANGED vars => IInv'
<1> SUFFICES ASSUME IInv, UNCHANGED vars PROVE IInv'
  OBVIOUS
<1> USE DEF vars, treeVars, weightVars
<1>1. Artifact' = Artifact /\ Versions' = Versions /\ Resent' = Resent
  BY DEF Artifact, Versions, Resent
<1>2. TypeOK'
  BY DEF IInv, TypeOK, TreeTypeOK, WeightsTypeOK
<1>3. TreeInProgress' /\ TreeOfThePin'
  BY DEF IInv, TreeInProgress, TreeOfThePin, Ready, AtPin, llama_patches
<1>4. ConversionInProgress' /\ QuantizedIsWhole'
  BY <1>1 DEF IInv, ConversionInProgress, QuantizedIsWhole, Converting, Cut
<1>5. PublicationInProgress' /\ PublishedIsOnHub' /\ KillsPay'
  BY <1>1 DEF IInv, PublicationInProgress, PublishedIsOnHub, KillsPay, Unsettled, Publishing, Cut
<1>6. PreparedThere' /\ PreparedStays' /\ PreparedManifestIsTrue'
  BY <1>1 DEF IInv, PreparedThere, PreparedStays, PreparedManifestIsTrue, BytesAt, Converting
<1> QED
  BY <1>2, <1>3, <1>4, <1>5, <1>6 DEF IInv

\* The invariant, for every campaign of jobs.
THEOREM Invariance == Spec => []IInv
<1>1. Init => IInv
  BY InitIInv
<1>2. IInv /\ [Next]_vars => IInv'
  BY TypeStep, TreeInProgressStep, TreeOfThePinStep, ConversionInProgressStep,
     QuantizedIsWholeStep, PublicationInProgressStep, PublishedIsOnHubStep, KillsPayStep,
     PreparedStep, PreparedManifestIsTrueStep, StutterIInv DEF IInv
<1> QED
  BY <1>1, <1>2, PTL DEF Spec

\* Every job and every file is one the program knows.
THEOREM TypeCorrect == Spec => []TypeOK
<1>1. IInv => TypeOK
  BY DEF IInv
<1> QED
  BY <1>1, Invariance, PTL

\* step_build may skip what is there: as long as the pins have not changed since
\* scratch was empty, the CUDA binaries are of the pinned commit and patches.
THEOREM BinariesAreOfThePin == Spec => []BuiltFromThePin
<1>1. IInv => BuiltFromThePin
  BY DEF IInv, TreeOfThePin, BuiltFromThePin
<1> QED
  BY <1>1, Invariance, PTL

\* No step compiles a target without a pinned patch, whatever tree it found.
THEOREM NoPatchIsMissing == Spec => PatchesNeverMissing
<1>1. IInv /\ [Next]_vars =>
        [\A d \in Dirs, t \in Targets :
          built'[d][t] # built[d][t] /\ built'[d][t] # None =>
             /\ built'[d][t].commit = pin.commit
             /\ llama_patches(job) \subseteq built'[d][t].patches]_treeVars
  <2> SUFFICES ASSUME IInv, Next,
                      NEW d \in Dirs, NEW t \in Targets,
                      built'[d][t] # built[d][t], built'[d][t] # None
               PROVE  /\ built'[d][t].commit = pin.commit
                      /\ llama_patches(job) \subseteq built'[d][t].patches
    BY DEF vars, treeVars
  <2>1. CASE NewSession
    BY <2>1 DEF NewSession, EmptyScratch, NothingBuilt
  <2>2. ASSUME NEW u \in Targets, Compile(u)
        PROVE  /\ built'[d][t].commit = pin.commit
               /\ llama_patches(job) \subseteq built'[d][t].patches
    <3>1. /\ built' = [built EXCEPT ![build_dir(job)][u] = tree]
          /\ job \in Builders /\ at = "cmake"
      BY <2>2 DEF Compile, Ready
    <3>2. built'[d][t] = tree
      BY <3>1 DEF IInv, TypeOK, TreeTypeOK, build_dir, Dirs
    <3> QED
      BY <3>1, <3>2 DEF IInv, TreeInProgress, AtPin, Ready
  <2>3. CASE ~NewSession /\ \A u \in Targets : ~Compile(u)
    <3>1. built' = built
      BY <2>3, WeightsStepPlaces
         DEF IInv, Next, TreeStep, EditPin, StartBuilder, GitInit, AddRemote, KeepTree,
             Checkout, CheckoutRefused, ApplyPatch, PatchRefused, SkipBuild, Configure, Stay
    <3> QED
      BY <3>1
  <2> QED
    BY <2>1, <2>2, <2>3
<1> QED
  BY <1>1, Invariance, PTL DEF Spec, PatchesNeverMissing

\* convert_one takes a file that is there for done, and publish_one a record: no
\* cut file of a requantized model is recorded or published all the same.
THEOREM NoCutFileIsPublished == Spec => []QuantizedIsWhole
<1>1. IInv => QuantizedIsWhole
  BY DEF IInv
<1> QED
  BY <1>1, Invariance, PTL

\* With --rehash the recorded hash, and the one under a handle in models.yaml,
\* are of a version on the hub.
THEOREM RecordsAreOnHub == Spec => []PublishedIsOnHub
<1>1. IInv => PublishedIsOnHub
  BY DEF IInv
<1> QED
  BY <1>1, Invariance, PTL

\* A version is sent again only for a kill between an upload and its record.
THEOREM KillsPayForCopies == Spec => []ResentOnlyAfterKill
<1>1. IInv => ResentOnlyAfterKill
  BY ResentIsFinite DEF IInv, KillsPay, ResentOnlyAfterKill, TypeOK, WeightsTypeOK
<1> QED
  BY <1>1, Invariance, PTL

\* The manifests of a collection given the path a setup hashed name its bytes.
THEOREM PreparedClaimsAreTrue == Spec => []PreparedManifestIsTrue
<1>1. IInv => PreparedManifestIsTrue
  BY DEF IInv
<1> QED
  BY <1>1, Invariance, PTL
=============================================================================
