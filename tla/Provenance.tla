----------------------------- MODULE Provenance -----------------------------
(***************************************************************************)
(* The jobs of a collection campaign, one after the other, over any number *)
(* of machines: setups and conversions (SourceTree, then Weights),         *)
(* publications and collections (Weights), with the pins changing in       *)
(* between, kills anywhere and machines that are given up.                 *)
(***************************************************************************)
EXTENDS Weights

vars == <<treeVars, weightVars>>

Jobs == Builders \cup {"publish", "collect"}

Steps == {"idle", "llama", "remote", "patch", "cmake", "weights", "converting",
          "quantize", "quantizing", "audit", "record", "register", "upload",
          "capture"}

TypeOK ==
    /\ TreeTypeOK /\ WeightsTypeOK
    /\ job \in Jobs \cup {None} /\ at \in Steps
    /\ job = None => at = "idle" /\ todo = {}

Init == TreeInit /\ WeightsInit

Next ==
    \/ (EditPin \/ TreeStep \/ \E j \in Builders : StartBuilder(j)) /\ UNCHANGED weightVars
    \/ ConvertStep \/ PublishStep \/ SetupStep
    \/ \E given \in BOOLEAN : Collect(given)
    \/ CollectDone
    \/ NewSession \/ Stop

Spec == Init /\ [][Next]_vars
-----------------------------------------------------------------------------
(* Properties, with PatchesNeverMissing and BuiltFromThePin of SourceTree *)

\* No cut file of the panel's recipe is recorded or reaches the hub, although a
\* file that is there is taken for done, by the next conversion and by a
\* publication that has an older record: the audit stops the one and the size
\* check the other.  (An MXFP4 file that is cut passes both.)
QuantizedIsWhole ==
    requantizes => \A c \in Versions \cup {converted} : ~Cut(c)

\* With --rehash the hash that is recorded after a publication, and the one a
\* handle has in models.yaml, are of a version on the hub.  Without it they need
\* not be: a conversion killed before it wrote its record leaves the record of
\* another file of the same size.
PublishedIsOnHub ==
    ~blind =>
        /\ published # None => published \in Versions
        /\ block # None /\ block.from = "kaggle" => block.sha \in Versions

Resent == {i \in 2..Len(hub) : hub[i] = hub[i - 1]}

\* With --rehash a file is sent again as the next version only because a job was
\* killed or failed, once for each: the record of a publication comes after the
\* upload.  (Without it the record of another file makes an old one look new.)
ResentOnlyAfterKill == ~blind => Cardinality(Resent) <= stops

\* The manifests of a collection that uses the --gguf a setup printed, hashed
\* and with the same entry in models.yaml, name the bytes that produced the
\* trace, whatever conversions and publications ran in between.
PreparedManifestIsTrue ==
    manifest # None /\ manifest.as_prepared => manifest.claim = manifest.bytes

\* kaggle_setup says of the SHA256 that it is computed from the bytes on the disk
\* and never copied from models.yaml, and that it is in every manifest; find_gguf
\* says that the manifest tells two copies of a name apart.
ManifestNamesTheBytes ==
    manifest # None => manifest.claim = manifest.bytes
=============================================================================
