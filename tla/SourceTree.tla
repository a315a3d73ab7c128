----------------------------- MODULE SourceTree -----------------------------
(***************************************************************************)
(* The llama.cpp checkout of a scratch disk and what is built from it      *)
(* (runtime/setup_kaggle.py: step_llama, _apply_patches, step_build), as   *)
(* the jobs of scripts/kaggle_setup.py and scripts/kaggle_convert.py call  *)
(* them.  Every step is skipped when its work looks done, so what a job    *)
(* finds is what earlier jobs, under other pins or cut short, left.        *)
(*                                                                         *)
(* A source is the commit of HEAD and the patches in the work tree.  A     *)
(* target carries the source it was compiled from.                         *)
(***************************************************************************)
EXTENDS Naturals, FiniteSets

CONSTANTS Commits,   \* commits of llama.cpp that run.yaml ever pins
          Patches,   \* patch files that run.yaml ever pins
          None,
          MaxEdits,  \* bound: changes of the pins
          MaxJobs    \* bound: setups and conversions

Sources == [commit : Commits, patches : SUBSET Patches]

Targets == {"moe_trace", "llama-eval-callback", "llama-quantize"}
Dirs == {"cuda", "cpu"}

\* A job that prepares a machine: kaggle_setup with and without --cpu and
\* --skip-gates, and kaggle_convert.
Builders == {"setup", "setup_skip_gates", "setup_cpu", "convert"}

\* MUTANT: one build directory for both.
SharedBuildDir(j) == "cuda"

\* SetupContext.build_dir: a CPU and a CUDA build never share a directory.
build_dir(j) == IF j \in {"setup", "setup_skip_gates"} THEN "cuda" ELSE "cpu"

\* What cmake is asked for.
build_targets(j) ==
    [setup            |-> {"moe_trace", "llama-eval-callback"},
     setup_skip_gates |-> {"moe_trace"},
     setup_cpu        |-> {"llama-eval-callback", "llama-quantize"},
     convert          |-> {"llama-quantize"}][j]

ASSUME SourceAssumption ==
    /\ None \notin Sources \cup Builders
    /\ Patches \cap Targets = {}
    /\ MaxEdits \in Nat /\ MaxJobs \in Nat

VARIABLES
  pin,     \* run.yaml: build.llama_cpp_commit and build.llama_cpp_patches
  git,     \* scratch/llama.cpp/.git: it is made in three commands
  tree,    \* HEAD and the work tree of scratch/llama.cpp
  built,   \* scratch/build/<dir>/<target>: the source it was compiled from
  job,     \* the job that runs, or None
  at,      \* where it is
  todo,    \* patches still to apply, then targets still to compile
  jobs,    \* setups and conversions so far
  edits,   \* changes of the pins so far
  moved    \* history: have the pins changed since this scratch was empty

treeVars == <<pin, git, tree, built, job, at, todo, jobs, edits, moved>>

\* kaggle_convert builds its SetupContext without the patches.
llama_patches(j) == IF j = "convert" THEN {} ELSE pin.patches

TreeTypeOK ==
    /\ pin \in Sources
    /\ git \in {"missing", "initialised", "remote_added"}
    /\ tree \in Sources \cup {None}
    /\ built \in [Dirs -> [Targets -> Sources \cup {None}]]
    /\ todo \in (SUBSET Patches) \cup (SUBSET Targets)
    /\ jobs \in 0..MaxJobs
    /\ edits \in 0..MaxEdits
    /\ moved \in BOOLEAN

NothingBuilt == [d \in Dirs |-> [t \in Targets |-> None]]

TreeInit ==
    /\ pin \in Sources
    /\ git = "missing" /\ tree = None
    /\ built = NothingBuilt
    /\ job = None /\ at = "idle" /\ todo = {}
    /\ jobs = 0 /\ edits = 0
    /\ moved = FALSE

GoTo(place) == at' = place

\* MUTANT: the work a job had left is not forgotten.
EndJobOnly == job' = None /\ at' = "idle" /\ UNCHANGED todo

EndJob == job' = None /\ at' = "idle" /\ todo' = {}

-----------------------------------------------------------------------------
(* step_llama *)

Ready(place) == job \in Builders /\ at = place

StartBuilder(j) ==
    /\ job = None /\ jobs < MaxJobs
    /\ job' = j /\ GoTo("llama")
    /\ jobs' = jobs + 1
    /\ UNCHANGED <<pin, git, tree, built, todo, edits, moved>>

\* No .git yet: git init ...
GitInit ==
    /\ Ready("llama") /\ git = "missing"
    /\ git' = "initialised" /\ GoTo("remote")
    /\ UNCHANGED <<pin, tree, built, job, todo, jobs, edits, moved>>

\* ... and git remote add, which only this path does.
AddRemote ==
    /\ Ready("remote")
    /\ git' = "remote_added" /\ GoTo("llama")
    /\ UNCHANGED <<pin, tree, built, job, todo, jobs, edits, moved>>

AtPin == tree # None /\ tree.commit = pin.commit

\* MUTANT: a tree at the pinned commit is taken as it is.
KeepTreeUnpatched ==
    /\ Ready("llama") /\ AtPin
    /\ todo' = {} /\ GoTo("patch")
    /\ UNCHANGED <<pin, git, tree, built, job, jobs, edits, moved>>

\* The HEAD is the pin: no checkout, but the patches are still looked at.
KeepTree ==
    /\ Ready("llama") /\ AtPin
    /\ todo' = llama_patches(job) /\ GoTo("patch")
    /\ UNCHANGED <<pin, git, tree, built, job, jobs, edits, moved>>

\* git fetch and git checkout --detach.  A checkout carries the changes of the
\* work tree along or refuses; it never drops a patch of an earlier pin.
Checkout ==
    /\ Ready("llama") /\ git = "remote_added" /\ ~AtPin
    /\ tree' = [commit |-> pin.commit,
                patches |-> IF tree # None THEN tree.patches ELSE {}]
    /\ todo' = llama_patches(job) /\ GoTo("patch")
    /\ UNCHANGED <<pin, git, built, job, jobs, edits, moved>>

\* There is no remote to fetch from, or the checkout would overwrite changes.
CheckoutRefused ==
    /\ Ready("llama") /\ ~AtPin
    /\ git = "initialised" \/ (tree # None /\ tree.patches # {})
    /\ EndJob
    /\ UNCHANGED <<pin, git, tree, built, jobs, edits, moved>>

\* One round of _apply_patches.  A patch the tree already has is recognised by
\* its reverse, and skipped.
ApplyPatch(p) ==
    /\ Ready("patch") /\ p \in todo
    /\ tree' = [commit |-> tree.commit, patches |-> tree.patches \cup {p}]
    /\ todo' = todo \ {p}
    /\ UNCHANGED <<pin, git, built, job, at, jobs, edits, moved>>

\* A patch whose file is not the pinned one, or that is not applied and does
\* not apply, stops the job.
PatchRefused ==
    /\ Ready("patch") /\ todo # {}
    /\ EndJob
    /\ UNCHANGED <<pin, git, tree, built, jobs, edits, moved>>

-----------------------------------------------------------------------------
(* step_build, when the patches are on *)

AllPresent ==
    \A t \in build_targets(job) : built[build_dir(job)][t] # None

\* Every target is there, whatever it was compiled from; or --skip-build.
SkipBuild ==
    /\ Ready("patch") /\ todo = {}
    /\ GoTo("weights")
    /\ UNCHANGED <<pin, git, tree, built, job, todo, jobs, edits, moved>>

Configure ==
    /\ Ready("patch") /\ todo = {} /\ ~AllPresent
    /\ todo' = build_targets(job) /\ GoTo("cmake")
    /\ UNCHANGED <<pin, git, tree, built, job, jobs, edits, moved>>

\* cmake --build brings each target it is given up to date with the tree.
Compile(t) ==
    /\ Ready("cmake") /\ t \in todo
    /\ built' = [built EXCEPT ![build_dir(job)][t] = tree]
    /\ todo' = todo \ {t}
    /\ GoTo(IF todo' = {} THEN "weights" ELSE "cmake")
    /\ UNCHANGED <<pin, git, tree, job, jobs, edits, moved>>

-----------------------------------------------------------------------------

\* run.yaml is edited or pulled between two jobs.
EditPin ==
    /\ job = None /\ edits < MaxEdits
    /\ \E s \in Sources \ {pin} : pin' = s
    /\ edits' = edits + 1
    /\ moved' = (moved \/ tree # None)
    /\ UNCHANGED <<git, tree, built, job, at, todo, jobs>>

\* A new machine, or the user clears the scratch disk.
EmptyScratch ==
    /\ git' = "missing" /\ tree' = None /\ built' = NothingBuilt
    /\ moved' = FALSE
    /\ EndJob
    /\ UNCHANGED <<pin, jobs, edits>>

TreeStep ==
    \/ GitInit \/ AddRemote \/ KeepTree \/ Checkout \/ CheckoutRefused
    \/ \E p \in Patches : ApplyPatch(p)
    \/ PatchRefused
    \/ SkipBuild \/ Configure
    \/ \E t \in Targets : Compile(t)

-----------------------------------------------------------------------------
(* Properties *)

\* What a job compiles has the pinned commit and every patch the job knows of,
\* whatever tree it found: one at the pin that another job left without the
\* patches, one of an earlier pin, one left by a killed job.
PatchesNeverMissing ==
    [][\A d \in Dirs, t \in Targets :
          built'[d][t] # built[d][t] /\ built'[d][t] # None =>
             /\ built'[d][t].commit = pin.commit
             /\ llama_patches(job) \subseteq built'[d][t].patches]_treeVars

\* As long as the pins have not changed since the scratch disk was empty, the
\* CUDA binaries are exactly the pinned source, although presence alone decides
\* that they need not be built and an unpatched tree is on disk in between.
BuiltFromThePin ==
    ~moved => \A t \in Targets : built["cuda"][t] \in {None, pin}
=============================================================================
