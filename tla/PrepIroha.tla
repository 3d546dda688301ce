------------------------------ MODULE PrepIroha ------------------------------
(***************************************************************************)
(* etc/task-prep-iroha.ts, run again and again and interrupted anywhere:   *)
(* it links or clones the Iroha repository, builds it unless prep/iroha    *)
(* has all the artifacts, and copies the schema into the package.  What    *)
(* survives an interruption is on the disk; a file that is being copied is *)
(* there, incomplete, from the first moment.                               *)
(***************************************************************************)
EXTENDS Naturals, Sequences, SequencesExt

CONSTANTS
  Revisions, Clones,      \* what --git and --path may refer to
  Nothing                 \* no repository

ASSUME NothingAssumption ==
  Nothing \notin Revisions \cup Clones /\ Revisions \cap Clones = {}

Artifacts == <<"irohad", "kagami", "executor.wasm", "schema.json">>      \* in the order of copying
Sources == Revisions \cup Clones

VARIABLES
  args,       \* of the run under way, or of the last one
  step,       \* what it does next; "done", "failed", "interrupted"
  copied,     \* artifacts copied by copyFromRepoToPrep
  repo,       \* what .iroha is: its origin, and whether it is checked out
  prep,       \* prep/iroha: artifact -> its origin, and whether it is complete
  schema      \* packages/core/data-model/schema/schema.json

prepVars == <<args, step, copied, repo, prep, schema>>

File(of, whole) == [of |-> of, whole |-> whole]
Files == [of : Sources \cup {Nothing}, whole : BOOLEAN]
Args == [source : Sources \cup {Nothing}, force : BOOLEAN]
Ended == {"done", "failed", "interrupted"}

PrepInit ==
  /\ args = [source |-> Nothing, force |-> FALSE] /\ step = "done"
  /\ copied = 0
  /\ repo = File(Nothing, FALSE)
  /\ prep = <<>>
  /\ schema = File(Nothing, FALSE)

-----------------------------------------------------------------------------
\* The task is started; a new source replaces .iroha first.
Run(new) ==
  /\ step \in Ended
  /\ args' = new
  /\ step' = IF new.source = Nothing THEN "check" ELSE "remove"
  /\ copied' = 0
  /\ UNCHANGED <<repo, prep, schema>>

\* Deno.remove: a link goes at once, a repository file by file.
RemoveIroha ==
  /\ step = "remove"
  /\ \/ repo' = File(Nothing, FALSE) /\ step' = IF args.source \in Clones THEN "link" ELSE "init"
     \/ repo.whole /\ repo.of \in Revisions /\ repo' = File(repo.of, FALSE) /\ UNCHANGED step
  /\ UNCHANGED <<args, copied, prep, schema>>

\* --path: whatever prep/iroha has stays.
LinkPath ==
  /\ step = "link"
  /\ repo' = File(args.source, TRUE)
  /\ step' = "check"
  /\ UNCHANGED <<args, copied, prep, schema>>

\* --git: ensureDir and git init; then git fetch and reset, which may fail.
GitInit ==
  /\ step = "init"
  /\ repo' = File(args.source, FALSE)
  /\ step' = "fetch"
  /\ UNCHANGED <<args, copied, prep, schema>>

GitFetch ==
  /\ step = "fetch"
  /\ \/ repo' = File(args.source, TRUE) /\ step' = "empty"
     \/ step' = "failed" /\ UNCHANGED repo
  /\ UNCHANGED <<args, copied, prep, schema>>

\* Faulty variant: what prep/iroha has stays after a clone too.
KeepPrep ==
  /\ step = "empty" /\ step' = "check"
  /\ UNCHANGED <<args, copied, repo, prep, schema>>

\* emptyDir after a clone; any of its files may go first.
EmptyPrep ==
  /\ step = "empty"
  /\ \/ prep = <<>> /\ step' = "check" /\ UNCHANGED prep
     \/ /\ \E a \in DOMAIN prep : prep' = [b \in DOMAIN prep \ {a} |-> prep[b]]
        /\ UNCHANGED step
  /\ UNCHANGED <<args, copied, repo, schema>>

ArtifactsReady == DOMAIN prep = ToSet(Artifacts)

\* The main condition and assertRepoIsReady, which looks for a directory.
Check ==
  /\ step = "check"
  /\ step' = CASE ~args.force /\ ArtifactsReady -> "schema"
               [] repo.of = Nothing /\ (args.force \/ ~ArtifactsReady) -> "failed"
               [] OTHER -> "build"
  /\ UNCHANGED <<args, copied, repo, prep, schema>>

\* cargo and build_wasm.sh, in the repository.
Build ==
  /\ step = "build"
  /\ \/ repo.whole /\ step' = "emptyForCopy"
     \/ step' = "failed"
  /\ UNCHANGED <<args, copied, repo, prep, schema>>

\* Faulty variant: files are copied over those of an earlier build.
CopyOver ==
  /\ step = "emptyForCopy" /\ step' = "copy"
  /\ UNCHANGED <<args, copied, repo, prep, schema>>

\* copyFromRepoToPrep: emptyDir, then one artifact after the other.
EmptyForCopy ==
  /\ step = "emptyForCopy"
  /\ \/ prep = <<>> /\ step' = "copy" /\ UNCHANGED prep
     \/ /\ \E a \in DOMAIN prep : prep' = [b \in DOMAIN prep \ {a} |-> prep[b]]
        /\ UNCHANGED step
  /\ UNCHANGED <<args, copied, repo, schema>>

Put(a, file) == prep' = [b \in DOMAIN prep \cup {a} |-> IF b = a THEN file ELSE prep[b]]

CopyStarts ==
  /\ step = "copy" /\ copied < Len(Artifacts)
  /\ Put(Artifacts[copied + 1], File(repo.of, FALSE))
  /\ step' = "copying"
  /\ UNCHANGED <<args, copied, repo, schema>>

CopyEnds ==
  /\ step = "copying"
  /\ Put(Artifacts[copied + 1], File(repo.of, TRUE))
  /\ copied' = copied + 1
  /\ step' = IF copied + 1 = Len(Artifacts) THEN "schema" ELSE "copy"
  /\ UNCHANGED <<args, repo, schema>>

\* copySchemaJson, which always runs; it copies what it finds.
SchemaStarts ==
  /\ step = "schema"
  /\ schema' = File(prep["schema.json"].of, FALSE)
  /\ step' = "writing"
  /\ UNCHANGED <<args, copied, repo, prep>>

SchemaEnds ==
  /\ step = "writing"
  /\ schema' = prep["schema.json"]
  /\ step' = "done"
  /\ UNCHANGED <<args, copied, repo, prep>>

\* The run is killed, or a file operation throws.
Interrupted ==
  /\ step \notin Ended
  /\ step' = "interrupted"
  /\ UNCHANGED <<args, copied, repo, prep, schema>>

PrepNext ==
  \/ \E new \in Args : Run(new)
  \/ RemoveIroha \/ LinkPath \/ GitInit \/ GitFetch \/ EmptyPrep
  \/ Check \/ Build \/ EmptyForCopy \/ CopyStarts \/ CopyEnds
  \/ SchemaStarts \/ SchemaEnds
  \/ Interrupted

PrepSpec == PrepInit /\ [][PrepNext]_prepVars

-----------------------------------------------------------------------------
Steps == Ended \cup {"remove", "link", "init", "fetch", "empty", "check", "build",
                     "emptyForCopy", "copy", "copying", "schema", "writing"}

PrepTypeOK ==
  /\ args \in Args
  /\ step \in Steps
  /\ copied \in 0 .. Len(Artifacts)
  /\ repo \in Files /\ schema \in Files
  /\ DOMAIN prep \subseteq ToSet(Artifacts)
  /\ \A a \in DOMAIN prep : prep[a] \in Files /\ prep[a].of # Nothing

\* What artifactsReady accepts by its names alone is the work of one run on
\* one source, however many runs were interrupted before: no binary of one
\* revision beside the schema of another.  Only the file copied last may be
\* incomplete.
AcceptedIsOfOneSource ==
  ArtifactsReady =>
    /\ \A a, b \in DOMAIN prep : prep[a].of = prep[b].of
    /\ \A a \in DOMAIN prep : prep[a].whole \/ a = Last(Artifacts)

\* A run with --git or --force that ends well leaves the artifacts and the
\* schema of the repository it was given, complete, whatever happened before.
FreshRunDelivers ==
  step = "done" /\ (args.force \/ args.source \in Revisions) =>
    /\ ArtifactsReady
    /\ \A a \in DOMAIN prep : prep[a] = repo
    /\ schema = repo /\ repo.whole
    /\ args.source # Nothing => repo.of = args.source
=============================================================================
