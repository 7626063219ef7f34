--------------------------- MODULE ImagePreparation ---------------------------
(***************************************************************************)
(* The first half of `RunningDockerExecutor::start`: the Dockerfile of the *)
(* builder is mangled into a temporary file, the context is archived with  *)
(* it, the daemon builds an image under the tag of the builder's uuid, and *)
(* the container is created from that name.                                *)
(*                                                                         *)
(* The tag is the first part of the uuid: whoever starts a clone of the    *)
(* builder builds under the same one.                                      *)
(***************************************************************************)
EXTENDS DockerfileMangler, ContextArchive

CONSTANTS Dockerfiles,  \* the Dockerfiles of the instance
          Unbuilt       \* a builder without a Dockerfile: with_existing_image

ASSUME DockerfilesAssumption == Dockerfiles \subseteq Seq(Lines)

VARIABLES
    phase,       \* where start is
    name,        \* image_name: whether it has a tag already
    dockerfile,  \* the Dockerfile, until the context is archived
    mangled,     \* the temporary Dockerfile, as long
    tmp,         \* whether the temporary Dockerfile is on the host
    builds,      \* whether the builder has a Dockerfile
    tag,         \* what image the tag of the uuid names
    runs         \* the image of the container

startVars == <<phase, name, dockerfile, mangled, tmp, builds, tag, runs>>
vars == <<startVars, walkVars>>

\* Every variable has its type, and the temporary Dockerfile is on the host only while
\* the context is archived, however `start` ends (`drop(tmp_dockerfile)`).
TypeOK ==
    /\ phase \in {"dockerfile", "context", "build", "create", "ok", "failed"}
    /\ name \in {"bare", "tagged"}
    /\ dockerfile \in Dockerfiles \cup {Unbuilt}
    /\ tmp \in {"none", "present"}
    /\ tmp = "present" <=> phase = "context"
    /\ builds \in {"yes", "no"}
    /\ tag \in {"none", "stale", "other", "own"}
    /\ runs \in {"none", "named", "stale", "other", "own"}
    /\ WalkTypeOK

\* A tag that is there already is left by an earlier start of a clone.
Init ==
    /\ WalkInit
    /\ name \in {"bare", "tagged"}
    /\ dockerfile \in Dockerfiles \cup {Unbuilt}
    /\ builds = IF dockerfile = Unbuilt THEN "no" ELSE "yes"
    /\ phase = IF dockerfile = Unbuilt THEN "create" ELSE "dockerfile"
    /\ mangled = <<>> /\ tmp = "none" /\ runs = "none"
    /\ tag \in {"none", "stale"}

-----------------------------------------------------------------------------
\* prepare_dockerfile.
PrepareDockerfile ==
    /\ phase = "dockerfile" /\ Valid(dockerfile)
    /\ mangled' = Mangle(dockerfile)
    /\ tmp' = "present"
    /\ phase' = "context"
    /\ UNCHANGED <<name, dockerfile, builds, tag, runs, walkVars>>

\* ContextBuilder::from_path, and the Dockerfile goes into the archive.
BeginContext ==
    /\ phase = "context"
    /\ BeginWalk
    /\ dockerfile' = Unbuilt /\ mangled' = <<>>
    /\ UNCHANGED <<phase, name, tmp, builds, tag, runs>>

Archive == phase = "context" /\ Visit /\ UNCHANGED startVars

\* The temporary file is removed, and the archive sent.
StartBuild ==
    /\ phase = "context" /\ walk = "done"
    /\ tmp' = "none"
    /\ phase' = "build"
    /\ UNCHANGED <<name, dockerfile, mangled, builds, tag, runs, walkVars>>

\* The build stream ends, and the daemon has set the tag. A name with a tag gets a second
\* one, and the daemon refuses that.
BuildEnds ==
    /\ phase = "build" /\ name = "bare"
    /\ tag' = "own"
    /\ phase' = "create"
    /\ UNCHANGED <<name, dockerfile, mangled, tmp, builds, runs, walkVars>>

\* Mutant of Ends: the error in the stream is logged, as its other items are.
EndsLogged(to) == phase' = IF phase = "build" THEN "create" ELSE to
Ends(to) == phase' = to

\* Mutant of Drop: the temporary file is left where it is when start fails.
DropKept == tmp' = IF walk = "done" THEN "none" ELSE tmp
Drop == tmp' = "none"

\* Every `?`: a Dockerfile that cannot be read or has no FROM, an archive that fails, an
\* item of the build stream that is an error or has an error_detail, a container that is
\* not created.
Fail ==
    /\ \/ phase \in {"dockerfile", "build", "create"}
       \/ phase = "context" /\ walk \in {"idle", "failed"}
    /\ Ends("failed") /\ Drop
    /\ dockerfile' = Unbuilt /\ mangled' = <<>>
    /\ UNCHANGED <<name, builds, tag, runs, walkVars>>

\* create_container goes by the name, whatever it names by then.
Create ==
    /\ phase = "create"
    /\ builds = "yes" => tag # "none"
    /\ runs' = IF builds = "yes" THEN tag ELSE "named"
    /\ phase' = "ok"
    /\ UNCHANGED <<name, dockerfile, mangled, tmp, builds, tag, walkVars>>

-----------------------------------------------------------------------------
\* Another start of a clone of the builder sets the tag.
Retag ==
    /\ phase \notin {"ok", "failed"}
    /\ tag' = "other"
    /\ UNCHANGED <<phase, name, dockerfile, mangled, tmp, builds, runs, walkVars>>

Disturb == phase = "context" /\ Change /\ UNCHANGED startVars

Next ==
    \/ PrepareDockerfile \/ BeginContext \/ Archive \/ StartBuild \/ BuildEnds
    \/ Fail \/ Create
    \/ Retag \/ Disturb

Spec == Init /\ [][Next]_vars

-----------------------------------------------------------------------------
\* What `mangle` makes of a Dockerfile whose FROM, CMD and ENTRYPOINT lines are
\* instructions of their own is, instruction by instruction, what it is meant to make of
\* it: no CMD and no ENTRYPOINT is left, nothing else is lost or split, and the service
\* is copied at the beginning of the last stage, after a build of several stages too.
MangleKeepsMeaning ==
    mangled # <<>> /\ Plain(dockerfile) => Read(mangled) = Wanted(dockerfile)

\* A builder with a Dockerfile never runs an image that was built before this start: a
\* build that fails, in any of the three ways the stream reports it, ends the start before
\* `create_container`, which would find an image under the same tag. That of another
\* start under the same uuid is not excluded.
OwnImage == phase = "ok" /\ builds = "yes" => runs \in {"own", "other"}
=============================================================================
