---------------------------- MODULE ContextArchive ----------------------------
(***************************************************************************)
(* `ContextBuilder::build_tar`: the build context is walked and archived   *)
(* while others may change it.                                             *)
(***************************************************************************)
EXTENDS Naturals

CONSTANTS
    Files, Dirs, Links,   \* the entries of the tree, by their type
    Ignored,              \* what the ignore files match
    Git,                  \* what is under .git
    MaxChanges            \* bound: changes to the tree during the walk

ASSUME TypesAssumption ==
    /\ Files \cap Dirs = {} /\ Files \cap Links = {} /\ Dirs \cap Links = {}
    /\ MaxChanges \in Nat

Entries == Files \cup Dirs \cup Links

VARIABLES
    root,      \* whether the context path is the current directory, "."
    tree,      \* the entries that exist
    changes,   \* changes so far
    listed,    \* entries read from a directory, and not looked at yet
    found,     \* all entries ever read from a directory
    tar,       \* the entries in the archive, in their place
    walk       \* where build_tar is

walkVars == <<root, tree, changes, listed, found, tar, walk>>

WalkTypeOK ==
    /\ root \in {"cwd", "elsewhere"}
    /\ tree \subseteq Entries
    /\ changes \in 0 .. MaxChanges
    /\ found \subseteq Entries
    /\ listed \subseteq found
    /\ tar \subseteq found
    /\ walk \in {"idle", "walking", "done", "failed"}

WalkInit ==
    /\ root \in {"cwd", "elsewhere"}
    /\ tree = Entries
    /\ changes = 0
    /\ listed = {} /\ found = {} /\ tar = {}
    /\ walk = "idle"

-----------------------------------------------------------------------------
\* Mutant of Skips: .git is not excepted from what is ignored.
SkipsGit(e) == e \in Ignored

\* is_ignored; it is not asked about directories.
Skips(e) == e \in Ignored /\ e \notin Git

\* WalkDir reads a directory in one go; what appears later may be read or not.
BeginWalk ==
    /\ walk = "idle"
    /\ walk' = "walking"
    /\ listed' = tree /\ found' = tree
    /\ UNCHANGED <<root, tree, changes, tar>>

Leave(e) == listed' = listed \ {e} /\ UNCHANGED <<root, tree, changes, found, walk>>

\* append_path looks for the relative path in the current directory, wherever the
\* context is: it may find nothing, which is only logged, or another directory of that
\* name.
VisitDir(e) ==
    /\ walk = "walking" /\ e \in listed \cap Dirs \cap tree
    /\ tar' \in {tar, tar \cup {e}}
    /\ Leave(e)

Skip(e) ==
    /\ walk = "walking" /\ e \in listed \ (Dirs \cap tree)
    /\ Skips(e)
    /\ Leave(e) /\ UNCHANGED tar

\* A link is appended under its whole path, which is its place in the context only
\* if that is the current directory; every failure is passed over.
VisitLink(e) ==
    /\ walk = "walking" /\ e \in (listed \cap Links \cap tree) /\ ~Skips(e)
    /\ tar' \in IF root = "cwd" THEN {tar, tar \cup {e}} ELSE {tar}
    /\ Leave(e)

VisitFile(e) ==
    /\ walk = "walking" /\ e \in (listed \cap Files \cap tree) /\ ~Skips(e)
    /\ tar' = tar \cup {e}
    /\ Leave(e)

\* Mutant of VisitGone: a file that cannot be opened is passed over like a link.
GoneSkipped(e) ==
    /\ walk = "walking" /\ e \in listed \ (Dirs \cap tree) /\ ~Skips(e)
    /\ e \in Files \/ e \notin tree
    /\ Leave(e) /\ UNCHANGED tar

\* What is gone, whatever it was, is opened as a file, and that fails, as it does for
\* a file that cannot be read.
VisitGone(e) ==
    /\ walk = "walking" /\ e \in listed \ (Dirs \cap tree) /\ ~Skips(e)
    /\ e \in Files \/ e \notin tree
    /\ walk' = "failed"
    /\ UNCHANGED <<root, tree, changes, listed, found, tar>>

EndWalk ==
    /\ walk = "walking" /\ listed = {}
    /\ walk' = "done"
    /\ UNCHANGED <<root, tree, changes, listed, found, tar>>

Visit ==
    \/ EndWalk
    \/ \E e \in listed :
          VisitDir(e) \/ Skip(e) \/ VisitLink(e) \/ VisitFile(e) \/ VisitGone(e)

-----------------------------------------------------------------------------
(* Others change the tree.                                                 *)

\* What was not handed out by the directory yet is not found any more.
Vanish(e) ==
    /\ walk = "walking" /\ e \in tree /\ changes < MaxChanges
    /\ tree' = tree \ {e}
    /\ changes' = changes + 1
    /\ \/ UNCHANGED <<listed, found>>
       \/ e \in listed /\ listed' = listed \ {e} /\ found' = found \ {e}
    /\ UNCHANGED <<root, tar, walk>>

Appear(e) ==
    /\ walk = "walking" /\ e \in Entries \ tree /\ changes < MaxChanges
    /\ tree' = tree \cup {e}
    /\ changes' = changes + 1
    /\ \/ UNCHANGED <<listed, found>>
       \/ e \notin found /\ listed' = listed \cup {e} /\ found' = found \cup {e}
    /\ UNCHANGED <<root, tar, walk>>

Change == \E e \in Entries : Vanish(e) \/ Appear(e)

-----------------------------------------------------------------------------
\* Whatever changes meanwhile, a finished archive has exactly the files that the walk
\* found and the ignore files do not exclude, .git always included: a file that goes
\* away is an error, and never a build without it.
ArchiveIsFaithful ==
    walk = "done" => tar \cap Files = found \cap (Files \ (Ignored \ Git))
=============================================================================
