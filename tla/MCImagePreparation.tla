------------------------- MODULE MCImagePreparation -------------------------
EXTENDS ImagePreparation

CONSTANTS src, main, key, target, head

MCFiles == {main, key, head}
MCDirs  == {src}
MCLinks == {target}

\* head is under .git, and matched by the ignore files like key.
MCIgnored == {key, head}
MCGit     == {head}

MCWords == {"from", "alpine", "cmd", "entrypoint", "run", "copy service", "run apk add"}

MCLines ==
    {Line(word) : word \in {"from", "alpine", "cmd", "entrypoint", "run"}}
        \cup {[word |-> word, more |-> "yes"] : word \in {"cmd", "run"}}

MCUnbuilt == <<Line("unbuilt")>>

\* All Dockerfiles of at most four lines.
MCDockerfiles == UNION {[1 .. n -> MCLines] : n \in 0 .. 4}
=============================================================================
