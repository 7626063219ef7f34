SPECIFICATION Spec
CONSTANTS
    src = src
    main = main
    key = key
    target = target
    head = head
    Files <- MCFiles
    Dirs <- MCDirs
    Links <- MCLinks
    Ignored <- MCIgnored
    Git <- MCGit
    MaxChanges = 3
    Words <- MCWords
    Dockerfiles <- MCDockerfiles
    Unbuilt <- MCUnbuilt
INVARIANTS
    TypeOK
    MangleKeepsMeaning
    ArchiveIsFaithful
    OwnImage
CHECK_DEADLOCK FALSE
