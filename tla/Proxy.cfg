CONSTANTS
    c1 = c1
    Conn = {c1}
    Serves <- AnyKind
    Thread = {t1, t2}
    Host = Host
    Netns = {n1, n2, n3}
    Fd = {1, 2, 3}
    None = None
SPECIFICATION FairSpec
INVARIANTS ProxyTypeOK ThreadsHome DialsInNamespace NothingOutlives CountedWhileOpen
PROPERTIES TargetEndUncounts BothEndsFreeHandler
CHECK_DEADLOCK FALSE
