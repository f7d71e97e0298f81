SPECIFICATION FairSpec
CONSTANTS
    t1 = t1
    t2 = t2
    t3 = t3
    n1 = n1
    n2 = n2
    Txns <- MCTxns
    Namespaces <- MCNamespaces
    NamespaceOf <- MCNamespaceOf
    Timeout = 4
    Jitter = 1
INVARIANTS
    TypeOK
    GaugeMatchesTable
    CountersBalance
    LookupStaysValid
    OrphansAreReaped
    OnlyOrphansAreCleaned
PROPERTY
    PromiseKept
    EveryTransactionSettles
