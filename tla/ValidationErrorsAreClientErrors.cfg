SPECIFICATION Spec
CONSTANTS
    r1 = r1
    r2 = r2
    n1 = n1
    Requests <- MCRequests
    Namespaces <- MCNamespaces
    NamespaceOf <- MCNamespaceOf
    Backends = {"redis", "kafka"}
    Timeout = 2
    Jitter = 0
    MaxCopies = 2
SYMMETRY Interchangeable
INVARIANT
    ValidationErrorsAreClientErrors
