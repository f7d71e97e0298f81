SPECIFICATION Spec
CONSTANTS
    Modulus = 128
    Partitions = 10
    CharCodes <- MCCharCodes
    MaxLength = 5
CHECK_DEADLOCK FALSE
INVARIANTS
    TypeOK
    PartitionInRange
    HashIsPolynomial
