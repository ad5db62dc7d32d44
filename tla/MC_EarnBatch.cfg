CONSTANTS
    None = None
    MaxEarns <- MCMaxEarns
    BatchSize <- MCBatchSize
SPECIFICATION Spec
CHECK_DEADLOCK FALSE
INVARIANTS
    TypeOK
    ResultPartition
    UnattemptedDistinguished
    InvoicesBoundToTx
