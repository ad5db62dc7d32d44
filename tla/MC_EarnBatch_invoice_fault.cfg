CONSTANTS
    None = None
    MaxEarns <- MCMaxEarns
    BatchSize <- MCBatchSize
SPECIFICATION Spec
CHECK_DEADLOCK FALSE
INVARIANT
    InvoiceFaultNotMapped
