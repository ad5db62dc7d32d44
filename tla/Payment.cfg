SPECIFICATION Spec
CHECK_DEADLOCK FALSE
INVARIANTS
    TypeOK
    SequenceFromSource
    InvoiceNeverDropped
