\* The smallest log: one backup, records that fit.
CONSTANTS
    MaxBackups = 1
    MaxSize = 2
    Lengths = {1}
    MaxRecords = 3
SPECIFICATION Spec
INVARIANT NoFileMeansClosed
