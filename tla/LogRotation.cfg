\* Three backups, files of two bytes, records of one byte and of three (longer
\* than a whole file), seven records: enough to fill every slot and to lose
\* the oldest.
CONSTANTS
    MaxBackups = 3
    MaxSize = 2
    Lengths = {1, 3}
    MaxRecords = 7
SPECIFICATION Spec
INVARIANTS
    TypeOK
    FilesAreBounded
    

    
    
