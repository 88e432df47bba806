CONSTANTS
    Mimes = {m1, m2}
    UrlLists <- OneLocalFile
    Readers = {me}
    Source = me
    BatchSize = 2
    MaxTransfers = 2
SPECIFICATION MimeSpec
CHECK_DEADLOCK FALSE
INVARIANTS StopsWithMimeData
