\* Lists of up to three ranges, with numbers inside, at and past the end of the
\* body and one that a size_t of eight values cannot hold; every other kind of
\* range header, and each kind of Accept-Encoding and of task.
SPECIFICATION Spec
CONSTANTS
    SizeMod = 8
    BodySizes = {0, 1, 4}
    Codes = {200, 404}
    Numbers = {0, 1, 3, 9}
    MaxRanges = 3
    RangeKinds = {"absent", "otherUnit", "noEquals", "list"}
    AcceptEncodings = {"absent", "gzip"}
    TaskTypes = {"LOCAL_TASK", "STATIC_RESOURCES_TASK"}
    CompressStaticResources = TRUE
    GzipOverhead = 2
    PartOverhead = 3
INVARIANTS
    RangesWithinBody
    ServedAsAsked
    HeadersTellBody
