\* The parts of the server around the event loop.
SPECIFICATION Spec
CONSTANTS
    \* Static resources: two paths, one file in two directories, three writes.
    URI <- MCURI
    Extension <- MCExtension
    FileName <- MCFileName
    Query <- MCQuery
    Files = {"f"}
    Directories = {d1, d2}
    MaxWrites = 3
    \* Start: any file, any number of threads, calls that fail.
    Configurations <- MCConfigurations
    Arguments = {0, 1, 3}
    MaxThreads = 3
    \* Routes: two routes of the user and the status page.
    URIs = {u1, u2}
    Methods <- MCMethods
    ToUpper <- MCToUpper
    Handlers = {"h1", "h2"}
    MaxRoutes = 2
    RunAdds = {TRUE, FALSE}
    \* Responses: two to a connection.
    FileContents <- MCContents
    Bodies <- MCBodies
    Own = {"Long"}
    UnitsOf <- MCUnitsOf
    HeadCapacity = 9
    MaxResponses = 2
    \* Query strings: every text of up to five characters.
    Alphabet = {"a", "b", "=", "&", "?"}
    MaxLength = 5
    \* Forms of two parts.
    Names <- MCNames
    Filenames <- MCFilenames
    PartTypes <- MCTypes
    Data <- MCData
    Framings <- MCFramings
    Headers = {"missing", "plain", "unbounded", "empty", "Z", "B"}
    MaxParts = 2
INVARIANTS
    StartIsSound
    DispatchIsRight
    ResponsesArrive
    ParametersAsWritten
    FormAsSent
PROPERTIES NeverBack
CHECK_DEADLOCK FALSE
