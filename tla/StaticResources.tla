--------------------------- MODULE StaticResources ---------------------------
(***************************************************************************)
(* HttpServer::defaultStaticResourcesCallback, which the one worker thread *)
(* of the static queue runs: the MIME type comes from the full URI, the    *)
(* content from the cache or the disk, and whatever was read is put into   *)
(* the cache.  The disk, the caching flag and the directory change at any  *)
(* time.                                                                   *)
(*                                                                         *)
(* The content of a file is the moment it was written: no two writes give  *)
(* the same content, and a larger number is a later write.                 *)
(***************************************************************************)
EXTENDS Integers

CONSTANTS
    URI,        \* the paths asked for, without the query
    Extension,  \* [URI -> what follows the last dot of a path, or "none"]
    Query,      \* what queries are sent: "absent", "plain" (without a dot), or
                \* what follows the last dot of the query
    Files,      \* names of files
    FileName,   \* [URI -> Files]: the first 119 characters of directory and path
    Directories,\* the values pathToStaticResources is given
    MaxWrites   \* bound: how often files are written

ASSUME ResourcesAssumption ==
    /\ FileName \in [URI -> Files]
    /\ DOMAIN Extension = URI
    /\ MaxWrites \in Nat

\* MimeType::generateMimeTypesMap
MimeTypesMap ==
    [css |-> "text/css", html |-> "text/html", jpg |-> "image/jpeg",
     png |-> "image/png", json |-> "application/json", jpeg |-> "image/jpeg",
     js |-> "application/javascript", woff2 |-> "application/font-woff2",
     svg |-> "image/svg+xml"]

VARIABLES
    disk,       \* what the files contain, 0 for a file that does not exist
    writes,     \* writes so far
    path,       \* pathToStaticResources
    cached,     \* isCachedStaticResources
    cache,      \* cachedStaticResourcesMap
    worker,     \* the request the worker is at
    answer,     \* what it returned last
    latest,     \* history: the newest content a path was answered with
    moved,      \* history: the directory was changed
    off         \* history: the cache was not used at some time

staticVars == <<disk, writes, path, cached, cache, worker, answer, latest, moved, off>>

Contents == 0 .. MaxWrites
Types == {MimeTypesMap[e] : e \in DOMAIN MimeTypesMap}
Request == [uri : URI, query : Query]

NoAnswer == [code |-> 0, content |-> 0, type |-> "none"]
Answer404 == [code |-> 404, content |-> 0, type |-> "text/html"]
Ok(content, type) == [code |-> 200, content |-> content, type |-> type]
Responses == [code : {0, 200, 404}, content : Contents, type : Types \cup {"none"}]

\* The worker waits, or is about to open the file of a request whose type is
\* found.
Waiting == [stage |-> "wait"]
Opening == [stage : {"open"}, uri : URI, type : Types]

StaticInit ==
    /\ disk = [d \in Directories |-> [f \in Files |-> 0]]
    /\ writes = 0
    /\ path \in Directories
    /\ cached \in BOOLEAN
    /\ cache = [u \in URI |-> NoAnswer]
    /\ worker = Waiting
    /\ answer = NoAnswer
    /\ latest = [u \in URI |-> 0]
    /\ moved = FALSE
    /\ off = ~cached

-----------------------------------------------------------------------------

\* strrchr over the full URI: a dot of the query comes last, and without one
\* the query belongs to the extension.
ContentTypeKey(r) ==
    CASE r.query = "absent" -> Extension[r.uri]
      [] r.query = "plain"  -> "none"
      [] OTHER              -> r.query

\* What the caller gets for a path.
Answer(uri, response) ==
    /\ answer' = response
    /\ worker' = Waiting
    /\ latest' = [latest EXCEPT ![uri] = IF response.code = 200 THEN response.content
                                          ELSE @]

\* No extension, or one that is not in the table.
Refuse(r) ==
    /\ worker = Waiting
    /\ ContentTypeKey(r) \notin DOMAIN MimeTypesMap
    /\ Answer(r.uri, Answer404)
    /\ UNCHANGED <<disk, writes, path, cached, cache, moved, off>>

\* The path is found in the cache.
TakeFromCache(r) ==
    /\ worker = Waiting
    /\ ContentTypeKey(r) \in DOMAIN MimeTypesMap
    /\ cached /\ cache[r.uri].code = 200
    /\ Answer(r.uri, cache[r.uri])
    /\ UNCHANGED <<disk, writes, path, cached, cache, moved, off>>

\* It is not, or the cache is not to be used.
GoToDisk(r) ==
    /\ worker = Waiting
    /\ ContentTypeKey(r) \in DOMAIN MimeTypesMap
    /\ cached => cache[r.uri].code # 200
    /\ worker' = [stage |-> "open", uri |-> r.uri,
                  type |-> MimeTypesMap[ContentTypeKey(r)]]
    /\ UNCHANGED <<disk, writes, path, cached, cache, answer, latest, moved, off>>

Found == disk[path][FileName[worker.uri]]

\* Mutant: only a cached server stores what it reads.
ReadFile_StoresIfCached ==
    /\ worker # Waiting
    /\ LET response == IF Found = 0 THEN Answer404 ELSE Ok(Found, worker.type)
       IN  /\ cache' = [cache EXCEPT ![worker.uri] =
                          IF response.code = 200 /\ cached THEN response ELSE @]
           /\ Answer(worker.uri, response)
    /\ UNCHANGED <<disk, writes, path, cached, moved, off>>

\* The file is opened and read; what was read goes into the cache, whether or
\* not the cache is used.
ReadFile ==
    /\ worker # Waiting
    /\ LET response == IF Found = 0 THEN Answer404 ELSE Ok(Found, worker.type)
       IN  /\ cache' = [cache EXCEPT ![worker.uri] =
                          IF response.code = 200 THEN response ELSE @]
           /\ Answer(worker.uri, response)
    /\ UNCHANGED <<disk, writes, path, cached, moved, off>>

DefaultStaticResourcesCallback ==
    \/ \E r \in Request : Refuse(r) \/ TakeFromCache(r) \/ GoToDisk(r)
    \/ ReadFile

\* Other programs write and remove files.
WriteFile(d, f) ==
    /\ writes < MaxWrites
    /\ writes' = writes + 1
    /\ disk' = [disk EXCEPT ![d][f] = writes + 1]
    /\ UNCHANGED <<path, cached, cache, worker, answer, latest, moved, off>>

RemoveFile(d, f) ==
    /\ disk[d][f] # 0
    /\ disk' = [disk EXCEPT ![d][f] = 0]
    /\ UNCHANGED <<writes, path, cached, cache, worker, answer, latest, moved, off>>

SetCachedStaticResources(flag) ==
    /\ cached' = flag
    /\ off' = (off \/ ~flag)
    /\ UNCHANGED <<disk, writes, path, cache, worker, answer, latest, moved>>

SetPathToStaticResources(d) ==
    /\ path' = d
    /\ moved' = (moved \/ d # path)
    /\ UNCHANGED <<disk, writes, cached, cache, worker, answer, latest, off>>

StaticNext ==
    \/ DefaultStaticResourcesCallback
    \/ \E d \in Directories, f \in Files : WriteFile(d, f) \/ RemoveFile(d, f)
    \/ \E flag \in BOOLEAN : SetCachedStaticResources(flag)
    \/ \E d \in Directories : SetPathToStaticResources(d)

StaticSpec == StaticInit /\ [][StaticNext]_staticVars

-----------------------------------------------------------------------------
(* Properties *)

\* Types; what is cached is a response that was read, with a type of the table.
StaticTypeOK ==
    /\ disk \in [Directories -> [Files -> Contents]]
    /\ writes \in Contents
    /\ path \in Directories
    /\ cached \in BOOLEAN
    /\ cache \in [URI -> {NoAnswer} \cup
                         [code : {200}, content : Contents \ {0}, type : Types]]
    /\ worker \in {Waiting} \cup Opening
    /\ answer \in Responses
    /\ latest \in [URI -> Contents]
    /\ moved \in BOOLEAN
    /\ off \in BOOLEAN

\* A path is never answered with an older content than before, however the
\* cache is switched on and off and files are written, removed and written
\* again, as long as the directory stays: the callback stores what it reads
\* even while the cache is not used.
NeverBack == [][~moved => \A u \in URI : latest[u] <= latest'[u]]_staticVars

\* As long as the cache is used, a path keeps its first answer, whatever
\* happens to its file, to the directory and to the query.
Frozen ==
    [][\A u \in URI : ~off /\ latest[u] # 0 => latest'[u] = latest[u]]_staticVars

-----------------------------------------------------------------------------
(* The inductive invariant behind NeverBack and Frozen *)

\* A path that was answered is in the cache with that answer; the cache is
\* never ahead of a file; while the cache is used, the worker opens files only
\* for paths that are not in it.
CacheInv ==
    /\ \A u \in URI : latest[u] # 0 => cache[u].code = 200 /\ cache[u].content = latest[u]
    /\ \A d \in Directories, f \in Files : disk[d][f] <= writes
    /\ \A u \in URI : cache[u].content <= writes
    /\ ~moved => \A u \in URI : \/ disk[path][FileName[u]] = 0
                                \/ cache[u].content <= disk[path][FileName[u]]
    /\ ~off => cached /\ (worker # Waiting => cache[worker.uri].code # 200)

=============================================================================
