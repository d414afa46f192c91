------------------------------ MODULE MCServer ------------------------------
(***************************************************************************)
(* The parts of the server around the event loop, each on a small          *)
(* instance.  They share no state, so they are checked side by side: the   *)
(* initial state says which part runs, and the others stay where they      *)
(* start.                                                                  *)
(***************************************************************************)
EXTENDS StaticResources, Startup, Routes, Responses, QueryString, Multipart

VARIABLE part

vars == <<part, staticVars, startupVars, routeVars, responseVars, queryVars, formVars>>

Init ==
    /\ part \in {"static", "startup", "routes", "responses", "query", "form"}
    /\ StaticInit
    /\ part # "static" => cached /\ path = CHOOSE d \in Directories : TRUE
    /\ IF part = "startup" THEN StartupInit
       ELSE stage = "none" /\ file = "none" /\ settings = "none" /\ workers = <<>> /\ setLater = FALSE
    /\ RouteInit
    /\ ResponseInit
    /\ part # "responses" => method = "GET"
    /\ IF part = "query" THEN QueryInit
       ELSE /\ text = <<>> /\ parser = "none" /\ uri = <<>> /\ unseen = 1 /\ params = <<>>
            /\ buffer = TRUE /\ parsed = FALSE
    /\ IF part = "form" THEN FormInit
       ELSE /\ parts = <<>> /\ framing = <<>> /\ form = <<>> /\ header = "none" /\ pos = 0
            /\ fields = <<>> /\ collected = FALSE

Next ==
    \/ /\ part = "static" /\ StaticNext
       /\ UNCHANGED <<part, startupVars, routeVars, responseVars, queryVars, formVars>>
    \/ /\ part = "startup" /\ StartupNext
       /\ UNCHANGED <<part, staticVars, routeVars, responseVars, queryVars, formVars>>
    \/ /\ part = "routes" /\ RouteNext
       /\ UNCHANGED <<part, staticVars, startupVars, responseVars, queryVars, formVars>>
    \/ /\ part = "responses" /\ ResponseNext
       /\ UNCHANGED <<part, staticVars, startupVars, routeVars, queryVars, formVars>>
    \/ /\ part = "query" /\ QueryNext
       /\ UNCHANGED <<part, staticVars, startupVars, routeVars, responseVars, formVars>>
    \/ /\ part = "form" /\ FormNext
       /\ UNCHANGED <<part, staticVars, startupVars, routeVars, responseVars, queryVars>>

Spec == Init /\ [][Next]_vars

-----------------------------------------------------------------------------
(* Static resources: two paths, of which the second is too long: its file  *)
(* name is cut to that of the first.                                       *)

MCURI == {"style", "long"}
MCExtension == [style |-> "css", long |-> "png"]
MCFileName == [style |-> "f", long |-> "f"]
MCQuery == {"absent", "plain", "png"}

-----------------------------------------------------------------------------
(* Start: files in which up to three fields say something.                 *)

Integer == {[type |-> "integer", value |-> v] : v \in {-1, 0, 2, 3}}
Flag == {[type |-> "boolean", value |-> v] : v \in 0 .. 1}
AnyValue == Integer \cup Flag \cup {Missing, [type |-> "float", value |-> 1],
                                    [type |-> "string", value |-> 0], [type |-> "null", value |-> 0]}

With(sections, threads, connections, compress, enable, topEnable) ==
    [sections |-> sections,
     file |-> [f \in Fields |-> CASE f = "threads" -> threads
                                  [] f = "max_connection" -> connections
                                  [] f = "compress" -> compress
                                  [] f = "enable" -> enable
                                  [] OTHER -> Missing],
     top |-> [f \in StatisticsFields |-> IF f = "enable" THEN topEnable ELSE Missing]]

MCConfigurations ==
    {With({"server"}, t, c, Missing, Missing, Missing) : t \in AnyValue, c \in AnyValue}
    \cup {With({"server", "static-resources"}, t, Missing, c, Missing, Missing) : t \in Integer, c \in AnyValue}
    \cup {With({"statistics"}, Missing, Missing, Missing, e, t) : e \in AnyValue, t \in Flag \cup {Missing}}
    \cup {With({}, Missing, Missing, Missing, Missing, Missing)}

-----------------------------------------------------------------------------
(* Routes for get, GET, HEAD and POST.                                     *)

MCMethods == {"get", "GET", "HEAD", "POST"}
MCToUpper == [get |-> "GET", GET |-> "GET", HEAD |-> "HEAD", POST |-> "POST"]

-----------------------------------------------------------------------------
(* Responses: one file of two lines, one body; a header field of the       *)
(* handler that alone fits the buffer and one that does not.               *)

MCContents == {<<<<"a">>, <<"b">>>>}
MCBodies == {<<"x", "y">>}
MCUnitsOf(h) == IF h = "Long" THEN 5 ELSE 1

-----------------------------------------------------------------------------
(* Forms: names with an empty one, a file name with a space, contents with *)
(* line ends.  As in the repository's tests, the dashes before a boundary  *)
(* belong to the announced one.                                            *)

MCNames == {<<>>, <<"a">>, <<"b">>}
MCFilenames == {<<"f">>, <<"f", "SP", "g">>}
MCTypes == {<<"t">>}
MCData == {<<>>, <<"d">>, <<"CRLF">>, <<"d", "CRLF">>, <<"CRLF", "d">>, <<"CRLF", "CRLF">>}
MCFramings == {<<>>}

=============================================================================
