------------------------------ MODULE Services ------------------------------
(***************************************************************************)
(* How a request finds its service: service_loader opens the libraries in  *)
(* the deployed directory, whose services service_recorder keeps by URL;   *)
(* service_recorder::run cuts the parameters off the URL of a request and  *)
(* looks for what is left.                                                 *)
(***************************************************************************)
EXTENDS Json

LOCAL INSTANCE SequencesExt

\* What the loader goes through: the files [loads, url, service] in the order readdir
\* gives them.  It stops at the first one dlopen refuses; each of the others records
\* its service as it is opened, in place of one of the same URL
Opened(libraries) == {i \in DOMAIN libraries : \A j \in 1..i : libraries[j].loads}

\* Mutant: the first service of a URL stays
RecordedFirst(libraries) ==
    [u \in {libraries[i].url : i \in Opened(libraries)} |->
        LET own == {i \in Opened(libraries) : libraries[i].url = u}
        IN  libraries[CHOOSE i \in own : \A j \in own : i <= j].service]

\* The service behind every URL, once the libraries are opened
Recorded(libraries) ==
    [u \in {libraries[i].url : i \in Opened(libraries)} |->
        LET own == {i \in Opened(libraries) : libraries[i].url = u}
        IN  libraries[CHOOSE i \in own : \A j \in own : j <= i].service]

\* getline over the text: a piece behind the last delimiter counts if it has characters
split(s, delim) ==
    LET step(pieces, c) ==
            IF c = delim THEN [all |-> Append(pieces.all, pieces.last), last |-> <<>>]
            ELSE [pieces EXCEPT !.last = Append(@, c)]
        end == FoldLeft(step, [all |-> <<>>, last |-> <<>>], s)
    IN  IF end.last = <<>> THEN end.all ELSE Append(end.all, end.last)

\* The parameter a piece of the query sets, in the params of the connection
Parameter(params, keyValue) ==
    IF Len(keyValue) > 1 THEN With(params, keyValue[1], keyValue[2]) ELSE params

\* The URL in front of the first question mark, and the parameters in front of the
\* second one, added to what the connection has from earlier requests
extractParams(url, params) ==
    LET elems == split(url, "?")
        pairs == IF Len(elems) > 1 THEN split(elems[2], "&") ELSE <<>>
    IN  [url |-> elems[1],
         params |-> FoldLeft(LAMBDA p, pair : Parameter(p, split(pair, "=")), params, pairs)]
=============================================================================
