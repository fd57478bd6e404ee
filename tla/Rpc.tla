--------------------------------- MODULE Rpc ---------------------------------
(***************************************************************************)
(* A remote call, from the script of a page to the method of a service and *)
(* back: webcjson-rpc.js builds the body, service_recorder finds the       *)
(* service, recorded_service reads the arguments out of the body and       *)
(* relays each as a text, the stub that stubber.cc generates decodes them, *)
(* calls the method and writes what it returns, and the answer names the   *)
(* callback of the page.                                                   *)
(*                                                                         *)
(* The service "echo" has one method, echo, which returns its first        *)
(* argument, or a value of its own; another service has another method.    *)
(***************************************************************************)
EXTENDS Fields, Services

LOCAL INSTANCE SequencesExt

CONSTANTS
    \* The calls: [url, deployed, types, byReference, sent, returns].  url is where the
    \* page looks for its service, deployed the libraries the server has; types are those
    \* of the parameters, which the method may take by reference; sent the JSON values the
    \* page passes, or Undefined; returns is <<>> for an echo, and else <<T, V>>, a type
    \* and its value
    Calls

VARIABLES
    call,      \* the call that is made
    pc,        \* how far it is
    services,  \* _services: the service behind a URL
    params,    \* _params of the connection
    methods,   \* what the page knows of the service: the number of parameters by method
    url,       \* the URL of the POST
    body,      \* its body
    args,      \* iArguments: the relayed texts
    mem,       \* the heap of the server, as the call needs it
    objects,   \* aArg0, aArg1, ...
    heard,     \* the values the method is called with
    reply      \* [status, callback, text]

site == <<call, services>>
vars == <<site, pc, params, methods, url, body, args, mem, objects, heard, reply>>

Undefined == [type |-> "undefined", v |-> <<>>]
JsonNumber(n) == [type |-> "FLOAT_", v |-> Integer(n)]
JsonText(cs) == [type |-> "STRING_", v |-> cs]
ArgName(i) == Chars("arg") \o Decimal[i - 1]

-----------------------------------------------------------------------------
\* The client.  JSON.stringify leaves out a member that is undefined

ToEscape == [c \in {"\"", "\\"} |-> <<"\\", c>>]
            @@ [c \in {Short[k] : k \in DOMAIN Short} |-> <<"\\", CHOOSE k \in DOMAIN Short : Short[k] = c>>]
StringifyText(s) ==
    Quoted(FlattenSeq([i \in DOMAIN s |->
        IF s[i] \in DOMAIN ToEscape THEN ToEscape[s[i]]
        ELSE IF Code(s[i]) < 32 THEN Chars("\\u00" \o Hex(Code(s[i]))) ELSE <<s[i]>>]))

RECURSIVE Stringify(_)
Stringify(value) ==
    CASE value.type = "STRING_" -> StringifyText(value.v)
      [] value.type \in {"FLOAT_", "NUMBER_"} -> Plain(value.v)
      [] value.type = "BOOL_" -> Chars(IF value.v THEN "true" ELSE "false")
      [] value.type = "NULL_" -> Chars("null")
      [] value.type = "ARRAY_" ->
           <<"[">> \o Joined([i \in DOMAIN value.v |-> Stringify(value.v[i])], ",") \o <<"]">>
      [] OTHER ->
           LET keys == Sorted(DOMAIN value.v) IN
           <<"{">> \o Joined([i \in DOMAIN keys |->
                        StringifyText(keys[i]) \o <<":">> \o Stringify(value.v[keys[i]])], ",")
           \o <<"}">>

\* The function jQuery defines for the answer, and adds to the URL
Callback == Chars("jQuery1_0")

\* webcjson_rpc.call: the name, the number of parameters and the parameters
Post(function, sent) ==
    LET given == {i \in DOMAIN sent : sent[i] # Undefined}
        header == With(With(<<>>, Chars("_function"), JsonText(Chars(function))),
                       Chars("_nargs"), JsonNumber(Len(sent)))
        passed == [name \in {ArgName(i) : i \in given} |->
                      sent[CHOOSE i \in given : ArgName(i) = name]]
    IN  /\ body' = Stringify([type |-> "OBJECT_", v |-> header @@ passed])
        /\ url' = call.url \o <<IF "?" \in Range(call.url) THEN "&" ELSE "?">>
                   \o Chars("callback=") \o Callback
        /\ pc' = "posted"

Init ==
    /\ call \in Calls
    /\ pc = "new" /\ services = <<>> /\ params = <<>> /\ methods = <<>>
    /\ url = <<>> /\ body = <<>> /\ args = <<>> /\ mem = <<>> /\ objects = <<>> /\ heard = <<>>
    /\ reply = [status |-> 0, callback |-> <<>>, text |-> <<>>]

\* server.cc loads the services before it serves anybody
LoadServices ==
    /\ pc = "new"
    /\ services' = Recorded(call.deployed)
    /\ pc' = "recorded"
    /\ UNCHANGED <<call, params, methods, url, body, args, mem, objects, heard, reply>>

\* The server gives every type of the service its field.  A container in a container
\* gets none of its kind; what becomes of it is not followed
LoadGrammar ==
    /\ pc = "recorded"
    /\ pc' = IF \A i \in DOMAIN call.types : Decoded(call.types[i]) THEN "loaded" ELSE "misread"
    /\ UNCHANGED <<site, params, methods, url, body, args, mem, objects, heard, reply>>

\* webcjson_rpc.init asks for the methods of the service: a call of no function
Discover ==
    /\ pc = "loaded"
    /\ Post("", <<>>)
    /\ UNCHANGED <<site, params, methods, args, mem, objects, heard, reply>>

\* The page runs the reply, which calls the function it names
Called == reply.status = 200 /\ reply.callback = Callback

\* The reply to it makes a function of every method
Learn ==
    /\ pc = "answered" /\ methods = <<>> /\ Called
    /\ methods' = Parse(reply.text).v
    /\ pc' = "ready"
    /\ UNCHANGED <<site, params, url, body, args, mem, objects, heard, reply>>

\* Without a reply of a service, or one that has the function, the page calls nothing
GiveUp ==
    /\ \/ pc = "answered" /\ methods = <<>> /\ ~Called
       \/ pc = "ready" /\ Chars("echo") \notin DOMAIN methods
    /\ pc' = "unserved"
    /\ UNCHANGED <<site, params, methods, url, body, args, mem, objects, heard, reply>>

\* The function that was made takes as many parameters as the method has
Call ==
    /\ pc = "ready" /\ Chars("echo") \in DOMAIN methods
    /\ methods[Chars("echo")] = JsonNumber(Len(call.sent))
    /\ Post("echo", call.sent)
    /\ args' = <<>>
    /\ UNCHANGED <<site, params, methods, mem, objects, heard, reply>>

\* The page gets the answer, or an error
Receive ==
    /\ pc = "answered" /\ methods # <<>>
    /\ pc' = "done"
    /\ UNCHANGED <<site, params, methods, url, body, args, mem, objects, heard, reply>>

-----------------------------------------------------------------------------
\* The server

\* The text around an answer is a script that calls the callback of the request, or a
\* page that calls nothing
Answer(status, text) ==
    /\ pc' = "answered"
    /\ reply' = [status |-> status, text |-> text,
                  callback |-> IF status = 200 /\ Chars("callback") \in DOMAIN params
                               THEN params[Chars("callback")] ELSE <<>>]

\* service_recorder::run: the service of the URL, or default_service, which has no such
\* file.  A request without a function is answered with the methods of the service
Run ==
    /\ pc = "posted"
    /\ \E r \in {extractParams(url, params)} :
          /\ params' = r.params
          /\ url' = r.url
          /\ IF r.url \in DOMAIN services THEN pc' = "reached" /\ UNCHANGED reply
             ELSE pc' = "answered" /\ reply' = [status |-> 404, callback |-> <<>>, text |-> <<>>]
    /\ UNCHANGED <<site, methods, body, args, mem, objects, heard>>

\* An exception nobody catches: in the thread of a connection it ends the server
Terminate == pc' = "dead" /\ UNCHANGED <<args, reply>>

\* returnDefinition, as the stubs of the services have it
Definition(service, n) == Chars("{\"" \o service \o "\":") \o Decimal[n] \o <<"}">>

nArgs(object) == object[Chars("_nargs")].v.m * Power(10, object[Chars("_nargs")].v.e)
\* Whether the object counts arguments that are all in it
Counts(object) ==
    /\ has(object, Chars("_nargs"), "FLOAT_")
    /\ {ArgName(i) : i \in 1..nArgs(object)} \subseteq DOMAIN object
Relayed(object) ==
    [i \in 1..nArgs(object) |-> Write(object[ArgName(i)])]

\* recorded_service::proceed and decodePostBody.  An argument that is not in the body
\* throws; a body that does not parse has no function name
DecodePostBody ==
    /\ pc = "reached"
    /\ \E object \in {parse_object(body, 1)} :
          IF object.ok /\ ~Counts(object.v) THEN Terminate
          ELSE /\ args' = IF object.ok THEN Relayed(object.v) ELSE <<>>
               /\ IF /\ object.ok /\ has(object.v, Chars("_function"), "STRING_")
                     /\ object.v[Chars("_function")].v # <<>>
                  THEN pc' = "decoding" /\ UNCHANGED reply
                  ELSE Answer(200, Definition(services[url], Len(call.types)))
    /\ UNCHANGED <<site, params, methods, url, body, mem, objects, heard>>

\* aArg<i> = fromJson<T>(iArgs[i]).  An exception that a field throws is answered,
\* and the arguments that are there are deleted
DecodeArgument ==
    /\ pc = "decoding" /\ Len(objects) < Len(args)
    /\ \E r \in {NewFromJson(mem, call.types[Len(objects) + 1], args[Len(objects) + 1])} :
          CASE r.end = "" ->
                 /\ mem' = r.mem
                 /\ objects' = Append(objects, <<Len(mem) + 1, 0>>)
                 /\ UNCHANGED <<pc, reply>>
            [] r.end = "throw" ->
                 /\ Answer(400, Chars("not defined correctly"))
                 /\ mem' = <<>> /\ objects' = <<>>
            [] r.end = "abort" ->
                 /\ pc' = "dead"
                 /\ UNCHANGED <<mem, objects, reply>>
    /\ UNCHANGED <<site, params, methods, url, body, args, heard>>

\* The method goes through the maps of its arguments.  From the last node of one that the
\* fields have built, or from the dead header of an empty one, it goes on to what is no
\* node; what becomes of it is not followed
Iterate ==
    /\ pc = "decoding" /\ Len(objects) = Len(args)
    /\ \E i \in DOMAIN objects : \E a \in Shared(mem, objects[i], call.types[i], ~call.byReference) :
          ~Iterable(mem, a)
    /\ pc' = "wild"
    /\ UNCHANGED <<site, params, methods, url, body, args, mem, objects, heard, reply>>

\* The method is called, its arguments are deleted, and what it returns is written
Execute ==
    /\ pc = "decoding" /\ Len(objects) = Len(args)
    /\ heard' = [i \in DOMAIN objects |-> Value(mem, objects[i], call.types[i])]
    /\ \E returned \in {IF call.returns = <<>> THEN <<call.types[1], heard'[1]>> ELSE call.returns} :
          /\ mem' = Build(malloc(<<>>, SizeOf(returned[1])), <<1, 0>>, returned[1], returned[2])
          /\ Answer(200, ToJson(mem', <<1, 0>>, returned[1]))
    /\ objects' = <<>>
    /\ UNCHANGED <<site, params, methods, url, body, args>>

Stopped == pc \in {"done", "dead", "misread", "wild", "unserved"} /\ UNCHANGED vars

Next ==
    \/ LoadServices \/ LoadGrammar \/ Discover \/ Learn \/ GiveUp \/ Call \/ Receive
    \/ Run \/ DecodePostBody \/ DecodeArgument \/ Iterate \/ Execute
    \/ Stopped

Spec == Init /\ [][Next]_vars
=============================================================================
