----------------------------- MODULE HttpParser -----------------------------
(***************************************************************************)
(* http_parser_execute (lib/http-parser/http_parser.c), the parser behind  *)
(* both servers, in its strict build.  It is called with the bytes of one  *)
(* read after the other, keeps its state in an http_parser between two     *)
(* calls, and reports what it finds through callbacks: notifications, and  *)
(* data callbacks that get the bytes of a field found in one call.         *)
(*                                                                         *)
(* One action is one pass through the switch of the loop, for the byte at  *)
(* p.  A pass that ends in "goto reexecute_byte" leaves p alone.  Callbacks*)
(* return 0, as all those of the servers do, and the caller ignores how    *)
(* much was parsed, as both servers do.                                    *)
(***************************************************************************)
EXTENDS Integers, Sequences, FiniteSets

CONSTANTS
    Streams,   \* what may arrive on a connection: sequences of bytes
    Types,     \* the types a parser is made for
    Cuts,      \* how many bytes a read may return
    MaxHeader, \* HTTP_MAX_HEADER_SIZE
    MaxLength  \* ULLONG_MAX

ASSUME CutAssumption == Cuts \subseteq Nat \ {0}
ASSUME MaxAssumption == MaxHeader \in Nat /\ MaxLength \in Nat /\ MaxLength > 16
ASSUME TypesAssumption == Types \subseteq {"HTTP_REQUEST", "HTTP_RESPONSE", "HTTP_BOTH"}
ASSUME StreamsAssumption == Streams \subseteq Seq(STRING)

VARIABLES
    stream,  \* the bytes of this connection, each a string of one character
    parser,  \* the http_parser
    pc,      \* "idle" between two calls, "loop" in one, "ended" behind the end of file
    p,       \* the byte the loop is at
    end,     \* the last byte of this call
    again,   \* the byte at p is being executed again
    mark,    \* where the bytes of a field begin that no callback has had yet, or 0
    log      \* what the callbacks have received, the pieces of a field put together

vars == <<stream, parser, pc, p, end, again, mark, log>>

-----------------------------------------------------------------------------
\* Bytes and their classes

Bytes(s) == [i \in 1..Len(s) |-> SubSeq(s, i, i)]
Chars(s) == {SubSeq(s, i, i) : i \in 1..Len(s)}

CR  == "\r"
LF  == "\n"
TAB == "\t"
FF  == "\f"
Small == Bytes("abcdefghijklmnopqrstuvwxyz")
Big   == Bytes("ABCDEFGHIJKLMNOPQRSTUVWXYZ")
Hex   == Bytes("0123456789abcdef")
HEX   == Bytes("0123456789ABCDEF")

Alpha    == {Small[i] : i \in 1..26} \cup {Big[i] : i \in 1..26}
Digits   == {Hex[i] : i \in 1..10}
UserInfo == Alpha \cup Digits \cup Chars("-_.!~*'()%;:&=+$,")

LOWER(c) == IF \E i \in 1..26 : Big[i] = c THEN Small[CHOOSE i \in 1..26 : Big[i] = c] ELSE c

\* The value of a digit, decimal or hexadecimal; unhex is -1 elsewhere
unhex(c) ==
    IF \E i \in 1..16 : c \in {Hex[i], HEX[i]}
    THEN (CHOOSE i \in 1..16 : c \in {Hex[i], HEX[i]}) - 1 ELSE -1

\* TOKEN(c) # 0, and the bit of c in normal_url_char
IsToken(c)   == c \notin {CR, LF, TAB, FF} \cup Chars(" \"(),/:;<=>?@[\\]{}")
IsUrlChar(c) == c \notin {CR, LF, TAB, FF, " ", "#", "?"}

method_strings ==
    {"DELETE", "GET", "HEAD", "POST", "PUT", "CONNECT", "OPTIONS", "TRACE", "COPY", "LOCK",
     "MKCOL", "MOVE", "PROPFIND", "PROPPATCH", "SEARCH", "UNLOCK", "REPORT", "MKACTIVITY",
     "CHECKOUT", "MERGE", "M-SEARCH", "NOTIFY", "SUBSCRIBE", "UNSUBSCRIBE", "PATCH", "PURGE"}

-----------------------------------------------------------------------------
\* The states of the parser

Server   == {"s_req_server_start", "s_req_server", "s_req_server_with_at"}
Query    == {"s_req_query_string_start", "s_req_query_string"}
Fragment == {"s_req_fragment_start", "s_req_fragment"}
UrlOpen  == {"s_req_schema", "s_req_schema_slash", "s_req_schema_slash_slash",
             "s_req_server_start"}
UrlBody  == {"s_req_server", "s_req_server_with_at", "s_req_path"} \cup Query \cup Fragment

BodyStates == {"s_chunk_data", "s_chunk_data_almost_done", "s_chunk_data_done",
               "s_body_identity", "s_body_identity_eof", "s_message_done"}

States ==
    {"s_dead", "s_start_req_or_res", "s_res_or_resp_H", "s_start_res", "s_res_H", "s_res_HT",
     "s_res_HTT", "s_res_HTTP", "s_res_first_http_major", "s_res_http_major",
     "s_res_first_http_minor", "s_res_http_minor", "s_res_first_status_code",
     "s_res_status_code", "s_res_status_start", "s_res_status", "s_res_line_almost_done",
     "s_start_req", "s_req_method", "s_req_spaces_before_url", "s_req_http_start",
     "s_req_http_H", "s_req_http_HT", "s_req_http_HTT", "s_req_http_HTTP",
     "s_req_first_http_major", "s_req_http_major", "s_req_first_http_minor",
     "s_req_http_minor", "s_req_line_almost_done", "s_header_field_start", "s_header_field",
     "s_header_value_start", "s_header_value", "s_header_value_lws", "s_header_almost_done",
     "s_chunk_size_start", "s_chunk_size", "s_chunk_parameters", "s_chunk_size_almost_done",
     "s_headers_almost_done", "s_headers_done"} \cup UrlOpen \cup UrlBody \cup BodyStates

PARSING_HEADER(s) == s \notin BodyStates

\* What a header name or value is being compared with, and what it is once it matched
Word ==
    [h_matching_connection |-> Bytes("connection"),
     h_matching_proxy_connection |-> Bytes("proxy-connection"),
     h_matching_content_length |-> Bytes("content-length"),
     h_matching_transfer_encoding |-> Bytes("transfer-encoding"),
     h_matching_upgrade |-> Bytes("upgrade"),
     h_matching_transfer_encoding_chunked |-> Bytes("chunked"),
     h_matching_connection_keep_alive |-> Bytes("keep-alive"),
     h_matching_connection_close |-> Bytes("close")]

Matched ==
    [h_matching_connection |-> "h_connection",
     h_matching_proxy_connection |-> "h_connection",
     h_matching_content_length |-> "h_content_length",
     h_matching_transfer_encoding |-> "h_transfer_encoding",
     h_matching_upgrade |-> "h_upgrade",
     h_matching_transfer_encoding_chunked |-> "h_transfer_encoding_chunked",
     h_matching_connection_keep_alive |-> "h_connection_keep_alive",
     h_matching_connection_close |-> "h_connection_close"]

HeaderStates == {"h_general", "h_C", "h_CO", "h_CON"} \cup DOMAIN Word
                \cup {Matched[h] : h \in DOMAIN Word}

Fields == {"header_field", "header_value", "url", "body", "status"}
Flags  == {"F_CHUNKED", "F_CONNECTION_KEEP_ALIVE", "F_CONNECTION_CLOSE", "F_TRAILING", "F_UPGRADE"}
Errors ==
    {"INVALID_EOF_STATE", "HEADER_OVERFLOW", "CLOSED_CONNECTION", "INVALID_VERSION",
     "INVALID_STATUS", "INVALID_METHOD", "INVALID_URL", "LF_EXPECTED", "INVALID_HEADER_TOKEN",
     "INVALID_CONTENT_LENGTH", "INVALID_CHUNK_SIZE", "INVALID_CONSTANT", "STRICT"}
NoMarks == [f \in Fields |-> 0]

\* http_parser
Parser ==
    [type : {"HTTP_REQUEST", "HTTP_RESPONSE", "HTTP_BOTH"}, state : States,
     header_state : HeaderStates, flags : SUBSET Flags, index : Nat, nread : Nat,
     content_length : 0..MaxLength, http_major : Nat, http_minor : Nat, status_code : Nat,
     method : method_strings, upgrade : BOOLEAN, errno : {"OK"} \cup Errors]

\* http_parser_init
http_parser_init(t) ==
    [type |-> t, state |-> CASE t = "HTTP_REQUEST" -> "s_start_req"
                             [] t = "HTTP_RESPONSE" -> "s_start_res"
                             [] OTHER -> "s_start_req_or_res",
     header_state |-> "h_general", flags |-> {}, index |-> 0, nread |-> 0,
     content_length |-> 0, http_major |-> 0, http_minor |-> 0, status_code |-> 0,
     method |-> "DELETE", upgrade |-> FALSE, errno |-> "OK"]

Init ==
    /\ stream \in Streams
    /\ \E t \in Types : parser = http_parser_init(t)
    /\ pc = "idle" /\ p = 1 /\ end = 0 /\ again = FALSE
    /\ mark = NoMarks
    /\ log = <<>>

-----------------------------------------------------------------------------
\* One call of http_parser_execute

\* What a caller has that puts the pieces of a field together, after one more
Receive(f, s) ==
    IF log # <<>> /\ log[Len(log)].cb = f THEN [log EXCEPT ![Len(log)].data = @ \o s]
    ELSE Append(log, [cb |-> f, data |-> s])

\* CALLBACK_DATA, with the bytes from the mark to the last one before "to"
Data(f, to) ==
    /\ log' = IF mark[f] = 0 THEN log ELSE Receive(f, SubSeq(stream, mark[f], to - 1))
    /\ mark' = [mark EXCEPT ![f] = 0]

\* MARK: where the data of a field begins in this call
Marked(f) == IF mark[f] = 0 THEN p ELSE mark[f]
Mark(f) == mark' = [mark EXCEPT ![f] = Marked(f)] /\ UNCHANGED log

\* CALLBACK_NOTIFY
Notify(cb, s) == log' = Append(log, [cb |-> cb, data |-> s]) /\ UNCHANGED mark
Silent == UNCHANGED <<mark, log>>

\* The byte at p, and the parser once it has counted that byte as part of a header
ch == stream[p]
Now == IF again \/ ~PARSING_HEADER(parser.state) THEN parser
       ELSE [parser EXCEPT !.nread = @ + 1]

In(S) == pc = "loop" /\ p <= end /\ parser.state \in S /\ Now.nread <= MaxHeader
At(s) == In({s})

\* The ends of a pass: the next byte, the same byte again, "goto error"
Consume(new) == parser' = new /\ p' = p + 1 /\ again' = FALSE /\ UNCHANGED <<stream, pc, end>>
To(s) == Consume([Now EXCEPT !.state = s])
Reexecute(new) == parser' = new /\ again' = TRUE /\ UNCHANGED <<stream, pc, p, end>>
Fail(e) ==
    /\ parser' = [Now EXCEPT !.errno = e]
    /\ pc' = "idle" /\ again' = FALSE /\ mark' = NoMarks
    /\ UNCHANGED <<stream, p, end, log>>

\* To(s), unless the byte is another one than c
Expect(c, s, e) == IF ch = c THEN To(s) /\ Silent ELSE Fail(e)

start_state(q) == IF q.type = "HTTP_REQUEST" THEN "s_start_req" ELSE "s_start_res"

http_message_needs_eof(q) ==
    /\ q.type # "HTTP_REQUEST"
    /\ q.status_code \div 100 # 1 /\ q.status_code \notin {204, 304}
    /\ "F_CHUNKED" \notin q.flags /\ q.content_length = MaxLength

http_should_keep_alive(q) ==
    /\ IF q.http_major > 0 /\ q.http_minor > 0 THEN "F_CONNECTION_CLOSE" \notin q.flags
       ELSE "F_CONNECTION_KEEP_ALIVE" \in q.flags
    /\ ~http_message_needs_eof(q)

NEW_MESSAGE(q) == IF http_should_keep_alive(q) THEN start_state(q) ELSE "s_dead"

\* message_complete, and what comes next
Complete(q) == Consume([q EXCEPT !.state = NEW_MESSAGE(q)]) /\ Notify("message_complete", <<>>)

\* The fields whose data goes on in the first byte of a call
Resumed(s) ==
    CASE s = "s_header_field" -> {"header_field"}
      [] s = "s_header_value" -> {"header_value"}
      [] s \in UrlOpen \cup UrlBody -> {"url"}
      [] s = "s_res_status" -> {"status"}
      [] OTHER -> {}

\* Mutant: the mark of a header value is not set again
CallForgetsValue(n) ==
    /\ pc = "idle" /\ end + n <= Len(stream)
    /\ end' = end + n
    /\ p' = end + 1
    /\ IF parser.errno # "OK" THEN UNCHANGED <<pc, mark>>
       ELSE /\ pc' = "loop"
            /\ mark' = [f \in Fields |->
                          IF f \in Resumed(parser.state) \ {"header_value"} THEN p' ELSE 0]
    /\ UNCHANGED <<stream, parser, again, log>>

\* A call with the next n bytes.  A parser in error returns at once
Call(n) ==
    /\ pc = "idle" /\ end + n <= Len(stream)
    /\ end' = end + n
    /\ p' = end + 1
    /\ IF parser.errno # "OK" THEN UNCHANGED <<pc, mark>>
       ELSE /\ pc' = "loop"
            /\ mark' = [f \in Fields |-> IF f \in Resumed(parser.state) THEN p' ELSE 0]
    /\ UNCHANGED <<stream, parser, again, log>>

\* The call with no bytes that tells the end of the file
CallEof ==
    /\ pc = "idle" /\ end = Len(stream)
    /\ pc' = "ended"
    /\ IF parser.errno # "OK" \/ parser.state \in {"s_dead", "s_start_req_or_res",
                                                   "s_start_res", "s_start_req"}
       THEN UNCHANGED <<parser, log>>
       ELSE IF parser.state = "s_body_identity_eof"
       THEN log' = Append(log, [cb |-> "message_complete", data |-> <<>>]) /\ UNCHANGED parser
       ELSE parser' = [parser EXCEPT !.errno = "INVALID_EOF_STATE"] /\ UNCHANGED log
    /\ UNCHANGED <<stream, p, end, again, mark>>

\* The bytes are used up: the fields that are still marked get theirs
Return ==
    /\ pc = "loop" /\ p > end
    /\ pc' = "idle"
    /\ mark' = NoMarks
    /\ log' = IF mark = NoMarks THEN log
              ELSE LET f == CHOOSE g \in Fields : mark[g] # 0
                   IN  Receive(f, SubSeq(stream, mark[f], p - 1))
    /\ UNCHANGED <<stream, parser, p, end, again>>

\* HTTP_MAX_HEADER_SIZE
HeaderOverflow ==
    /\ pc = "loop" /\ p <= end /\ Now.nread > MaxHeader
    /\ Fail("HEADER_OVERFLOW")

-----------------------------------------------------------------------------
\* The first line of a message

Dead ==
    /\ At("s_dead")
    /\ IF ch \in {CR, LF} THEN To("s_dead") /\ Silent ELSE Fail("CLOSED_CONNECTION")

Fresh == [Now EXCEPT !.flags = {}, !.content_length = MaxLength]

StartReqOrRes ==
    /\ At("s_start_req_or_res")
    /\ IF ch \in {CR, LF} THEN To("s_start_req_or_res") /\ Silent
       ELSE IF ch = "H"
       THEN Consume([Fresh EXCEPT !.state = "s_res_or_resp_H"]) /\ Notify("message_begin", <<>>)
       ELSE Reexecute([Fresh EXCEPT !.type = "HTTP_REQUEST", !.state = "s_start_req"]) /\ Silent

ResOrRespH ==
    /\ At("s_res_or_resp_H")
    /\ IF ch = "T"
       THEN Consume([Now EXCEPT !.type = "HTTP_RESPONSE", !.state = "s_res_HT"]) /\ Silent
       ELSE IF ch = "E"
       THEN /\ Consume([Now EXCEPT !.type = "HTTP_REQUEST", !.method = "HEAD", !.index = 2,
                                   !.state = "s_req_method"])
            /\ Silent
       ELSE Fail("INVALID_CONSTANT")

\* Empty lines before a response are reported as messages that begin
StartRes ==
    /\ At("s_start_res")
    /\ IF ch \in {"H", CR, LF}
       THEN /\ Consume([Fresh EXCEPT !.state = IF ch = "H" THEN "s_res_H" ELSE @])
            /\ Notify("message_begin", <<>>)
       ELSE Fail("INVALID_CONSTANT")

ResConstant ==
    \/ At("s_res_H")    /\ Expect("T", "s_res_HT", "STRICT")
    \/ At("s_res_HT")   /\ Expect("T", "s_res_HTT", "STRICT")
    \/ At("s_res_HTT")  /\ Expect("P", "s_res_HTTP", "STRICT")
    \/ At("s_res_HTTP") /\ Expect("/", "s_res_first_http_major", "STRICT")

\* The first digit of a number, and another one of a number of at most three
FirstDigit(f, s, e) ==
    IF ch \in Digits THEN Consume([Now EXCEPT ![f] = unhex(ch), !.state = s]) /\ Silent
    ELSE Fail(e)

NextDigit(f, e) ==
    LET v == 10 * parser[f] + unhex(ch) IN
    IF ch \in Digits /\ v <= 999 THEN Consume([Now EXCEPT ![f] = v]) /\ Silent ELSE Fail(e)

ResVersion ==
    \/ At("s_res_first_http_major")
       /\ FirstDigit("http_major", "s_res_http_major", "INVALID_VERSION")
    \/ At("s_res_http_major")
       /\ IF ch = "." THEN To("s_res_first_http_minor") /\ Silent
          ELSE NextDigit("http_major", "INVALID_VERSION")
    \/ At("s_res_first_http_minor")
       /\ FirstDigit("http_minor", "s_res_http_minor", "INVALID_VERSION")
    \/ At("s_res_http_minor")
       /\ IF ch = " " THEN To("s_res_first_status_code") /\ Silent
          ELSE NextDigit("http_minor", "INVALID_VERSION")

\* The end of a line: CR asks for LF, LF alone will do
EndOfLine(almost) == To(IF ch = CR THEN almost ELSE "s_header_field_start")

ResStatusCode ==
    \/ At("s_res_first_status_code")
       /\ IF ch = " " THEN To("s_res_first_status_code") /\ Silent
          ELSE FirstDigit("status_code", "s_res_status_code", "INVALID_STATUS")
    \/ At("s_res_status_code")
       /\ IF ch = " " THEN To("s_res_status_start") /\ Silent
          ELSE IF ch \in {CR, LF} THEN EndOfLine("s_res_line_almost_done") /\ Silent
          ELSE NextDigit("status_code", "INVALID_STATUS")

ResStatus ==
    \/ At("s_res_status_start")
       /\ IF ch \in {CR, LF} THEN EndOfLine("s_res_line_almost_done") /\ Silent
          ELSE Consume([Now EXCEPT !.state = "s_res_status", !.index = 0]) /\ Mark("status")
    \/ At("s_res_status")
       /\ IF ch \in {CR, LF} THEN EndOfLine("s_res_line_almost_done") /\ Data("status", p)
          ELSE To("s_res_status") /\ Silent
    \/ At("s_res_line_almost_done") /\ Expect(LF, "s_header_field_start", "STRICT")

\* The method a first letter stands for until another letter tells better
FirstMethod ==
    [C |-> "CONNECT", D |-> "DELETE", G |-> "GET", H |-> "HEAD", L |-> "LOCK", M |-> "MKCOL",
     N |-> "NOTIFY", O |-> "OPTIONS", P |-> "POST", R |-> "REPORT", S |-> "SUBSCRIBE",
     T |-> "TRACE", U |-> "UNLOCK"]

StartReq ==
    /\ At("s_start_req")
    /\ IF ch \in {CR, LF} THEN To("s_start_req") /\ Silent
       ELSE IF ch \in DOMAIN FirstMethod
       THEN /\ Consume([Fresh EXCEPT !.method = FirstMethod[ch], !.index = 1,
                                     !.state = "s_req_method"])
            /\ Notify("message_begin", <<>>)
       ELSE Fail("INVALID_METHOD")

\* The byte that turns a method into another, by the index it comes at
OtherMethod ==
    {<<"CONNECT", 1, "H", "CHECKOUT">>, <<"CONNECT", 2, "P", "COPY">>,
     <<"MKCOL", 1, "O", "MOVE">>, <<"MKCOL", 1, "E", "MERGE">>, <<"MKCOL", 1, "-", "M-SEARCH">>,
     <<"MKCOL", 2, "A", "MKACTIVITY">>, <<"SUBSCRIBE", 1, "E", "SEARCH">>,
     <<"POST", 1, "R", "PROPFIND">>, <<"POST", 1, "U", "PUT">>, <<"POST", 1, "A", "PATCH">>,
     <<"PUT", 2, "R", "PURGE">>, <<"UNLOCK", 2, "S", "UNSUBSCRIBE">>,
     <<"PROPFIND", 4, "P", "PROPPATCH">>}

ReqMethod ==
    LET matcher == Bytes(parser.method)
        i == parser.index
        others == {m \in OtherMethod : m[1] = parser.method /\ m[2] = i /\ m[3] = ch}
    IN
    /\ At("s_req_method")
    /\ IF i = Len(matcher) /\ ch = " "
       THEN Consume([Now EXCEPT !.index = @ + 1, !.state = "s_req_spaces_before_url"]) /\ Silent
       ELSE IF i < Len(matcher) /\ ch = matcher[i + 1]
       THEN Consume([Now EXCEPT !.index = @ + 1]) /\ Silent
       ELSE IF others # {}
       THEN Consume([Now EXCEPT !.index = @ + 1, !.method = (CHOOSE m \in others : TRUE)[4]])
            /\ Silent
       ELSE Fail("INVALID_METHOD")

\* parse_url_char
parse_url_char(s, c) ==
    CASE c \in {" ", CR, LF, TAB, FF} -> "s_dead"
      [] s = "s_req_spaces_before_url" /\ c \in {"/", "*"} -> "s_req_path"
      [] s \in {"s_req_spaces_before_url", "s_req_schema"} /\ c \in Alpha -> "s_req_schema"
      [] s = "s_req_schema" /\ c = ":" -> "s_req_schema_slash"
      [] s = "s_req_schema_slash" /\ c = "/" -> "s_req_schema_slash_slash"
      [] s = "s_req_schema_slash_slash" /\ c = "/" -> "s_req_server_start"
      [] s \in Server /\ c = "/" -> "s_req_path"
      [] s \in Server /\ c = "?" -> "s_req_query_string_start"
      [] s \in Server \ {"s_req_server_with_at"} /\ c = "@" -> "s_req_server_with_at"
      [] s \in Server /\ c \in UserInfo \cup {"[", "]"} -> "s_req_server"
      [] s = "s_req_path" /\ IsUrlChar(c) -> "s_req_path"
      [] s = "s_req_path" /\ c = "?" -> "s_req_query_string_start"
      [] s \in Query /\ (IsUrlChar(c) \/ c = "?") -> "s_req_query_string"
      [] s \in {"s_req_path"} \cup Query /\ c = "#" -> "s_req_fragment_start"
      [] s \in Fragment /\ (IsUrlChar(c) \/ c = "?") -> "s_req_fragment"
      [] s \in Fragment /\ c = "#" -> s
      [] OTHER -> "s_dead"

SpacesBeforeUrl ==
    LET s == parse_url_char(IF parser.method = "CONNECT" THEN "s_req_server_start"
                            ELSE "s_req_spaces_before_url", ch)
    IN
    /\ At("s_req_spaces_before_url")
    /\ IF ch = " " THEN To("s_req_spaces_before_url") /\ Silent
       ELSE IF s = "s_dead" THEN Fail("INVALID_URL") ELSE To(s) /\ Mark("url")

\* Another byte of the URL
UrlByte ==
    LET s == parse_url_char(parser.state, ch) IN
    IF s = "s_dead" THEN Fail("INVALID_URL") ELSE To(s) /\ Silent

UrlOpening == In(UrlOpen) /\ UrlByte

\* A line that ends behind the URL is of HTTP/0.9
Url ==
    /\ In(UrlBody)
    /\ IF ch = " " THEN To("s_req_http_start") /\ Data("url", p)
       ELSE IF ch \in {CR, LF}
       THEN /\ Consume([Now EXCEPT !.http_major = 0, !.http_minor = 9, !.state =
                          IF ch = CR THEN "s_req_line_almost_done" ELSE "s_header_field_start"])
            /\ Data("url", p)
       ELSE UrlByte

ReqConstant ==
    \/ At("s_req_http_start")
       /\ IF ch = " " THEN To("s_req_http_start") /\ Silent
          ELSE Expect("H", "s_req_http_H", "INVALID_CONSTANT")
    \/ At("s_req_http_H")    /\ Expect("T", "s_req_http_HT", "STRICT")
    \/ At("s_req_http_HT")   /\ Expect("T", "s_req_http_HTT", "STRICT")
    \/ At("s_req_http_HTT")  /\ Expect("P", "s_req_http_HTTP", "STRICT")
    \/ At("s_req_http_HTTP") /\ Expect("/", "s_req_first_http_major", "STRICT")

ReqVersion ==
    \/ At("s_req_first_http_major")
       /\ IF ch = "0" THEN Fail("INVALID_VERSION")
          ELSE FirstDigit("http_major", "s_req_http_major", "INVALID_VERSION")
    \/ At("s_req_http_major")
       /\ IF ch = "." THEN To("s_req_first_http_minor") /\ Silent
          ELSE NextDigit("http_major", "INVALID_VERSION")
    \/ At("s_req_first_http_minor")
       /\ FirstDigit("http_minor", "s_req_http_minor", "INVALID_VERSION")
    \/ At("s_req_http_minor")
       /\ IF ch \in {CR, LF} THEN EndOfLine("s_req_line_almost_done") /\ Silent
          ELSE NextDigit("http_minor", "INVALID_VERSION")
    \/ At("s_req_line_almost_done") /\ Expect(LF, "s_header_field_start", "LF_EXPECTED")

-----------------------------------------------------------------------------
\* Headers

HeaderFieldStart ==
    LET c == LOWER(ch) IN
    /\ At("s_header_field_start")
    /\ IF ch = CR THEN To("s_headers_almost_done") /\ Silent
       ELSE IF ch = LF
       THEN Reexecute([Now EXCEPT !.state = "s_headers_almost_done"]) /\ Silent
       ELSE IF IsToken(ch)
       THEN /\ Consume([Now EXCEPT !.index = 0, !.state = "s_header_field", !.header_state =
                          CASE c = "c" -> "h_C"
                            [] c = "p" -> "h_matching_proxy_connection"
                            [] c = "t" -> "h_matching_transfer_encoding"
                            [] c = "u" -> "h_matching_upgrade"
                            [] OTHER -> "h_general"])
            /\ Mark("header_field")
       ELSE Fail("INVALID_HEADER_TOKEN")

\* The header_state behind one more byte c of a word that is being matched, or was
MatchWord(h, c) ==
    LET i == parser.index + 1 IN
    IF h \notin DOMAIN Word THEN IF c = " " THEN h ELSE "h_general"
    ELSE IF i >= Len(Word[h]) \/ c # Word[h][i + 1] THEN "h_general"
    ELSE IF i = Len(Word[h]) - 1 THEN Matched[h]
    ELSE h

NextHeaderState(h, c) ==
    CASE h = "h_general" -> h
      [] h = "h_C"   -> IF c = "o" THEN "h_CO" ELSE "h_general"
      [] h = "h_CO"  -> IF c = "n" THEN "h_CON" ELSE "h_general"
      [] h = "h_CON" -> CASE c = "n" -> "h_matching_connection"
                          [] c = "t" -> "h_matching_content_length"
                          [] OTHER -> "h_general"
      [] OTHER -> MatchWord(h, c)

\* The states in which a byte of a name or a value moves the index
Indexed == {"h_C", "h_CO", "h_CON"} \cup DOMAIN Word

NextIndex == IF parser.header_state \in Indexed THEN parser.index + 1 ELSE parser.index

HeaderField ==
    /\ At("s_header_field")
    /\ IF IsToken(ch)
       THEN /\ Consume([Now EXCEPT !.index = NextIndex,
                          !.header_state = NextHeaderState(@, LOWER(ch))])
            /\ Silent
       ELSE IF ch \in {":", CR, LF}
       THEN /\ To(CASE ch = ":" -> "s_header_value_start"
                    [] ch = CR -> "s_header_almost_done"
                    [] OTHER -> "s_header_field_start")
            /\ Data("header_field", p)
       ELSE Fail("INVALID_HEADER_TOKEN")

\* What the first byte of a value says, by the name it belongs to
FirstOfValue(q, c) ==
    CASE q.header_state = "h_upgrade" ->
            [q EXCEPT !.flags = @ \cup {"F_UPGRADE"}, !.header_state = "h_general"]
      [] q.header_state = "h_transfer_encoding" /\ LOWER(c) = "c" ->
            [q EXCEPT !.header_state = "h_matching_transfer_encoding_chunked"]
      [] q.header_state = "h_content_length" -> [q EXCEPT !.content_length = unhex(c)]
      [] q.header_state = "h_connection" /\ LOWER(c) = "k" ->
            [q EXCEPT !.header_state = "h_matching_connection_keep_alive"]
      [] q.header_state = "h_connection" /\ LOWER(c) = "c" ->
            [q EXCEPT !.header_state = "h_matching_connection_close"]
      [] OTHER -> [q EXCEPT !.header_state = "h_general"]

HeaderValueStart ==
    LET empty == SubSeq(stream, Marked("header_value"), p - 1)
        value == [Now EXCEPT !.state = "s_header_value", !.index = 0]
    IN
    /\ At("s_header_value_start")
    /\ IF ch \in {" ", TAB} THEN To("s_header_value_start") /\ Silent
       ELSE IF ch = CR
       THEN /\ Consume([value EXCEPT !.state = "s_header_almost_done", !.header_state = "h_general"])
            /\ log' = Receive("header_value", empty)
            /\ mark' = [mark EXCEPT !["header_value"] = 0]
       ELSE IF ch = LF
       THEN /\ Consume([value EXCEPT !.state = "s_header_field_start"])
            /\ log' = Receive("header_value", empty)
            /\ mark' = [mark EXCEPT !["header_value"] = 0]
       ELSE IF parser.header_state = "h_content_length" /\ ch \notin Digits
       THEN Fail("INVALID_CONTENT_LENGTH")
       ELSE Consume(FirstOfValue(value, ch)) /\ Mark("header_value")

\* A number with one more digit, in 64 bits; where the code sees an overflow
Longer(base, d) == (base * parser.content_length + d) % (MaxLength + 1)
Overflow(t) == t < parser.content_length \/ t = MaxLength

\* Another digit of Content-Length; spaces between digits are skipped
LengthDigit ==
    LET t == Longer(10, unhex(ch)) IN
    IF ch = " " THEN To("s_header_value") /\ Silent
    ELSE IF ch \notin Digits \/ Overflow(t) THEN Fail("INVALID_CONTENT_LENGTH")
    ELSE Consume([Now EXCEPT !.content_length = t]) /\ Silent

HeaderValue ==
    /\ At("s_header_value")
    /\ IF ch = CR THEN To("s_header_almost_done") /\ Data("header_value", p)
       ELSE IF ch = LF
       THEN Reexecute([Now EXCEPT !.state = "s_header_almost_done"]) /\ Data("header_value", p)
       ELSE IF parser.header_state = "h_content_length" THEN LengthDigit
       ELSE /\ Consume([Now EXCEPT !.index = NextIndex,
                          !.header_state = NextHeaderState(@, LOWER(ch))])
            /\ Silent

\* The flag a value that is over has set
FlagOf(h) ==
    CASE h = "h_connection_keep_alive" -> {"F_CONNECTION_KEEP_ALIVE"}
      [] h = "h_connection_close" -> {"F_CONNECTION_CLOSE"}
      [] h = "h_transfer_encoding_chunked" -> {"F_CHUNKED"}
      [] OTHER -> {}

HeaderAlmostDone ==
    /\ At("s_header_almost_done")
    /\ IF ch = LF
       THEN /\ Consume([Now EXCEPT !.state = "s_header_value_lws",
                                   !.flags = @ \cup FlagOf(parser.header_state)])
            /\ Silent
       ELSE Fail("STRICT")

\* Mutant: what is not a continuation is looked at again as one
LwsStays ==
    /\ At("s_header_value_lws")
    /\ IF ch \in {" ", TAB} THEN To("s_header_value_start")
       ELSE Reexecute([Now EXCEPT !.state = "s_header_value_lws"])
    /\ Silent

\* A line that begins with white space goes on with the value of the last one
HeaderValueLws ==
    /\ At("s_header_value_lws")
    /\ IF ch \in {" ", TAB} THEN To("s_header_value_start")
       ELSE Reexecute([Now EXCEPT !.state = "s_header_field_start"])
    /\ Silent

\* The empty line: it ends a message with trailers, or the headers
HeadersAlmostDone ==
    /\ At("s_headers_almost_done")
    /\ IF ch # LF THEN Fail("STRICT")
       ELSE IF "F_TRAILING" \in parser.flags THEN Complete(Now)
       ELSE /\ Reexecute([Now EXCEPT !.state = "s_headers_done", !.upgrade =
                            "F_UPGRADE" \in parser.flags \/ parser.method = "CONNECT"])
            /\ Notify("headers_complete",
                      IF parser.type = "HTTP_REQUEST"
                      THEN <<parser.method, parser.http_major, parser.http_minor>>
                      ELSE <<parser.status_code, parser.http_major, parser.http_minor>>)

\* Where the body is: none, in chunks, of a length, or up to the end of the file
HeadersDone ==
    LET q == [Now EXCEPT !.nread = 0] IN
    /\ At("s_headers_done")
    /\ IF parser.upgrade
       THEN \* execute returns: the rest is another protocol, and the caller drops it
            /\ parser' = [q EXCEPT !.state = NEW_MESSAGE(q)]
            /\ Notify("message_complete", <<>>)
            /\ pc' = "idle" /\ again' = FALSE /\ UNCHANGED <<stream, p, end>>
       ELSE IF "F_CHUNKED" \in parser.flags
       THEN Consume([q EXCEPT !.state = "s_chunk_size_start"]) /\ Silent
       ELSE IF parser.content_length \notin {0, MaxLength}
       THEN Consume([q EXCEPT !.state = "s_body_identity"]) /\ Silent
       ELSE IF parser.content_length = MaxLength /\ http_message_needs_eof(q)
       THEN Consume([q EXCEPT !.state = "s_body_identity_eof"]) /\ Silent
       ELSE Complete(q)

-----------------------------------------------------------------------------
\* Bodies

\* The bytes of a body that this call has: all of them at once
ToRead == IF parser.content_length < end - p + 1 THEN parser.content_length ELSE end - p + 1

\* The last byte of the body is executed again, as the end of the message
BodyIdentity ==
    LET left == parser.content_length - ToRead IN
    /\ At("s_body_identity")
    /\ p' = IF left = 0 THEN p + ToRead - 1 ELSE p + ToRead
    /\ parser' = [Now EXCEPT !.content_length = left,
                             !.state = IF left = 0 THEN "s_message_done" ELSE @]
    /\ again' = (left = 0)
    /\ IF left = 0
       THEN /\ log' = Receive("body", SubSeq(stream, Marked("body"), p'))
            /\ mark' = [mark EXCEPT !["body"] = 0]
       ELSE Mark("body")
    /\ UNCHANGED <<stream, pc, end>>

BodyIdentityEof ==
    /\ At("s_body_identity_eof")
    /\ p' = end + 1
    /\ Mark("body")
    /\ UNCHANGED <<stream, parser, pc, end, again>>

MessageDone == At("s_message_done") /\ Complete(Now)

ChunkSizeStart ==
    /\ At("s_chunk_size_start")
    /\ IF unhex(ch) = -1 THEN Fail("INVALID_CHUNK_SIZE")
       ELSE Consume([Now EXCEPT !.content_length = unhex(ch), !.state = "s_chunk_size"]) /\ Silent

ChunkSize ==
    LET t == Longer(16, unhex(ch)) IN
    /\ At("s_chunk_size")
    /\ IF ch = CR THEN To("s_chunk_size_almost_done") /\ Silent
       ELSE IF ch \in {";", " "} THEN To("s_chunk_parameters") /\ Silent
       ELSE IF unhex(ch) = -1 THEN Fail("INVALID_CHUNK_SIZE")
       ELSE IF Overflow(t) THEN Fail("INVALID_CONTENT_LENGTH")
       ELSE Consume([Now EXCEPT !.content_length = t]) /\ Silent

ChunkParameters ==
    /\ At("s_chunk_parameters")
    /\ To(IF ch = CR THEN "s_chunk_size_almost_done" ELSE "s_chunk_parameters")
    /\ Silent

ChunkSizeAlmostDone ==
    LET q == [Now EXCEPT !.nread = 0] IN
    /\ At("s_chunk_size_almost_done")
    /\ IF ch # LF THEN Fail("STRICT")
       ELSE IF parser.content_length = 0
       THEN /\ Consume([q EXCEPT !.flags = @ \cup {"F_TRAILING"}, !.state = "s_header_field_start"])
            /\ Silent
       ELSE Consume([q EXCEPT !.state = "s_chunk_data"]) /\ Silent

ChunkData ==
    LET left == parser.content_length - ToRead IN
    /\ At("s_chunk_data")
    /\ p' = p + ToRead
    /\ parser' = [Now EXCEPT !.content_length = left,
                             !.state = IF left = 0 THEN "s_chunk_data_almost_done" ELSE @]
    /\ again' = FALSE
    /\ Mark("body")
    /\ UNCHANGED <<stream, pc, end>>

ChunkDataAlmostDone ==
    /\ At("s_chunk_data_almost_done")
    /\ IF ch = CR THEN To("s_chunk_data_done") /\ Data("body", p) ELSE Fail("STRICT")

\* Mutant: the bytes of the chunk's head still count
ChunkDataDoneCounts ==
    /\ At("s_chunk_data_done")
    /\ IF ch = LF THEN Consume([Now EXCEPT !.nread = @ + 1, !.state = "s_chunk_size_start"]) /\ Silent
       ELSE Fail("STRICT")

ChunkDataDone ==
    /\ At("s_chunk_data_done")
    /\ IF ch = LF THEN Consume([Now EXCEPT !.nread = 0, !.state = "s_chunk_size_start"]) /\ Silent
       ELSE Fail("STRICT")

-----------------------------------------------------------------------------

Execute ==
    \/ Return \/ HeaderOverflow \/ Dead
    \/ StartReqOrRes \/ ResOrRespH \/ StartRes \/ ResConstant \/ ResVersion
    \/ ResStatusCode \/ ResStatus
    \/ StartReq \/ ReqMethod \/ SpacesBeforeUrl \/ UrlOpening \/ Url \/ ReqConstant \/ ReqVersion
    \/ HeaderFieldStart \/ HeaderField \/ HeaderValueStart \/ HeaderValue
    \/ HeaderAlmostDone \/ HeaderValueLws \/ HeadersAlmostDone \/ HeadersDone
    \/ BodyIdentity \/ BodyIdentityEof \/ MessageDone
    \/ ChunkSizeStart \/ ChunkSize \/ ChunkParameters \/ ChunkSizeAlmostDone
    \/ ChunkData \/ ChunkDataAlmostDone \/ ChunkDataDone

Next == Execute \/ CallEof \/ \E n \in Cuts : Call(n)

Spec == Init /\ [][Next]_vars
\* A call that was made goes on; the next one may never come
FairSpec == Spec /\ WF_vars(Execute)

-----------------------------------------------------------------------------
(***************************************************************************)
(* Properties                                                              *)
(***************************************************************************)

TypeOK ==
    /\ stream \in Seq(STRING)
    /\ parser \in Parser
    /\ pc \in {"idle", "loop", "ended"}
    /\ p \in Nat /\ end \in Nat
    /\ again \in BOOLEAN
    /\ mark \in [Fields -> Nat]

\* What a name may have been found to be, or to begin, while it is read
NameStates ==
    {"h_general", "h_C", "h_CO", "h_CON", "h_matching_connection", "h_matching_proxy_connection",
     "h_matching_content_length", "h_matching_transfer_encoding", "h_matching_upgrade",
     "h_connection", "h_content_length", "h_transfer_encoding", "h_upgrade"}

\* The assertions of the code hold, whatever bytes arrive and however they are
\* cut: a call leaves at most one field without its callback, a chunk begins with
\* nothing counted, a body that is read has bytes left to read, a name is compared
\* with no word of a value, and there is a case for every state
AssertionsHold ==
    pc = "loop" =>
        /\ \A f, g \in Fields : mark[f] # 0 /\ mark[g] # 0 => f = g
        /\ parser.state = "s_chunk_size_start" => Now.nread = 1 \/ p > end
        /\ parser.state \in {"s_chunk_size_start", "s_chunk_size", "s_chunk_parameters",
                             "s_chunk_size_almost_done", "s_chunk_data",
                             "s_chunk_data_almost_done", "s_chunk_data_done"}
               => "F_CHUNKED" \in parser.flags
        /\ parser.state \in {"s_body_identity", "s_chunk_data"}
               => parser.content_length \notin {0, MaxLength}
        /\ parser.state = "s_chunk_data_almost_done" => parser.content_length = 0
        /\ parser.state = "s_header_value"
               => parser.header_state \notin {"h_connection", "h_transfer_encoding"}
        /\ parser.state = "s_header_field" => parser.header_state \in NameStates
        /\ parser.state \in States

\* Every call returns: no byte is executed again for ever
CallsReturn == (pc = "loop") ~> (pc # "loop")

=============================================================================
