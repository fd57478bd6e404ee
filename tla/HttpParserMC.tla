---------------------------- MODULE HttpParserMC ----------------------------
(* Conversations for HttpParser, and what a caller should hear of each. *)
EXTENDS HttpParser, TLC, SequencesExt

E == "\r\n"
Event(cb, s) == [cb |-> cb, data |-> Bytes(s)]
Begin == Event("message_begin", "")
End   == Event("message_complete", "")
Seen(info) == [cb |-> "headers_complete", data |-> info]
Named(h) == <<Event("header_field", h[1]), Event("header_value", h[2])>>
Joined(strings) == FoldLeft(LAMBDA a, b : a \o b, "", strings)
Lines(hs) == Joined([i \in DOMAIN hs |-> hs[i][1] \o ": " \o hs[i][2] \o E])

\* A message: its first line, what that says, its headers, the parts of its body and
\* its trailers; how tells the header that frames the body
Framing(m) ==
    CASE m.how = "length"  -> << <<"Content-Length", ToString(Len(Joined(m.body)))>> >>
      [] m.how = "chunked" -> << <<"Transfer-Encoding", "chunked">> >>
      [] OTHER -> <<>>

Chunk(s) == Hex[Len(s) + 1] \o E \o s \o E

Text(m) ==
    m.line \o E \o Lines(m.headers) \o Lines(Framing(m)) \o E
    \o (IF m.how = "chunked"
        THEN Joined([i \in DOMAIN m.body |-> Chunk(m.body[i])]) \o "0" \o E \o Lines(m.trailers) \o E
        ELSE Joined(m.body))

Heard(m) ==
    <<Begin, Event(m.first, m.target)>>
    \o FlattenSeq([i \in DOMAIN m.headers |-> Named(m.headers[i])])
    \o FlattenSeq([i \in DOMAIN Framing(m) |-> Named(Framing(m)[i])])
    \o <<Seen(m.info)>>
    \o (IF Joined(m.body) = "" THEN <<>> ELSE <<Event("body", Joined(m.body))>>)
    \o FlattenSeq([i \in DOMAIN m.trailers |-> Named(m.trailers[i])])
    \o <<End>>

Request(method, url, hs, how, body, trailers) ==
    [line |-> method \o " " \o url \o " HTTP/1.1", first |-> "url", target |-> url, info |-> <<method, 1, 1>>,
     headers |-> hs, how |-> how, body |-> body, trailers |-> trailers]

Response(code, reason, hs, how, body) ==
    [line |-> "HTTP/1.1 " \o ToString(code) \o " " \o reason, first |-> "status", target |-> reason,
     info |-> <<code, 1, 1>>, headers |-> hs, how |-> how, body |-> body, trailers |-> <<>>]

Get(url) == Request("GET", url, << <<"Host", "h">> >>, "none", <<>>, <<>>)

\* Messages one after the other on a connection, and what follows them
Conversation(t, ms, rest, errno) ==
    [type |-> t, bytes |-> Bytes(Joined([i \in DOMAIN ms |-> Text(ms[i])]) \o rest), errno |-> errno,
     heard |-> FlattenSeq([i \in DOMAIN ms |-> Heard(ms[i])])]

Raw(t, text, heard, errno) == [type |-> t, bytes |-> Bytes(text), heard |-> heard, errno |-> errno]
Q == "HTTP_REQUEST"
R == "HTTP_RESPONSE"

Pipelines ==
    {Conversation(Q, <<Request("POST", "/a?b#c", << <<"cOnnection", "keep-alive">> >>, "length",
                               <<"abcde">>, <<>>), Get("/d")>>, "", "OK"),
     Conversation(Q, <<Request("PUT", "/", <<>>, "chunked", <<"abc", "defghi">>, << <<"t", "1">> >>),
                       Get("http://u@h:1/p")>>, E, "OK"),
     Conversation(Q, <<Request("GET", "*", << <<"Proxy-Connection", "close">> >>, "none", <<>>, <<>>)>>,
                  E \o "G", "CLOSED_CONNECTION"),
     Conversation(Q, <<Request("POST", "/", << <<"connexion", "close">>, <<"content", "2">>,
                                <<"upgrades", "x">>, <<"connection", "closed">> >>, "none", <<>>, <<>>),
                       Get("/")>>, "", "OK"),
     Conversation(R, <<Response(200, "OK", <<>>, "length", <<"ab">>),
                       Response(304, "Not Modified", <<>>, "none", <<>>)>>, "", "OK"),
     Conversation(R, <<Response(200, "OK", <<>>, "chunked", <<"abc">>)>>, "", "OK")}

\* Every method, and words that begin like one
Methods ==
    {Conversation(Q, <<Request(m, "/", <<>>, "none", <<>>, <<>>)>>, "", "OK")
        : m \in method_strings \ {"CONNECT"}}
    \cup {Raw(Q, w, IF w \in {"BET ", "get "} THEN <<>> ELSE <<Begin>>, "INVALID_METHOD")
        : w \in {"BET ", "get ", "GOT ", "PUTS", "POOST", "PRO ", "MOKCOL", "CHECKIN", "SUBS ", "UNS "}}

\* What a tolerant parser takes: no CR, a folded value, a URL that ends the line, spaces
\* in a number, an absolute URL, parameters of a chunk; and a change of protocol
Tolerated ==
    {Raw(Q, "\n\r\nGET  /  HTTP/1.0\nA:b\n c\nC:\nD\nE:\r\n\n",
         <<Begin, Event("url", "/"), Event("header_field", "A"), Event("header_value", "bc"),
           Event("header_field", "C"), Event("header_value", ""), Event("header_field", "DE"),
           Event("header_value", ""), Seen(<<"GET", 1, 0>>), End>>, "OK"),
     Raw(Q, "GET /\r\n\r\n", <<Begin, Event("url", "/"), Seen(<<"GET", 0, 9>>), End>>, "OK"),
     Raw(Q, "PUT / HTTP/1.1\r\nContent-length: 1 0 \r\n\r\n0123456789",
         <<Begin, Event("url", "/"), Event("header_field", "Content-length"),
           Event("header_value", "1 0 "), Seen(<<"PUT", 1, 1>>), Event("body", "0123456789"), End>>, "OK"),
     Raw(Q, "PUT / HTTP/1.1\nTransfer-Encoding: Chunked \n\n0A;x=y\r\n0123456789\r\n0 \r\n\r\n",
         <<Begin, Event("url", "/"), Event("header_field", "Transfer-Encoding"),
           Event("header_value", "Chunked "), Seen(<<"PUT", 1, 1>>), Event("body", "0123456789"), End>>,
         "OK"),
     Raw(Q, "CONNECT h:80 HTTP/1.1\r\n\r\n",
         <<Begin, Event("url", "h:80"), Seen(<<"CONNECT", 1, 1>>), End>>, "OK"),
     Raw(Q, "GET /a HTTP/1.1\r\nUpgrade: x\r\n\r\n",
         <<Begin, Event("url", "/a"), Event("header_field", "Upgrade"), Event("header_value", "x"),
           Seen(<<"GET", 1, 1>>), End>>, "OK"),
     Raw(R, "HTTP/1.0 200\n\nabc", <<Begin, Seen(<<200, 1, 0>>), Event("body", "abc"), End>>, "OK"),
     Raw(R, "HTTP/1.1  100 \n\nHTTP/1.1 204\r\n\r\n",
         <<Begin, Seen(<<100, 1, 1>>), End, Begin, Seen(<<204, 1, 1>>), End>>, "OK")}

\* What it rejects, and what it may have reported before
Asks(u) == <<Begin, Event("url", u)>>
Rejected ==
    {Raw(Q, "GET /\f HTTP/1.1\r\n", Asks("/"), "INVALID_URL"),
     Raw(Q, "GET http:// HTTP/1.1\r\n", Asks("http://"), "INVALID_URL"),
     Raw(Q, "GET / HTTQ/1.1\r\n", Asks("/"), "STRICT"),
     Raw(Q, "GET / HTTP/0.1\r\n", Asks("/"), "INVALID_VERSION"),
     Raw(Q, "GET / HTTP/1.1000\r\n", Asks("/"), "INVALID_VERSION"),
     Raw(Q, "GET / HTTP/1.1\r\r\n", Asks("/"), "LF_EXPECTED"),
     Raw(Q, "GET / HTTP/1.1\r\n(:b\r\n", Asks("/"), "INVALID_HEADER_TOKEN"),
     Raw(Q, "GET / HTTP/1.1\r\nContent-Length: 1x\r\n\r\n",
         Asks("/") \o Named(<<"Content-Length", "1">>), "INVALID_CONTENT_LENGTH"),
     Raw(Q, "GET / HTTP/1.1\r\nContent-Length: 260\r\n\r\n",
         Asks("/") \o Named(<<"Content-Length", "26">>), "INVALID_CONTENT_LENGTH"),
     Raw(Q, "GET / HTTP/1.1\r\na: b\rc", Asks("/") \o Named(<<"a", "b">>), "STRICT"),
     Raw(Q, "PUT / HTTP/1.1\r\nTransfer-Encoding: chunked\r\n\r\n1\r\nabc",
         Asks("/") \o Named(<<"Transfer-Encoding", "chunked">>) \o <<Seen(<<"PUT", 1, 1>>), Event("body", "a")>>,
         "STRICT"),
     Raw(Q, "PUT / HTTP/1.1\r\nTransfer-Encoding: chunked\r\n\r\ng",
         Asks("/") \o Named(<<"Transfer-Encoding", "chunked">>) \o <<Seen(<<"PUT", 1, 1>>)>>,
         "INVALID_CHUNK_SIZE"),
     Raw(R, "HTTP/1.1 2000 OK", <<Begin>>, "INVALID_STATUS"),
     Raw(R, "FTP", <<>>, "INVALID_CONSTANT")}

LongUrl == Joined([i \in 1..12 |-> "/123456789"])
Long == {Raw(Q, "GET " \o LongUrl, Asks(LongUrl), "HEADER_OVERFLOW")}

Conversations == Pipelines \cup Methods \cup Tolerated \cup Rejected \cup Long
AllStreams == {c.bytes : c \in Conversations}

\* l is x, or the beginning of it with part of the last piece
Begins(l, x) ==
    /\ Len(l) <= Len(x)
    /\ \A i \in 1..(Len(l) - 1) : l[i] = x[i]
    /\ l # <<>> => /\ l[Len(l)].cb = x[Len(l)].cb
                   /\ IsPrefix(l[Len(l)].data, x[Len(l)].data)

\* However its bytes are cut into calls, a conversation is reported message by
\* message: every field once, in order and whole, no byte of one in another, the
\* body as long as its frame says; bytes the parser rejects stop it where they
\* are, and nothing is reported behind them
Delivers ==
    \A c \in Conversations :
        c.bytes = stream /\ c.type = parser.type =>
            /\ Begins(log, c.heard)
            /\ pc = "ended" =>
                 /\ parser.errno = c.errno
                 /\ c.errno = "OK" => log = c.heard
=============================================================================
