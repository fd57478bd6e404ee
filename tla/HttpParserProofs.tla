--------------------------- MODULE HttpParserProofs ---------------------------
(***************************************************************************)
(* Theorems about HttpParser for every stream of bytes, however it is cut, *)
(* and every limit on headers and lengths: types and assertions, then that *)
(* calls return, that bytes reach the callbacks in order, and that a body  *)
(* is as long as its frame says.                                           *)
(***************************************************************************)
EXTENDS HttpParser, TLAPS

ChunkHead   == {"s_chunk_size", "s_chunk_parameters", "s_chunk_size_almost_done"}
ChunkStates == ChunkHead \cup {"s_chunk_size_start", "s_chunk_data", "s_chunk_data_almost_done",
                               "s_chunk_data_done"}

\* What the first byte of a value may have made of its name, and what comes of that
ValueStates ==
    {"h_general", "h_content_length", "h_matching_transfer_encoding_chunked",
     "h_matching_connection_keep_alive", "h_matching_connection_close",
     "h_transfer_encoding_chunked", "h_connection_keep_alive", "h_connection_close"}

\* What a parser that goes on has in each state
Sound(q) ==
    /\ q.errno = "OK"
    /\ q.state \in ChunkStates => "F_CHUNKED" \in q.flags
    /\ q.state = "s_chunk_size_start" => q.nread = 0
    /\ q.state \in ChunkHead => q.content_length # MaxLength
    /\ q.state \in {"s_body_identity", "s_chunk_data"} =>
          q.content_length \notin {0, MaxLength} /\ q.nread = 0
    /\ q.state = "s_chunk_data_almost_done" => q.content_length = 0
    /\ q.state = "s_header_value" => q.header_state \in ValueStates
    /\ q.state = "s_header_field" => q.header_state \in NameStates

\* The states in which a field may be without its callback
MarkedIn ==
    [header_field |-> {"s_header_field"}, header_value |-> {"s_header_value"},
     url |-> UrlOpen \cup UrlBody, status |-> {"s_res_status"},
     body |-> {"s_body_identity", "s_body_identity_eof", "s_chunk_data",
               "s_chunk_data_almost_done"}]

MarksKnown == \A f \in Fields : mark[f] # 0 => pc = "loop" /\ parser.state \in MarkedIn[f]

Healthy == parser.errno = "OK" => Sound(parser) /\ (parser.state = "s_chunk_size_start" => ~again)

Inv ==
    /\ TypeOK
    /\ pc = "loop" => parser.errno = "OK"
    /\ Healthy
    /\ MarksKnown

-----------------------------------------------------------------------------
\* The ways a pass ends

Plain == States \ (ChunkStates \cup {"s_body_identity", "s_header_value", "s_header_field"})

\* In a state that asks for nothing, a parser that goes on is sound
LEMMA PlainSound ==
    ASSUME NEW q, q.errno = "OK", q.state \in Plain
    PROVE  Sound(q)
BY DEF Sound, Plain, ChunkStates, ChunkHead

\* Counting a byte changes nothing else
LEMMA NowType ==
    ASSUME Inv
    PROVE  /\ Now \in Parser /\ Now.state = parser.state /\ Now.errno = parser.errno
           /\ Now.flags = parser.flags /\ Now.content_length = parser.content_length
           /\ Now.header_state = parser.header_state
<1>1. parser \in Parser
      BY DEF Inv, TypeOK
<1>2. CASE Now = parser
      BY <1>1, <1>2
<1>3. CASE Now = [parser EXCEPT !.nread = @ + 1]
      BY <1>1, <1>3 DEF Parser
<1> QED BY <1>2, <1>3 DEF Now

\* A pass behind which the parser goes on
LEMMA Step ==
    ASSUME Inv, pc = "loop", pc' = "loop", UNCHANGED <<stream, end>>,
           p' \in Nat, again' \in BOOLEAN, parser' \in Parser, Sound(parser'),
           parser'.state = "s_chunk_size_start" => ~again',
           mark' \in [Fields -> Nat],
           \A f \in Fields : mark'[f] # 0 => parser'.state \in MarkedIn[f]
    PROVE  Inv'
BY DEF Inv, TypeOK, Healthy, MarksKnown, Sound

LEMMA FailStep ==
    ASSUME Inv, pc = "loop", NEW e \in Errors, Fail(e)
    PROVE  Inv'
<1>1. /\ parser' = [Now EXCEPT !.errno = e] /\ pc' = "idle" /\ again' = FALSE
      /\ mark' = NoMarks /\ UNCHANGED <<stream, p, end>>
      BY DEF Fail
<1>2. parser' \in Parser /\ parser'.errno # "OK"
      BY <1>1, NowType DEF Parser, Errors
<1>3. mark' \in [Fields -> Nat] /\ \A f \in Fields : mark'[f] = 0
      BY <1>1 DEF NoMarks
<1> QED BY <1>1, <1>2, <1>3 DEF Inv, TypeOK, Healthy, MarksKnown

LEMMA GoesOn ==
    ASSUME Inv, pc = "loop", NEW q,
           Consume(q) \/ (Reexecute(q) /\ q.state # "s_chunk_size_start")
    PROVE  /\ pc' = "loop" /\ UNCHANGED <<stream, end>> /\ p' \in Nat /\ again' \in BOOLEAN
           /\ parser' = q /\ (q.state = "s_chunk_size_start" => ~again')
<1>1. p \in Nat
      BY DEF Inv, TypeOK
<1>2. CASE Consume(q)
  <2>1. /\ pc' = pc /\ UNCHANGED <<stream, end>> /\ p' = p + 1 /\ parser' = q
        BY <1>2 DEF Consume
  <2>2. again' \in BOOLEAN /\ ~again'
        BY <1>2, Zenon DEF Consume
  <2>3. p' \in Nat
        BY <1>1, <2>1
  <2> QED BY <2>1, <2>2, <2>3, Zenon
<1>3. CASE Reexecute(q) /\ q.state # "s_chunk_size_start"
  <2>1. /\ pc' = pc /\ UNCHANGED <<stream, end>> /\ p' = p /\ parser' = q
        BY <1>3 DEF Reexecute
  <2>2. again' \in BOOLEAN /\ (q.state = "s_chunk_size_start" => ~again')
        BY <1>3, Zenon DEF Reexecute
  <2> QED BY <1>1, <2>1, <2>2, Zenon
<1> QED BY <1>2, <1>3

\* A pass that leaves no field open, or the one that was
LEMMA SilentStep ==
    ASSUME Inv, pc = "loop", NEW q \in Parser, Sound(q), UNCHANGED mark,
           Consume(q) \/ (Reexecute(q) /\ q.state # "s_chunk_size_start"),
           \A f \in Fields : parser.state \in MarkedIn[f] => q.state \in MarkedIn[f]
    PROVE  Inv'
<1>1. /\ pc' = "loop" /\ UNCHANGED <<stream, end>> /\ p' \in Nat /\ again' \in BOOLEAN
      /\ parser' = q /\ (q.state = "s_chunk_size_start" => ~again')
      BY GoesOn
<1>2. /\ mark' \in [Fields -> Nat]
      /\ \A f \in Fields : mark'[f] # 0 => q.state \in MarkedIn[f]
      BY DEF Inv, TypeOK, MarksKnown
<1> QED BY <1>1, <1>2, Step

\* A pass that ends a field
LEMMA DataStep ==
    ASSUME Inv, pc = "loop", NEW q \in Parser, Sound(q), NEW f \in Fields, NEW to,
           Consume(q) \/ (Reexecute(q) /\ q.state # "s_chunk_size_start"),
           Data(f, to) \/ mark' = [mark EXCEPT ![f] = 0],
           \A g \in Fields : parser.state \in MarkedIn[g] => g = f
    PROVE  Inv'
<1>1. /\ pc' = "loop" /\ UNCHANGED <<stream, end>> /\ p' \in Nat /\ again' \in BOOLEAN
      /\ parser' = q /\ (q.state = "s_chunk_size_start" => ~again')
      BY GoesOn
<1>2. mark' = [mark EXCEPT ![f] = 0]
      BY DEF Data
<1>3. /\ mark' \in [Fields -> Nat]
      /\ \A g \in Fields : mark'[g] = 0
      BY <1>2 DEF Inv, TypeOK, MarksKnown
<1> QED BY <1>1, <1>3, Step

\* A pass that begins a field, or goes on with it
LEMMA MarkStep ==
    ASSUME Inv, pc = "loop", NEW q \in Parser, Sound(q), NEW f \in Fields, Consume(q), Mark(f),
           q.state \in MarkedIn[f],
           \A g \in Fields : parser.state \in MarkedIn[g] => g = f
    PROVE  Inv'
<1>1. /\ pc' = "loop" /\ UNCHANGED <<stream, end>> /\ p' \in Nat /\ again' = FALSE
      /\ parser' = q
      BY DEF Consume, Inv, TypeOK
<1>2. mark' = [mark EXCEPT ![f] = Marked(f)] /\ Marked(f) \in Nat
      BY DEF Mark, Marked, Inv, TypeOK
<1>3. /\ mark' \in [Fields -> Nat]
      /\ \A g \in Fields : mark'[g] # 0 => g = f
      BY <1>2 DEF Inv, TypeOK, MarksKnown
<1> QED BY <1>1, <1>3, Step

\* The states in which no field is open
Quiet == States \ (UrlOpen \cup UrlBody \cup
            {"s_header_field", "s_header_value", "s_res_status", "s_body_identity",
             "s_body_identity_eof", "s_chunk_data", "s_chunk_data_almost_done"})

LEMMA NoField ==
    ASSUME NEW s \in Quiet, NEW f \in Fields
    PROVE  s \notin MarkedIn[f]
BY DEF Quiet, MarkedIn, Fields

\* A pass from such a state to one that asks for nothing
LEMMA PlainStep ==
    ASSUME Inv, pc = "loop", parser.state \in Quiet,
           NEW q \in Parser, q.errno = "OK", q.state \in Plain,
           Consume(q) \/ Reexecute(q), UNCHANGED mark
    PROVE  Inv'
<1>1. Sound(q) /\ q.state # "s_chunk_size_start"
      BY PlainSound DEF Plain, ChunkStates
<1>2. \A f \in Fields : parser.state \notin MarkedIn[f]
      BY NoField
<1> QED BY <1>1, <1>2, SilentStep

LEMMA ToStep ==
    ASSUME Inv, pc = "loop", parser.state \in Quiet, NEW s \in Plain, To(s), Silent
    PROVE  Inv'
<1> DEFINE q == [Now EXCEPT !.state = s]
<1>1. q \in Parser /\ q.errno = "OK" /\ q.state = s
      BY NowType DEF Plain, Parser, Inv
<1>2. Consume(q) /\ UNCHANGED mark
      BY DEF To, Silent
<1> HIDE DEF q
<1> QED BY <1>1, <1>2, PlainStep

LEMMA ExpectStep ==
    ASSUME Inv, pc = "loop", parser.state \in Quiet,
           NEW c, NEW s \in Plain, NEW e \in Errors, Expect(c, s, e)
    PROVE  Inv'
BY ToStep, FailStep DEF Expect

LEMMA DigitType ==
    ASSUME NEW c
    PROVE  /\ unhex(c) \in {-1} \cup 0..15
           /\ c \in Digits => unhex(c) \in 0..15
<1>1. CASE \E i \in 1..16 : c \in {Hex[i], HEX[i]}
  <2>1. (CHOOSE i \in 1..16 : c \in {Hex[i], HEX[i]}) \in 1..16
        BY <1>1
  <2> QED BY <1>1, <2>1 DEF unhex
<1>2. CASE ~\E i \in 1..16 : c \in {Hex[i], HEX[i]}
  <2>1. c \notin Digits
        BY <1>2 DEF Digits
  <2> QED BY <1>2, <2>1 DEF unhex
<1> QED BY <1>1, <1>2

LEMMA FirstDigitStep ==
    ASSUME Inv, pc = "loop", parser.state \in Quiet,
           NEW f \in {"http_major", "http_minor", "status_code"},
           NEW s \in Plain, NEW e \in Errors, FirstDigit(f, s, e)
    PROVE  Inv'
<1> DEFINE q == [Now EXCEPT ![f] = unhex(ch), !.state = s]
<1>1. CASE ch \in Digits
  <2>0. unhex(ch) \in Nat
        BY <1>1, DigitType
  <2>1. Consume(q) /\ UNCHANGED mark
        BY <1>1 DEF FirstDigit, Silent
  <2>2. q \in Parser /\ q.errno = "OK" /\ q.state = s
        BY <2>0, NowType DEF Plain, Parser, Inv
  <2> HIDE DEF q
  <2> QED BY <2>1, <2>2, PlainStep
<1>2. CASE ch \notin Digits
      BY <1>2, FailStep DEF FirstDigit
<1> QED BY <1>1, <1>2

LEMMA NextDigitStep ==
    ASSUME Inv, pc = "loop", parser.state \in Quiet, parser.state \in Plain,
           NEW f \in {"http_major", "http_minor", "status_code"},
           NEW e \in Errors, NextDigit(f, e)
    PROVE  Inv'
<1> DEFINE v == 10 * parser[f] + unhex(ch)
           q == [Now EXCEPT ![f] = v]
<1>1. CASE ch \in Digits /\ v <= 999
  <2>0. unhex(ch) \in Nat
        BY <1>1, DigitType
  <2>1. parser[f] \in Nat
        BY DEF Inv, TypeOK, Parser
  <2>2. v \in Nat
        BY <2>0, <2>1
  <2> HIDE DEF v
  <2>3. q \in Parser /\ q.errno = "OK" /\ q.state = parser.state
        BY <2>2, NowType DEF Parser, Inv
  <2>4. Consume(q) /\ UNCHANGED mark
        BY <1>1 DEF NextDigit, Silent, v
  <2> HIDE DEF q
  <2> QED BY <2>3, <2>4, PlainStep
<1>2. CASE ~(ch \in Digits /\ v <= 999)
      BY <1>2, FailStep DEF NextDigit
<1> QED BY <1>1, <1>2

LEMMA OwnField ==
    ASSUME NEW f \in Fields, NEW g \in Fields, NEW s, s \in MarkedIn[f], s \in MarkedIn[g]
    PROVE  g = f
BY DEF MarkedIn, Fields, UrlOpen, UrlBody, Server, Query, Fragment

\* A pass that ends the open field
LEMMA EndStep ==
    ASSUME Inv, pc = "loop", NEW f \in Fields, parser.state \in MarkedIn[f],
           NEW q \in Parser, q.errno = "OK", q.state \in Plain, NEW to,
           Consume(q) \/ Reexecute(q), Data(f, to)
    PROVE  Inv'
<1>1. Sound(q) /\ q.state # "s_chunk_size_start"
      BY PlainSound DEF Plain, ChunkStates
<1>2. \A g \in Fields : parser.state \in MarkedIn[g] => g = f
      BY OwnField
<1> QED BY <1>1, <1>2, DataStep

\* A pass that begins a field
LEMMA BeginStep ==
    ASSUME Inv, pc = "loop", parser.state \in Quiet, NEW f \in Fields,
           NEW q \in Parser, Sound(q), q.state \in MarkedIn[f], Consume(q), Mark(f)
    PROVE  Inv'
<1>1. \A g \in Fields : parser.state \notin MarkedIn[g]
      BY NoField
<1> QED BY <1>1, MarkStep

\* A pass inside a field
LEMMA InsideStep ==
    ASSUME Inv, pc = "loop", NEW f \in Fields, parser.state \in MarkedIn[f],
           NEW q \in Parser, Sound(q), q.state \in MarkedIn[f], Consume(q), UNCHANGED mark
    PROVE  Inv'
<1>1. \A g \in Fields : parser.state \in MarkedIn[g] => g = f
      BY OwnField
<1> QED BY <1>1, SilentStep

LEMMA EndOfLineStep ==
    ASSUME Inv, pc = "loop", parser.state \in Quiet, NEW s \in Plain, EndOfLine(s), Silent,
           "s_header_field_start" \in Plain
    PROVE  Inv'
BY ToStep DEF EndOfLine

-----------------------------------------------------------------------------
\* Calls

LEMMA CallStep == ASSUME Inv, NEW n \in Cuts, Call(n) PROVE Inv'
<1>1. end' \in Nat /\ p' \in Nat /\ UNCHANGED <<stream, parser, again>>
      BY CutAssumption DEF Call, Inv, TypeOK
<1>2. CASE parser.errno # "OK"
      BY <1>1, <1>2 DEF Call, Inv, TypeOK, Healthy, MarksKnown
<1>3. CASE parser.errno = "OK"
  <2>1. /\ pc' = "loop"
        /\ mark' = [f \in Fields |-> IF f \in Resumed(parser.state) THEN p' ELSE 0]
        BY <1>3 DEF Call
  <2>2. mark' \in [Fields -> Nat]
        BY <1>1, <2>1
  <2>3. \A f \in Fields : f \in Resumed(parser.state) => parser.state \in MarkedIn[f]
        BY DEF Resumed, MarkedIn, Fields
  <2>4. MarksKnown'
        BY <1>1, <2>1, <2>3 DEF MarksKnown
  <2>5. Healthy'
        BY <1>1 DEF Inv, Healthy
  <2> QED BY <1>1, <1>3, <2>1, <2>2, <2>4, <2>5 DEF Inv, TypeOK
<1> QED BY <1>2, <1>3

LEMMA CallEofStep == ASSUME Inv, CallEof PROVE Inv'
<1>1. /\ pc = "idle" /\ pc' = "ended" /\ UNCHANGED <<stream, p, end, again, mark>>
      /\ parser' = parser \/ parser' = [parser EXCEPT !.errno = "INVALID_EOF_STATE"]
      BY DEF CallEof
<1>2. parser' \in Parser
  <2>1. parser \in Parser
        BY DEF Inv, TypeOK
  <2>2. CASE parser' = parser
        BY <2>1, <2>2
  <2>3. CASE parser' = [parser EXCEPT !.errno = "INVALID_EOF_STATE"]
        BY <2>1, <2>3 DEF Parser, Errors
  <2> QED BY <1>1, <2>2, <2>3
<1>3. Healthy'
      BY <1>1, <1>2 DEF Inv, TypeOK, Healthy, Parser
<1> QED BY <1>1, <1>2, <1>3 DEF Inv, TypeOK, MarksKnown

LEMMA ReturnStep == ASSUME Inv, Return PROVE Inv'
<1>1. /\ pc' = "idle" /\ mark' = NoMarks /\ UNCHANGED <<stream, parser, p, end, again>>
      BY DEF Return
<1>2. mark' \in [Fields -> Nat] /\ \A f \in Fields : mark'[f] = 0
      BY <1>1 DEF NoMarks
<1>3. Healthy'
      BY <1>1 DEF Inv, Healthy
<1> QED BY <1>1, <1>2, <1>3 DEF Inv, TypeOK, MarksKnown

LEMMA OverflowStep == ASSUME Inv, HeaderOverflow PROVE Inv'
BY FailStep DEF HeaderOverflow, Errors

-----------------------------------------------------------------------------
\* The first line

LEMMA PlainStates ==
    /\ {"s_dead", "s_start_req_or_res", "s_res_or_resp_H", "s_start_res", "s_res_H", "s_res_HT",
     "s_res_HTT", "s_res_HTTP", "s_res_first_http_major", "s_res_http_major",
     "s_res_first_http_minor", "s_res_http_minor", "s_res_first_status_code",
     "s_res_status_code", "s_res_status_start", "s_res_status", "s_res_line_almost_done",
     "s_start_req", "s_req_method", "s_req_spaces_before_url", "s_req_http_start",
     "s_req_http_H", "s_req_http_HT", "s_req_http_HTT", "s_req_http_HTTP",
     "s_req_first_http_major", "s_req_http_major", "s_req_first_http_minor",
     "s_req_http_minor", "s_req_line_almost_done", "s_header_field_start", "s_header_value_start",
     "s_header_value_lws", "s_header_almost_done", "s_headers_almost_done", "s_headers_done", "s_body_identity_eof", "s_message_done"}
       \subseteq Plain
    /\ UrlOpen \subseteq Plain /\ UrlBody \subseteq Plain
BY DEF Plain, States, ChunkStates, ChunkHead, UrlOpen, UrlBody, BodyStates, Query, Fragment

LEMMA QuietStates ==
    {"s_dead", "s_start_req_or_res", "s_res_or_resp_H", "s_start_res", "s_res_H", "s_res_HT",
     "s_res_HTT", "s_res_HTTP", "s_res_first_http_major", "s_res_http_major",
     "s_res_first_http_minor", "s_res_http_minor", "s_res_first_status_code",
     "s_res_status_code", "s_res_status_start", "s_res_line_almost_done",
     "s_start_req", "s_req_method", "s_req_spaces_before_url", "s_req_http_start",
     "s_req_http_H", "s_req_http_HT", "s_req_http_HTT", "s_req_http_HTTP",
     "s_req_first_http_major", "s_req_http_major", "s_req_first_http_minor",
     "s_req_http_minor", "s_req_line_almost_done", "s_header_field_start",
     "s_header_value_start", "s_header_value_lws", "s_header_almost_done",
     "s_headers_almost_done", "s_headers_done", "s_message_done", "s_chunk_size_start",
     "s_chunk_size", "s_chunk_parameters", "s_chunk_size_almost_done", "s_chunk_data_done"}
       \subseteq Quiet
BY DEF Quiet, States, UrlOpen, UrlBody, BodyStates, Query, Fragment

LEMMA DeadStep == ASSUME Inv, Dead PROVE Inv'
<1>1. pc = "loop" /\ parser.state = "s_dead"
      BY NowType DEF Dead, At, In
<1>2. CASE To("s_dead") /\ Silent
  <2>1. "s_dead" \in Plain /\ "s_dead" \in Quiet
        BY PlainStates, QuietStates
  <2> QED BY <1>1, <1>2, <2>1, ToStep
<1> QED BY <1>1, <1>2, FailStep DEF Dead, Errors

LEMMA FreshType ==
    ASSUME Inv, pc = "loop"
    PROVE  Fresh \in Parser /\ Fresh.errno = "OK"
<1>1. Now \in Parser /\ Now.errno = "OK"
      BY NowType DEF Inv
<1>2. MaxLength \in 0..MaxLength /\ {} \in SUBSET Flags
      BY MaxAssumption
<1> QED BY <1>1, <1>2 DEF Fresh, Parser

LEMMA StartReqOrResStep == ASSUME Inv, StartReqOrRes PROVE Inv'
<1>1. pc = "loop" /\ parser.state \in Quiet
      BY NowType, QuietStates DEF StartReqOrRes, At, In
<1>2. CASE To("s_start_req_or_res") /\ Silent
      BY <1>1, <1>2, ToStep, PlainStates
<1>3. CASE /\ Consume([Fresh EXCEPT !.state = "s_res_or_resp_H"])
           /\ Notify("message_begin", <<>>)
  <2> DEFINE q == [Fresh EXCEPT !.state = "s_res_or_resp_H"]
  <2>1. q \in Parser /\ q.errno = "OK" /\ q.state \in Plain
        BY <1>1, FreshType, PlainStates DEF Parser, Plain
  <2>2. Consume(q) /\ UNCHANGED mark
        BY <1>3 DEF Notify
  <2> HIDE DEF q
  <2> QED BY <1>1, <2>1, <2>2, PlainStep
<1>4. CASE /\ Reexecute([Fresh EXCEPT !.type = "HTTP_REQUEST", !.state = "s_start_req"])
           /\ Silent
  <2> DEFINE q == [Fresh EXCEPT !.type = "HTTP_REQUEST", !.state = "s_start_req"]
  <2>1. q \in Parser /\ q.errno = "OK" /\ q.state \in Plain
        BY <1>1, FreshType, PlainStates DEF Parser, Plain
  <2>2. Reexecute(q) /\ UNCHANGED mark
        BY <1>4 DEF Silent
  <2> HIDE DEF q
  <2> QED BY <1>1, <2>1, <2>2, PlainStep
<1> QED BY <1>2, <1>3, <1>4 DEF StartReqOrRes

LEMMA ResOrRespHStep == ASSUME Inv, ResOrRespH PROVE Inv'
<1>1. pc = "loop" /\ parser.state \in Quiet
      BY NowType, QuietStates DEF ResOrRespH, At, In
<1>2. CASE Consume([Now EXCEPT !.type = "HTTP_RESPONSE", !.state = "s_res_HT"]) /\ Silent
  <2> DEFINE q == [Now EXCEPT !.type = "HTTP_RESPONSE", !.state = "s_res_HT"]
  <2>1. q \in Parser /\ q.errno = "OK" /\ q.state \in Plain
        BY <1>1, NowType, PlainStates DEF Parser, Plain, Inv
  <2>2. Consume(q) /\ UNCHANGED mark
        BY <1>2 DEF Silent
  <2> HIDE DEF q
  <2> QED BY <1>1, <2>1, <2>2, PlainStep
<1>3. CASE /\ Consume([Now EXCEPT !.type = "HTTP_REQUEST", !.method = "HEAD", !.index = 2,
                                  !.state = "s_req_method"])
           /\ Silent
  <2> DEFINE q == [Now EXCEPT !.type = "HTTP_REQUEST", !.method = "HEAD", !.index = 2,
                              !.state = "s_req_method"]
  <2>1. q \in Parser /\ q.errno = "OK" /\ q.state \in Plain
        BY <1>1, NowType, PlainStates DEF Parser, Plain, Inv, method_strings
  <2>2. Consume(q) /\ UNCHANGED mark
        BY <1>3 DEF Silent
  <2> HIDE DEF q
  <2> QED BY <1>1, <2>1, <2>2, PlainStep
<1>4. CASE Fail("INVALID_CONSTANT")
      BY <1>1, <1>4, FailStep DEF Errors
<1> QED BY <1>2, <1>3, <1>4 DEF ResOrRespH

LEMMA StartResStep == ASSUME Inv, StartRes PROVE Inv'
<1>1. pc = "loop" /\ parser.state = "s_start_res" /\ parser.state \in Quiet
      BY NowType, QuietStates DEF StartRes, At, In
<1>2. CASE /\ Consume([Fresh EXCEPT !.state = IF ch = "H" THEN "s_res_H" ELSE @])
           /\ Notify("message_begin", <<>>)
  <2> DEFINE q == [Fresh EXCEPT !.state = IF ch = "H" THEN "s_res_H" ELSE @]
  <2>1. Fresh.state = "s_start_res"
        BY <1>1, NowType DEF Fresh, Parser
  <2>2. q \in Parser /\ q.errno = "OK" /\ q.state \in Plain
        BY <1>1, <2>1, FreshType, PlainStates DEF Parser, Plain
  <2>3. Consume(q) /\ UNCHANGED mark
        BY <1>2 DEF Notify
  <2> HIDE DEF q
  <2> QED BY <1>1, <2>2, <2>3, PlainStep
<1>3. CASE Fail("INVALID_CONSTANT")
      BY <1>1, <1>3, FailStep DEF Errors
<1> QED BY <1>2, <1>3 DEF StartRes

LEMMA ResConstantStep == ASSUME Inv, ResConstant PROVE Inv'
<1>1. pc = "loop" /\ parser.state \in Quiet
      BY NowType, QuietStates DEF ResConstant, At, In
<1> QED BY <1>1, ExpectStep, PlainStates DEF ResConstant, Errors

LEMMA ResVersionStep == ASSUME Inv, ResVersion PROVE Inv'
<1>1. pc = "loop" /\ parser.state \in Quiet /\ parser.state \in Plain
      BY NowType, QuietStates, PlainStates DEF ResVersion, At, In
<1>2. "INVALID_VERSION" \in Errors
      BY DEF Errors
<1>3. CASE FirstDigit("http_major", "s_res_http_major", "INVALID_VERSION")
      BY <1>1, <1>2, <1>3, FirstDigitStep, PlainStates
<1>4. CASE FirstDigit("http_minor", "s_res_http_minor", "INVALID_VERSION")
      BY <1>1, <1>2, <1>4, FirstDigitStep, PlainStates
<1>5. CASE NextDigit("http_major", "INVALID_VERSION")
      BY <1>1, <1>2, <1>5, NextDigitStep
<1>6. CASE NextDigit("http_minor", "INVALID_VERSION")
      BY <1>1, <1>2, <1>6, NextDigitStep
<1>7. CASE To("s_res_first_http_minor") /\ Silent
      BY <1>1, <1>7, ToStep, PlainStates
<1>8. CASE To("s_res_first_status_code") /\ Silent
      BY <1>1, <1>8, ToStep, PlainStates
<1> QED BY <1>3, <1>4, <1>5, <1>6, <1>7, <1>8 DEF ResVersion

LEMMA ResStatusCodeStep == ASSUME Inv, ResStatusCode PROVE Inv'
<1>1. pc = "loop" /\ parser.state \in Quiet /\ parser.state \in Plain
      BY NowType, QuietStates, PlainStates DEF ResStatusCode, At, In
<1>2. "INVALID_STATUS" \in Errors
      BY DEF Errors
<1>3. CASE FirstDigit("status_code", "s_res_status_code", "INVALID_STATUS")
      BY <1>1, <1>2, <1>3, FirstDigitStep, PlainStates
<1>4. CASE NextDigit("status_code", "INVALID_STATUS")
      BY <1>1, <1>2, <1>4, NextDigitStep
<1>5. CASE To("s_res_first_status_code") /\ Silent
      BY <1>1, <1>5, ToStep, PlainStates
<1>6. CASE To("s_res_status_start") /\ Silent
      BY <1>1, <1>6, ToStep, PlainStates
<1>7. CASE EndOfLine("s_res_line_almost_done") /\ Silent
      BY <1>1, <1>7, EndOfLineStep, PlainStates
<1> QED BY <1>3, <1>4, <1>5, <1>6, <1>7 DEF ResStatusCode

LEMMA ResStatusStep == ASSUME Inv, ResStatus PROVE Inv'
<1>1. pc = "loop"
      BY DEF ResStatus, At, In
<1>2. CASE At("s_res_status_start")
  <2>1. parser.state \in Quiet
        BY <1>2, NowType, QuietStates DEF At, In
  <2>2. CASE EndOfLine("s_res_line_almost_done") /\ Silent
        BY <1>1, <2>1, <2>2, EndOfLineStep, PlainStates
  <2>3. CASE Consume([Now EXCEPT !.state = "s_res_status", !.index = 0]) /\ Mark("status")
    <3> DEFINE q == [Now EXCEPT !.state = "s_res_status", !.index = 0]
    <3>1. q \in Parser /\ q.errno = "OK" /\ q.state = "s_res_status"
          BY <1>1, NowType, PlainStates DEF Parser, Plain, Inv
    <3>2. q.state \in MarkedIn["status"] /\ "status" \in Fields
          BY <3>1 DEF MarkedIn, Fields
    <3>3. Sound(q)
          BY <3>1, PlainSound, PlainStates
    <3> HIDE DEF q
    <3> QED BY <1>1, <2>1, <2>3, <3>1, <3>2, <3>3, BeginStep DEF q
  <2> QED BY <1>2, <2>2, <2>3 DEF ResStatus, At, In
<1>3. CASE At("s_res_status")
  <2>1. parser.state = "s_res_status"
        BY <1>3, NowType DEF At, In
  <2>2. "status" \in Fields /\ parser.state \in MarkedIn["status"]
        BY <2>1 DEF MarkedIn, Fields
  <2>3. CASE EndOfLine("s_res_line_almost_done") /\ Data("status", p)
    <3> DEFINE q == [Now EXCEPT !.state = IF ch = CR THEN "s_res_line_almost_done"
                                         ELSE "s_header_field_start"]
    <3>1. q \in Parser /\ q.errno = "OK" /\ q.state \in Plain
          BY <1>1, NowType, PlainStates DEF Parser, Plain, Inv
    <3>2. Consume(q)
          BY <2>3 DEF EndOfLine, To
    <3> HIDE DEF q
    <3> QED BY <1>1, <2>2, <2>3, <3>1, <3>2, EndStep
  <2>4. CASE To("s_res_status") /\ Silent
    <3> DEFINE q == [Now EXCEPT !.state = "s_res_status"]
    <3>1. q \in Parser /\ q.errno = "OK" /\ q.state = "s_res_status"
          BY <1>1, NowType, PlainStates DEF Parser, Plain, Inv
    <3>2. Sound(q)
          BY <3>1, PlainSound, PlainStates
    <3>3. Consume(q) /\ UNCHANGED mark
          BY <2>4 DEF To, Silent
    <3> HIDE DEF q
    <3> QED BY <1>1, <2>1, <2>2, <3>1, <3>2, <3>3, InsideStep
  <2> QED BY <1>3, <2>1, <2>3, <2>4, NowType DEF ResStatus, At, In
<1>4. CASE At("s_res_line_almost_done") /\ Expect(LF, "s_header_field_start", "STRICT")
  <2>1. parser.state \in Quiet
        BY <1>4, NowType, QuietStates DEF At, In
  <2> QED BY <1>1, <1>4, <2>1, ExpectStep, PlainStates DEF Errors
<1> QED BY <1>2, <1>3, <1>4 DEF ResStatus

LEMMA StartReqStep == ASSUME Inv, StartReq PROVE Inv'
<1>1. pc = "loop" /\ parser.state \in Quiet
      BY NowType, QuietStates DEF StartReq, At, In
<1>2. CASE To("s_start_req") /\ Silent
      BY <1>1, <1>2, ToStep, PlainStates
<1>3. CASE /\ ch \in DOMAIN FirstMethod
           /\ Consume([Fresh EXCEPT !.method = FirstMethod[ch], !.index = 1,
                                    !.state = "s_req_method"])
           /\ Notify("message_begin", <<>>)
  <2> DEFINE q == [Fresh EXCEPT !.method = FirstMethod[ch], !.index = 1,
                                !.state = "s_req_method"]
  <2>1. FirstMethod[ch] \in method_strings
        BY <1>3 DEF FirstMethod, method_strings
  <2>2. q \in Parser /\ q.errno = "OK" /\ q.state \in Plain
        BY <1>1, <2>1, FreshType, PlainStates DEF Parser, Plain
  <2>3. Consume(q) /\ UNCHANGED mark
        BY <1>3 DEF Notify
  <2> HIDE DEF q
  <2> QED BY <1>1, <2>2, <2>3, PlainStep
<1>4. CASE Fail("INVALID_METHOD")
      BY <1>1, <1>4, FailStep DEF Errors
<1> QED BY <1>2, <1>3, <1>4 DEF StartReq

LEMMA ReqMethodStep == ASSUME Inv, ReqMethod PROVE Inv'
<1> DEFINE others == {m \in OtherMethod : m[1] = parser.method /\ m[2] = parser.index /\ m[3] = ch}
           other == (CHOOSE m \in others : TRUE)[4]
<1>1. pc = "loop" /\ parser.state \in Quiet /\ parser.state \in Plain
      BY NowType, QuietStates, PlainStates DEF ReqMethod, At, In
<1>2. Now \in Parser /\ Now.errno = "OK" /\ Now.state = parser.state
      BY <1>1, NowType DEF Inv
<1>3. CASE Consume([Now EXCEPT !.index = @ + 1, !.state = "s_req_spaces_before_url"]) /\ Silent
  <2> DEFINE q == [Now EXCEPT !.index = @ + 1, !.state = "s_req_spaces_before_url"]
  <2>0. "s_req_spaces_before_url" \in Plain /\ "s_req_spaces_before_url" \in States
        BY PlainStates DEF Plain
  <2>1. q \in Parser /\ q.errno = "OK" /\ q.state \in Plain
    <3> DEFINE r == [Now EXCEPT !.index = @ + 1]
    <3>1. r \in Parser /\ r.errno = "OK"
          BY <1>1, <1>2 DEF Parser
    <3>2. q = [r EXCEPT !.state = "s_req_spaces_before_url"]
          BY <1>2 DEF Parser
    <3> HIDE DEF q, r
    <3> QED BY <2>0, <3>1, <3>2 DEF Parser
  <2>2. Consume(q) /\ UNCHANGED mark
        BY <1>3 DEF Silent
  <2> HIDE DEF q
  <2> QED BY <1>1, <2>1, <2>2, PlainStep
<1>4. CASE Consume([Now EXCEPT !.index = @ + 1]) /\ Silent
  <2> DEFINE q == [Now EXCEPT !.index = @ + 1]
  <2>1. q \in Parser /\ q.errno = "OK" /\ q.state \in Plain
        BY <1>1, <1>2 DEF Parser
  <2>2. Consume(q) /\ UNCHANGED mark
        BY <1>4 DEF Silent
  <2> HIDE DEF q
  <2> QED BY <1>1, <2>1, <2>2, PlainStep
<1>5. CASE others # {} /\ Consume([Now EXCEPT !.index = @ + 1, !.method = other]) /\ Silent
  <2> DEFINE q == [Now EXCEPT !.index = @ + 1, !.method = other]
  <2>1. \A m \in OtherMethod : m[4] \in method_strings
        BY DEF OtherMethod, method_strings
  <2>2. other \in method_strings
        BY <1>5, <2>1
  <2> HIDE DEF other
  <2>3. q \in Parser /\ q.errno = "OK" /\ q.state \in Plain
    <3> DEFINE r == [Now EXCEPT !.index = @ + 1]
    <3>1. r \in Parser /\ r.errno = "OK" /\ r.state \in Plain
          BY <1>1, <1>2 DEF Parser
    <3>2. q = [r EXCEPT !.method = other]
          BY <1>2 DEF Parser
    <3> HIDE DEF q, r
    <3> QED BY <2>2, <3>1, <3>2 DEF Parser
  <2>4. Consume(q) /\ UNCHANGED mark
        BY <1>5 DEF Silent
  <2> HIDE DEF q
  <2> QED BY <1>1, <2>3, <2>4, PlainStep
<1>6. CASE Fail("INVALID_METHOD")
      BY <1>1, <1>6, FailStep DEF Errors
<1> QED BY <1>3, <1>4, <1>5, <1>6 DEF ReqMethod

LEMMA UrlCharType ==
    ASSUME NEW s, NEW c
    PROVE  parse_url_char(s, c) \in {"s_dead"} \cup UrlOpen \cup UrlBody
BY DEF parse_url_char, UrlOpen, UrlBody, Server, Query, Fragment

LEMMA UrlStates ==
    ASSUME NEW s \in UrlOpen \cup UrlBody
    PROVE  /\ s \in Plain /\ s # "s_dead" /\ "url" \in Fields /\ s \in MarkedIn["url"]
BY PlainStates DEF Fields, MarkedIn, UrlOpen, UrlBody, Server, Query, Fragment

LEMMA SpacesStep == ASSUME Inv, SpacesBeforeUrl PROVE Inv'
<1> DEFINE s == parse_url_char(IF parser.method = "CONNECT" THEN "s_req_server_start"
                               ELSE "s_req_spaces_before_url", ch)
<1>1. pc = "loop" /\ parser.state \in Quiet
      BY NowType, QuietStates DEF SpacesBeforeUrl, At, In
<1>2. CASE To("s_req_spaces_before_url") /\ Silent
      BY <1>1, <1>2, ToStep, PlainStates
<1>3. CASE Fail("INVALID_URL")
      BY <1>1, <1>3, FailStep DEF Errors
<1>4. CASE s # "s_dead" /\ To(s) /\ Mark("url")
  <2>1. s \in UrlOpen \cup UrlBody
        BY <1>4, UrlCharType
  <2> HIDE DEF s
  <2> DEFINE q == [Now EXCEPT !.state = s]
  <2>2. q \in Parser /\ q.errno = "OK" /\ q.state = s
        BY <1>1, <2>1, NowType, UrlStates DEF Parser, Plain, Inv
  <2>3. Consume(q) /\ Mark("url")
        BY <1>4 DEF To
  <2> HIDE DEF q
  <2>4. Sound(q)
        BY <2>1, <2>2, PlainSound, UrlStates
  <2> QED BY <1>1, <2>1, <2>2, <2>3, <2>4, UrlStates, BeginStep
<1> QED BY <1>2, <1>3, <1>4 DEF SpacesBeforeUrl

LEMMA UrlByteStep ==
    ASSUME Inv, pc = "loop", parser.state \in UrlOpen \cup UrlBody, UrlByte
    PROVE  Inv'
<1> DEFINE s == parse_url_char(parser.state, ch)
<1>1. CASE s = "s_dead"
      BY <1>1, FailStep DEF UrlByte, Errors
<1>2. CASE s # "s_dead"
  <2>1. s \in UrlOpen \cup UrlBody
        BY <1>2, UrlCharType
  <2>2. To(s) /\ Silent
        BY <1>2 DEF UrlByte
  <2> HIDE DEF s
  <2> DEFINE q == [Now EXCEPT !.state = s]
  <2>3. q \in Parser /\ q.errno = "OK" /\ q.state = s
        BY <2>1, NowType, UrlStates DEF Parser, Plain, Inv
  <2>4. Consume(q) /\ UNCHANGED mark
        BY <2>2 DEF To, Silent
  <2> HIDE DEF q
  <2>5. Sound(q)
        BY <2>1, <2>3, PlainSound, UrlStates
  <2> QED BY <2>1, <2>3, <2>4, <2>5, UrlStates, InsideStep
<1> QED BY <1>1, <1>2

LEMMA UrlOpeningStep == ASSUME Inv, UrlOpening PROVE Inv'
BY UrlByteStep, NowType DEF UrlOpening, In

LEMMA UrlStep == ASSUME Inv, Url PROVE Inv'
<1>1. pc = "loop" /\ parser.state \in UrlBody
      BY DEF Url, In
<1>2. "url" \in Fields /\ parser.state \in MarkedIn["url"]
      BY <1>1, UrlStates
<1>3. CASE To("s_req_http_start") /\ Data("url", p)
  <2> DEFINE q == [Now EXCEPT !.state = "s_req_http_start"]
  <2>1. q \in Parser /\ q.errno = "OK" /\ q.state \in Plain
        BY <1>1, NowType, PlainStates DEF Parser, Plain, Inv
  <2>2. Consume(q)
        BY <1>3 DEF To
  <2> HIDE DEF q
  <2> QED BY <1>1, <1>2, <1>3, <2>1, <2>2, EndStep
<1>4. CASE /\ Consume([Now EXCEPT !.http_major = 0, !.http_minor = 9, !.state =
                         IF ch = CR THEN "s_req_line_almost_done" ELSE "s_header_field_start"])
           /\ Data("url", p)
  <2> DEFINE q == [Now EXCEPT !.http_major = 0, !.http_minor = 9, !.state =
                     IF ch = CR THEN "s_req_line_almost_done" ELSE "s_header_field_start"]
  <2>1. q \in Parser /\ q.errno = "OK" /\ q.state \in Plain
        BY <1>1, NowType, PlainStates DEF Parser, Plain, Inv
  <2>2. Consume(q)
        BY <1>4
  <2> HIDE DEF q
  <2> QED BY <1>1, <1>2, <1>4, <2>1, <2>2, EndStep
<1>5. CASE UrlByte
      BY <1>1, <1>5, UrlByteStep
<1> QED BY <1>3, <1>4, <1>5 DEF Url

LEMMA ReqConstantStep == ASSUME Inv, ReqConstant PROVE Inv'
<1>1. pc = "loop" /\ parser.state \in Quiet
      BY NowType, QuietStates DEF ReqConstant, At, In
<1>2. CASE To("s_req_http_start") /\ Silent
      BY <1>1, <1>2, ToStep, PlainStates
<1>3. CASE \E c \in {"H", "T", "P", "/"} :
             \E s \in {"s_req_http_H", "s_req_http_HT", "s_req_http_HTT", "s_req_http_HTTP",
                       "s_req_first_http_major"} :
               \E e \in {"INVALID_CONSTANT", "STRICT"} : Expect(c, s, e)
      BY <1>1, <1>3, ExpectStep, PlainStates DEF Errors
<1> QED BY <1>2, <1>3 DEF ReqConstant

LEMMA ReqVersionStep == ASSUME Inv, ReqVersion PROVE Inv'
<1>1. pc = "loop" /\ parser.state \in Quiet /\ parser.state \in Plain
      BY NowType, QuietStates, PlainStates DEF ReqVersion, At, In
<1>2. {"INVALID_VERSION", "LF_EXPECTED"} \subseteq Errors
      BY DEF Errors
<1>3. CASE FirstDigit("http_major", "s_req_http_major", "INVALID_VERSION")
      BY <1>1, <1>2, <1>3, FirstDigitStep, PlainStates
<1>4. CASE FirstDigit("http_minor", "s_req_http_minor", "INVALID_VERSION")
      BY <1>1, <1>2, <1>4, FirstDigitStep, PlainStates
<1>5. CASE NextDigit("http_major", "INVALID_VERSION")
      BY <1>1, <1>2, <1>5, NextDigitStep
<1>6. CASE NextDigit("http_minor", "INVALID_VERSION")
      BY <1>1, <1>2, <1>6, NextDigitStep
<1>7. CASE To("s_req_first_http_minor") /\ Silent
      BY <1>1, <1>7, ToStep, PlainStates
<1>8. CASE EndOfLine("s_req_line_almost_done") /\ Silent
      BY <1>1, <1>8, EndOfLineStep, PlainStates
<1>9. CASE Fail("INVALID_VERSION")
      BY <1>1, <1>2, <1>9, FailStep
<1>10. CASE Expect(LF, "s_header_field_start", "LF_EXPECTED")
      BY <1>1, <1>2, <1>10, ExpectStep, PlainStates
<1> QED BY <1>3, <1>4, <1>5, <1>6, <1>7, <1>8, <1>9, <1>10 DEF ReqVersion

-----------------------------------------------------------------------------
\* Headers

LEMMA HeaderStateTypes ==
    /\ {"h_general", "h_C", "h_CO", "h_CON"} \subseteq HeaderStates
    /\ DOMAIN Word \subseteq HeaderStates
    /\ ValueStates \subseteq HeaderStates
<1>1. \A h \in DOMAIN Word : Matched[h] \in HeaderStates
      BY DEF HeaderStates
<1>2. /\ Matched["h_matching_content_length"] = "h_content_length"
      /\ Matched["h_matching_transfer_encoding_chunked"] = "h_transfer_encoding_chunked"
      /\ Matched["h_matching_connection_keep_alive"] = "h_connection_keep_alive"
      /\ Matched["h_matching_connection_close"] = "h_connection_close"
      BY DEF Matched
<1>3. {"h_matching_content_length", "h_matching_transfer_encoding_chunked",
       "h_matching_connection_keep_alive", "h_matching_connection_close"} \subseteq DOMAIN Word
      BY DEF Word
<1>4. {"h_general", "h_C", "h_CO", "h_CON"} \cup DOMAIN Word \subseteq HeaderStates
      BY DEF HeaderStates
<1> QED BY <1>1, <1>2, <1>3, <1>4 DEF ValueStates

LEMMA MatchType ==
    ASSUME NEW h \in HeaderStates, NEW c
    PROVE  MatchWord(h, c) \in {h, "h_general"} \cup {Matched[g] : g \in DOMAIN Word \cap {h}}
BY DEF MatchWord

LEMMA NextType ==
    ASSUME NEW h \in HeaderStates, NEW c
    PROVE  NextHeaderState(h, c) \in HeaderStates
<1>1. MatchWord(h, c) \in HeaderStates
      BY MatchType, HeaderStateTypes DEF HeaderStates
<1>2. {"h_matching_connection", "h_matching_content_length"} \subseteq DOMAIN Word
      BY DEF Word
<1> QED BY <1>1, <1>2, HeaderStateTypes DEF NextHeaderState

LEMMA NextOfValue ==
    ASSUME NEW h \in ValueStates, NEW c
    PROVE  NextHeaderState(h, c) \in ValueStates
<1>1. h \in HeaderStates
      BY HeaderStateTypes
<1>2. \A g \in DOMAIN Word \cap {h} : Matched[g] \in ValueStates
      BY DEF Word, Matched, ValueStates
<1>3. MatchWord(h, c) \in ValueStates
      BY <1>1, <1>2, MatchType DEF ValueStates
<1>4. h \notin {"h_C", "h_CO", "h_CON"}
      BY DEF ValueStates
<1> QED BY <1>3, <1>4 DEF NextHeaderState

LEMMA NextOfName ==
    ASSUME NEW h \in NameStates, NEW c
    PROVE  NextHeaderState(h, c) \in NameStates
<1>1. h \in HeaderStates
  <2>1. /\ Matched["h_matching_connection"] = "h_connection"
        /\ Matched["h_matching_transfer_encoding"] = "h_transfer_encoding"
        /\ Matched["h_matching_content_length"] = "h_content_length"
        /\ Matched["h_matching_upgrade"] = "h_upgrade"
        BY DEF Matched
  <2>2. {"h_matching_connection", "h_matching_proxy_connection", "h_matching_content_length",
         "h_matching_transfer_encoding", "h_matching_upgrade"} \subseteq DOMAIN Word
        BY DEF Word
  <2>3. \A g \in DOMAIN Word : Matched[g] \in HeaderStates
        BY DEF HeaderStates
  <2> QED BY <2>1, <2>2, <2>3, HeaderStateTypes DEF NameStates
<1>2. \A g \in DOMAIN Word \cap {h} : Matched[g] \in NameStates
      BY DEF Word, Matched, NameStates
<1>3. MatchWord(h, c) \in NameStates
      BY <1>1, <1>2, MatchType DEF NameStates
<1> QED BY <1>3 DEF NextHeaderState, NameStates

\* What a parser inside a name is asked for
LEMMA NameSound ==
    ASSUME NEW q, q.errno = "OK", q.state = "s_header_field", q.header_state \in NameStates
    PROVE  Sound(q)
BY DEF Sound, ChunkStates, ChunkHead

LEMMA FieldStartStep == ASSUME Inv, HeaderFieldStart PROVE Inv'
<1> DEFINE c == LOWER(ch)
           h == CASE c = "c" -> "h_C"
                  [] c = "p" -> "h_matching_proxy_connection"
                  [] c = "t" -> "h_matching_transfer_encoding"
                  [] c = "u" -> "h_matching_upgrade"
                  [] OTHER -> "h_general"
           q == [Now EXCEPT !.index = 0, !.state = "s_header_field", !.header_state = h]
           r == [Now EXCEPT !.state = "s_headers_almost_done"]
<1>1. pc = "loop" /\ parser.state \in Quiet
      BY NowType, QuietStates DEF HeaderFieldStart, At, In
<1>2. CASE To("s_headers_almost_done") /\ Silent
      BY <1>1, <1>2, ToStep, PlainStates
<1>3. CASE Reexecute(r) /\ Silent
  <2>1. r \in Parser /\ r.errno = "OK" /\ r.state \in Plain
        BY <1>1, NowType, PlainStates DEF Parser, Plain, Inv
  <2>2. Reexecute(r) /\ UNCHANGED mark
        BY <1>3 DEF Silent
  <2> HIDE DEF r
  <2> QED BY <1>1, <2>1, <2>2, PlainStep
<1>4. CASE Consume(q) /\ Mark("header_field")
  <2>1. {"h_matching_proxy_connection", "h_matching_transfer_encoding", "h_matching_upgrade"}
            \subseteq DOMAIN Word
        BY DEF Word
  <2>2. h \in HeaderStates /\ h \in NameStates
        BY <2>1, HeaderStateTypes DEF NameStates
  <2>0. "s_header_field" \in States
        BY DEF States
  <2> HIDE DEF h
  <2>3. q \in Parser /\ q.errno = "OK" /\ q.state = "s_header_field" /\ q.header_state = h
        BY <1>1, <2>0, <2>2, NowType DEF Parser, Inv
  <2>4. q.state \in MarkedIn["header_field"] /\ "header_field" \in Fields
        BY <2>3 DEF MarkedIn, Fields
  <2>5. Sound(q)
        BY <2>2, <2>3, NameSound
  <2> HIDE DEF q
  <2> QED BY <1>1, <1>4, <2>3, <2>4, <2>5, BeginStep
<1>5. CASE Fail("INVALID_HEADER_TOKEN")
      BY <1>1, <1>5, FailStep DEF Errors
<1> QED BY <1>2, <1>3, <1>4, <1>5 DEF HeaderFieldStart

LEMMA IndexType == ASSUME Inv PROVE NextIndex \in Nat
BY DEF NextIndex, Inv, TypeOK, Parser

LEMMA FieldStep == ASSUME Inv, HeaderField PROVE Inv'
<1> DEFINE h == NextHeaderState(parser.header_state, LOWER(ch))
           q == [Now EXCEPT !.index = NextIndex, !.header_state = NextHeaderState(@, LOWER(ch))]
           s == CASE ch = ":" -> "s_header_value_start"
                  [] ch = CR -> "s_header_almost_done"
                  [] OTHER -> "s_header_field_start"
           r == [Now EXCEPT !.state = s]
<1>1. pc = "loop" /\ parser.state = "s_header_field"
      BY NowType DEF HeaderField, At, In
<1>2. "header_field" \in Fields /\ parser.state \in MarkedIn["header_field"]
      BY <1>1 DEF MarkedIn, Fields
<1>3. /\ Now \in Parser /\ Now.errno = "OK" /\ Now.state = parser.state
      /\ Now.header_state = parser.header_state /\ parser.header_state \in HeaderStates
      BY <1>1, NowType DEF Inv, TypeOK, Parser
<1>4. CASE Consume(q) /\ Silent
  <2>1. h \in HeaderStates /\ h \in NameStates /\ NextIndex \in Nat
    <3>1. parser.header_state \in NameStates
          BY <1>1 DEF Inv, Healthy, Sound
    <3> QED BY <1>3, <3>1, NextType, NextOfName, IndexType
  <2>2. q = [Now EXCEPT !.index = NextIndex, !.header_state = h]
        BY <1>3
  <2> HIDE DEF h
  <2>3. q \in Parser /\ q.errno = "OK" /\ q.state = parser.state /\ q.header_state = h
        BY <1>3, <2>1, <2>2 DEF Parser
  <2>4. Consume(q) /\ UNCHANGED mark
        BY <1>4 DEF Silent
  <2> HIDE DEF q
  <2>5. Sound(q)
        BY <1>1, <2>1, <2>3, NameSound
  <2> QED BY <1>1, <1>2, <2>3, <2>4, <2>5, InsideStep
<1>5. CASE To(s) /\ Data("header_field", p)
  <2>1. s \in Plain
        BY PlainStates
  <2>2. Consume(r)
        BY <1>5 DEF To
  <2> HIDE DEF s
  <2>3. r \in Parser /\ r.errno = "OK" /\ r.state \in Plain
        BY <1>3, <2>1 DEF Parser, Plain
  <2> HIDE DEF r
  <2> QED BY <1>1, <1>2, <1>5, <2>2, <2>3, EndStep
<1>6. CASE Fail("INVALID_HEADER_TOKEN")
      BY <1>1, <1>6, FailStep DEF Errors
<1> QED BY <1>4, <1>5, <1>6 DEF HeaderField

LEMMA FirstType ==
    ASSUME NEW q \in Parser, NEW c, q.errno = "OK", q.state = "s_header_value",
           q.header_state = "h_content_length" => c \in Digits
    PROVE  /\ FirstOfValue(q, c) \in Parser /\ FirstOfValue(q, c).errno = "OK"
           /\ FirstOfValue(q, c).state = "s_header_value"
           /\ FirstOfValue(q, c).header_state \in ValueStates
<1> DEFINE Good(r) == /\ r \in Parser /\ r.errno = "OK"
                      /\ r.state = "s_header_value" /\ r.header_state \in ValueStates
<1>1. ASSUME NEW h \in ValueStates PROVE Good([q EXCEPT !.header_state = h])
      BY HeaderStateTypes DEF Parser
<1>2. {"h_general", "h_content_length", "h_matching_transfer_encoding_chunked",
       "h_matching_connection_keep_alive", "h_matching_connection_close"} \subseteq ValueStates
      BY DEF ValueStates
<1>3. Good([q EXCEPT !.flags = @ \cup {"F_UPGRADE"}, !.header_state = "h_general"])
      BY <1>2, HeaderStateTypes DEF Parser, Flags
<1>4. CASE q.header_state = "h_content_length"
  <2>1. unhex(c) \in 0..MaxLength
        BY <1>4, DigitType, MaxAssumption
  <2>2. Good([q EXCEPT !.content_length = unhex(c)])
        BY <1>2, <1>4, <2>1 DEF Parser
  <2> QED BY <1>4, <2>2 DEF FirstOfValue
<1>5. CASE q.header_state # "h_content_length"
      BY <1>1, <1>2, <1>3, <1>5 DEF FirstOfValue
<1> QED BY <1>4, <1>5

LEMMA LongerType ==
    ASSUME Inv, NEW base \in Nat, NEW d \in Nat
    PROVE  Longer(base, d) \in 0..MaxLength
<1>1. parser.content_length \in Int
      BY DEF Inv, TypeOK, Parser
<1>2. base * parser.content_length + d \in Int
      BY <1>1
<1> QED BY <1>2, MaxAssumption DEF Longer

\* The value starts with nothing, or with a byte that tells what it is
LEMMA ValueStartStep == ASSUME Inv, HeaderValueStart PROVE Inv'
<1> DEFINE value == [Now EXCEPT !.state = "s_header_value", !.index = 0]
           q == [value EXCEPT !.state = "s_header_almost_done", !.header_state = "h_general"]
           r == [value EXCEPT !.state = "s_header_field_start"]
           f == FirstOfValue(value, ch)
<1>1. /\ pc = "loop" /\ parser.state \in Quiet /\ "header_value" \in Fields
      /\ "s_header_value" \in MarkedIn["header_value"]
      BY NowType, QuietStates DEF HeaderValueStart, At, In, Fields, MarkedIn
<1>2. /\ Now \in Parser /\ Now.errno = "OK"
      /\ Now.header_state = parser.header_state
      BY <1>1, NowType DEF Inv
<1>3. /\ value \in Parser /\ value.errno = "OK" /\ value.state = "s_header_value"
      /\ value.header_state = parser.header_state
      BY <1>2, PlainStates DEF Parser, States
<1> HIDE DEF value
<1>4. \A g \in Fields : parser.state \in MarkedIn[g] => g = "header_value"
      BY <1>1, NoField
<1>5. CASE To("s_header_value_start") /\ Silent
      BY <1>1, <1>5, ToStep, PlainStates
<1>6. CASE Consume(q) /\ mark' = [mark EXCEPT !["header_value"] = 0]
  <2>1. q \in Parser /\ q.errno = "OK" /\ q.state \in Plain
        BY <1>3, PlainStates, HeaderStateTypes DEF Parser, Plain
  <2> HIDE DEF q
  <2>2. Sound(q)
        BY <2>1, PlainSound
  <2> QED BY <1>1, <1>4, <1>6, <2>1, <2>2, DataStep
<1>7. CASE Consume(r) /\ mark' = [mark EXCEPT !["header_value"] = 0]
  <2>1. r \in Parser /\ r.errno = "OK" /\ r.state \in Plain
        BY <1>3, PlainStates DEF Parser, Plain
  <2> HIDE DEF r
  <2>2. Sound(r)
        BY <2>1, PlainSound
  <2> QED BY <1>1, <1>4, <1>7, <2>1, <2>2, DataStep
<1>8. CASE Fail("INVALID_CONTENT_LENGTH")
      BY <1>1, <1>8, FailStep DEF Errors
<1>9. CASE /\ ~(parser.header_state = "h_content_length" /\ ch \notin Digits)
           /\ Consume(f) /\ Mark("header_value")
  <2>1. /\ f \in Parser /\ f.errno = "OK" /\ f.state = "s_header_value"
        /\ f.header_state \in ValueStates
        BY <1>3, <1>9, FirstType
  <2> HIDE DEF f
  <2>2. Sound(f)
        BY <2>1 DEF Sound, ChunkStates, ChunkHead
  <2> QED BY <1>1, <1>9, <2>1, <2>2, BeginStep
<1> QED BY <1>5, <1>6, <1>7, <1>8, <1>9 DEF HeaderValueStart, value

\* A byte inside a value
LEMMA ValueByte ==
    ASSUME Inv, pc = "loop", parser.state = "s_header_value",
           NEW q \in Parser, q.errno = "OK", q.state = "s_header_value",
           q.header_state \in ValueStates, Consume(q), Silent
    PROVE  Inv'
<1>1. /\ "header_value" \in Fields
      /\ "s_header_value" \in MarkedIn["header_value"]
      BY DEF Fields, MarkedIn
<1>2. Sound(q)
      BY DEF Sound, ChunkStates, ChunkHead
<1> QED BY <1>1, <1>2, InsideStep DEF Silent

LEMMA ValueStep == ASSUME Inv, HeaderValue PROVE Inv'
<1>1. pc = "loop" /\ parser.state = "s_header_value"
      BY NowType DEF HeaderValue, At, In
<1>2. /\ Now \in Parser /\ Now.errno = "OK" /\ Now.state = "s_header_value"
      /\ Now.header_state = parser.header_state /\ parser.header_state \in ValueStates
      BY <1>1, NowType DEF Inv, Healthy, Sound
<1>3. "header_value" \in Fields /\ parser.state \in MarkedIn["header_value"]
      BY <1>1 DEF Fields, MarkedIn
<1> DEFINE q == [Now EXCEPT !.state = "s_header_almost_done"]
<1>4. q \in Parser /\ q.errno = "OK" /\ q.state \in Plain
      BY <1>2, PlainStates DEF Parser, Plain
<1>5. CASE To("s_header_almost_done") /\ Data("header_value", p)
  <2>1. Consume(q)
        BY <1>5 DEF To
  <2> HIDE DEF q
  <2> QED BY <1>1, <1>3, <1>4, <1>5, <2>1, EndStep
<1>6. CASE Reexecute(q) /\ Data("header_value", p)
  <2> HIDE DEF q
  <2> QED BY <1>1, <1>3, <1>4, <1>6, EndStep
<1>7. CASE LengthDigit
  <2> DEFINE t == Longer(10, unhex(ch))
             r == [Now EXCEPT !.content_length = t]
             s == [Now EXCEPT !.state = "s_header_value"]
  <2>1. CASE To("s_header_value") /\ Silent
    <3>1. /\ s \in Parser /\ s.errno = "OK" /\ s.state = "s_header_value"
          /\ s.header_state = parser.header_state
          BY <1>2 DEF Parser
    <3>2. Consume(s)
          BY <2>1 DEF To
    <3> HIDE DEF s
    <3> QED BY <1>1, <1>2, <2>1, <3>1, <3>2, ValueByte
  <2>2. CASE Fail("INVALID_CONTENT_LENGTH")
        BY <1>1, <2>2, FailStep DEF Errors
  <2>3. CASE ch \in Digits /\ Consume(r) /\ Silent
    <3>1. unhex(ch) \in Nat
          BY <2>3, DigitType
    <3>2. t \in 0..MaxLength
          BY <3>1, LongerType
    <3> HIDE DEF t
    <3>3. /\ r \in Parser /\ r.errno = "OK" /\ r.state = "s_header_value"
          /\ r.header_state = parser.header_state
          BY <1>2, <3>2 DEF Parser
    <3> HIDE DEF r
    <3> QED BY <1>1, <1>2, <2>3, <3>3, ValueByte
  <2> QED BY <1>7, <2>1, <2>2, <2>3 DEF LengthDigit
<1>8. CASE /\ Consume([Now EXCEPT !.index = NextIndex,
                         !.header_state = NextHeaderState(@, LOWER(ch))])
           /\ Silent
  <2> DEFINE h == NextHeaderState(parser.header_state, LOWER(ch))
             r == [Now EXCEPT !.index = NextIndex, !.header_state = h]
  <2>1. h \in ValueStates /\ h \in HeaderStates /\ NextIndex \in Nat
        BY <1>2, NextOfValue, IndexType, HeaderStateTypes
  <2>2. Consume(r)
        BY <1>2, <1>8
  <2> HIDE DEF h
  <2>3. /\ r \in Parser /\ r.errno = "OK" /\ r.state = "s_header_value" /\ r.header_state = h
        BY <1>2, <2>1 DEF Parser
  <2> HIDE DEF r
  <2> QED BY <1>1, <1>8, <2>1, <2>2, <2>3, ValueByte
<1> QED BY <1>5, <1>6, <1>7, <1>8 DEF HeaderValue

LEMMA HeaderDoneStep == ASSUME Inv, HeaderAlmostDone PROVE Inv'
<1> DEFINE q == [Now EXCEPT !.state = "s_header_value_lws",
                            !.flags = @ \cup FlagOf(parser.header_state)]
<1>1. pc = "loop" /\ parser.state \in Quiet
      BY NowType, QuietStates DEF HeaderAlmostDone, At, In
<1>2. CASE Consume(q) /\ Silent
  <2>1. FlagOf(parser.header_state) \in SUBSET Flags
        BY DEF FlagOf, Flags
  <2>2. q \in Parser /\ q.errno = "OK" /\ q.state \in Plain
        BY <1>1, <2>1, NowType, PlainStates DEF Parser, Plain, Inv
  <2>3. Consume(q) /\ UNCHANGED mark
        BY <1>2 DEF Silent
  <2> HIDE DEF q
  <2> QED BY <1>1, <2>2, <2>3, PlainStep
<1>3. CASE Fail("STRICT")
      BY <1>1, <1>3, FailStep DEF Errors
<1> QED BY <1>2, <1>3 DEF HeaderAlmostDone

LEMMA LwsStep == ASSUME Inv, HeaderValueLws PROVE Inv'
<1> DEFINE q == [Now EXCEPT !.state = "s_header_field_start"]
<1>1. pc = "loop" /\ parser.state \in Quiet
      BY NowType, QuietStates DEF HeaderValueLws, At, In
<1>2. CASE To("s_header_value_start") /\ Silent
      BY <1>1, <1>2, ToStep, PlainStates
<1>3. CASE Reexecute(q) /\ Silent
  <2>1. q \in Parser /\ q.errno = "OK" /\ q.state \in Plain
        BY <1>1, NowType, PlainStates DEF Parser, Plain, Inv
  <2>2. Reexecute(q) /\ UNCHANGED mark
        BY <1>3 DEF Silent
  <2> HIDE DEF q
  <2> QED BY <1>1, <2>1, <2>2, PlainStep
<1> QED BY <1>2, <1>3 DEF HeaderValueLws

LEMMA NewMessageType == ASSUME NEW q PROVE NEW_MESSAGE(q) \in Plain
BY PlainStates DEF NEW_MESSAGE, start_state

\* The end of a message, in a state without a field
LEMMA CompleteStep ==
    ASSUME Inv, pc = "loop", parser.state \in Quiet, NEW q \in Parser, q.errno = "OK", Complete(q)
    PROVE  Inv'
<1> DEFINE r == [q EXCEPT !.state = NEW_MESSAGE(q)]
<1>1. r \in Parser /\ r.errno = "OK" /\ r.state \in Plain
      BY NewMessageType DEF Parser, Plain
<1>2. Consume(r) /\ UNCHANGED mark
      BY DEF Complete, Notify
<1> HIDE DEF r
<1> QED BY <1>1, <1>2, PlainStep

LEMMA HeadersAlmostDoneStep == ASSUME Inv, HeadersAlmostDone PROVE Inv'
<1> DEFINE u == "F_UPGRADE" \in parser.flags \/ parser.method = "CONNECT"
           q == [Now EXCEPT !.state = "s_headers_done", !.upgrade = u]
<1>1. pc = "loop" /\ parser.state \in Quiet
      BY NowType, QuietStates DEF HeadersAlmostDone, At, In
<1>2. CASE Fail("STRICT")
      BY <1>1, <1>2, FailStep DEF Errors
<1>3. CASE Complete(Now)
      BY <1>1, <1>3, NowType, CompleteStep DEF Inv
<1>4. CASE Reexecute(q) /\ UNCHANGED mark
  <2>1. u \in BOOLEAN
        BY Zenon
  <2> HIDE DEF u
  <2>2. q \in Parser /\ q.errno = "OK" /\ q.state \in Plain
        BY <1>1, <2>1, NowType, PlainStates DEF Parser, Plain, Inv
  <2> HIDE DEF q
  <2> QED BY <1>1, <1>4, <2>2, PlainStep
<1> QED BY <1>2, <1>3, <1>4 DEF HeadersAlmostDone, Notify

\* The headers are over: the next state has the length or the chunks it asks for
LEMMA HeadersDoneStep == ASSUME Inv, HeadersDone PROVE Inv'
<1> DEFINE q == [Now EXCEPT !.nread = 0]
           r == [q EXCEPT !.state = NEW_MESSAGE(q)]
           c == [q EXCEPT !.state = "s_chunk_size_start"]
           b == [q EXCEPT !.state = "s_body_identity"]
           e == [q EXCEPT !.state = "s_body_identity_eof"]
<1>1. pc = "loop" /\ parser.state \in Quiet
      BY NowType, QuietStates DEF HeadersDone, At, In
<1>2. /\ q \in Parser /\ q.errno = "OK" /\ q.nread = 0 /\ q.flags = parser.flags
      /\ q.content_length = parser.content_length
      BY <1>1, NowType DEF Parser, Inv
<1> HIDE DEF q
<1>3. \A f \in Fields : parser.state \notin MarkedIn[f]
      BY <1>1, NoField
<1>4. {"s_chunk_size_start", "s_body_identity"} \subseteq States
      BY DEF States, BodyStates
<1>5. CASE /\ parser' = r /\ UNCHANGED mark /\ pc' = "idle" /\ again' = FALSE
           /\ UNCHANGED <<stream, p, end>>
  <2>1. r \in Parser /\ r.errno = "OK" /\ r.state \in Plain
        BY <1>2, NewMessageType DEF Parser, Plain
  <2> HIDE DEF r
  <2>2. Sound(r) /\ r.state # "s_chunk_size_start"
        BY <2>1, PlainSound DEF Plain, ChunkStates
  <2>3. \A f \in Fields : mark[f] = 0
        BY <1>3 DEF Inv, MarksKnown
  <2>4. TypeOK' /\ pc' # "loop"
        BY <1>5, <2>1 DEF Inv, TypeOK
  <2>5. Healthy' /\ MarksKnown'
        BY <1>5, <2>2, <2>3 DEF Healthy, MarksKnown
  <2> QED BY <2>4, <2>5 DEF Inv
<1>6. CASE "F_CHUNKED" \in parser.flags /\ Consume(c) /\ Silent
  <2>1. /\ c \in Parser /\ c.errno = "OK" /\ c.state = "s_chunk_size_start"
        /\ c.nread = 0 /\ c.flags = parser.flags
        BY <1>2, <1>4 DEF Parser
  <2> HIDE DEF c
  <2>2. Sound(c)
        BY <1>6, <2>1 DEF Sound, ChunkHead
  <2> QED BY <1>1, <1>3, <1>6, <2>1, <2>2, SilentStep DEF Silent
<1>7. CASE parser.content_length \notin {0, MaxLength} /\ Consume(b) /\ Silent
  <2>1. /\ b \in Parser /\ b.errno = "OK" /\ b.state = "s_body_identity"
        /\ b.content_length = parser.content_length /\ b.nread = 0
        BY <1>2, <1>4 DEF Parser
  <2> HIDE DEF b
  <2>2. Sound(b)
        BY <1>7, <2>1 DEF Sound, ChunkHead, ChunkStates
  <2> QED BY <1>1, <1>3, <1>7, <2>1, <2>2, SilentStep DEF Silent
<1>8. CASE Consume(e) /\ Silent
  <2>1. e \in Parser /\ e.errno = "OK" /\ e.state \in Plain
        BY <1>2, PlainStates DEF Parser, Plain
  <2> HIDE DEF e
  <2> QED BY <1>1, <1>8, <2>1, PlainStep DEF Silent
<1>9. CASE Complete(q)
      BY <1>1, <1>2, <1>9, CompleteStep
<1> QED BY <1>5, <1>6, <1>7, <1>8, <1>9 DEF HeadersDone, Notify, q

-----------------------------------------------------------------------------
\* Bodies

\* What a call has of a body is at least a byte, and no more than is left
LEMMA ToReadType ==
    ASSUME Inv, pc = "loop", p <= end, parser.state \in {"s_body_identity", "s_chunk_data"}
    PROVE  /\ ToRead \in Nat /\ 0 < ToRead /\ ToRead <= parser.content_length
           /\ parser.content_length \in 0..MaxLength /\ parser.content_length # MaxLength
<1>1. /\ parser.content_length \in 0..MaxLength /\ parser.content_length # MaxLength
      /\ parser.content_length # 0 /\ p \in Nat /\ end \in Nat
      BY DEF Inv, TypeOK, Parser, Healthy, Sound
<1> QED BY <1>1, MaxAssumption DEF ToRead

\* The bytes of a body do not count as those of a header
LEMMA NothingCounted ==
    ASSUME Inv, pc = "loop", parser.state \in {"s_body_identity", "s_chunk_data"}
    PROVE  Now = parser /\ Now.nread = 0
<1>1. ~PARSING_HEADER(parser.state)
      BY DEF PARSING_HEADER, BodyStates
<1>2. Now = parser
      BY <1>1, Zenon DEF Now
<1> QED BY <1>2 DEF Inv, Healthy, Sound

LEMMA BodyStep == ASSUME Inv, BodyIdentity PROVE Inv'
<1> DEFINE left == parser.content_length - ToRead
           q == [Now EXCEPT !.content_length = left, !.state = "s_message_done"]
           r == [Now EXCEPT !.content_length = left]
<1>1. pc = "loop" /\ p <= end /\ parser.state = "s_body_identity" /\ p \in Nat
      BY NowType DEF BodyIdentity, At, In, Inv, TypeOK
<1>2. /\ left \in 0..MaxLength /\ left # MaxLength /\ ToRead \in Nat /\ 0 < ToRead
      BY <1>1, ToReadType, MaxAssumption
<1>3. "body" \in Fields /\ parser.state \in MarkedIn["body"]
      BY <1>1 DEF Fields, MarkedIn
<1>4. \A g \in Fields : mark[g] # 0 => g = "body"
      BY <1>3, OwnField DEF Inv, MarksKnown
<1>5. mark \in [Fields -> Nat] /\ Marked("body") \in Nat
      BY <1>1, <1>3 DEF Inv, TypeOK, Marked
<1>6. /\ Now \in Parser /\ Now.errno = "OK" /\ Now.state = "s_body_identity"
      BY <1>1, NowType DEF Inv
<1>7. UNCHANGED <<stream, pc, end>> /\ again' = (left = 0)
      BY DEF BodyIdentity
<1>8. again' \in BOOLEAN
      BY <1>7, Zenon
<1>9. CASE left = 0
  <2>1. p' = p + ToRead - 1 /\ parser' = q /\ mark' = [mark EXCEPT !["body"] = 0]
        BY <1>6, <1>9 DEF BodyIdentity
  <2>2. q \in Parser /\ q.errno = "OK" /\ q.state = "s_message_done"
        BY <1>2, <1>6, PlainStates DEF Parser, Plain
  <2>3. p' \in Nat
        BY <1>1, <1>2, <2>1
  <2>4. mark' \in [Fields -> Nat] /\ \A g \in Fields : mark'[g] = 0
        BY <1>3, <1>4, <1>5, <2>1
  <2> HIDE DEF q, left
  <2>5. Sound(q)
        BY <2>2, PlainSound, PlainStates
  <2> QED BY <1>1, <1>7, <1>8, <2>1, <2>2, <2>3, <2>4, <2>5, Step
<1>10. CASE left # 0
  <2>1. p' = p + ToRead /\ parser' = r /\ mark' = [mark EXCEPT !["body"] = Marked("body")]
        BY <1>6, <1>10 DEF BodyIdentity, Mark
  <2>2. /\ r \in Parser /\ r.errno = "OK" /\ r.state = "s_body_identity"
        /\ r.content_length = left /\ r.nread = 0
        BY <1>1, <1>2, <1>6, NothingCounted DEF Parser
  <2>3. p' \in Nat
        BY <1>1, <1>2, <2>1
  <2>4. mark' \in [Fields -> Nat] /\ \A g \in Fields : mark'[g] # 0 => g = "body"
        BY <1>3, <1>4, <1>5, <2>1
  <2> HIDE DEF r, left
  <2>5. Sound(r)
        BY <1>2, <1>10, <2>2 DEF Sound, ChunkStates, ChunkHead
  <2> QED BY <1>1, <1>3, <1>7, <1>8, <2>1, <2>2, <2>3, <2>4, <2>5, Step
<1> QED BY <1>9, <1>10

LEMMA BodyEofStep == ASSUME Inv, BodyIdentityEof PROVE Inv'
<1>1. pc = "loop" /\ parser.state = "s_body_identity_eof"
      BY NowType DEF BodyIdentityEof, At, In
<1>2. "body" \in Fields /\ parser.state \in MarkedIn["body"]
      BY <1>1 DEF Fields, MarkedIn
<1>3. \A g \in Fields : mark[g] # 0 => g = "body"
      BY <1>2, OwnField DEF Inv, MarksKnown
<1>4. /\ p' = end + 1 /\ mark' = [mark EXCEPT !["body"] = Marked("body")]
      /\ UNCHANGED <<stream, parser, pc, end, again>>
      BY DEF BodyIdentityEof, Mark
<1>5. p' \in Nat /\ Marked("body") \in Nat /\ mark \in [Fields -> Nat]
      BY <1>2, <1>4 DEF Inv, TypeOK, Marked
<1>6. mark' \in [Fields -> Nat] /\ \A g \in Fields : mark'[g] # 0 => g = "body"
      BY <1>2, <1>3, <1>4, <1>5
<1>7. again' \in BOOLEAN
      BY <1>4, Zenon DEF Inv, TypeOK
<1>8. parser' \in Parser /\ Sound(parser') /\ parser'.state = "s_body_identity_eof"
      BY <1>1, <1>4 DEF Inv, TypeOK, Healthy
<1> QED BY <1>1, <1>2, <1>4, <1>5, <1>6, <1>7, <1>8, Step

LEMMA DoneStep == ASSUME Inv, MessageDone PROVE Inv'
<1>1. pc = "loop" /\ parser.state \in Quiet
      BY NowType, QuietStates DEF MessageDone, At, In
<1> QED BY <1>1, NowType, CompleteStep DEF MessageDone, Inv

\* A pass from a state without a field to one of a chunk, whose flag stays
LEMMA ChunkStep ==
    ASSUME Inv, pc = "loop", parser.state \in Quiet, parser.state \in ChunkStates,
           NEW q \in Parser, q.errno = "OK", q.flags = parser.flags,
           q.state \in ChunkHead \cup {"s_chunk_size_start", "s_chunk_data", "s_chunk_data_done"},
           q.state = "s_chunk_size_start" => q.nread = 0,
           q.state \in ChunkHead => q.content_length # MaxLength,
           q.state = "s_chunk_data" => q.content_length \notin {0, MaxLength} /\ q.nread = 0,
           Consume(q), Silent
    PROVE  Inv'
<1>1. "F_CHUNKED" \in q.flags
      BY DEF Inv, Healthy, Sound
<1>2. Sound(q)
      BY <1>1 DEF Sound, ChunkStates, ChunkHead
<1>3. \A f \in Fields : parser.state \notin MarkedIn[f]
      BY NoField
<1> QED BY <1>2, <1>3, SilentStep DEF Silent

LEMMA ChunkNow ==
    ASSUME Inv, pc = "loop"
    PROVE  /\ Now \in Parser /\ Now.errno = "OK" /\ Now.state = parser.state
           /\ Now.flags = parser.flags /\ Now.content_length = parser.content_length
           /\ ChunkStates \subseteq States
BY NowType DEF Inv, ChunkStates, ChunkHead, States, BodyStates

\* A number of at most MaxLength - 1
LEMMA SizeStep ==
    ASSUME Inv, pc = "loop", parser.state \in Quiet, parser.state \in ChunkStates,
           NEW t \in 0..MaxLength, t # MaxLength, NEW s \in ChunkHead,
           Consume([Now EXCEPT !.content_length = t, !.state = s]), Silent
    PROVE  Inv'
<1> DEFINE q == [Now EXCEPT !.content_length = t, !.state = s]
<1>1. s \in States
      BY ChunkNow DEF ChunkStates
<1>2. /\ q \in Parser /\ q.errno = "OK" /\ q.flags = parser.flags
      /\ q.state = s /\ q.content_length = t
      BY <1>1, ChunkNow DEF Parser
<1>3. Consume(q)
      OBVIOUS
<1> HIDE DEF q
<1> QED BY <1>2, <1>3, ChunkStep DEF ChunkHead

LEMMA SizeStartStep == ASSUME Inv, ChunkSizeStart PROVE Inv'
<1>1. pc = "loop" /\ parser.state \in Quiet /\ parser.state \in ChunkStates
      BY NowType, QuietStates DEF ChunkSizeStart, At, In, ChunkStates
<1>2. CASE Fail("INVALID_CHUNK_SIZE")
      BY <1>1, <1>2, FailStep DEF Errors
<1>3. CASE /\ unhex(ch) # -1
           /\ Consume([Now EXCEPT !.content_length = unhex(ch), !.state = "s_chunk_size"])
           /\ Silent
  <2>1. unhex(ch) \in 0..MaxLength /\ unhex(ch) # MaxLength
        BY <1>3, DigitType, MaxAssumption
  <2>2. "s_chunk_size" \in ChunkHead
        BY DEF ChunkHead
  <2> QED BY <1>1, <1>3, <2>1, <2>2, SizeStep
<1> QED BY <1>2, <1>3 DEF ChunkSizeStart

\* The next state of a chunk's head
LEMMA HeadStep ==
    ASSUME Inv, pc = "loop", parser.state \in Quiet, parser.state \in ChunkHead,
           NEW s \in ChunkHead, To(s), Silent
    PROVE  Inv'
<1> DEFINE q == [Now EXCEPT !.state = s]
<1>1. s \in States /\ parser.state \in ChunkStates
      BY ChunkNow DEF ChunkStates
<1>2. /\ q \in Parser /\ q.errno = "OK" /\ q.flags = parser.flags
      /\ q.state = s /\ q.content_length = parser.content_length
      BY <1>1, ChunkNow DEF Parser
<1>3. parser.content_length # MaxLength
      BY DEF Inv, Healthy, Sound
<1>4. Consume(q)
      BY DEF To
<1> HIDE DEF q
<1> QED BY <1>1, <1>2, <1>3, <1>4, ChunkStep DEF ChunkHead

LEMMA SizeDigitStep == ASSUME Inv, ChunkSize PROVE Inv'
<1> DEFINE t == Longer(16, unhex(ch))
<1>1. pc = "loop" /\ parser.state = "s_chunk_size"
      BY NowType DEF ChunkSize, At, In
<1>2. parser.state \in Quiet /\ parser.state \in ChunkStates /\ parser.state \in ChunkHead
      BY <1>1, QuietStates DEF ChunkStates, ChunkHead
<1>3. {"s_chunk_size_almost_done", "s_chunk_parameters"} \subseteq ChunkHead
      BY DEF ChunkHead
<1>4. CASE To("s_chunk_size_almost_done") /\ Silent
      BY <1>1, <1>2, <1>3, <1>4, HeadStep
<1>5. CASE To("s_chunk_parameters") /\ Silent
      BY <1>1, <1>2, <1>3, <1>5, HeadStep
<1>6. CASE Fail("INVALID_CHUNK_SIZE") \/ Fail("INVALID_CONTENT_LENGTH")
      BY <1>1, <1>6, FailStep DEF Errors
<1>7. CASE /\ unhex(ch) # -1 /\ ~Overflow(t)
           /\ Consume([Now EXCEPT !.content_length = t]) /\ Silent
  <2>1. unhex(ch) \in Nat
        BY <1>7, DigitType
  <2>2. t \in 0..MaxLength /\ t # MaxLength
        BY <1>7, <2>1, LongerType DEF Overflow
  <2> HIDE DEF t
  <2>3. [Now EXCEPT !.content_length = t] = [Now EXCEPT !.content_length = t, !.state = "s_chunk_size"]
        BY <1>1, ChunkNow DEF Parser
  <2> QED BY <1>1, <1>2, <1>7, <2>2, <2>3, SizeStep
<1> QED BY <1>4, <1>5, <1>6, <1>7 DEF ChunkSize

LEMMA ParametersStep == ASSUME Inv, ChunkParameters PROVE Inv'
<1>1. pc = "loop" /\ parser.state \in Quiet /\ parser.state \in ChunkHead
      BY NowType, QuietStates DEF ChunkParameters, At, In, ChunkHead
<1>2. {"s_chunk_size_almost_done", "s_chunk_parameters"} \subseteq ChunkHead
      BY DEF ChunkHead
<1> QED BY <1>1, <1>2, HeadStep DEF ChunkParameters

LEMMA SizeDoneStep == ASSUME Inv, ChunkSizeAlmostDone PROVE Inv'
<1> DEFINE q == [Now EXCEPT !.nread = 0]
           r == [q EXCEPT !.flags = @ \cup {"F_TRAILING"}, !.state = "s_header_field_start"]
           d == [q EXCEPT !.state = "s_chunk_data"]
<1>1. pc = "loop" /\ parser.state = "s_chunk_size_almost_done"
      BY NowType DEF ChunkSizeAlmostDone, At, In
<1>2. parser.state \in Quiet /\ parser.state \in ChunkStates
      BY <1>1, QuietStates DEF ChunkStates, ChunkHead
<1>3. /\ q \in Parser /\ q.errno = "OK" /\ q.flags = parser.flags
      /\ q.content_length = parser.content_length /\ q.nread = 0
      BY <1>1, ChunkNow DEF Parser
<1> HIDE DEF q
<1>4. parser.content_length # MaxLength
      BY <1>1 DEF Inv, Healthy, Sound, ChunkHead
<1>5. CASE Fail("STRICT")
      BY <1>1, <1>5, FailStep DEF Errors
<1>6. CASE Consume(r) /\ Silent
  <2>1. r \in Parser /\ r.errno = "OK" /\ r.state \in Plain
        BY <1>3, PlainStates DEF Parser, Plain, Flags
  <2> HIDE DEF r
  <2> QED BY <1>1, <1>2, <1>6, <2>1, PlainStep DEF Silent
<1>7. CASE parser.content_length # 0 /\ Consume(d) /\ Silent
  <2>1. /\ d \in Parser /\ d.errno = "OK" /\ d.flags = parser.flags /\ d.nread = 0
        /\ d.state = "s_chunk_data" /\ d.content_length = parser.content_length
        BY <1>1, <1>3, ChunkNow DEF Parser, ChunkStates
  <2> HIDE DEF d
  <2> QED BY <1>1, <1>2, <1>4, <1>7, <2>1, ChunkStep DEF ChunkHead
<1> QED BY <1>5, <1>6, <1>7 DEF ChunkSizeAlmostDone, q

LEMMA ChunkDataStep == ASSUME Inv, ChunkData PROVE Inv'
<1> DEFINE left == parser.content_length - ToRead
           s == IF left = 0 THEN "s_chunk_data_almost_done" ELSE "s_chunk_data"
           q == [Now EXCEPT !.content_length = left, !.state = s]
<1>1. pc = "loop" /\ p <= end /\ parser.state = "s_chunk_data" /\ p \in Nat
      BY NowType DEF ChunkData, At, In, Inv, TypeOK
<1>2. /\ left \in 0..MaxLength /\ left # MaxLength /\ ToRead \in Nat
      BY <1>1, ToReadType, MaxAssumption
<1>3. "body" \in Fields /\ parser.state \in MarkedIn["body"]
      BY <1>1 DEF Fields, MarkedIn
<1>4. \A g \in Fields : mark[g] # 0 => g = "body"
      BY <1>3, OwnField DEF Inv, MarksKnown
<1>5. mark \in [Fields -> Nat] /\ Marked("body") \in Nat
      BY <1>1, <1>3 DEF Inv, TypeOK, Marked
<1>6. /\ p' = p + ToRead /\ parser' = q /\ mark' = [mark EXCEPT !["body"] = Marked("body")]
      /\ UNCHANGED <<stream, pc, end>>
      BY <1>1, ChunkNow DEF ChunkData, Mark
<1>7. again' \in BOOLEAN
      BY Zenon DEF ChunkData
<1>8. p' \in Nat
      BY <1>1, <1>2, <1>6
<1>9. mark' \in [Fields -> Nat] /\ \A g \in Fields : mark'[g] # 0 => g = "body"
      BY <1>3, <1>4, <1>5, <1>6
<1>10. s \in States
      BY ChunkNow, <1>1 DEF ChunkStates
<1>11. /\ q \in Parser /\ q.errno = "OK" /\ q.flags = parser.flags
       /\ q.state = s /\ q.content_length = left /\ q.nread = 0
  <2> HIDE DEF s, left
  <2> QED BY <1>1, <1>2, <1>10, ChunkNow, NothingCounted DEF Parser
<1>12. "F_CHUNKED" \in parser.flags
      BY <1>1 DEF Inv, Healthy, Sound, ChunkStates
<1>13. s \in MarkedIn["body"] /\ s # "s_chunk_size_start"
      BY DEF MarkedIn
<1>14. Sound(q)
  <2>1. CASE left = 0
    <3>1. s = "s_chunk_data_almost_done"
          BY <2>1
    <3> HIDE DEF q, s, left
    <3> QED BY <2>1, <3>1, <1>11, <1>12 DEF Sound, ChunkHead
  <2>2. CASE left # 0
    <3>1. s = "s_chunk_data"
          BY <2>2
    <3> HIDE DEF q, s, left
    <3> QED BY <2>2, <3>1, <1>2, <1>11, <1>12 DEF Sound, ChunkHead
  <2> QED BY <2>1, <2>2
<1> HIDE DEF q, s, left
<1> QED BY <1>1, <1>6, <1>7, <1>8, <1>9, <1>11, <1>13, <1>14, Step

LEMMA ChunkEndStep == ASSUME Inv, ChunkDataAlmostDone PROVE Inv'
<1> DEFINE q == [Now EXCEPT !.state = "s_chunk_data_done"]
<1>1. pc = "loop" /\ parser.state = "s_chunk_data_almost_done"
      BY NowType DEF ChunkDataAlmostDone, At, In
<1>2. "body" \in Fields /\ parser.state \in MarkedIn["body"]
      BY <1>1 DEF Fields, MarkedIn
<1>3. \A g \in Fields : parser.state \in MarkedIn[g] => g = "body"
      BY <1>2, OwnField
<1>4. CASE Fail("STRICT")
      BY <1>1, <1>4, FailStep DEF Errors
<1>5. CASE To("s_chunk_data_done") /\ Data("body", p)
  <2>1. /\ q \in Parser /\ q.errno = "OK" /\ q.state = "s_chunk_data_done"
        /\ q.flags = parser.flags
        BY <1>1, ChunkNow DEF Parser, ChunkStates
  <2>2. Consume(q)
        BY <1>5 DEF To
  <2> HIDE DEF q
  <2>3. "F_CHUNKED" \in parser.flags
        BY <1>1 DEF Inv, Healthy, Sound, ChunkStates
  <2>4. Sound(q)
        BY <2>1, <2>3 DEF Sound, ChunkHead
  <2> QED BY <1>1, <1>2, <1>3, <1>5, <2>1, <2>2, <2>4, DataStep
<1> QED BY <1>4, <1>5 DEF ChunkDataAlmostDone

LEMMA ChunkDoneStep == ASSUME Inv, ChunkDataDone PROVE Inv'
<1> DEFINE q == [Now EXCEPT !.nread = 0, !.state = "s_chunk_size_start"]
<1>1. pc = "loop" /\ parser.state = "s_chunk_data_done"
      BY NowType DEF ChunkDataDone, At, In
<1>2. parser.state \in Quiet /\ parser.state \in ChunkStates
      BY <1>1, QuietStates DEF ChunkStates
<1>3. CASE Fail("STRICT")
      BY <1>1, <1>3, FailStep DEF Errors
<1>4. CASE Consume(q) /\ Silent
  <2>1. /\ q \in Parser /\ q.errno = "OK" /\ q.state = "s_chunk_size_start"
        /\ q.flags = parser.flags /\ q.nread = 0
        BY <1>1, ChunkNow DEF Parser, ChunkStates
  <2> HIDE DEF q
  <2> QED BY <1>1, <1>2, <1>4, <2>1, ChunkStep DEF ChunkHead
<1> QED BY <1>3, <1>4 DEF ChunkDataDone

-----------------------------------------------------------------------------

LEMMA InvInit == Init => Inv
<1> SUFFICES ASSUME Init PROVE Inv
    OBVIOUS
<1>1. PICK t \in Types : parser = http_parser_init(t)
      BY DEF Init
<1>2. /\ parser \in Parser /\ parser.errno = "OK"
      /\ parser.state \in {"s_start_req", "s_start_res", "s_start_req_or_res"}
  <2>1. /\ t \in {"HTTP_REQUEST", "HTTP_RESPONSE", "HTTP_BOTH"}
        /\ "h_general" \in HeaderStates /\ "DELETE" \in method_strings /\ 0 \in 0..MaxLength
        BY TypesAssumption, HeaderStateTypes, MaxAssumption DEF method_strings
  <2>2. (CASE t = "HTTP_REQUEST" -> "s_start_req"
           [] t = "HTTP_RESPONSE" -> "s_start_res"
           [] OTHER -> "s_start_req_or_res")
            \in {"s_start_req", "s_start_res", "s_start_req_or_res"}
        OBVIOUS
  <2>3. {"s_start_req", "s_start_res", "s_start_req_or_res"} \subseteq States
        BY PlainStates DEF Plain
  <2> QED BY <1>1, <2>1, <2>2, <2>3 DEF http_parser_init, Parser
<1>3. Sound(parser) /\ parser.state # "s_chunk_size_start"
      BY <1>2, PlainSound, PlainStates DEF Plain, ChunkStates
<1>4. TypeOK /\ pc # "loop"
      BY <1>2, StreamsAssumption DEF Init, TypeOK, NoMarks
<1>5. MarksKnown
      BY DEF Init, MarksKnown, NoMarks
<1> QED BY <1>3, <1>4, <1>5 DEF Inv, Healthy

\* One step for each state of the parser's switch
LEMMA InvStep == Inv /\ [Next]_vars => Inv'
<1> SUFFICES ASSUME Inv, [Next]_vars PROVE Inv'
    OBVIOUS
<1>1. CASE CallEof \/ \E n \in Cuts : Call(n)
      BY <1>1, CallStep, CallEofStep
<1>2. CASE \/ Return \/ HeaderOverflow \/ Dead
           \/ StartReqOrRes \/ ResOrRespH \/ StartRes \/ ResConstant \/ ResVersion
           \/ ResStatusCode \/ ResStatus
      BY <1>2, ReturnStep, OverflowStep, DeadStep, StartReqOrResStep, ResOrRespHStep,
         StartResStep, ResConstantStep, ResVersionStep, ResStatusCodeStep, ResStatusStep
<1>3. CASE \/ StartReq \/ ReqMethod \/ SpacesBeforeUrl \/ UrlOpening \/ Url
           \/ ReqConstant \/ ReqVersion
      BY <1>3, StartReqStep, ReqMethodStep, SpacesStep, UrlOpeningStep, UrlStep,
         ReqConstantStep, ReqVersionStep
<1>4. CASE \/ HeaderFieldStart \/ HeaderField \/ HeaderValueStart \/ HeaderValue
           \/ HeaderAlmostDone \/ HeaderValueLws \/ HeadersAlmostDone \/ HeadersDone
      BY <1>4, FieldStartStep, FieldStep, ValueStartStep, ValueStep, HeaderDoneStep, LwsStep,
         HeadersAlmostDoneStep, HeadersDoneStep
<1>5. CASE \/ BodyIdentity \/ BodyIdentityEof \/ MessageDone
           \/ ChunkSizeStart \/ ChunkSize \/ ChunkParameters \/ ChunkSizeAlmostDone
           \/ ChunkData \/ ChunkDataAlmostDone \/ ChunkDataDone
      BY <1>5, BodyStep, BodyEofStep, DoneStep, SizeStartStep, SizeDigitStep, ParametersStep,
         SizeDoneStep, ChunkDataStep, ChunkEndStep, ChunkDoneStep
<1>6. CASE UNCHANGED vars
      BY <1>6 DEF vars, Inv, TypeOK, Healthy, MarksKnown
<1> QED BY <1>1, <1>2, <1>3, <1>4, <1>5, <1>6 DEF Next, Execute

\* The parser's fields keep the widths and values its struct gives them, whatever
\* bytes arrive (http_parser.h:194)
THEOREM TypeCorrect == Spec => []TypeOK
<1>1. Inv => TypeOK
      BY DEF Inv
<1> QED BY InvInit, InvStep, <1>1, PTL DEF Spec

\* No assertion of http_parser.c fails, for every stream of bytes, cut in every way:
\* no client can abort the server with what it sends (http_parser.c:1743)
THEOREM NoAssertionFails == Spec => []AssertionsHold
<1>1. Inv => AssertionsHold
  <2> SUFFICES ASSUME Inv, pc = "loop" PROVE AssertionsHold
      BY DEF AssertionsHold
  <2>1. \A f, g \in Fields : mark[f] # 0 /\ mark[g] # 0 => f = g
        BY OwnField DEF Inv, MarksKnown
  <2>2. Sound(parser) /\ (parser.state = "s_chunk_size_start" => ~again)
        BY DEF Inv, Healthy
  <2>3. parser.state = "s_chunk_size_start" => Now.nread = 1
    <3> SUFFICES ASSUME parser.state = "s_chunk_size_start" PROVE Now.nread = 1
        OBVIOUS
    <3>1. ~again /\ PARSING_HEADER(parser.state) /\ parser.nread = 0 /\ parser \in Parser
          BY <2>2 DEF PARSING_HEADER, BodyStates, Sound, Inv, TypeOK
    <3>2. Now = [parser EXCEPT !.nread = @ + 1]
          BY <3>1, Zenon DEF Now
    <3> QED BY <3>1, <3>2 DEF Parser
  <2>4. parser.state \in {"s_chunk_size_start", "s_chunk_size", "s_chunk_parameters",
                          "s_chunk_size_almost_done", "s_chunk_data",
                          "s_chunk_data_almost_done", "s_chunk_data_done"}
            => "F_CHUNKED" \in parser.flags
        BY <2>2 DEF Sound, ChunkStates, ChunkHead
  <2>5. parser.state = "s_header_value"
            => parser.header_state \notin {"h_connection", "h_transfer_encoding"}
        BY <2>2 DEF Sound, ValueStates
  <2>6. parser.state = "s_header_field" => parser.header_state \in NameStates
        BY <2>2 DEF Sound
  <2>7. parser.state \in States
        BY DEF Inv, TypeOK, Parser
  <2> QED BY <2>1, <2>2, <2>3, <2>4, <2>5, <2>6, <2>7 DEF AssertionsHold, Sound
<1> QED BY InvInit, InvStep, <1>1, PTL DEF Spec

-----------------------------------------------------------------------------
\* What a pass does to the place of the loop and to what the caller has

\* How often the byte at p may be looked at again from a state on
Passes(s) ==
    CASE s = "s_header_value_lws" -> 3
      [] s = "s_header_field_start" -> 2
      [] s \in {"s_headers_almost_done", "s_header_value", "s_start_req_or_res",
                "s_body_identity"} -> 1
      [] OTHER -> 0

Consumed == p' = p + 1 /\ again' = FALSE /\ UNCHANGED <<stream, pc, end>>
Repeated ==
    /\ again' = TRUE /\ UNCHANGED <<stream, pc, p, end>>
    /\ Passes(parser'.state) < Passes(parser.state) /\ parser'.state \notin BodyStates
Failed ==
    /\ parser'.errno # "OK" /\ pc' = "idle" /\ again' = FALSE /\ mark' = NoMarks
    /\ UNCHANGED <<stream, p, end, log>>
\* execute returns behind the headers of another protocol
Left == pc' = "idle" /\ again' = FALSE /\ UNCHANGED <<stream, p, end>>

Notices == {"message_begin", "message_complete", "headers_complete"}
Data0 == Seq(STRING) \cup (method_strings \X Nat \X Nat) \cup (Nat \X Nat \X Nat)
Told == \E cb \in Notices : \E s \in Data0 : Notify(cb, s)

\* A pass with one byte
OneByte ==
    /\ pc = "loop" /\ p <= end
    /\ \/ Failed
       \/ (Consumed \/ Repeated \/ Left) /\ (Silent \/ Told)
       \/ Consumed /\ parser.state \in Quiet \ BodyStates /\ \E f \in Fields : Mark(f)
       \/ (Consumed \/ Repeated) /\ \E f \in Fields : parser.state \in MarkedIn[f] /\ Data(f, p)
       \/ /\ Consumed /\ parser.state \in Quiet \ BodyStates
          /\ log' = Receive("header_value", SubSeq(stream, Marked("header_value"), p - 1))
          /\ mark' = [mark EXCEPT !["header_value"] = 0]

LEMMA ToldBegin == Notify("message_begin", <<>>) \/ Notify("message_complete", <<>>) => Told
<1>1. <<>> \in Seq(STRING)
      OBVIOUS
<1> QED BY <1>1 DEF Told, Data0, Notices

LEMMA FailIs == ASSUME Inv, NEW e \in Errors, Fail(e) PROVE Failed
<1>1. parser' = [Now EXCEPT !.errno = e] /\ Now \in Parser
      BY NowType DEF Fail
<1>2. parser'.errno = e /\ e # "OK"
      BY <1>1 DEF Parser, Errors
<1> QED BY <1>2 DEF Fail, Failed

LEMMA ConsumeIs == ASSUME NEW q, Consume(q) PROVE Consumed
BY DEF Consume, Consumed

LEMMA ToIs == ASSUME NEW s, To(s) PROVE Consumed
BY ConsumeIs DEF To

LEMMA ReexecuteIs ==
    ASSUME NEW q, Reexecute(q), Passes(q.state) < Passes(parser.state), q.state \notin BodyStates
    PROVE  Repeated
BY DEF Reexecute, Repeated

LEMMA DigitIs ==
    ASSUME Inv, NEW f, NEW s, NEW e \in Errors, FirstDigit(f, s, e) \/ NextDigit(f, e)
    PROVE  Failed \/ (Consumed /\ Silent)
<1>1. CASE Fail(e)
      BY <1>1, FailIs
<1>2. CASE \E q : Consume(q) /\ Silent
      BY <1>2, ConsumeIs
<1>3. Fail(e) \/ \E q : Consume(q) /\ Silent
  <2>1. CASE FirstDigit(f, s, e)
        BY <2>1, Zenon DEF FirstDigit
  <2>2. CASE NextDigit(f, e)
        BY <2>2, Zenon DEF NextDigit
  <2> QED BY <2>1, <2>2
<1> QED BY <1>1, <1>2, <1>3

LEMMA ExpectIs ==
    ASSUME Inv, NEW c, NEW s, NEW e \in Errors, Expect(c, s, e)
    PROVE  Failed \/ (Consumed /\ Silent)
BY FailIs, ToIs DEF Expect

\* The first line of a response
LEMMA ResponseLine ==
    ASSUME Inv, ResOrRespH \/ StartRes \/ ResConstant \/ ResVersion \/ ResStatusCode \/ ResStatus
    PROVE  OneByte
<1>1. pc = "loop" /\ p <= end
      BY DEF ResOrRespH, StartRes, ResConstant, ResVersion, ResStatusCode, ResStatus, At, In
<1>2. {"INVALID_CONSTANT", "INVALID_VERSION", "INVALID_STATUS", "STRICT"} \subseteq Errors
      BY DEF Errors
<1>3. CASE ResOrRespH
      BY <1>1, <1>2, <1>3, FailIs, ConsumeIs DEF ResOrRespH, OneByte
<1>4. CASE StartRes
      BY <1>1, <1>2, <1>4, FailIs, ConsumeIs, ToldBegin DEF StartRes, OneByte
<1>5. CASE ResConstant
      BY <1>1, <1>2, <1>5, ExpectIs DEF ResConstant, OneByte
<1>6. CASE ResVersion
  <2>1. Failed \/ (Consumed /\ Silent)
        BY <1>2, <1>6, DigitIs, ToIs DEF ResVersion
  <2> QED BY <1>1, <2>1 DEF OneByte
<1>7. CASE ResStatusCode
  <2>1. Failed \/ (Consumed /\ Silent)
        BY <1>2, <1>7, DigitIs, ToIs DEF ResStatusCode, EndOfLine
  <2> QED BY <1>1, <2>1 DEF OneByte
<1>8. CASE ResStatus
  <2>1. "status" \in Fields /\ "s_res_status" \in MarkedIn["status"]
        /\ "s_res_status_start" \in Quiet \ BodyStates
        BY QuietStates DEF Fields, MarkedIn, BodyStates
  <2>2. CASE At("s_res_status_start")
    <3>1. parser.state \in Quiet \ BodyStates
          BY <2>1, <2>2 DEF At, In
    <3>2. (Consumed /\ Silent) \/ (Consumed /\ Mark("status"))
          BY <1>8, <2>2, ToIs, ConsumeIs DEF ResStatus, EndOfLine, At, In
    <3> QED BY <1>1, <2>1, <3>1, <3>2 DEF OneByte
  <2>3. CASE At("s_res_status")
    <3>1. parser.state \in MarkedIn["status"]
          BY <2>1, <2>3 DEF At, In
    <3>2. (Consumed /\ Silent) \/ (Consumed /\ Data("status", p))
          BY <1>8, <2>3, ToIs DEF ResStatus, EndOfLine, At, In
    <3> QED BY <1>1, <2>1, <3>1, <3>2 DEF OneByte
  <2>4. CASE At("s_res_line_almost_done")
    <3>1. Failed \/ (Consumed /\ Silent)
          BY <1>2, <1>8, <2>4, ExpectIs DEF ResStatus, At, In
    <3> QED BY <1>1, <3>1 DEF OneByte
  <2> QED BY <1>8, <2>2, <2>3, <2>4 DEF ResStatus
<1> QED BY <1>3, <1>4, <1>5, <1>6, <1>7, <1>8

\* What comes before a message, and its method
LEMMA MessageStart ==
    ASSUME Inv, HeaderOverflow \/ Dead \/ StartReqOrRes \/ StartReq \/ ReqMethod
    PROVE  OneByte
<1>1. pc = "loop" /\ p <= end
      BY DEF HeaderOverflow, Dead, StartReqOrRes, StartReq, ReqMethod, At, In
<1>2. {"HEADER_OVERFLOW", "CLOSED_CONNECTION", "INVALID_METHOD"} \subseteq Errors
      BY DEF Errors
<1>3. CASE HeaderOverflow
      BY <1>1, <1>2, <1>3, FailIs DEF HeaderOverflow, OneByte
<1>4. CASE Dead
      BY <1>1, <1>2, <1>4, FailIs, ToIs DEF Dead, OneByte
<1>5. CASE StartReqOrRes
  <2> DEFINE q == [Fresh EXCEPT !.type = "HTTP_REQUEST", !.state = "s_start_req"]
  <2>1. parser.state = "s_start_req_or_res"
        BY <1>5 DEF StartReqOrRes, At, In
  <2>2. q.state = "s_start_req"
        BY <1>1, FreshType DEF Parser
  <2>3. CASE Reexecute(q) /\ Silent
    <3> HIDE DEF q
    <3>1. Passes(q.state) < Passes(parser.state) /\ q.state \notin BodyStates
          BY <2>1, <2>2 DEF Passes, BodyStates
    <3> QED BY <1>1, <2>3, <3>1, ReexecuteIs DEF OneByte
  <2> QED BY <1>1, <1>5, <2>3, ToIs, ConsumeIs, ToldBegin DEF StartReqOrRes, OneByte
<1>6. CASE StartReq
      BY <1>1, <1>2, <1>6, FailIs, ToIs, ConsumeIs, ToldBegin DEF StartReq, OneByte
<1>7. CASE ReqMethod
      BY <1>1, <1>2, <1>7, FailIs, ConsumeIs DEF ReqMethod, OneByte
<1> QED BY <1>3, <1>4, <1>5, <1>6, <1>7

LEMMA UrlByteIs == ASSUME Inv, UrlByte PROVE Failed \/ (Consumed /\ Silent)
<1>1. "INVALID_URL" \in Errors
      BY DEF Errors
<1> QED BY <1>1, FailIs, ToIs DEF UrlByte

\* The rest of the first line of a request
LEMMA RequestLine ==
    ASSUME Inv, SpacesBeforeUrl \/ UrlOpening \/ Url \/ ReqConstant \/ ReqVersion
    PROVE  OneByte
<1>1. pc = "loop" /\ p <= end
      BY DEF SpacesBeforeUrl, UrlOpening, Url, ReqConstant, ReqVersion, At, In
<1>2. {"INVALID_URL", "INVALID_CONSTANT", "INVALID_VERSION", "LF_EXPECTED", "STRICT"} \subseteq Errors
      BY DEF Errors
<1>3. "url" \in Fields
      BY DEF Fields
<1>4. CASE SpacesBeforeUrl
  <2>1. parser.state \in Quiet \ BodyStates
        BY <1>4, QuietStates DEF SpacesBeforeUrl, At, In, BodyStates
  <2>2. Failed \/ (Consumed /\ Silent) \/ (Consumed /\ Mark("url"))
        BY <1>2, <1>4, FailIs, ToIs DEF SpacesBeforeUrl
  <2> QED BY <1>1, <1>3, <2>1, <2>2 DEF OneByte
<1>5. CASE UrlOpening
      BY <1>1, <1>5, UrlByteIs DEF UrlOpening, OneByte
<1>6. CASE Url
  <2>1. parser.state \in MarkedIn["url"]
        BY <1>6, UrlStates DEF Url, In
  <2>2. Failed \/ (Consumed /\ Silent) \/ (Consumed /\ Data("url", p))
        BY <1>6, UrlByteIs, ToIs, ConsumeIs DEF Url
  <2> QED BY <1>1, <1>3, <2>1, <2>2 DEF OneByte
<1>7. CASE ReqConstant
  <2>1. Failed \/ (Consumed /\ Silent)
        BY <1>2, <1>7, ExpectIs, ToIs DEF ReqConstant
  <2> QED BY <1>1, <2>1 DEF OneByte
<1>8. CASE ReqVersion
  <2>1. Failed \/ (Consumed /\ Silent)
        BY <1>2, <1>8, DigitIs, ToIs, ExpectIs, FailIs DEF ReqVersion, EndOfLine
  <2> QED BY <1>1, <2>1 DEF OneByte
<1> QED BY <1>4, <1>5, <1>6, <1>7, <1>8

\* A pass that leaves the byte to a state that looks at it less often
LEMMA AgainIs ==
    ASSUME Inv, NEW q, Reexecute(q), NEW s, q.state = s, s \in States \ BodyStates,
           Passes(s) < Passes(parser.state)
    PROVE  Repeated
BY ReexecuteIs

LEMMA PassesFewer ==
    /\ Passes("s_headers_almost_done") < Passes("s_header_field_start")
    /\ Passes("s_header_almost_done") < Passes("s_header_value")
    /\ Passes("s_header_field_start") < Passes("s_header_value_lws")
    /\ Passes("s_headers_done") < Passes("s_headers_almost_done")
    /\ {"s_headers_almost_done", "s_header_almost_done", "s_header_field_start", "s_headers_done"}
         \subseteq States \ BodyStates
BY DEF Passes, States, BodyStates

LEMMA LengthDigitIs == ASSUME Inv, LengthDigit PROVE Failed \/ (Consumed /\ Silent)
<1>1. "INVALID_CONTENT_LENGTH" \in Errors
      BY DEF Errors
<1>2. \/ Fail("INVALID_CONTENT_LENGTH")
      \/ To("s_header_value") /\ Silent
      \/ \E q : Consume(q) /\ Silent
      BY DEF LengthDigit
<1> QED BY <1>1, <1>2, FailIs, ToIs, ConsumeIs

\* The names and values of headers
LEMMA HeaderLines ==
    ASSUME Inv, \/ HeaderFieldStart \/ HeaderField \/ HeaderValueStart \/ HeaderValue
                \/ HeaderAlmostDone \/ HeaderValueLws
    PROVE  OneByte
<1>1. pc = "loop" /\ p <= end
      BY DEF HeaderFieldStart, HeaderField, HeaderValueStart, HeaderValue, HeaderAlmostDone,
             HeaderValueLws, At, In
<1>2. {"INVALID_HEADER_TOKEN", "INVALID_CONTENT_LENGTH", "STRICT"} \subseteq Errors
      BY DEF Errors
<1>3. {"header_field", "header_value"} \subseteq Fields
      BY DEF Fields
<1>4. Now \in Parser
      BY NowType
<1>5. CASE HeaderFieldStart
  <2> DEFINE q == [Now EXCEPT !.state = "s_headers_almost_done"]
  <2>1. parser.state = "s_header_field_start" /\ parser.state \in Quiet \ BodyStates
        BY <1>5, QuietStates DEF HeaderFieldStart, At, In, BodyStates
  <2>2. q.state = "s_headers_almost_done"
        BY <1>4 DEF Parser
  <2>3. CASE Reexecute(q) /\ Silent
    <3> HIDE DEF q
    <3>1. Repeated
          BY <2>1, <2>2, <2>3, PassesFewer, AgainIs
    <3> QED BY <1>1, <2>3, <3>1 DEF OneByte
  <2>4. CASE Failed \/ (Consumed /\ Silent) \/ (Consumed /\ Mark("header_field"))
        BY <1>1, <1>3, <2>1, <2>4 DEF OneByte
  <2> HIDE DEF q
  <2>5. \/ Fail("INVALID_HEADER_TOKEN")
        \/ To("s_headers_almost_done") /\ Silent
        \/ \E r : Consume(r) /\ Mark("header_field")
        \/ Reexecute(q) /\ Silent
        BY <1>5 DEF HeaderFieldStart, q
  <2> QED BY <1>2, <2>3, <2>4, <2>5, FailIs, ToIs, ConsumeIs
<1>6. CASE HeaderField
  <2>1. parser.state \in MarkedIn["header_field"]
        BY <1>6 DEF HeaderField, At, In, MarkedIn
  <2>2. \/ Fail("INVALID_HEADER_TOKEN")
        \/ \E r : Consume(r) /\ Silent
        \/ \E s : To(s) /\ Data("header_field", p)
        BY <1>6, Zenon DEF HeaderField
  <2>3. Failed \/ (Consumed /\ Silent) \/ (Consumed /\ Data("header_field", p))
        BY <1>2, <2>2, FailIs, ToIs, ConsumeIs
  <2> QED BY <1>1, <1>3, <2>1, <2>3 DEF OneByte
<1>7. CASE HeaderValueStart
  <2> DEFINE empty == /\ log' = Receive("header_value", SubSeq(stream, Marked("header_value"), p - 1))
                      /\ mark' = [mark EXCEPT !["header_value"] = 0]
  <2>1. parser.state \in Quiet \ BodyStates
        BY <1>7, QuietStates DEF HeaderValueStart, At, In, BodyStates
  <2>2. \/ Fail("INVALID_CONTENT_LENGTH")
        \/ To("s_header_value_start") /\ Silent
        \/ \E r : Consume(r) /\ Mark("header_value")
        \/ \E r : Consume(r) /\ empty
        BY <1>7 DEF HeaderValueStart
  <2>3. \/ Failed \/ (Consumed /\ Silent) \/ (Consumed /\ Mark("header_value")) \/ (Consumed /\ empty)
        BY <1>2, <2>2, FailIs, ToIs, ConsumeIs
  <2> QED BY <1>1, <1>3, <2>1, <2>3 DEF OneByte
<1>8. CASE HeaderValue
  <2> DEFINE q == [Now EXCEPT !.state = "s_header_almost_done"]
  <2>1. parser.state = "s_header_value" /\ parser.state \in MarkedIn["header_value"]
        BY <1>8 DEF HeaderValue, At, In, MarkedIn
  <2>2. q.state = "s_header_almost_done"
        BY <1>4 DEF Parser
  <2> HIDE DEF q
  <2>3. CASE Reexecute(q) /\ Data("header_value", p)
    <3>1. Repeated
          BY <2>1, <2>2, <2>3, PassesFewer, AgainIs
    <3> QED BY <1>1, <1>3, <2>1, <2>3, <3>1 DEF OneByte
  <2>4. CASE Failed \/ (Consumed /\ Silent) \/ (Consumed /\ Data("header_value", p))
        BY <1>1, <1>3, <2>1, <2>4 DEF OneByte
  <2>5. \/ To("s_header_almost_done") /\ Data("header_value", p)
        \/ Reexecute(q) /\ Data("header_value", p)
        \/ LengthDigit
        \/ \E r : Consume(r) /\ Silent
        BY <1>8, Zenon DEF HeaderValue, q
  <2> QED BY <2>3, <2>4, <2>5, ToIs, ConsumeIs, LengthDigitIs
<1>9. CASE HeaderAlmostDone
  <2>1. Fail("STRICT") \/ \E r : Consume(r) /\ Silent
        BY <1>9, Zenon DEF HeaderAlmostDone
  <2> QED BY <1>1, <1>2, <2>1, FailIs, ConsumeIs DEF OneByte
<1>10. CASE HeaderValueLws
  <2> DEFINE q == [Now EXCEPT !.state = "s_header_field_start"]
  <2>1. parser.state = "s_header_value_lws"
        BY <1>10 DEF HeaderValueLws, At, In
  <2>2. q.state = "s_header_field_start"
        BY <1>4 DEF Parser
  <2> HIDE DEF q
  <2>3. (To("s_header_value_start") \/ Reexecute(q)) /\ Silent
        BY <1>10, Zenon DEF HeaderValueLws, q
  <2>4. Consumed \/ Repeated
        BY <2>1, <2>2, <2>3, PassesFewer, AgainIs, ToIs
  <2> QED BY <1>1, <2>3, <2>4 DEF OneByte
<1> QED BY <1>5, <1>6, <1>7, <1>8, <1>9, <1>10

LEMMA CompleteIs == ASSUME NEW q, Complete(q) PROVE Consumed /\ Told
BY ConsumeIs, ToldBegin DEF Complete

\* The end of the headers, and of a message
LEMMA Ends ==
    ASSUME Inv, HeadersAlmostDone \/ HeadersDone \/ MessageDone
    PROVE  OneByte
<1>1. pc = "loop" /\ p <= end
      BY DEF HeadersAlmostDone, HeadersDone, MessageDone, At, In
<1>2. "STRICT" \in Errors
      BY DEF Errors
<1>3. CASE HeadersAlmostDone
  <2> DEFINE u == "F_UPGRADE" \in parser.flags \/ parser.method = "CONNECT"
             q == [Now EXCEPT !.state = "s_headers_done", !.upgrade = u]
             info == IF parser.type = "HTTP_REQUEST"
                     THEN <<parser.method, parser.http_major, parser.http_minor>>
                     ELSE <<parser.status_code, parser.http_major, parser.http_minor>>
  <2>1. parser.state = "s_headers_almost_done"
        BY <1>3 DEF HeadersAlmostDone, At, In
  <2>2. CASE Reexecute(q) /\ Notify("headers_complete", info)
    <3> HIDE DEF u
    <3>1. q.state = "s_headers_done"
          BY NowType DEF Parser
    <3> HIDE DEF q
    <3>2. Repeated
          BY <2>1, <2>2, <3>1, PassesFewer, AgainIs
    <3>3. info \in Data0 /\ "headers_complete" \in Notices
          BY DEF Inv, TypeOK, Parser, Data0, Notices
    <3> HIDE DEF info
    <3>4. Told
          BY <2>2, <3>3 DEF Told
    <3> QED BY <1>1, <3>2, <3>4 DEF OneByte
  <2> HIDE DEF q, info
  <2>3. \/ Fail("STRICT")
        \/ Complete(Now)
        \/ Reexecute(q) /\ Notify("headers_complete", info)
        BY <1>3 DEF HeadersAlmostDone, q, info
  <2> QED BY <1>1, <1>2, <2>2, <2>3, FailIs, CompleteIs DEF OneByte
<1>4. CASE HeadersDone
  <2>1. \/ pc' = "idle" /\ again' = FALSE /\ UNCHANGED <<stream, p, end>> /\ Notify("message_complete", <<>>)
        \/ \E q : Consume(q) /\ Silent
        \/ \E q : Complete(q)
        BY <1>4 DEF HeadersDone
  <2> QED BY <1>1, <2>1, ConsumeIs, CompleteIs, ToldBegin DEF OneByte, Left
<1>5. CASE MessageDone
      BY <1>1, <1>5, CompleteIs DEF MessageDone, OneByte
<1> QED BY <1>3, <1>4, <1>5

\* What is around the bytes of a chunk
LEMMA ChunkFrames ==
    ASSUME Inv, \/ ChunkSizeStart \/ ChunkSize \/ ChunkParameters \/ ChunkSizeAlmostDone
                \/ ChunkDataAlmostDone \/ ChunkDataDone
    PROVE  OneByte
<1>1. pc = "loop" /\ p <= end
      BY DEF ChunkSizeStart, ChunkSize, ChunkParameters, ChunkSizeAlmostDone,
             ChunkDataAlmostDone, ChunkDataDone, At, In
<1>2. {"INVALID_CHUNK_SIZE", "INVALID_CONTENT_LENGTH", "STRICT"} \subseteq Errors
      BY DEF Errors
<1>3. CASE ChunkDataAlmostDone
  <2>1. parser.state \in MarkedIn["body"] /\ "body" \in Fields
        BY <1>3 DEF ChunkDataAlmostDone, At, In, MarkedIn, Fields
  <2>2. Failed \/ (Consumed /\ Data("body", p))
        BY <1>2, <1>3, FailIs, ToIs DEF ChunkDataAlmostDone
  <2> QED BY <1>1, <2>1, <2>2 DEF OneByte
<1>4. CASE ChunkSizeStart \/ ChunkSize \/ ChunkParameters \/ ChunkSizeAlmostDone \/ ChunkDataDone
  <2>1. \/ \E e \in {"INVALID_CHUNK_SIZE", "INVALID_CONTENT_LENGTH", "STRICT"} : Fail(e)
        \/ \E s : To(s) /\ Silent
        \/ \E q : Consume(q) /\ Silent
    <3>1. CASE ChunkSizeStart
          BY <3>1, Zenon DEF ChunkSizeStart
    <3>2. CASE ChunkSize
          BY <3>2 DEF ChunkSize
    <3>3. CASE ChunkParameters
          BY <3>3, Zenon DEF ChunkParameters
    <3>4. CASE ChunkSizeAlmostDone
          BY <3>4 DEF ChunkSizeAlmostDone
    <3>5. CASE ChunkDataDone
          BY <3>5, Zenon DEF ChunkDataDone
    <3> QED BY <1>4, <3>1, <3>2, <3>3, <3>4, <3>5
  <2>2. Failed \/ (Consumed /\ Silent)
        BY <1>2, <2>1, FailIs, ToIs, ConsumeIs
  <2> QED BY <1>1, <2>2 DEF OneByte
<1> QED BY <1>3, <1>4

\* Every pass is one of these, or takes what the call has of a body, or is the last
LEMMA PassIs ==
    ASSUME Inv, Execute
    PROVE  OneByte \/ BodyIdentity \/ BodyIdentityEof \/ ChunkData \/ Return
BY MessageStart, ResponseLine, RequestLine, HeaderLines, Ends, ChunkFrames DEF Execute

-----------------------------------------------------------------------------
\* Every call returns

\* Where the loop is
Position ==
    /\ 1 <= p /\ p <= end + 1 /\ end <= Len(stream)
    /\ again => pc = "loop" /\ p <= end /\ parser.state # "s_body_identity_eof"
    /\ \A f \in Fields : mark[f] # 0 => mark[f] <= p

PInv == Inv /\ Position

\* The passes a call has left
PassesLeft == IF pc = "loop" THEN 4 * (end + 1 - p) + Passes(parser.state) + 1 ELSE 0

LEMMA PassesType == ASSUME NEW s PROVE Passes(s) \in 0..3
BY DEF Passes

LEMMA BodyPass ==
    ASSUME PInv, BodyIdentity \/ BodyIdentityEof \/ ChunkData
    PROVE  /\ pc = "loop" /\ p <= end /\ UNCHANGED <<stream, pc, end>>
           /\ \/ p < p' /\ p' <= end + 1 /\ again' = FALSE /\ Mark("body")
              \/ /\ parser.state = "s_body_identity"
                 /\ parser'.state = "s_message_done" /\ again' = TRUE
                 /\ p <= p' /\ p' <= end
                 /\ log' = Receive("body", SubSeq(stream, Marked("body"), p'))
                 /\ mark' = [mark EXCEPT !["body"] = 0]
<1>1. pc = "loop" /\ p <= end /\ UNCHANGED <<stream, pc, end>> /\ p \in Nat /\ end \in Nat
      BY DEF BodyIdentity, BodyIdentityEof, ChunkData, At, In, PInv, Inv, TypeOK
<1>2. CASE BodyIdentityEof
  <2>1. p' = end + 1 /\ again' = again /\ Mark("body") /\ parser.state = "s_body_identity_eof"
        BY <1>2 DEF BodyIdentityEof, At, In
  <2>2. again' = FALSE
        BY <2>1, Zenon DEF PInv, Position, Inv, TypeOK
  <2> QED BY <1>1, <2>1, <2>2
<1>3. ASSUME BodyIdentity \/ ChunkData
      PROVE  /\ ToRead \in Nat /\ 0 < ToRead /\ ToRead <= parser.content_length
             /\ ToRead <= end - p + 1
  <2>1. parser.state \in {"s_body_identity", "s_chunk_data"}
        BY <1>3 DEF BodyIdentity, ChunkData, At, In
  <2>2. /\ ToRead \in Nat /\ 0 < ToRead /\ ToRead <= parser.content_length
        /\ parser.content_length \in 0..MaxLength
        BY <1>1, <2>1, ToReadType DEF PInv
  <2>3. ToRead <= end - p + 1
        BY <1>1, <2>2, MaxAssumption DEF ToRead
  <2> QED BY <2>2, <2>3
<1>4. CASE ChunkData
  <2>1. p' = p + ToRead /\ again' = FALSE /\ Mark("body")
        BY <1>4 DEF ChunkData
  <2> QED BY <1>1, <1>3, <1>4, <2>1
<1>5. CASE BodyIdentity
  <2> DEFINE left == parser.content_length - ToRead
  <2>1. CASE left = 0
    <3>1. /\ p' = p + ToRead - 1 /\ again' = TRUE /\ parser.state = "s_body_identity"
          /\ log' = Receive("body", SubSeq(stream, Marked("body"), p'))
          /\ mark' = [mark EXCEPT !["body"] = 0]
          /\ parser' = [Now EXCEPT !.content_length = left, !.state = "s_message_done"]
      <4> HIDE DEF left
      <4> QED BY <1>5, <2>1 DEF BodyIdentity, At, In, left
    <3>2. parser'.state = "s_message_done"
          BY <3>1, NowType DEF PInv, Parser
    <3> QED BY <1>1, <1>3, <1>5, <3>1, <3>2
  <2>2. CASE left # 0
    <3>1. p' = p + ToRead /\ (again' = (left = 0)) /\ Mark("body")
          BY <1>5, <2>2 DEF BodyIdentity
    <3>2. again' = FALSE
          BY <2>2, <3>1, Zenon
    <3> QED BY <1>1, <1>3, <1>5, <3>1, <3>2
  <2> QED BY <2>1, <2>2
<1> QED BY <1>2, <1>4, <1>5

\* The marks a pass leaves are of bytes the loop has met
LEMMA MarkIs ==
    ASSUME PInv, NEW f \in Fields, Mark(f) \/ Data(f, p) \/ mark' = [mark EXCEPT ![f] = 0]
    PROVE  \A g \in Fields : mark'[g] # 0 => mark'[g] <= p
<1>1. mark \in [Fields -> Nat] /\ p \in Nat
      BY DEF PInv, Inv, TypeOK
<1>2. CASE Mark(f)
      BY <1>1, <1>2 DEF Mark, Marked, PInv, Position
<1>3. CASE mark' = [mark EXCEPT ![f] = 0]
      BY <1>1, <1>3 DEF PInv, Position
<1> QED BY <1>2, <1>3 DEF Data

LEMMA PositionInit == Init => Position
BY DEF Init, Position, NoMarks, Fields

LEMMA PositionStep == ASSUME PInv, [Next]_vars PROVE Position'
<1>1. /\ p \in Nat /\ end \in Nat /\ Len(stream) \in Nat /\ mark \in [Fields -> Nat]
      BY DEF PInv, Inv, TypeOK
<1>2. CASE OneByte
  <2>1. pc = "loop" /\ p <= end
        BY <1>2 DEF OneByte
  <2>2. CASE Failed
        BY <1>1, <2>1, <2>2 DEF Failed, Position, PInv, NoMarks
  <2>3. ASSUME Consumed \/ Repeated \/ Left
        PROVE  /\ 1 <= p' /\ p' <= end' + 1 /\ end' <= Len(stream') /\ p <= p'
               /\ again' => pc' = "loop" /\ p' <= end' /\ parser'.state # "s_body_identity_eof"
    <3>1. CASE Consumed
          BY <1>1, <2>1, <3>1 DEF Consumed, PInv, Position
    <3>2. CASE Repeated
          BY <1>1, <2>1, <3>2 DEF Repeated, PInv, Position, BodyStates
    <3>3. CASE Left
          BY <1>1, <2>1, <3>3 DEF Left, PInv, Position
    <3> QED BY <2>3, <3>1, <3>2, <3>3
  <2>4. \/ Failed
        \/ /\ Consumed \/ Repeated \/ Left
           /\ \A g \in Fields : mark'[g] # 0 => mark'[g] <= p
    <3>1. ASSUME Silent \/ Told
          PROVE  \A g \in Fields : mark'[g] # 0 => mark'[g] <= p
          BY <3>1 DEF Silent, Told, Notify, PInv, Position
    <3>2. "header_value" \in Fields
          BY DEF Fields
    <3> QED BY <1>2, <3>1, <3>2, MarkIs DEF OneByte
  <2>5. CASE /\ Consumed \/ Repeated \/ Left
             /\ \A g \in Fields : mark'[g] # 0 => mark'[g] <= p
    <3>1. p' \in Nat /\ mark' \in [Fields -> Nat]
          BY InvStep DEF PInv, Inv, TypeOK
    <3>2. \A g \in Fields : mark'[g] # 0 => mark'[g] <= p'
          BY <1>1, <2>3, <2>5, <3>1
    <3> QED BY <2>3, <2>5, <3>2 DEF Position
  <2> QED BY <2>2, <2>4, <2>5
<1>3. CASE BodyIdentity \/ BodyIdentityEof \/ ChunkData
  <2>1. /\ pc' = "loop" /\ UNCHANGED <<stream, end>> /\ p <= p' /\ p' <= end + 1
        /\ again' => p' <= end /\ parser'.state = "s_message_done"
        /\ \A g \in Fields : mark'[g] # 0 => mark'[g] <= p
    <3>1. "body" \in Fields
          BY DEF Fields
    <3>2. /\ pc' = "loop" /\ UNCHANGED <<stream, end>> /\ p <= end
          /\ \/ p < p' /\ p' <= end + 1 /\ again' = FALSE /\ Mark("body")
             \/ /\ parser'.state = "s_message_done" /\ p <= p' /\ p' <= end
                /\ mark' = [mark EXCEPT !["body"] = 0]
          BY <1>3, BodyPass
    <3>3. p' \in Nat
          BY InvStep DEF PInv, Inv, TypeOK
    <3>4. \A g \in Fields : mark'[g] # 0 => mark'[g] <= p
          BY <3>1, <3>2, MarkIs
    <3> QED BY <1>1, <3>2, <3>3, <3>4
  <2>2. p' \in Nat /\ mark' \in [Fields -> Nat]
        BY InvStep DEF PInv, Inv, TypeOK
  <2> QED BY <1>1, <2>1, <2>2 DEF Position, PInv
<1>4. CASE Return
      BY <1>1, <1>4 DEF Return, Position, PInv, NoMarks
<1>5. CASE CallEof
      BY <1>1, <1>5 DEF CallEof, Position, PInv
<1>6. CASE \E n \in Cuts : Call(n)
  <2>1. PICK n \in Cuts : Call(n)
        BY <1>6
  <2>2. n \in Nat \ {0}
        BY CutAssumption
  <2>3. /\ end' = end + n /\ p' = end + 1 /\ end + n <= Len(stream) /\ stream' = stream
        /\ again' = again /\ pc = "idle"
        /\ mark' = mark \/ mark' = [f \in Fields |-> IF f \in Resumed(parser.state) THEN p' ELSE 0]
        BY <2>1 DEF Call
  <2>4. \A f \in Fields : mark[f] = 0
        BY <2>3 DEF PInv, Inv, MarksKnown
  <2> QED BY <1>1, <2>2, <2>3, <2>4 DEF Position, PInv
<1>7. CASE UNCHANGED vars
      BY <1>7 DEF vars, Position, PInv
<1> QED BY <1>2, <1>3, <1>4, <1>5, <1>6, <1>7, PassIs DEF Next, PInv

\* Fewer bytes to come, or as many in a state of fewer passes
LEMMA Countdown ==
    ASSUME NEW a \in Nat, NEW b \in Nat, NEW e \in Nat, a <= e + 1, b <= e + 1,
           NEW m \in 0..3, NEW n \in 0..3, a < b \/ (a <= b /\ n < m)
    PROVE  /\ 4 * (e + 1 - b) + n + 1 \in Nat
           /\ 4 * (e + 1 - b) + n + 1 < 4 * (e + 1 - a) + m + 1
OBVIOUS

\* A pass leaves fewer passes to come
LEMMA PassCounts ==
    ASSUME PInv, Execute
    PROVE  PassesLeft' \in Nat /\ PassesLeft' < PassesLeft
<1> DEFINE m == Passes(parser.state)
           n == Passes(parser'.state)
<1>1. m \in 0..3 /\ n \in 0..3
      BY PassesType
<1>2. /\ PassesLeft = IF pc = "loop" THEN 4 * (end + 1 - p) + m + 1 ELSE 0
      /\ PassesLeft' = IF pc' = "loop" THEN 4 * (end' + 1 - p') + n + 1 ELSE 0
      BY DEF PassesLeft
<1>3. PInv'
      BY InvStep, PositionStep DEF PInv, Next
<1>4. /\ p \in Nat /\ end \in Nat /\ p <= end + 1
      /\ p' \in Nat /\ end' \in Nat /\ p' <= end' + 1
      BY <1>3 DEF PInv, Inv, TypeOK, Position
<1>5. pc = "loop"
      BY PassIs, BodyPass DEF OneByte, Return, PInv
<1>6. CASE pc' # "loop"
  <2> HIDE DEF m, n
  <2> QED BY <1>1, <1>2, <1>4, <1>5, <1>6
<1>7. CASE pc' = "loop"
  <2>1. end' = end /\ (p < p' \/ (p <= p' /\ n < m))
    <3>1. CASE OneByte
      <4>1. Consumed \/ Repeated
            BY <1>5, <1>7, <3>1 DEF OneByte, Failed, Left
      <4> QED BY <1>4, <4>1 DEF Consumed, Repeated
    <3>2. CASE BodyIdentity \/ BodyIdentityEof \/ ChunkData
      <4>1. Passes("s_message_done") < Passes("s_body_identity")
            BY DEF Passes
      <4>2. \/ end' = end /\ p < p'
            \/ /\ end' = end /\ p <= p'
               /\ parser.state = "s_body_identity" /\ parser'.state = "s_message_done"
            BY <3>2, BodyPass
      <4>3. p < p' => p <= p'
            BY <1>4
      <4> QED BY <4>1, <4>2, <4>3
    <3>3. CASE Return
          BY <1>7, <3>3 DEF Return
    <3> QED BY <3>1, <3>2, <3>3, PassIs DEF PInv
  <2>2. PassesLeft = 4 * (end + 1 - p) + m + 1 /\ PassesLeft' = 4 * (end + 1 - p') + n + 1
        BY <1>2, <1>5, <1>7, <2>1
  <2>3. p' <= end + 1
        BY <1>4, <2>1
  <2> HIDE DEF m, n
  <2>4. /\ 4 * (end + 1 - p') + n + 1 \in Nat
        /\ 4 * (end + 1 - p') + n + 1 < 4 * (end + 1 - p) + m + 1
        BY <1>1, <1>4, <2>1, <2>3, Countdown
  <2> QED BY <2>2, <2>4
<1> QED BY <1>6, <1>7

LEMMA PInvariant == Spec => []PInv
<1>1. Init => PInv
      BY InvInit, PositionInit DEF PInv
<1>2. PInv /\ [Next]_vars => PInv'
      BY InvStep, PositionStep DEF PInv
<1> QED BY <1>1, <1>2, PTL DEF Spec

\* However a message is cut and whatever it holds, a call of
\* http_parser_execute takes a bounded number of passes of its loop: every pass
\* leaves fewer of them to come, at most four for each byte that is left. The
\* `goto reexecute_byte` of the body and header states never turns in a circle.
THEOREM CallsAreFinite ==
    Spec => [][Execute => PassesLeft' \in Nat /\ PassesLeft' < PassesLeft]_vars
<1>1. PInv /\ [Next]_vars => [Execute => PassesLeft' \in Nat /\ PassesLeft' < PassesLeft]_vars
      BY PassCounts
<1> QED BY <1>1, PInvariant, PTL DEF Spec

-----------------------------------------------------------------------------
\* Where in the stream the bytes come from that the callbacks have got

Entry == [cb : Fields \cup Notices, data : Data0]
LogType ==
    /\ log \in Seq(Entry)
    /\ \A i \in DOMAIN log : log[i].cb \in Fields => log[i].data \in Seq(STRING)

\* The j-th byte of the i-th entry of a log l
HasByte(l, i, j) == i \in DOMAIN l /\ l[i].cb \in Fields /\ j \in DOMAIN l[i].data

\* at gives each byte the place in s it comes from, and the places go up
Traced(l, s, at) ==
    /\ \A i, j \in Nat : HasByte(l, i, j) => 1 <= at[i][j] /\ s[at[i][j]] = l[i].data[j]
    /\ \A i, j, k, m \in Nat :
          HasByte(l, i, j) /\ HasByte(l, k, m) /\ (i < k \/ (i = k /\ j < m))
             => at[i][j] < at[k][m]

\* No place is behind x
UpTo(l, at, x) == \A i, j \in Nat : HasByte(l, i, j) => at[i][j] <= x

\* A place for the j-th byte of the i-th entry
Places == [Nat -> [Nat -> Nat]]

\* r is l, with the bytes of s from a to b behind the first m of the n-th entry
Adds(l, r, s, n, m, a, b) ==
    /\ \A i, j \in Nat : HasByte(l, i, j) => i < n \/ (i = n /\ j <= m)
    /\ \A i, j \in Nat : HasByte(r, i, j) =>
          \/ HasByte(l, i, j) /\ r[i].data[j] = l[i].data[j]
          \/ i = n /\ m < j /\ j <= m + (b + 1 - a) /\ r[i].data[j] = s[a + (j - m) - 1]

LEMMA Grows ==
    ASSUME NEW l, NEW r, NEW s, NEW at \in Places, NEW n \in Nat, NEW m \in Nat,
           NEW a \in Nat, NEW b \in Nat, 1 <= a, a <= b + 1,
           Traced(l, s, at), UpTo(l, at, a - 1), Adds(l, r, s, n, m, a, b)
    PROVE  \E new \in Places : Traced(r, s, new) /\ UpTo(r, new, b)
<1>0. /\ \A i, j \in Nat : HasByte(l, i, j) => i < n \/ (i = n /\ j <= m)
      /\ \A i, j \in Nat : HasByte(r, i, j) =>
            \/ HasByte(l, i, j) /\ r[i].data[j] = l[i].data[j]
            \/ i = n /\ m < j /\ j <= m + (b + 1 - a) /\ r[i].data[j] = s[a + (j - m) - 1]
      BY DEF Adds
<1> DEFINE row == [j \in Nat |-> IF j <= m THEN at[n][j] ELSE a + (j - m) - 1]
           new == [at EXCEPT ![n] = row]
<1>1. row \in [Nat -> Nat]
  <2>1. ASSUME NEW j \in Nat, m < j PROVE a + (j - m) - 1 \in Nat
        BY <2>1
  <2>2. at[n] \in [Nat -> Nat]
        BY DEF Places
  <2>3. ASSUME NEW j \in Nat PROVE (IF j <= m THEN at[n][j] ELSE a + (j - m) - 1) \in Nat
        BY <2>1, <2>2
  <2> QED BY <2>3
<1>2. new \in Places /\ new[n] = row /\ \A i \in Nat : i # n => new[i] = at[i]
      BY <1>1 DEF Places
<1>3. \A j \in Nat : row[j] = IF j <= m THEN at[n][j] ELSE a + (j - m) - 1
      OBVIOUS
<1> HIDE DEF row, new
<1>4. ASSUME NEW i \in Nat, NEW j \in Nat, HasByte(l, i, j)
      PROVE  /\ new[i][j] = at[i][j] /\ new[i][j] \in Nat /\ new[i][j] <= a - 1
             /\ 1 <= new[i][j] /\ s[new[i][j]] = l[i].data[j]
  <2>1. new[i][j] = at[i][j]
        BY <1>0, <1>2, <1>3, <1>4
  <2>2. at[i][j] \in Nat
        BY DEF Places
  <2>3. at[i][j] <= a - 1 /\ 1 <= at[i][j] /\ s[at[i][j]] = l[i].data[j]
        BY <1>4 DEF UpTo, Traced
  <2> QED BY <2>1, <2>2, <2>3
<1>5. ASSUME NEW j \in Nat, m < j, j <= m + (b + 1 - a)
      PROVE  /\ new[n][j] = a + (j - m) - 1 /\ new[n][j] \in Nat
             /\ a <= new[n][j] /\ new[n][j] <= b
      BY <1>2, <1>3, <1>5
<1>6. ASSUME NEW i \in Nat, NEW j \in Nat, HasByte(r, i, j)
      PROVE  1 <= new[i][j] /\ s[new[i][j]] = r[i].data[j] /\ new[i][j] <= b
  <2>1. CASE HasByte(l, i, j) /\ r[i].data[j] = l[i].data[j]
        BY <1>4, <2>1
  <2>2. CASE i = n /\ m < j /\ j <= m + (b + 1 - a) /\ r[i].data[j] = s[a + (j - m) - 1]
        BY <1>5, <2>2
  <2> QED BY <1>0, <1>6, <2>1, <2>2
<1>7. ASSUME NEW i \in Nat, NEW j \in Nat, NEW k \in Nat, NEW h \in Nat,
             HasByte(r, i, j), HasByte(r, k, h), i < k \/ (i = k /\ j < h)
      PROVE  new[i][j] < new[k][h]
  <2>1. CASE HasByte(l, i, j) /\ HasByte(l, k, h)
    <3>1. at[i][j] < at[k][h]
          BY <1>7, <2>1 DEF Traced
    <3> QED BY <1>4, <2>1, <3>1
  <2>2. CASE HasByte(l, i, j) /\ ~HasByte(l, k, h)
    <3>1. k = n /\ m < h /\ h <= m + (b + 1 - a)
          BY <1>0, <1>7, <2>2
    <3>2. new[i][j] \in Nat /\ new[i][j] <= a - 1 /\ new[k][h] \in Nat /\ a <= new[k][h]
          BY <1>4, <1>5, <2>2, <3>1
    <3> QED BY <3>2
  <2>3. CASE ~HasByte(l, i, j)
    <3>1. i = n /\ m < j /\ j <= m + (b + 1 - a)
          BY <1>0, <1>7, <2>3
    <3>2. ~HasByte(l, k, h)
      <4>1. HasByte(l, k, h) => k < n \/ (k = n /\ h <= m)
            BY <1>0
      <4> QED BY <1>7, <3>1, <4>1
    <3>3. k = n /\ m < h /\ h <= m + (b + 1 - a) /\ j < h
          BY <1>0, <1>7, <3>1, <3>2
    <3> QED BY <1>5, <3>1, <3>3
  <2> QED BY <2>1, <2>2, <2>3
<1> QED BY <1>2, <1>6, <1>7 DEF Traced, UpTo

\* A callback with the bytes of the stream from a to b
LEMMA ReceiveType ==
    ASSUME LogType, NEW f \in Fields, NEW d \in Seq(STRING)
    PROVE  /\ Receive(f, d) \in Seq(Entry)
           /\ \A i \in DOMAIN Receive(f, d) :
                 Receive(f, d)[i].cb \in Fields => Receive(f, d)[i].data \in Seq(STRING)
<1>1. log \in Seq(Entry) /\ d \in Data0
      BY DEF LogType, Data0
<1>2. CASE log # <<>> /\ log[Len(log)].cb = f
  <2> DEFINE n == Len(log)
             e == [log[n] EXCEPT !.data = @ \o d]
  <2>1. n \in DOMAIN log /\ log[n] \in Entry
        BY <1>1, <1>2
  <2>2. log[n].data \in Seq(STRING) /\ log[n].data \o d \in Seq(STRING)
        BY <1>2, <2>1 DEF LogType
  <2>3. e \in Entry /\ e.data \in Seq(STRING)
        BY <2>1, <2>2 DEF Entry, Data0
  <2>4. Receive(f, d) = [log EXCEPT ![n] = e]
        BY <1>2 DEF Receive
  <2> HIDE DEF e
  <2> QED BY <1>1, <2>1, <2>3, <2>4 DEF LogType
<1>3. CASE ~(log # <<>> /\ log[Len(log)].cb = f)
  <2> DEFINE e == [cb |-> f, data |-> d]
  <2>1. Receive(f, d) = Append(log, e)
        BY <1>3 DEF Receive
  <2>2. e \in Entry /\ e.data \in Seq(STRING)
        BY <1>1 DEF Entry
  <2> HIDE DEF e
  <2> QED BY <1>1, <2>1, <2>2 DEF LogType
<1> QED BY <1>2, <1>3

LEMMA JoinedByte ==
    ASSUME NEW S, NEW x \in Seq(S), NEW y \in Seq(S), NEW j \in DOMAIN (x \o y)
    PROVE  \/ j \in DOMAIN x /\ j <= Len(x) /\ (x \o y)[j] = x[j]
           \/ /\ Len(x) < j /\ j <= Len(x) + Len(y) /\ j - Len(x) \in 1..Len(y)
              /\ (x \o y)[j] = y[j - Len(x)]
OBVIOUS

LEMMA ReceiveTraced ==
    ASSUME LogType, stream \in Seq(STRING), NEW f \in Fields, NEW a \in Nat, NEW b \in Nat,
           1 <= a, a <= b + 1, b <= Len(stream),
           NEW at \in Places, Traced(log, stream, at), UpTo(log, at, a - 1)
    PROVE  \E new \in Places : /\ Traced(Receive(f, SubSeq(stream, a, b)), stream, new)
                               /\ UpTo(Receive(f, SubSeq(stream, a, b)), new, b)
<1> DEFINE d == SubSeq(stream, a, b)
           r == Receive(f, d)
           n == IF log # <<>> /\ log[Len(log)].cb = f THEN Len(log) ELSE Len(log) + 1
           m == IF log # <<>> /\ log[Len(log)].cb = f THEN Len(log[n].data) ELSE 0
<1>1. /\ d \in Seq(STRING) /\ Len(d) = b + 1 - a
      /\ \A j \in 1..(b + 1 - a) : d[j] = stream[a + j - 1]
      OBVIOUS
<1>2. log \in Seq(Entry)
      BY DEF LogType
<1> HIDE DEF d
<1>3. CASE log # <<>> /\ log[Len(log)].cb = f
  <2>1. n = Len(log) /\ n \in DOMAIN log /\ log[n].cb = f /\ m = Len(log[n].data)
        BY <1>2, <1>3
  <2>2. log[n].data \in Seq(STRING) /\ m \in Nat /\ n \in Nat
        BY <1>2, <2>1 DEF LogType
  <2> DEFINE e == [log[n] EXCEPT !.data = @ \o d]
  <2>3. /\ DOMAIN r = DOMAIN log /\ r[n].data = log[n].data \o d /\ r[n].cb = f
        /\ \A i \in DOMAIN log : i # n => r[i] = log[i]
    <3>1. r = [log EXCEPT ![n] = e]
          BY <1>3 DEF Receive
    <3>2. e.data = log[n].data \o d /\ e.cb = f
          BY <1>2, <2>1 DEF Entry
    <3> HIDE DEF e, n, r
    <3> QED BY <1>2, <2>1, <3>1, <3>2
  <2> HIDE DEF r, n, m
  <2>4. ASSUME NEW i \in Nat, NEW j \in Nat, HasByte(log, i, j) PROVE i < n \/ (i = n /\ j <= m)
        BY <1>2, <2>1, <2>2, <2>4 DEF HasByte
  <2>5. ASSUME NEW i \in Nat, NEW j \in Nat, HasByte(r, i, j)
        PROVE  \/ HasByte(log, i, j) /\ r[i].data[j] = log[i].data[j]
               \/ i = n /\ m < j /\ j <= m + (b + 1 - a) /\ r[i].data[j] = stream[a + (j - m) - 1]
    <3>1. CASE i # n
          BY <2>3, <2>5, <3>1 DEF HasByte
    <3>2. CASE i = n
      <4>1. j \in DOMAIN (log[n].data \o d)
            BY <2>3, <2>5, <3>2 DEF HasByte
      <4>2. CASE j \in DOMAIN log[n].data /\ (log[n].data \o d)[j] = log[n].data[j]
            BY <2>1, <2>3, <3>2, <4>2 DEF HasByte
      <4>3. CASE /\ m < j /\ j <= m + Len(d) /\ j - m \in 1..Len(d)
                 /\ (log[n].data \o d)[j] = d[j - m]
            BY <1>1, <2>3, <3>2, <4>3
      <4>4. \A x, y \in Seq(STRING) : \A h \in DOMAIN (x \o y) :
               \/ h \in DOMAIN x /\ h <= Len(x) /\ (x \o y)[h] = x[h]
               \/ /\ Len(x) < h /\ h <= Len(x) + Len(y) /\ h - Len(x) \in 1..Len(y)
                  /\ (x \o y)[h] = y[h - Len(x)]
            BY JoinedByte
      <4>5. \/ /\ j \in DOMAIN log[n].data /\ j <= m
               /\ (log[n].data \o d)[j] = log[n].data[j]
            \/ /\ m < j /\ j <= m + Len(d) /\ j - m \in 1..Len(d)
               /\ (log[n].data \o d)[j] = d[j - m]
            BY <1>1, <2>1, <2>2, <4>1, <4>4, Zenon
      <4> QED BY <4>2, <4>3, <4>5
    <3> QED BY <3>1, <3>2
  <2>6. Adds(log, r, stream, n, m, a, b)
        BY <2>4, <2>5 DEF Adds
  <2> QED BY <2>2, <2>6, Grows DEF r, d
<1>4. CASE ~(log # <<>> /\ log[Len(log)].cb = f)
  <2>1. n = Len(log) + 1 /\ m = 0 /\ n \in Nat
        BY <1>2, <1>4
  <2>2. /\ DOMAIN r = 1..n /\ r[n].data = d
        /\ \A i \in DOMAIN log : r[i] = log[i]
    <3>1. r = Append(log, [cb |-> f, data |-> d])
          BY <1>4 DEF Receive
    <3> QED BY <1>2, <2>1, <3>1
  <2> HIDE DEF r, n, m
  <2>3. ASSUME NEW i \in Nat, NEW j \in Nat, HasByte(log, i, j) PROVE i < n \/ (i = n /\ j <= m)
        BY <1>2, <2>1, <2>3 DEF HasByte
  <2>4. ASSUME NEW i \in Nat, NEW j \in Nat, HasByte(r, i, j)
        PROVE  \/ HasByte(log, i, j) /\ r[i].data[j] = log[i].data[j]
               \/ i = n /\ m < j /\ j <= m + (b + 1 - a) /\ r[i].data[j] = stream[a + (j - m) - 1]
    <3>1. CASE i # n
          BY <1>2, <2>1, <2>2, <2>4, <3>1 DEF HasByte
    <3>2. CASE i = n
      <4>1. j \in 1..(b + 1 - a)
            BY <1>1, <2>2, <2>4, <3>2 DEF HasByte
      <4> QED BY <1>1, <2>1, <2>2, <3>2, <4>1
    <3> QED BY <3>1, <3>2
  <2>5. Adds(log, r, stream, n, m, a, b)
        BY <2>3, <2>4 DEF Adds
  <2>6. m \in Nat
        BY <2>1
  <2> QED BY <2>1, <2>5, <2>6, Grows DEF r, d
<1> QED BY <1>3, <1>4

\* The bytes told before the next pass: the last of a body is executed again as
\* the end of its message
Frontier == IF again /\ parser.state = "s_message_done" THEN p ELSE p - 1

Follows(at) ==
    /\ Traced(log, stream, at) /\ UpTo(log, at, end)
    /\ pc = "loop" => /\ UpTo(log, at, Frontier)
                      /\ \A f \in Fields : mark[f] # 0 => UpTo(log, at, mark[f] - 1)

FInv == PInv /\ LogType /\ \E at \in Places : Follows(at)

LEMMA UpToMore ==
    ASSUME NEW l, NEW at \in Places, NEW x \in Int, NEW y \in Int, x <= y, UpTo(l, at, x)
    PROVE  UpTo(l, at, y)
<1>1. \A i, j \in Nat : at[i][j] \in Nat
      BY DEF Places
<1> QED BY <1>1 DEF UpTo

\* A notification tells no byte
LEMMA NoticeTells ==
    ASSUME LogType, NEW cb \in Notices, NEW s \in Data0,
           log' = Append(log, [cb |-> cb, data |-> s])
    PROVE  /\ LogType'
           /\ \A i, j \in Nat : HasByte(log', i, j) => HasByte(log, i, j) /\ log'[i] = log[i]
<1> DEFINE e == [cb |-> cb, data |-> s]
<1>1. e \in Entry /\ e.cb \notin Fields
      BY DEF Entry, Notices, Fields
<1>2. log \in Seq(Entry) /\ log' = Append(log, e)
      BY DEF LogType
<1> HIDE DEF e
<1>3. /\ log' \in Seq(Entry) /\ DOMAIN log' = 1..(Len(log) + 1) /\ log'[Len(log) + 1] = e
      /\ \A i \in DOMAIN log : log'[i] = log[i]
      /\ \A i \in DOMAIN log' : i \in DOMAIN log \/ i = Len(log) + 1
      BY <1>1, <1>2
<1>4. LogType'
      BY <1>1, <1>3 DEF LogType
<1>5. ASSUME NEW i \in Nat, NEW j \in Nat, HasByte(log', i, j)
      PROVE  HasByte(log, i, j) /\ log'[i] = log[i]
      BY <1>1, <1>3, <1>5 DEF HasByte
<1> QED BY <1>4, <1>5

LEMMA SameBytes ==
    ASSUME LogType, log' = log \/ Told
    PROVE  /\ LogType'
           /\ \A at, x : Traced(log, stream, at) => Traced(log', stream, at)
           /\ \A at, x : UpTo(log, at, x) => UpTo(log', at, x)
<1>1. LogType' /\ \A i, j \in Nat : HasByte(log', i, j) => HasByte(log, i, j) /\ log'[i] = log[i]
  <2>1. CASE log' = log
        BY <2>1 DEF LogType
  <2>2. CASE Told
        BY <2>2, NoticeTells DEF Told, Notify
  <2> QED BY <2>1, <2>2
<1>2. ASSUME NEW at, Traced(log, stream, at) PROVE Traced(log', stream, at)
      BY <1>1, <1>2 DEF Traced
<1>3. ASSUME NEW at, NEW x, UpTo(log, at, x) PROVE UpTo(log', at, x)
      BY <1>1, <1>3 DEF UpTo
<1> QED BY <1>1, <1>2, <1>3

\* A callback that gets the bytes of the stream from a to b, behind all before
LEMMA Received ==
    ASSUME PInv, LogType, NEW f \in Fields, NEW a \in Nat, NEW b \in Nat,
           1 <= a, a <= b + 1, b <= end, log' = Receive(f, SubSeq(stream, a, b)),
           NEW at \in Places, Traced(log, stream, at), UpTo(log, at, a - 1)
    PROVE  /\ LogType'
           /\ \E new \in Places :
                 Traced(log', stream, new) /\ UpTo(log', new, b) /\ UpTo(log', new, end)
<1>1. stream \in Seq(STRING) /\ end \in Nat /\ end <= Len(stream)
      BY DEF PInv, Inv, TypeOK, Position
<1>2. SubSeq(stream, a, b) \in Seq(STRING) /\ b <= Len(stream)
  <2>1. Len(stream) \in Nat
        BY <1>1
  <2>2. b <= Len(stream)
        BY <1>1, <2>1
  <2> QED BY <1>1, <2>2
<1>3. LogType'
      BY <1>2, ReceiveType DEF LogType
<1>4. PICK new \in Places : Traced(log', stream, new) /\ UpTo(log', new, b)
      BY <1>1, <1>2, ReceiveTraced
<1>5. UpTo(log', new, end)
      BY <1>1, <1>4, UpToMore
<1> QED BY <1>3, <1>4, <1>5

LEMMA FollowsInit == Init => LogType /\ \E at \in Places : Follows(at)
<1> SUFFICES ASSUME Init PROVE LogType /\ \E at \in Places : Follows(at)
    OBVIOUS
<1> DEFINE at == [i \in Nat |-> [j \in Nat |-> 0]]
<1>1. at \in Places
      BY DEF Places
<1>2. log = <<>> /\ DOMAIN log = {} /\ pc # "loop"
      BY DEF Init
<1>3. LogType
      BY <1>2 DEF LogType
<1>4. Traced(log, stream, at) /\ UpTo(log, at, end)
  <2> HIDE DEF at
  <2> QED BY <1>2 DEF Traced, UpTo, HasByte
<1> QED BY <1>1, <1>2, <1>3, <1>4 DEF Follows

\* The open field of a pass is the one its state allows
LEMMA OnlyMark ==
    ASSUME Inv, NEW f \in Fields, parser.state \in MarkedIn[f], NEW g \in Fields, g # f
    PROVE  mark[g] = 0
BY OwnField DEF Inv, MarksKnown

LEMMA NoMark == ASSUME Inv, parser.state \in Quiet PROVE \A f \in Fields : mark[f] = 0
BY NoField DEF Inv, MarksKnown

\* A pass that opens a field, or goes on with it
LEMMA MarkFollows ==
    ASSUME PInv, LogType, NEW at \in Places, Follows(at), pc = "loop", NEW f \in Fields, Mark(f),
           parser.state # "s_message_done", UNCHANGED <<stream, end>>, p <= p', p' \in Nat,
           parser'.state = "s_message_done" => ~again'
    PROVE  LogType' /\ \E new \in Places : Follows(new)'
<1>1. /\ p \in Nat /\ end \in Nat /\ mark \in [Fields -> Nat]
      BY DEF PInv, Inv, TypeOK
<1>2. /\ Traced(log, stream, at) /\ UpTo(log, at, end) /\ UpTo(log, at, p - 1)
      /\ \A g \in Fields : mark[g] # 0 => UpTo(log, at, mark[g] - 1)
      BY DEF Follows, Frontier
<1>3. log' = log /\ mark' = [mark EXCEPT ![f] = IF mark[f] = 0 THEN p ELSE mark[f]]
      BY DEF Mark, Marked
<1>4. ASSUME NEW g \in Fields, mark'[g] # 0 PROVE UpTo(log, at, mark'[g] - 1)
      BY <1>1, <1>2, <1>3, <1>4
<1>5. Frontier' = p' - 1
      BY Zenon DEF Frontier
<1>6. UpTo(log, at, p' - 1)
  <2>1. \A x, y \in Nat : x <= y => x - 1 \in Int /\ y - 1 \in Int /\ x - 1 <= y - 1
        OBVIOUS
  <2>2. p - 1 \in Int /\ p' - 1 \in Int /\ p - 1 <= p' - 1
        BY <1>1, <2>1, Zenon
  <2> QED BY <1>2, <2>2, UpToMore
<1>7. Follows(at)'
      BY <1>2, <1>3, <1>4, <1>5, <1>6 DEF Follows
<1> QED BY <1>3, <1>7 DEF LogType

\* A pass that hands the open field over
LEMMA EndFollows ==
    ASSUME PInv, LogType, NEW at \in Places, Follows(at), pc = "loop",
           NEW f \in Fields, \A g \in Fields : g # f => mark[g] = 0,
           NEW a \in Nat, NEW b \in Nat, 1 <= a, a <= b + 1, b <= end, UpTo(log, at, a - 1),
           log' = Receive(f, SubSeq(stream, a, b)), mark' = [mark EXCEPT ![f] = 0],
           UNCHANGED <<stream, end>>, Frontier' \in Int, b <= Frontier'
    PROVE  LogType' /\ \E new \in Places : Follows(new)'
<1>1. Traced(log, stream, at)
      BY DEF Follows
<1>2. PICK new \in Places :
         Traced(log', stream, new) /\ UpTo(log', new, b) /\ UpTo(log', new, end)
      BY <1>1, Received
<1>3. LogType'
      BY <1>1, Received
<1>4. UpTo(log', new, Frontier')
      BY <1>2, UpToMore
<1>5. \A g \in Fields : mark'[g] = 0
      BY DEF PInv, Inv, TypeOK
<1>6. Follows(new)'
      BY <1>2, <1>4, <1>5 DEF Follows
<1> QED BY <1>3, <1>6

\* A pass that tells no byte
LEMMA SilentFollows ==
    ASSUME PInv, LogType, NEW at \in Places, Follows(at), log' = log \/ Told,
           UNCHANGED stream, end' \in Nat, end <= end',
           pc' = "loop" =>
              /\ pc = "loop" /\ Frontier \in Int /\ Frontier' \in Int /\ Frontier <= Frontier'
              /\ \A f \in Fields : mark'[f] = 0 \/ mark'[f] = mark[f]
    PROVE  LogType' /\ \E new \in Places : Follows(new)'
<1>1. /\ LogType' /\ Traced(log', stream, at)
      /\ \A x : UpTo(log, at, x) => UpTo(log', at, x)
      BY SameBytes DEF Follows
<1>2. UpTo(log', at, end')
      BY <1>1, UpToMore DEF Follows, PInv, Inv, TypeOK
<1>3. ASSUME pc' = "loop"
      PROVE  /\ UpTo(log', at, Frontier')
             /\ \A f \in Fields : mark'[f] # 0 => UpTo(log', at, mark'[f] - 1)
  <2>1. UpTo(log, at, Frontier) /\ \A f \in Fields : mark[f] # 0 => UpTo(log, at, mark[f] - 1)
        BY <1>3 DEF Follows
  <2>2. UpTo(log', at, Frontier')
        BY <1>1, <1>3, <2>1, UpToMore
  <2> QED BY <1>1, <1>3, <2>1, <2>2
<1>4. Follows(at)'
      BY <1>1, <1>2, <1>3 DEF Follows
<1> QED BY <1>1, <1>4

LEMMA Behind ==
    ASSUME NEW x \in Nat, NEW y \in Nat, x <= y
    PROVE  x - 1 \in Int /\ y - 1 \in Int /\ x - 1 <= y - 1 /\ x - 1 <= y
OBVIOUS

LEMMA FrontierType ==
    ASSUME p \in Nat
    PROVE  /\ Frontier \in Int
           /\ parser.state # "s_message_done" => Frontier = p - 1
           /\ Frontier = p - 1 \/ Frontier = p
BY DEF Frontier

\* A pass that tells no byte moves the frontier on
LEMMA FrontierGoesOn ==
    ASSUME p \in Nat, Consumed \/ Repeated
    PROVE  Frontier \in Int /\ Frontier' \in Int /\ Frontier <= Frontier' /\ p - 1 <= Frontier'
<1>1. \A x \in Nat : /\ x \in Int /\ x - 1 \in Int /\ x - 1 <= x /\ x <= x /\ x - 1 <= x - 1
                     /\ (x + 1) - 1 = x
      OBVIOUS
<1>2. Frontier = p - 1 \/ Frontier = p
      BY DEF Frontier
<1>3. CASE Consumed
  <2>1. Frontier' = p' - 1 /\ p' = p + 1
        BY <1>3, Zenon DEF Consumed, Frontier
  <2> QED BY <1>1, <1>2, <2>1
<1>4. CASE Repeated
  <2>1. Passes(parser.state) # 0
    <3>1. Passes(parser'.state) < Passes(parser.state) /\ Passes(parser'.state) \in 0..3
          BY <1>4, PassesType DEF Repeated
    <3> HIDE DEF Passes
    <3> QED BY <3>1
  <2>2. parser.state # "s_message_done"
        BY <2>1 DEF Passes
  <2>3. Frontier = p - 1 /\ (Frontier' = p' - 1 \/ Frontier' = p') /\ p' = p
        BY <1>4, <2>2 DEF Repeated, Frontier
  <2> QED BY <1>1, <2>3
<1> QED BY <1>3, <1>4

LEMMA ByteFollows ==
    ASSUME PInv, Inv', LogType, NEW at \in Places, Follows(at), OneByte
    PROVE  LogType' /\ \E new \in Places : Follows(new)'
<1>1. /\ p \in Nat /\ end \in Nat /\ p' \in Nat /\ end' \in Nat /\ mark \in [Fields -> Nat]
      /\ pc = "loop" /\ p <= end /\ 1 <= p
      BY DEF PInv, Inv, TypeOK, OneByte, Position
<1>2. ASSUME Consumed \/ Repeated
      PROVE  /\ Frontier \in Int /\ Frontier' \in Int /\ Frontier <= Frontier' /\ p - 1 <= Frontier'
             /\ UNCHANGED <<stream, end>> /\ pc' = "loop" /\ p <= p'
  <2>1. UNCHANGED <<stream, end>> /\ pc' = "loop" /\ (p' = p \/ p' = p + 1)
        BY <1>1, <1>2 DEF Consumed, Repeated
  <2> QED BY <1>1, <1>2, <2>1, FrontierGoesOn
<1>3. end <= end
      BY <1>1
<1>4. \A g \in Fields : mark[g] # 0 => UpTo(log, at, mark[g] - 1)
      BY <1>1 DEF Follows
<1>5. ASSUME parser.state # "s_message_done" PROVE UpTo(log, at, p - 1)
      BY <1>1, <1>5 DEF Follows, Frontier
<1>6. CASE Failed
      BY <1>1, <1>3, <1>6, SilentFollows DEF Failed
<1>7. CASE Left /\ (Silent \/ Told)
      BY <1>1, <1>3, <1>7, SilentFollows DEF Left, Silent
<1>8. CASE (Consumed \/ Repeated) /\ (Silent \/ Told)
  <2>1. mark' = mark /\ (log' = log \/ Told)
        BY <1>8 DEF Silent, Told, Notify
  <2> QED BY <1>1, <1>2, <1>3, <1>8, <2>1, SilentFollows
<1>9. CASE Consumed /\ parser.state \in Quiet \ BodyStates /\ \E f \in Fields : Mark(f)
  <2>1. PICK f \in Fields : Mark(f)
        BY <1>9
  <2>2. parser.state # "s_message_done" /\ ~again'
        BY <1>9, Zenon DEF BodyStates, Consumed
  <2> QED BY <1>1, <1>2, <1>9, <2>1, <2>2, MarkFollows
<1>10. CASE (Consumed \/ Repeated) /\ \E f \in Fields : parser.state \in MarkedIn[f] /\ Data(f, p)
  <2>1. PICK f \in Fields : parser.state \in MarkedIn[f] /\ Data(f, p)
        BY <1>10
  <2>2. mark' = [mark EXCEPT ![f] = 0]
        BY <2>1 DEF Data
  <2>3. \A g \in Fields : g # f => mark[g] = 0
        BY <2>1, OnlyMark DEF PInv
  <2>4. CASE mark[f] = 0
    <3>1. log' = log /\ mark' = mark
          BY <1>1, <2>1, <2>2, <2>4 DEF Data
    <3> QED BY <1>1, <1>2, <1>3, <1>10, <3>1, SilentFollows
  <2>5. CASE mark[f] # 0
    <3> DEFINE a == mark[f]
               b == p - 1
    <3>1. a \in Nat /\ 1 <= a /\ a <= p
          BY <1>1, <2>5 DEF PInv, Position
    <3>2. /\ b \in Nat /\ a <= b + 1 /\ b <= end
      <4>1. \A x, y, z \in Nat : 1 <= x /\ x <= y /\ y <= z
                                   => y - 1 \in Nat /\ x <= (y - 1) + 1 /\ y - 1 <= z
            OBVIOUS
      <4> QED BY <1>1, <3>1, <4>1
    <3>3. log' = Receive(f, SubSeq(stream, a, b)) /\ UpTo(log, at, a - 1)
          BY <1>4, <2>1, <2>5 DEF Data
    <3>4. Frontier' \in Int /\ b <= Frontier' /\ UNCHANGED <<stream, end>>
          BY <1>2, <1>10
    <3> HIDE DEF a, b
    <3> QED BY <1>1, <2>2, <2>3, <3>1, <3>2, <3>3, <3>4, EndFollows
  <2> QED BY <2>4, <2>5
<1>11. CASE /\ Consumed /\ parser.state \in Quiet \ BodyStates
            /\ log' = Receive("header_value", SubSeq(stream, Marked("header_value"), p - 1))
            /\ mark' = [mark EXCEPT !["header_value"] = 0]
  <2> DEFINE b == p - 1
  <2>1. "header_value" \in Fields /\ \A g \in Fields : mark[g] = 0
        BY <1>11, NoMark DEF Fields, PInv
  <2>2. b \in Nat /\ p <= b + 1 /\ b <= end
    <3>1. \A y, z \in Nat : 1 <= y /\ y <= z => y - 1 \in Nat /\ y <= (y - 1) + 1 /\ y - 1 <= z
          OBVIOUS
    <3> QED BY <1>1, <3>1
  <2>3. UpTo(log, at, p - 1)
        BY <1>5, <1>11 DEF BodyStates
  <2>4. log' = Receive("header_value", SubSeq(stream, p, b))
        BY <1>11, <2>1 DEF Marked
  <2>5. Frontier' \in Int /\ b <= Frontier' /\ UNCHANGED <<stream, end>>
        BY <1>2, <1>11
  <2> HIDE DEF b
  <2> QED BY <1>1, <1>11, <2>1, <2>2, <2>3, <2>4, <2>5, EndFollows
<1> QED BY <1>6, <1>7, <1>8, <1>9, <1>10, <1>11 DEF OneByte

LEMMA BodyFollows ==
    ASSUME PInv, Inv', LogType, NEW at \in Places, Follows(at),
           BodyIdentity \/ BodyIdentityEof \/ ChunkData
    PROVE  LogType' /\ \E new \in Places : Follows(new)'
<1>1. /\ p \in Nat /\ end \in Nat /\ p' \in Nat /\ mark \in [Fields -> Nat] /\ 1 <= p
      BY DEF PInv, Inv, TypeOK, Position
<1>2. /\ parser.state # "s_message_done" /\ parser.state \in MarkedIn["body"] /\ "body" \in Fields
      BY DEF BodyIdentity, BodyIdentityEof, ChunkData, At, In, MarkedIn, Fields
<1>3. /\ pc = "loop" /\ p <= end /\ UNCHANGED <<stream, pc, end>>
      /\ \/ p < p' /\ again' = FALSE /\ Mark("body")
         \/ /\ parser'.state = "s_message_done" /\ again' = TRUE
            /\ p <= p' /\ p' <= end
            /\ log' = Receive("body", SubSeq(stream, Marked("body"), p'))
            /\ mark' = [mark EXCEPT !["body"] = 0]
      BY BodyPass
<1>4. CASE p < p' /\ again' = FALSE /\ Mark("body")
  <2>1. ~again' /\ p <= p'
        BY <1>1, <1>4
  <2> QED BY <1>1, <1>2, <1>3, <1>4, <2>1, MarkFollows
<1>5. CASE /\ parser'.state = "s_message_done" /\ again' = TRUE
           /\ p <= p' /\ p' <= end
           /\ log' = Receive("body", SubSeq(stream, Marked("body"), p'))
           /\ mark' = [mark EXCEPT !["body"] = 0]
  <2> DEFINE a == Marked("body")
  <2>1. /\ a \in Nat /\ 1 <= a /\ a <= p
        BY <1>1, <1>2 DEF Marked, PInv, Position
  <2>2. UpTo(log, at, a - 1)
        BY <1>2, <1>3 DEF Marked, Follows, Frontier
  <2>3. a <= p' + 1
    <3>1. \A x, y, z \in Nat : x <= y /\ y <= z => x <= z + 1
          OBVIOUS
    <3> QED BY <1>1, <1>5, <2>1, <3>1
  <2>4. Frontier' = p' /\ Frontier' \in Int /\ p' <= Frontier'
    <3>1. \A x \in Nat : x \in Int /\ x <= x
          OBVIOUS
    <3>2. Frontier' = p'
          BY <1>5 DEF Frontier
    <3> QED BY <1>1, <3>1, <3>2
  <2>5. \A g \in Fields : g # "body" => mark[g] = 0
        BY <1>2, OnlyMark DEF PInv
  <2> HIDE DEF a
  <2>6. log' = Receive("body", SubSeq(stream, a, p'))
        BY <1>5 DEF a
  <2> QED BY <1>1, <1>2, <1>3, <1>5, <2>1, <2>2, <2>3, <2>4, <2>5, <2>6, EndFollows
<1> QED BY <1>3, <1>4, <1>5

LEMMA ReturnFollows ==
    ASSUME PInv, Inv', LogType, NEW at \in Places, Follows(at), Return
    PROVE  LogType' /\ \E new \in Places : Follows(new)'
<1>1. /\ p \in Nat /\ end \in Nat /\ mark \in [Fields -> Nat] /\ 1 <= p /\ p <= end + 1
      BY DEF PInv, Inv, TypeOK, Position
<1>2. /\ pc = "loop" /\ pc' = "idle" /\ UNCHANGED <<stream, end>>
      BY DEF Return
<1>3. CASE mark = NoMarks
  <2>1. log' = log /\ end' \in Nat /\ end <= end'
        BY <1>1, <1>2, <1>3 DEF Return
  <2> QED BY <1>2, <2>1, SilentFollows
<1>4. CASE mark # NoMarks
  <2> DEFINE f == CHOOSE g \in Fields : mark[g] # 0
             a == mark[f]
             b == p - 1
  <2>1. \E g \in Fields : mark[g] # 0
        BY <1>1, <1>4 DEF NoMarks
  <2>2. f \in Fields /\ mark[f] # 0
        BY <2>1
  <2>3. log' = Receive(f, SubSeq(stream, a, b))
        BY <1>4 DEF Return
  <2> HIDE DEF f
  <2>4. a \in Nat /\ 1 <= a /\ a <= p
        BY <1>1, <2>2 DEF PInv, Position
  <2>5. b \in Nat /\ a <= b + 1 /\ b <= end
    <3>1. \A x, y, z \in Nat : 1 <= x /\ x <= y /\ y <= z + 1
                                => y - 1 \in Nat /\ x <= (y - 1) + 1 /\ y - 1 <= z
          OBVIOUS
    <3> QED BY <1>1, <2>4, <3>1
  <2>6. Traced(log, stream, at) /\ UpTo(log, at, a - 1)
        BY <1>2, <2>2 DEF Follows
  <2> HIDE DEF a, b
  <2>7. LogType' /\ \E new \in Places : Traced(log', stream, new) /\ UpTo(log', new, end)
        BY <2>2, <2>3, <2>4, <2>5, <2>6, Received
  <2>8. PICK new \in Places : Traced(log', stream, new) /\ UpTo(log', new, end)
        BY <2>7
  <2>9. Follows(new)'
        BY <1>2, <2>8 DEF Follows
  <2> QED BY <2>7, <2>9
<1> QED BY <1>3, <1>4

LEMMA EofFollows ==
    ASSUME PInv, LogType, NEW at \in Places, Follows(at), CallEof
    PROVE  LogType' /\ \E new \in Places : Follows(new)'
<1>1. pc' = "ended" /\ UNCHANGED <<stream, end, mark>> /\ end \in Nat /\ end <= end
      BY DEF CallEof, PInv, Inv, TypeOK
<1>2. log' = log \/ Notify("message_complete", <<>>)
      BY <1>1 DEF CallEof, Notify
<1> QED BY <1>1, <1>2, ToldBegin, SilentFollows

LEMMA CallFollows ==
    ASSUME PInv, LogType, NEW at \in Places, Follows(at), NEW n \in Cuts, Call(n)
    PROVE  LogType' /\ \E new \in Places : Follows(new)'
<1>1. /\ n \in Nat /\ end \in Nat /\ end' = end + n /\ p' = end + 1 /\ UNCHANGED <<stream, again, log>>
      /\ pc = "idle" /\ ~again
      /\ \/ pc' = pc
         \/ mark' = [f \in Fields |-> IF f \in Resumed(parser.state) THEN p' ELSE 0]
      BY CutAssumption DEF Call, PInv, Inv, TypeOK, Position
<1>2. \A x, y \in Nat : x + y \in Nat /\ x + y \in Int /\ x \in Int /\ x <= x + y /\ (x + 1) - 1 = x
      OBVIOUS
<1>3. Traced(log, stream, at) /\ UpTo(log, at, end)
      BY DEF Follows
<1>4. UpTo(log, at, end')
      BY <1>1, <1>2, <1>3, UpToMore
<1>5. Frontier' = end /\ p' - 1 = end
      BY <1>1, <1>2, Zenon DEF Frontier
<1>6. pc' = "loop" => \A f \in Fields : mark'[f] # 0 => mark'[f] - 1 = end
      BY <1>1, <1>5
<1>7. Follows(at)'
      BY <1>1, <1>3, <1>4, <1>5, <1>6 DEF Follows
<1>8. LogType'
      BY <1>1 DEF LogType
<1> QED BY <1>7, <1>8

LEMMA FollowsStep == ASSUME FInv, [Next]_vars PROVE (LogType /\ \E at \in Places : Follows(at))'
<1>1. PICK at \in Places : Follows(at)
      BY DEF FInv
<1>2. PInv /\ LogType /\ Inv'
      BY InvStep DEF FInv, PInv
<1>3. CASE Execute
      BY <1>1, <1>2, <1>3, PassIs, ByteFollows, BodyFollows, ReturnFollows DEF PInv
<1>4. CASE CallEof
      BY <1>1, <1>2, <1>4, EofFollows
<1>5. CASE \E n \in Cuts : Call(n)
      BY <1>1, <1>2, <1>5, CallFollows
<1>6. CASE UNCHANGED vars
      BY <1>1, <1>2, <1>6 DEF vars, LogType, Follows, Frontier
<1> QED BY <1>3, <1>4, <1>5, <1>6 DEF Next

LEMMA FInvariant == Spec => []FInv
<1>1. Init => FInv
      BY InvInit, PositionInit, FollowsInit DEF FInv, PInv
<1>2. FInv /\ [Next]_vars => FInv'
  <2> SUFFICES ASSUME FInv, [Next]_vars PROVE FInv'
      OBVIOUS
  <2>1. PInv'
        BY InvStep, PositionStep DEF PInv, FInv
  <2> QED BY <2>1, FollowsStep DEF FInv
<1> QED BY <1>1, <1>2, PTL DEF Spec

\* What the callbacks have is bytes of the stream, in its order
FollowsStream == \E at \in Places : Traced(log, stream, at) /\ UpTo(log, at, end)

\* The callbacks get the bytes of the connection in their order: every byte of a
\* field comes from a place of its own in what was read so far, the places go up
\* from one byte to the next, and from one field to the next. No byte is told
\* twice, in two fields, before its turn or that never came, however the bytes
\* are cut into calls and whatever they hold.
THEOREM BytesInOrder == Spec => []FollowsStream
<1>1. FInv => FollowsStream
      BY DEF FInv, FollowsStream, Follows
<1> QED BY <1>1, FInvariant, PTL

-----------------------------------------------------------------------------
\* A body is as long as its frame says

\* How much of a body the caller has, or is marked to get
OfBody(l) == IF l # <<>> /\ l[Len(l)].cb = "body" THEN Len(l[Len(l)].data) ELSE 0
BodySeen == OfBody(log) + (IF mark["body"] = 0 THEN 0 ELSE p - mark["body"])

Framed == {"s_body_identity", "s_chunk_data"}

LEMMA ReceiveLength ==
    ASSUME LogType
    PROVE  /\ OfBody(log) \in Nat
           /\ \A d \in Seq(STRING) : OfBody(Receive("body", d)) = OfBody(log) + Len(d)
<1>0. OfBody(log) \in Nat
  <2>1. ASSUME log # <<>> PROVE log[Len(log)] \in Entry /\ Len(log) \in DOMAIN log
        BY <2>1 DEF LogType
  <2>2. ASSUME log # <<>>, log[Len(log)].cb = "body" PROVE log[Len(log)].data \in Seq(STRING)
        BY <2>1, <2>2 DEF LogType, Fields
  <2> QED BY <2>2 DEF OfBody
<1> SUFFICES ASSUME NEW d \in Seq(STRING)
             PROVE  OfBody(Receive("body", d)) = OfBody(log) + Len(d)
    BY <1>0
<1>1. log \in Seq(Entry) /\ "body" \in Fields
      BY DEF LogType, Fields
<1>2. CASE log # <<>> /\ log[Len(log)].cb = "body"
  <2> DEFINE n == Len(log)
             e == [log[n] EXCEPT !.data = @ \o d]
             r == Receive("body", d)
  <2>1. n \in DOMAIN log /\ log[n] \in Entry /\ log[n].data \in Seq(STRING)
        BY <1>1, <1>2 DEF LogType
  <2>2. r = [log EXCEPT ![n] = e]
        BY <1>2 DEF Receive
  <2>3. e.data = log[n].data \o d /\ e.cb = "body"
        BY <1>2, <2>1 DEF Entry
  <2>4. /\ Len(log[n].data \o d) = Len(log[n].data) + Len(d) /\ Len(log[n].data) \in Nat
        /\ log[n].data \o d \in Seq(STRING)
        BY <2>1
  <2>5. e \in Entry
        BY <2>1, <2>4 DEF Entry, Data0
  <2> HIDE DEF e
  <2>6. Len(r) = n /\ r[n] = e /\ r # <<>>
        BY <1>1, <2>1, <2>2, <2>5
  <2> HIDE DEF r
  <2> QED BY <1>2, <2>3, <2>4, <2>6 DEF OfBody, r
<1>3. CASE ~(log # <<>> /\ log[Len(log)].cb = "body")
  <2> DEFINE e == [cb |-> "body", data |-> d]
             r == Receive("body", d)
  <2>1. r = Append(log, e)
        BY <1>3 DEF Receive
  <2>2. e.cb = "body" /\ e.data = d /\ Len(d) \in Nat
        OBVIOUS
  <2> HIDE DEF e, r
  <2>3. r # <<>> /\ r[Len(r)] = e
        BY <1>1, <2>1
  <2> QED BY <1>3, <2>2, <2>3 DEF OfBody, r
<1> QED BY <1>2, <1>3

\* In a body of known length a pass reads the body, and nothing else
LEMMA InBody ==
    ASSUME Inv, Execute, parser.state \in Framed
    PROVE  BodyIdentity \/ ChunkData \/ Return
<1>1. ASSUME HeaderOverflow PROVE FALSE
  <2>1. Now.nread = 0 /\ Now.nread > MaxHeader
        BY <1>1, NothingCounted DEF HeaderOverflow, Framed
  <2> QED BY <2>1, MaxAssumption
<1>2. ~(\/ Dead \/ StartReqOrRes \/ ResOrRespH \/ StartRes \/ ResConstant \/ ResVersion
        \/ ResStatusCode \/ ResStatus)
      BY DEF Dead, StartReqOrRes, ResOrRespH, StartRes, ResConstant, ResVersion,
             ResStatusCode, ResStatus, At, In, Framed
<1>3. ~(StartReq \/ ReqMethod \/ SpacesBeforeUrl \/ UrlOpening \/ Url \/ ReqConstant \/ ReqVersion)
      BY DEF StartReq, ReqMethod, SpacesBeforeUrl, UrlOpening, Url, ReqConstant, ReqVersion,
             At, In, Framed, UrlOpen, UrlBody, Server, Query, Fragment
<1>4. ~(\/ HeaderFieldStart \/ HeaderField \/ HeaderValueStart \/ HeaderValue
        \/ HeaderAlmostDone \/ HeaderValueLws \/ HeadersAlmostDone \/ HeadersDone)
      BY DEF HeaderFieldStart, HeaderField, HeaderValueStart, HeaderValue,
             HeaderAlmostDone, HeaderValueLws, HeadersAlmostDone, HeadersDone, At, In, Framed
<1>5. ~(\/ BodyIdentityEof \/ MessageDone
        \/ ChunkSizeStart \/ ChunkSize \/ ChunkParameters \/ ChunkSizeAlmostDone
        \/ ChunkDataAlmostDone \/ ChunkDataDone)
      BY DEF BodyIdentityEof, MessageDone, ChunkSizeStart, ChunkSize, ChunkParameters,
             ChunkSizeAlmostDone, ChunkDataAlmostDone, ChunkDataDone, At, In, Framed
<1> QED BY <1>1, <1>2, <1>3, <1>4, <1>5 DEF Execute

\* A count of a, with x more of which c to c + x, or from m on to c + x, are marked
LEMMA Balance ==
    ASSUME NEW k \in Nat, NEW q \in Nat, NEW a \in Nat, NEW x \in Nat, 1 <= a, a <= q
    PROVE  /\ a <= (q + x - 1) + 1
           /\ k + (((q + x - 1) + 1) - a) = k + (q - a) + x
           /\ k + ((q + x) - a) = k + (q - a) + x
OBVIOUS

LEMMA BodyBalance ==
    ASSUME FInv, BodyIdentity \/ ChunkData
    PROVE  BodySeen' + parser'.content_length = BodySeen + parser.content_length
<1> DEFINE a == Marked("body")
           k == OfBody(log)
           left == parser.content_length - ToRead
<1>1. /\ p \in Nat /\ end \in Nat /\ end <= Len(stream) /\ 1 <= p /\ stream \in Seq(STRING)
      /\ mark \in [Fields -> Nat] /\ "body" \in Fields /\ mark["body"] <= p
      BY DEF FInv, PInv, Inv, TypeOK, Position, Fields
<1>2. pc = "loop" /\ p <= end /\ parser.state \in Framed
      BY DEF BodyIdentity, ChunkData, At, In, Framed
<1>3. /\ ToRead \in Nat /\ 0 < ToRead /\ ToRead <= parser.content_length
      /\ parser.content_length \in 0..MaxLength
      BY <1>2, ToReadType DEF FInv, PInv, Framed
<1>4. ToRead <= end - p + 1
      BY <1>1, <1>2, <1>3, MaxAssumption DEF ToRead
<1>5. left \in Nat /\ left + ToRead = parser.content_length
      BY <1>3, MaxAssumption
<1>6. a \in Nat /\ 1 <= a /\ a <= p
      BY <1>1 DEF Marked
<1>7. k \in Nat /\ \A d \in Seq(STRING) : OfBody(Receive("body", d)) = k + Len(d)
      BY ReceiveLength DEF FInv
<1>8. BodySeen = k + (p - a)
  <2>1. k + 0 = k + (p - p)
        BY <1>1, <1>7
  <2> QED BY <2>1 DEF BodySeen, Marked
<1>9. parser'.content_length = left
  <2>1. Now \in Parser
        BY NowType DEF FInv, PInv
  <2> HIDE DEF left
  <2> QED BY <2>1 DEF BodyIdentity, ChunkData, left, Parser
<1>10. \/ /\ left = 0 /\ p' = p + ToRead - 1
          /\ log' = Receive("body", SubSeq(stream, a, p')) /\ mark' = [mark EXCEPT !["body"] = 0]
       \/ p' = p + ToRead /\ log' = log /\ mark' = [mark EXCEPT !["body"] = a]
  <2> HIDE DEF left, a
  <2> QED BY DEF BodyIdentity, ChunkData, Mark, left, a
<1>11. BodySeen' = k + (p - a) + ToRead
  <2>1. CASE /\ left = 0 /\ p' = p + ToRead - 1
             /\ log' = Receive("body", SubSeq(stream, a, p')) /\ mark' = [mark EXCEPT !["body"] = 0]
    <3> DEFINE b == p + ToRead - 1
               d == SubSeq(stream, a, b)
    <3>1. b \in Nat /\ b <= end /\ a <= b + 1 /\ k + ((b + 1) - a) = k + (p - a) + ToRead
      <4>1. b \in Nat /\ b <= end
            BY <1>1, <1>3, <1>4
      <4> HIDE DEF a, k
      <4> QED BY <1>1, <1>3, <1>6, <1>7, <4>1, Balance
    <3>2. d \in Seq(STRING) /\ Len(d) = (b + 1) - a
      <4> HIDE DEF a, b
      <4>1. b <= Len(stream)
            BY <1>1, <3>1
      <4> QED BY <1>1, <1>6, <3>1, <4>1
    <3>3. mark'["body"] = 0 /\ log' = Receive("body", d)
          BY <1>1, <2>1
    <3>4. OfBody(log') = k + ((b + 1) - a)
      <4> HIDE DEF a, b, k, d
      <4> QED BY <1>7, <3>2, <3>3
    <3>5. OfBody(log') \in Nat /\ BodySeen' = OfBody(log') + 0
      <4>1. \A x \in Nat, y \in Seq(STRING) : x + Len(y) \in Nat
            OBVIOUS
      <4>2. OfBody(log') \in Nat
        <5> HIDE DEF d, k
        <5> QED BY <1>7, <3>2, <3>3, <4>1
      <4> QED BY <3>3, <4>2 DEF BodySeen
    <3> HIDE DEF a, b, k
    <3> QED BY <3>1, <3>4, <3>5
  <2>2. CASE p' = p + ToRead /\ log' = log /\ mark' = [mark EXCEPT !["body"] = a]
    <3>1. mark'["body"] = a /\ a # 0
          BY <1>1, <1>6, <2>2
    <3>2. BodySeen' = k + ((p + ToRead) - a)
          BY <2>2, <3>1 DEF BodySeen
    <3>3. k + ((p + ToRead) - a) = k + (p - a) + ToRead
      <4> HIDE DEF a, k
      <4> QED BY <1>1, <1>3, <1>6, <1>7, Balance
    <3> QED BY <3>2, <3>3
  <2> HIDE DEF a
  <2> QED BY <1>10, <2>1, <2>2
<1>12. k + (p - a) + ToRead + left = k + (p - a) + parser.content_length
  <2>1. p - a \in Nat
        BY <1>1, <1>6
  <2> DEFINE w == p - a
  <2> HIDE DEF a, k, left, w
  <2>2. k + w + ToRead + left = k + w + (left + ToRead)
        BY <1>3, <1>5, <1>7, <2>1 DEF w
  <2> QED BY <1>5, <2>2 DEF w
<1> HIDE DEF a, k, left
<1> QED BY <1>8, <1>9, <1>11, <1>12

\* The rest of a body, and what has come of it, changes by no other step
LEMMA ReturnBalance ==
    ASSUME FInv, Return, parser.state \in Framed
    PROVE  BodySeen' + parser'.content_length = BodySeen + parser.content_length
<1>1. /\ p \in Nat /\ end \in Nat /\ end <= Len(stream) /\ p <= end + 1 /\ stream \in Seq(STRING)
      /\ mark \in [Fields -> Nat] /\ "body" \in Fields /\ mark["body"] <= p
      BY DEF FInv, PInv, Inv, TypeOK, Position, Fields
<1>2. /\ UNCHANGED <<stream, parser, p, end>> /\ mark' = NoMarks /\ p > end
      BY DEF Return
<1>3. mark'["body"] = 0
      BY <1>1, <1>2 DEF NoMarks
<1>4. parser.state \in MarkedIn["body"]
      BY DEF Framed, MarkedIn
<1>5. OfBody(log) \in Nat
      BY ReceiveLength DEF FInv
<1>6. CASE mark = NoMarks
      BY <1>2, <1>6 DEF Return, BodySeen
<1>7. CASE mark # NoMarks
  <2> DEFINE f == CHOOSE g \in Fields : mark[g] # 0
             d == SubSeq(stream, mark["body"], p - 1)
  <2>1. \E g \in Fields : mark[g] # 0
        BY <1>1, <1>7 DEF NoMarks
  <2>2. f \in Fields /\ mark[f] # 0
        BY <2>1
  <2>3. f = "body"
        BY <1>1, <1>4, <2>2, OnlyMark DEF FInv, PInv
  <2>4. log' = Receive("body", d)
        BY <1>7, <2>3 DEF Return
  <2>5. /\ mark["body"] # 0
        /\ \A a, q, z, l \in Nat : 1 <= a /\ a <= q /\ q <= z + 1 /\ z <= l
              => q - 1 \in Nat /\ q - 1 <= l /\ a <= (q - 1) + 1 /\ ((q - 1) + 1) - a = q - a
        BY <2>2, <2>3
  <2>6. 1 <= mark["body"] /\ mark["body"] \in Nat /\ Len(stream) \in Nat
        BY <1>1, <2>5
  <2>7. /\ p - 1 \in Nat /\ p - 1 <= Len(stream) /\ mark["body"] <= (p - 1) + 1
        /\ ((p - 1) + 1) - mark["body"] = p - mark["body"]
        BY <1>1, <2>5, <2>6
  <2>8. d \in Seq(STRING) /\ Len(d) = ((p - 1) + 1) - mark["body"]
    <3>1. \A a, b \in Nat : 1 <= a /\ a <= b + 1 /\ b <= Len(stream)
             => SubSeq(stream, a, b) \in Seq(STRING) /\ Len(SubSeq(stream, a, b)) = (b + 1) - a
          BY <1>1
    <3> QED BY <2>6, <2>7, <3>1
  <2> HIDE DEF d, f
  <2>9. OfBody(log') = OfBody(log) + (p - mark["body"]) /\ OfBody(log') \in Nat
    <3>1. OfBody(log') = OfBody(log) + Len(d) /\ Len(d) \in Nat
          BY <2>4, <2>8, ReceiveLength DEF FInv
    <3> QED BY <1>5, <2>7, <2>8, <3>1
  <2>10. BodySeen' = OfBody(log') + 0 /\ BodySeen = OfBody(log) + (p - mark["body"])
        BY <1>3, <2>5 DEF BodySeen
  <2> QED BY <1>2, <2>9, <2>10
<1> QED BY <1>6, <1>7

\* Only a body that has nothing left is over
LEMMA FrameEnds ==
    ASSUME Inv, [Next]_vars, parser.state \in Framed, parser'.state \notin Framed
    PROVE  parser'.content_length = 0
<1>1. Now \in Parser /\ Now.state = parser.state /\ parser \in Parser
      BY NowType DEF Inv, TypeOK
<1>2. CASE BodyIdentity \/ ChunkData
  <2> DEFINE left == parser.content_length - ToRead
  <2>1. parser' = [Now EXCEPT !.content_length = left, !.state = parser'.state]
    <3> HIDE DEF left
    <3> QED BY <1>1, <1>2 DEF BodyIdentity, ChunkData, left, Parser
  <2>2. left = 0
    <3> HIDE DEF left
    <3> QED BY <1>1, <1>2 DEF BodyIdentity, ChunkData, left, Parser
  <2> HIDE DEF left
  <2> QED BY <1>1, <2>1, <2>2 DEF Parser
<1>3. ASSUME ~(BodyIdentity \/ ChunkData) PROVE parser'.state = parser.state
  <2>1. \/ UNCHANGED parser
        \/ parser' = [parser EXCEPT !.errno = "INVALID_EOF_STATE"]
        BY <1>3, InBody DEF Next, Return, CallEof, Call, vars
  <2> QED BY <1>1, <2>1 DEF Parser
<1> QED BY <1>2, <1>3

\* What has come of a body and what is left of it keep their sum
BodyFramed == [][parser.state \in Framed =>
    /\ BodySeen' + parser'.content_length = BodySeen + parser.content_length
    /\ parser'.state \notin Framed => parser'.content_length = 0]_vars

\* A body is as long as its Content-Length or the sizes of its chunks say: what the
\* callbacks have of it and what is left of its frame keep their sum, in every pass
\* and across the calls it is cut into, and it is over only when nothing is left.
THEOREM BodiesAreFramed == Spec => BodyFramed
<1>1. ASSUME FInv, [Next]_vars, parser.state \in Framed
      PROVE  BodySeen' + parser'.content_length = BodySeen + parser.content_length
  <2>1. CASE Execute
        BY <1>1, <2>1, InBody, BodyBalance, ReturnBalance DEF FInv, PInv
  <2>2. CASE CallEof
    <3>1. parser'.content_length = parser.content_length /\ log' = log /\ UNCHANGED <<mark, p>>
      <4>1. parser \in Parser
            BY <1>1 DEF FInv, PInv, Inv, TypeOK
      <4> QED BY <1>1, <2>2, <4>1 DEF CallEof, Framed, Parser
    <3> QED BY <3>1 DEF BodySeen
  <2>3. CASE \E n \in Cuts : Call(n)
    <3>1. PICK n \in Cuts : Call(n)
          BY <2>3
    <3>2. /\ UNCHANGED <<parser, log>> /\ p' = end + 1 /\ end \in Nat /\ "body" \in Fields
          /\ pc = "idle"
          /\ mark' = mark \/ mark' = [f \in Fields |-> IF f \in Resumed(parser.state) THEN p' ELSE 0]
          BY <1>1, <3>1 DEF Call, FInv, PInv, Inv, TypeOK, Fields
    <3>3. mark["body"] = 0
          BY <1>1, <3>2 DEF FInv, PInv, Inv, MarksKnown
    <3>4. mark'["body"] = 0 \/ mark'["body"] = p'
          BY <3>2, <3>3
    <3>5. (IF mark'["body"] = 0 THEN 0 ELSE p' - mark'["body"]) = 0
          BY <3>2, <3>4
    <3> QED BY <3>2, <3>3, <3>5 DEF BodySeen
  <2>4. CASE UNCHANGED vars
        BY <2>4 DEF vars, BodySeen
  <2> QED BY <1>1, <2>1, <2>2, <2>3, <2>4 DEF Next
<1>2. ASSUME FInv, [Next]_vars, parser.state \in Framed
      PROVE  parser'.state \notin Framed => parser'.content_length = 0
      BY <1>2, FrameEnds DEF FInv, PInv
<1>3. FInv /\ [Next]_vars => [parser.state \in Framed =>
         /\ BodySeen' + parser'.content_length = BodySeen + parser.content_length
         /\ parser'.state \notin Framed => parser'.content_length = 0]_vars
      BY <1>1, <1>2
<1> QED BY <1>3, FInvariant, PTL DEF Spec, BodyFramed

=============================================================================
