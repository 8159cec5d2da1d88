----------------------------- MODULE HttpMessage -----------------------------
(***************************************************************************)
(* http/http_message.cpp: the fields of one request, put together by the   *)
(* callbacks of http_parser. A token of the request (the url, the name or  *)
(* the value of a header, the body) that is cut, by the end of a read, by  *)
(* the end of the ring or by a chunk, comes in several parts, each with a  *)
(* callback of its own. The parser passes on whatever has arrived, so a    *)
(* part may be of any length; it is external and appears here as the place *)
(* in the request that it has reached.                                     *)
(*                                                                         *)
(* Two requests in one object are left to HttpPieces.                      *)
(***************************************************************************)
EXTENDS Integers, Sequences, FiniteSets, SequencesExt

CONSTANTS
  Chars,         \* the characters
  tolower(_),
  Urls, Names, Values, Bodies,  \* the strings a request is made of
  MaxHeaders,    \* headers of a request (a bound on the inputs)
  ContentLength, ContentType    \* the names set_response does not echo

Lowered(s) == [i \in DOMAIN s |-> tolower(s[i])]

\* A url is a path, which begins with a slash, with or without a query.
ASSUME HttpAssumption ==
  /\ Urls \cup Names \cup Values \cup Bodies \subseteq Seq(Chars)
  /\ \A u \in Urls : u # << >> /\ u[1] = "/"
  /\ << >> \notin Names
  /\ \A ch \in Chars : tolower(ch) \in Chars /\ tolower(tolower(ch)) = tolower(ch)
  /\ \A name \in {ContentLength, ContentType} : name \in Seq(Chars) /\ Lowered(name) = name
  /\ ContentLength # ContentType
  /\ MaxHeaders \in Nat

Headers  == [name : Names, value : Values]
Requests == [url : Urls, headers : UNION {[1 .. n -> Headers] : n \in 0 .. MaxHeaders},
             body : Bodies]

VARIABLES
  request,       \* what the client sends
  place,         \* what of it the parser expects next
  header,        \* ... the number of the header
  offset,        \* ... and how much of the token has been passed on
  stage,         \* _stage
  url, service_name, method_name, cur_header, header_map, content,
  response       \* the names of the headers of the response, in order

parser  == <<place, header, offset>>
urls    == <<url, service_name, method_name>>
headers == <<cur_header, header_map>>
MessageVars    == <<request, parser, stage, urls, headers, content, response>>

-----------------------------------------------------------------------------
(* The parser *)

Token ==
  CASE place = "url"   -> request.url
    [] place = "field" -> request.headers[header].name
    [] place = "value" -> request.headers[header].value
    [] place = "body"  -> request.body

\* The next part of the token is n characters long. An empty value is passed on, too.
Lengths == IF Token = << >> THEN {0} ELSE 1 .. (Len(Token) - offset)
Part(n) == SubSeq(Token, offset + 1, offset + n)

\* The parser goes on in the token, or behind it.
Advance(n, next, h) ==
  IF offset + n < Len(Token) THEN offset' = offset + n /\ UNCHANGED <<place, header>>
                             ELSE offset' = 0 /\ place' = next /\ header' = h

\* Behind the url and behind a value comes another header, or the blank line.
NextPlace  == IF header < Len(request.headers) THEN "field" ELSE "blank"
NextHeader == IF header < Len(request.headers) THEN header + 1 ELSE header

MessageInit ==
  /\ request \in Requests
  /\ place = "begin" /\ header = 0 /\ offset = 0
  /\ stage = "message_begin"
  /\ url = << >> /\ service_name = << >> /\ method_name = << >>
  /\ cur_header = << >> /\ content = << >>
  /\ header_map = [name \in {} |-> << >>]
  /\ response = << >>

-----------------------------------------------------------------------------
(* The callbacks *)

on_message_begin ==
  /\ place = "begin"
  /\ place' = "url" /\ UNCHANGED <<header, offset>>
  /\ stage' = "message_begin"
  /\ UNCHANGED <<request, urls, headers, content, response>>

\* The path of a url ends before the query.
Path(u) ==
  LET queries == {i \in DOMAIN u : u[i] = "?"}
  IN  IF queries = {} THEN u
      ELSE SubSeq(u, 1, (CHOOSE i \in queries : \A j \in queries : i <= j) - 1)

\* path.rfind('/')
LastSlash(p) ==
  CHOOSE i \in DOMAIN p : p[i] = "/" /\ \A j \in DOMAIN p : p[j] = "/" => j <= i

\* Defect: the names are taken from the part.
on_url_part ==
  /\ place = "url"
  /\ \E n \in Lengths :
       /\ url' = url \o Part(n)
       /\ LET p == Path(Part(n))
              slashes == {i \in DOMAIN p : p[i] = "/"}
          IN  /\ method_name' = IF slashes # {} /\ LastSlash(p) < Len(p)
                                THEN SubSeq(p, LastSlash(p) + 1, Len(p)) ELSE method_name
              /\ service_name' = IF slashes # {} /\ LastSlash(p) > 1
                                 THEN SubSeq(p, 2, LastSlash(p) - 1) ELSE service_name
       /\ Advance(n, NextPlace, NextHeader)
  /\ stage' = "url"
  /\ UNCHANGED <<request, headers, content, response>>

\* The url so far is taken apart with every part of it. A name that is empty now keeps
\* what an earlier part has given.
on_url ==
  /\ place = "url"
  /\ \E n \in Lengths :
       /\ url' = url \o Part(n)
       /\ LET p == Path(url')
          IN  /\ method_name' = IF LastSlash(p) < Len(p)
                                THEN SubSeq(p, LastSlash(p) + 1, Len(p)) ELSE method_name
              /\ service_name' = IF LastSlash(p) > 1
                                 THEN SubSeq(p, 2, LastSlash(p) - 1) ELSE service_name
       /\ Advance(n, NextPlace, NextHeader)
  /\ stage' = "url"
  /\ UNCHANGED <<request, headers, content, response>>

on_header_field ==
  /\ place = "field"
  /\ \E n \in Lengths :
       /\ cur_header' = Lowered((IF stage # "header_field" THEN << >> ELSE cur_header) \o Part(n))
       /\ Advance(n, "value", header)
  /\ stage' = "header_field"
  /\ UNCHANGED <<request, urls, header_map, content, response>>

\* The callback returns -1, and parsing fails, without a name or behind anything else.
ValueExpected ==
  /\ cur_header # << >>
  /\ \/ stage = "header_field"
     \/ stage = "header_value" /\ cur_header \in DOMAIN header_map

\* Defect: the name is done with after the first part of its value.
on_header_value_once ==
  /\ place = "value" /\ ValueExpected
  /\ \E n \in Lengths :
       /\ header_map' = [name \in DOMAIN header_map \cup {cur_header} |->
                          IF name \in DOMAIN header_map THEN header_map[name] ELSE Part(n)]
       /\ Advance(n, NextPlace, NextHeader)
  /\ stage' = "header_value" /\ cur_header' = << >>
  /\ UNCHANGED <<request, urls, content, response>>

\* The first part of a value is emplaced, which keeps the value of an earlier header of
\* that name; the other parts are appended to what is in the map.
on_header_value ==
  /\ place = "value" /\ ValueExpected
  /\ \E n \in Lengths :
       /\ header_map' =
            IF stage = "header_value" THEN [header_map EXCEPT ![cur_header] = @ \o Part(n)]
            ELSE [name \in DOMAIN header_map \cup {cur_header} |->
                    IF name \in DOMAIN header_map THEN header_map[name] ELSE Part(n)]
       /\ Advance(n, NextPlace, NextHeader)
  /\ stage' = "header_value"
  /\ UNCHANGED <<request, urls, cur_header, content, response>>

on_headers_complete ==
  /\ place = "blank"
  /\ place' = (IF request.body = << >> THEN "end" ELSE "body") /\ UNCHANGED <<header, offset>>
  /\ stage' = "headers_complete"
  /\ UNCHANGED <<request, urls, headers, content, response>>

on_body ==
  /\ place = "body"
  /\ \E n \in Lengths : content' = content \o Part(n) /\ Advance(n, "end", header)
  /\ stage' = "body"
  /\ UNCHANGED <<request, urls, headers, response>>

on_message_complete ==
  /\ place = "end"
  /\ place' = "taken" /\ UNCHANGED <<header, offset>>
  /\ stage' = "message_complete"
  /\ cur_header' = << >>
  /\ UNCHANGED <<request, urls, header_map, content, response>>

completed == stage = "message_complete"

\* set_response: the length and the type of the content, and an echo of the request's
\* headers other than these two, in the order of the map.
set_response ==
  /\ completed /\ response = << >>
  /\ \E order \in [1 .. Cardinality(DOMAIN header_map \ {ContentLength, ContentType})
                     -> DOMAIN header_map \ {ContentLength, ContentType}] :
       /\ IsInjective(order)
       /\ response' = <<ContentLength, ContentType>> \o order
  /\ UNCHANGED <<request, parser, stage, urls, headers, content>>

MessageNext ==
  \/ on_message_begin \/ on_url \/ on_header_field \/ on_header_value
  \/ on_headers_complete \/ on_body \/ on_message_complete \/ set_response

MessageSpec == MessageInit /\ [][MessageNext]_MessageVars

-----------------------------------------------------------------------------
\* What the caller finds in a message is what the client has sent, however the stream
\* was cut: service and method are the two ends of the path, unless it ends in a slash,
\* and every header has its value, unless a name occurs twice. In the response, in
\* whatever case and parts the client wrote the names of its headers, none occurs twice.
FieldsAsSent ==
  completed =>
    /\ url = request.url /\ content = request.body
    /\ Last(Path(request.url)) # "/" =>
         /\ "/" \notin Range(method_name)
         /\ \/ Path(request.url) = <<"/">> \o service_name \o <<"/">> \o method_name
            \/ service_name = << >> /\ Path(request.url) = <<"/">> \o method_name
    /\ LET named(i) == Lowered(request.headers[i].name)
           all == DOMAIN request.headers
       IN  (\A i, j \in all : named(i) = named(j) => i = j) =>
             /\ DOMAIN header_map = {named(i) : i \in all}
             /\ \A i \in all : header_map[named(i)] = request.headers[i].value
    /\ \A i, j \in DOMAIN response : Lowered(response[i]) = Lowered(response[j]) => i = j

\* No callback ever refuses a part of a value, which would be the end of the connection.
ValuesExpected == place = "value" => ValueExpected

=============================================================================
