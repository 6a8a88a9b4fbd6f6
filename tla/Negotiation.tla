----------------------------- MODULE Negotiation -----------------------------
(***************************************************************************)
(* The negotiation of extensions in one request: parse_extensions          *)
(* (header.c) reads the Sec-Websocket-Extensions headers, a character at a *)
(* time, into the list of offers (extension.c); then permessage-deflate    *)
(* judges what is offered to it and writes its part of the response.       *)
(*                                                                         *)
(* A header value is a sequence of letters.  A letter is a character the   *)
(* parser looks at, a digit, or a piece of a word no character of which it *)
(* tells from another.                                                     *)
(***************************************************************************)
EXTENDS Integers, Sequences, SequencesExt

CONSTANTS Letters,     \* of the headers, besides the ones below
          Requests,    \* bound: what peers ask for, and how they write it
          OtherLines,  \* bound: header values of any form
          TokenLength, \* EXTENSION_TOKEN_LENGTH, in letters; tokens are shorter
                       \* than the 128 characters with which length turns negative
          IsDigit      \* what isdigit returns for a digit, which is up to the C
                       \* library: 2048 with glibc, 1 with musl or on macOS

Separators == {",", ";", "="}
Digits == <<"0", "1", "2", "3", "4", "5", "6", "7", "8", "9">>
Alphabet == Letters \cup Separators \cup ToSet(Digits) \cup {" ", "\""}

IsNumeral(text) == ToSet(text) \subseteq ToSet(Digits)

-----------------------------------------------------------------------------
(* What a peer writes: headers of offers, each an extension with named         *)
(* parameters.  Any of them may be spaced, a value may be quoted.              *)

Plain == Seq(Letters \cup ToSet(Digits))

IsToken(text) == Len(text) \in 1 .. TokenLength

\* No parameter is called by a number, and one without a value has no "=".
WritableParams ==
  {q \in [name : Plain, value : Seq(Alphabet \ {"\""}), quoted : BOOLEAN,
           space : Nat, valueSpace : Nat] :
     /\ IsToken(q.name) /\ ~ IsNumeral(q.name)
     /\ q.value # <<>> => IsToken(q.value) /\ (q.quoted \/ q.value \in Plain)}

WritableOffers ==
  {o \in [token : Plain, params : Seq(WritableParams), space : Nat] : IsToken(o.token)}

Spaces(n) == [i \in 1 .. n |-> " "]

QuotedIf(quoted, text) == IF quoted THEN <<"\"">> \o text \o <<"\"">> ELSE text

WrittenValue(q) ==
  IF q.value = <<>> THEN <<>>
  ELSE <<"=">> \o Spaces(q.valueSpace) \o QuotedIf(q.quoted, q.value)

WrittenParam(q) == <<";">> \o Spaces(q.space) \o q.name \o WrittenValue(q)

WrittenOffer(o) ==
  Spaces(o.space) \o o.token \o FlattenSeq([i \in DOMAIN o.params |-> WrittenParam(o.params[i])])

WrittenHeader(offers) ==
  FlattenSeq([i \in DOMAIN offers |-> (IF i = 1 THEN <<>> ELSE <<",">>) \o WrittenOffer(offers[i])])

Unknown == <<>>

ASSUME NegotiationAssumption ==
  /\ TokenLength \in Nat \ {0}
  /\ IsDigit \in Nat \ {0}
  /\ Letters \cap (Separators \cup {" ", "\""}) = {}
  /\ Requests \subseteq Seq(Seq(WritableOffers) \ {<<>>})
  /\ OtherLines \subseteq Seq(Seq(Alphabet))

VARIABLES
  meant,        \* the offers the peer meant, or Unknown
  lines, line,  \* header values still to be read, and the one that is read
  p,            \* the position of the parser, 0 between two headers
  start, length,\* the token: where it starts, 0 if it does not yet, its letters
  inQuote, hasExtension, \* IN_QUOTE and has_extension
  list,         \* the ExtensionList
  current,      \* current_params: the extension's place in list, the parameter's there
  answer        \* "none" as long as the request is read, then what became of it

scan == <<line, p, start, length, inQuote, hasExtension>>
vars == <<meant, lines, scan, list, current, answer>>

NoAnswer == [kind |-> "none"]

Init ==
  /\ \/ \E r \in Requests :
          lines = [h \in DOMAIN r |-> WrittenHeader(r[h])] /\ meant = FlattenSeq(r)
     \/ lines \in OtherLines /\ meant = Unknown
  /\ line = <<>> /\ p = 0 /\ start = 0 /\ length = 0 /\ inQuote = FALSE /\ hasExtension = FALSE
  /\ list = <<>> /\ current = <<0, 0>> /\ answer = NoAnswer

-----------------------------------------------------------------------------
(* The list of offers.                                                     *)

NewParam == [key |-> <<>>, type |-> "EMPTY", int |-> 0, string |-> <<>>, isLast |-> FALSE]

\* A bool is and'ed with what isdigit returns, of which only the lowest bit
\* counts: with glibc no digit is one, and no token but the empty one a number.
TellsNumbers == IsDigit % 2 = 1

IsNumber(text) == \A i \in DOMAIN text : text[i] \in ToSet(Digits) /\ TellsNumbers

Number(text) ==
  LET n[i \in 0 .. Len(text)] ==
        IF i = 0 THEN 0
        ELSE 10 * n[i - 1] + SelectInSeq(Digits, LAMBDA d : d = text[i]) - 1
  IN  n[Len(text)]

\* get_extension_params: where the extension is in the list, or comes to be.
ExtensionAt(token) ==
  LET found == SelectInSeq(list, LAMBDA e : e.token = token)
  IN  IF found # 0 THEN found ELSE Len(list) + 1

WithExtension(token) ==
  IF ExtensionAt(token) <= Len(list) THEN list
  ELSE Append(list, [token |-> token, params |-> <<NewParam>>])

\* Variant, rejected by ParsedAsMeant: an extension that is offered again goes on
\* where it was.
AddedKeyAtFirst(c, params) ==
  [i |-> 1, params |-> [params EXCEPT ![1] =
    IF c = "," THEN [@ EXCEPT !.type = "BOOL", !.isLast = TRUE] ELSE @]]

\* __add_extension_param_key: the first parameter without a value, or a new one;
\* an extension without parameters is one of its own.
AddedKey(c, params) ==
  LET empty == SelectInSeq(params, LAMBDA q : q.type = "EMPTY")
      i == IF empty # 0 THEN empty ELSE Len(params) + 1
      q == IF empty # 0 THEN params[i] ELSE NewParam
  IN  [i |-> i, params |-> SubSeq(params, 1, i - 1)
         \o <<IF c = "," THEN [q EXCEPT !.type = "BOOL", !.isLast = TRUE] ELSE q>>
         \o SubSeq(params, i + 1, Len(params))]

\* A token fills a parameter: its name first, unless it is a number (or empty),
\* then its value.
Filled(q, c, text) ==
  [(CASE q.key = <<>> /\ ~ IsNumber(text) ->
           [q EXCEPT !.key = text, !.type = IF c = "=" THEN @ ELSE "BOOL"]
      [] IsNumber(text) /\ c # "=" -> [q EXCEPT !.type = "INT", !.int = Number(text)]
      [] OTHER -> [q EXCEPT !.type = "STRING", !.string = text])
   EXCEPT !.isLast = @ \/ c = ","]

\* __add_extension_param_value: a parameter that has its value is followed by a
\* new one, and by nothing else.
AddedValue(c, text, params, i) ==
  IF params[i].type = "EMPTY"
  THEN [i |-> i, params |-> [params EXCEPT ![i] = Filled(@, c, text)]]
  ELSE [i |-> i + 1, params |-> SubSeq(params, 1, i) \o <<Filled(NewParam, c, text)>>]

-----------------------------------------------------------------------------
(* parse_extensions.                                                       *)

\* The characters from start on, as many as were counted: quotes are not counted,
\* so those in front of a token are left out and one inside cuts off its end.
Text == IF start = 0 THEN <<>> ELSE SubSeq(line, start, start + length - 1)

Reading == answer = NoAnswer

\* 400 is sent, the request is dropped and the list with it.
Refuse ==
  /\ answer' = [kind |-> "400"] /\ list' = <<>>
  /\ UNCHANGED <<meant, lines, scan, current>>

IsInvalid(first) == first = 0 \/ line'[first] \in {",", ";"}

\* The next header: leading spaces are skipped, and something has to follow.
NextHeader ==
  /\ Reading /\ p = 0 /\ lines # <<>>
  /\ line' = Head(lines) /\ lines' = Tail(lines)
  /\ LET first == SelectInSeq(line', LAMBDA c : c # " ")
     IN  IF IsInvalid(first)
         THEN answer' = [kind |-> "400"] /\ list' = <<>> /\ UNCHANGED p
         ELSE p' = first /\ UNCHANGED <<answer, list>>
  /\ start' = 0 /\ length' = 0 /\ inQuote' = FALSE /\ hasExtension' = FALSE
  /\ current' = <<0, 0>> /\ UNCHANGED meant

At(c) == Reading /\ p \in DOMAIN line /\ line[p] = c
Step == p' = p + 1 /\ UNCHANGED <<meant, lines, line, answer>>

Quote ==
  /\ At("\"") /\ inQuote' = ~ inQuote
  /\ Step /\ UNCHANGED <<start, length, hasExtension, list, current>>

SkipSpace ==
  /\ At(" ") /\ start = 0 /\ ~ inQuote
  /\ Step /\ UNCHANGED <<start, length, inQuote, hasExtension, list, current>>

\* A space behind the first letter of a token belongs to it.
TakeLetter ==
  /\ \E c \in Alphabet \ {"\""} :
       At(c) /\ ~ (c = " " /\ start = 0 /\ ~ inQuote) /\ (inQuote \/ c \notin Separators)
  /\ start' = IF start = 0 THEN p ELSE start
  /\ length' = length + 1
  /\ Step /\ UNCHANGED <<inQuote, hasExtension, list, current>>

Separator(c) == c \in Separators /\ At(c) /\ ~ inQuote

\* Variant of NewToken, rejected by TypeOK: start stays.
OldToken == length' = 0 /\ UNCHANGED <<start, inQuote>>

NewToken == start' = 0 /\ length' = 0 /\ UNCHANGED inQuote

AddExtension(c) ==
  LET e == ExtensionAt(Text)
      added == AddedKey(c, WithExtension(Text)[e].params)
  IN  /\ list' = [WithExtension(Text) EXCEPT ![e].params = added.params]
      /\ current' = <<e, added.i>>

AddParam(c) ==
  LET added == AddedValue(c, Text, list[current[1]].params, current[2])
  IN  /\ list' = [list EXCEPT ![current[1]].params = added.params]
      /\ current' = <<current[1], added.i>>

TooLong == length > TokenLength

\* The name of an extension ends.
EndExtension(c) ==
  /\ Separator(c) /\ ~ hasExtension
  /\ IF TooLong \/ length = 0 \/ c = "=" THEN Refuse
     ELSE AddExtension(c) /\ NewToken /\ Step /\ hasExtension' = (c # ",")

\* The name or the value of a parameter ends.
EndParam(c) ==
  /\ Separator(c) /\ hasExtension
  /\ IF TooLong THEN Refuse
     ELSE AddParam(c) /\ NewToken /\ Step /\ hasExtension' = (c # ",")

\* What is in front of the end of the line, as if a comma followed, unless there
\* is nothing or a quote is open.
EndHeader ==
  /\ Reading /\ p > Len(line)
  /\ IF start # 0 /\ ~ inQuote /\ TooLong THEN Refuse
     ELSE /\ IF start = 0 \/ inQuote THEN UNCHANGED <<list, current>>
             ELSE IF hasExtension THEN AddParam(",") ELSE AddExtension(",")
          /\ p' = 0 /\ NewToken
          /\ UNCHANGED <<meant, lines, line, hasExtension, answer>>

-----------------------------------------------------------------------------
(* permessage-deflate: pmd_validate_offer and pmd_respond.                 *)

Deflate == <<"permessage-deflate">>

\* The names it knows, in the order in which they are tried.
Names == << <<"client_", "max_window_bits">>, <<"server_", "max_window_bits">>,
            <<"client_", "no_context_takeover">>, <<"server_", "no_context_takeover">> >>

\* strncasecmp with the length of what the peer wrote, which may be cut short.
Name(q) == SelectInSeq(Names, LAMBDA n : IsPrefix(q.key, n))

IsWindow(n) == n \in {1, 2}

\* Variant, rejected by PeersAgree: only large windows are refused.
IsTakenUpTo15(q) ==
  CASE Name(q) = 0 -> FALSE
    [] IsWindow(Name(q)) -> q.type # "STRING" /\ (q.type = "INT" => q.int <= 15)
    [] OTHER -> q.type = "BOOL"

IsTaken(q) ==
  CASE Name(q) = 0 -> FALSE
    [] IsWindow(Name(q)) -> q.type # "STRING" /\ (q.type = "INT" => q.int \in 8 .. 15)
    [] OTHER -> q.type = "BOOL"

\* MAX_WINDOW_BITS twice and DEFAULT_NO_CONTEXT_TAKEOVER twice; a flag is 0 or 1.
Defaults == <<15, 15, 0, 0>>

Value(q) == IF ~ IsWindow(Name(q)) THEN 1 ELSE IF q.type = "BOOL" THEN 15 ELSE q.int

Repeats(params, i) == \E j \in 1 .. i - 1 : Name(params[j]) = Name(params[i])

\* What the parameters up to the i-th ask for.
Collected(params, i) ==
  [n \in DOMAIN Names |->
    LET by == SelectInSeq(SubSeq(params, 1, i), LAMBDA q : Name(q) = n)
    IN  IF by = 0 THEN Defaults[n] ELSE Value(params[by])]

\* The loop stops at a parameter without a name, at one it refuses and at the
\* last of the first offer: later offers are never looked at.
StopsAt(params, i) ==
  params[i].key = <<>> \/ ~ IsTaken(params[i]) \/ Repeats(params, i) \/ params[i].isLast

Refused == [kind |-> "refused"]

\* The configuration that enters the table, or Refused.
ValidateOffer(params) ==
  LET stops == {i \in DOMAIN params : StopsAt(params, i)}
      i == CHOOSE k \in stops : \A j \in stops : k <= j
  IN  IF stops = {} THEN Refused
      ELSE IF params[i].key = <<>> THEN [kind |-> "accepted", config |-> Defaults]
      ELSE IF ~ IsTaken(params[i]) \/ Repeats(params, i) THEN Refused
      ELSE [kind |-> "accepted", config |-> Collected(params, i)]

\* Variant, rejected by AcceptedAsOffered: one setting is not told.
RespondToSome(config) == {<<n, config[n]>> : n \in {k \in 1 .. 3 : config[k] # Defaults[k]}}

\* Only what is not the default is written.
Respond(config) == {<<n, config[n]>> : n \in {k \in DOMAIN Names : config[k] # Defaults[k]}}

\* validate_extension_list and the response: extensions that nobody registered
\* are passed over.
Validate ==
  /\ Reading /\ p = 0 /\ lines = <<>>
  /\ answer' =
       IF ExtensionAt(Deflate) > Len(list) THEN [kind |-> "unused"]
       ELSE LET offer == ValidateOffer(list[ExtensionAt(Deflate)].params)
            IN  IF offer = Refused THEN Refused
                ELSE [kind |-> "accepted", config |-> offer.config, response |-> Respond(offer.config)]
  /\ UNCHANGED <<meant, lines, scan, list, current>>

Parse == NextHeader \/ Quote \/ SkipSpace \/ TakeLetter
         \/ (\E c \in Separators : EndExtension(c) \/ EndParam(c)) \/ EndHeader

Next == Parse \/ Validate

Spec == Init /\ [][Next]_vars

-----------------------------------------------------------------------------
Texts == Seq(Alphabet)
Params == [key : Texts, type : {"EMPTY", "INT", "BOOL", "STRING"}, int : Nat, string : Texts,
           isLast : BOOLEAN]

\* Every variable keeps its type.  The token is read from the line, behind no
\* character the parser has not seen; and only the last parameter of an
\* extension may wait for its value, the one that is filled, so that adding to it
\* drops nothing.
TypeOK ==
  /\ p \in 0 .. Len(line) + 1 /\ {inQuote, hasExtension} \subseteq BOOLEAN
  /\ length \in Nat /\ (start = 0 <=> length = 0) /\ (start # 0 => start + length <= p)
  /\ list \in Seq([token : Texts, params : Seq(Params)])
  /\ \A e \in DOMAIN list : \A i \in DOMAIN list[e].params :
       list[e].params[i].type = "EMPTY" => i = Len(list[e].params)
  /\ Reading /\ hasExtension => current[2] = Len(list[current[1]].params)
  /\ answer.kind \in {"none", "400", "unused", "refused", "accepted"}

(* What a peer means by its offers.  A build that does not tell numbers lists  *)
(* one as the text it is.                                                      *)

MeantParam(q, isLast) ==
  [(CASE q.value = <<>> -> [NewParam EXCEPT !.type = "BOOL"]
      [] q.value # <<>> /\ IsNumeral(q.value) /\ TellsNumbers ->
           [NewParam EXCEPT !.type = "INT", !.int = Number(q.value)]
      [] OTHER -> [NewParam EXCEPT !.type = "STRING", !.string = q.value])
   EXCEPT !.key = q.name, !.isLast = isLast]

MeantOffer(o) ==
  IF o.params = <<>> THEN <<[NewParam EXCEPT !.type = "BOOL", !.isLast = TRUE]>>
  ELSE [i \in DOMAIN o.params |-> MeantParam(o.params[i], i = Len(o.params))]

\* Of what was meant, the offers to one extension.
OffersTo(token) ==
  FlattenSeq([i \in DOMAIN meant |-> IF meant[i].token = token THEN << meant[i] >> ELSE <<>>])

\* The list has every extension once, and under it what was meant in the order of
\* the request, however it was spread over headers, spaced and quoted; numbers are
\* told from text where the build tells them.
ParsedAsMeant ==
  ~ Reading /\ meant # Unknown =>
    /\ {list[e].token : e \in DOMAIN list} = {meant[i].token : i \in DOMAIN meant}
    /\ IsInjective([e \in DOMAIN list |-> list[e].token])
    /\ \A e \in DOMAIN list :
         list[e].params = FlattenSeq([i \in DOMAIN OffersTo(list[e].token) |->
                                        MeantOffer(OffersTo(list[e].token)[i])])

IsWindowName(name) == name \in {Names[1], Names[2]}

\* Up to leading zeros.
IsWindowValue(value) == IsNumeral(value) /\ Number(value) \in 8 .. 15

\* RFC 7692, 7.1: a window is a decimal number from 8 to 15 without leading
\* zeros, which only client_max_window_bits may leave out; a flag has no value.
IsLegal(q) ==
  \/ q.name \in {Names[3], Names[4]} /\ q.value = <<>>
  \/ q.name = Names[1] /\ q.value = <<>>
  \/ IsWindowName(q.name) /\ q.value # <<>> /\ IsWindowValue(q.value) /\ q.value[1] # "0"

\* What the code takes besides: leading zeros, and server_max_window_bits without
\* a value, as 15.
IsLax(q) ==
  \/ q.name = Names[2] /\ q.value = <<>>
  \/ IsWindowName(q.name) /\ q.value # <<>> /\ IsWindowValue(q.value) /\ q.value[1] = "0"

\* Where numbers are not told, no parameter with a value is taken.
IsAcceptable(q) == (IsLegal(q) \/ IsLax(q)) /\ (q.value # <<>> => TellsNumbers)

\* What the peer asks of permessage-deflate.
Asked(o) ==
  [n \in DOMAIN Names |->
    LET by == {i \in DOMAIN o.params : o.params[i].name = Names[n]}
        i == CHOOSE k \in by : TRUE
    IN  CASE by = {} -> Defaults[n]
          [] by # {} /\ ~ IsWindow(n) -> 1
          [] OTHER -> IF o.params[i].value = <<>> THEN 15 ELSE Number(o.params[i].value)]

\* What the peer makes of a response.
Heard(response) ==
  [n \in DOMAIN Names |->
    IF \E r \in response : r[1] = n THEN (CHOOSE r \in response : r[1] = n)[2] ELSE Defaults[n]]

\* A peer that means a known name writes all of it.
ASSUME NamesAreWhole ==
  \A r \in Requests : \A offers \in ToSet(r) : \A o \in ToSet(offers) : \A q \in ToSet(o.params) :
    \A n \in DOMAIN Names : IsPrefix(q.name, Names[n]) => q.name = Names[n]

\* The first offer to permessage-deflate decides.  A legal one is answered with
\* what it asks for, unless the build does not tell numbers and it has one; an
\* illegal one, or one that names a parameter twice, is refused, apart from what
\* is taken besides.
AcceptedAsOffered ==
  ~ Reading /\ meant # Unknown =>
    LET offers == OffersTo(Deflate)
        first == offers[1].params
        acceptable == (\A i \in DOMAIN first : IsAcceptable(first[i]))
                      /\ IsInjective([i \in DOMAIN first |-> first[i].name])
    IN  CASE offers = <<>> -> answer.kind = "unused"
          [] offers # <<>> /\ ~ acceptable -> answer.kind = "refused"
          [] OTHER -> answer.kind = "accepted" /\ Heard(answer.response) = Asked(offers[1])

\* Whatever the headers hold, both sides use the same settings, with windows
\* of 8 to 15 bits: no number, missing value or leftover of an earlier header becomes one.
PeersAgree ==
  answer.kind = "accepted" =>
    /\ Heard(answer.response) = answer.config
    /\ answer.config[1] \in 8 .. 15 /\ answer.config[2] \in 8 .. 15
=============================================================================
