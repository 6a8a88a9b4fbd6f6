---------------------------- MODULE MCNegotiation ----------------------------
(***************************************************************************)
(* Negotiation for TLC: well-formed requests, spaced, quoted and spread    *)
(* over headers in several ways; each of a few of them with one letter     *)
(* added, lost or replaced; and short headers of any form, alone and       *)
(* behind one that ends in the middle of a parameter.                      *)
(***************************************************************************)
EXTENDS Negotiation

MCLetters == {"permessage-deflate", "x", "client_", "server_", "max_window_bits",
              "no_context_takeover"}

Values == {<<>>, <<"1", "0">>, <<"8">>, <<"0", "8">>, <<"7">>, <<"x">>}

NamedParams == [name : {Names[1], Names[2]}, value : Values]
  \cup [name : {Names[3], Names[4]}, value : {<<>>, <<"1", "0">>}]
  \cup {[name |-> <<"x">>, value |-> <<>>]}

SomeParams == {<<>>, << [name |-> Names[1], value |-> <<>>] >>,
               << [name |-> Names[4], value |-> <<>>], [name |-> Names[2], value |-> <<"9">>] >>}

AllParams == {<<>>} \cup [1 .. 1 -> NamedParams] \cup [1 .. 2 -> NamedParams]

OfferedIn(ps) == [token : {Deflate}, params : ps]

Meanings == [1 .. 1 -> OfferedIn(AllParams)]
  \cup [1 .. 2 -> OfferedIn(SomeParams) \cup [token : {<<"x">>}, params : SomeParams]]
  \cup {<<a, b, c>> : a, b \in OfferedIn(SomeParams), c \in [token : {<<"x">>}, params : {<<>>}]}

Styles == [space : 0 .. 1, quoted : BOOLEAN, apart : BOOLEAN]

StyledParam(q, s) ==
  [name |-> q.name, value |-> q.value, space |-> s.space,
   quoted |-> s.quoted /\ q.value # <<>>, valueSpace |-> IF q.value = <<>> THEN 0 ELSE s.space]

StyledOffer(o, s) ==
  [token |-> o.token, params |-> [i \in DOMAIN o.params |-> StyledParam(o.params[i], s)],
   space |-> s.space]

Styled(m, s) ==
  LET offers == [i \in DOMAIN m |-> StyledOffer(m[i], s)]
  IN  IF s.apart THEN [i \in DOMAIN m |-> <<offers[i]>>] ELSE <<offers>>

MCRequests == {Styled(m, s) : m \in Meanings, s \in Styles}

Edited(text) ==
  LET Before(i) == SubSeq(text, 1, i)
      After(i) == SubSeq(text, i + 1, Len(text))
  IN  UNION {{Before(i) \o <<c>> \o After(i) : c \in Alphabet} : i \in 0 .. Len(text)}
      \cup UNION {{Before(i - 1) \o <<c>> \o After(i) : c \in Alphabet} : i \in DOMAIN text}
      \cup {Before(i - 1) \o After(i) : i \in DOMAIN text}

Spaced == [space |-> 1, quoted |-> TRUE, apart |-> FALSE]

EditedTexts ==
  UNION {Edited(WrittenHeader(Styled(<<[token |-> Deflate, params |-> q],
                                       [token |-> Deflate, params |-> <<>>]>>, Spaced)[1])) :
           q \in SomeParams}

Short == UNION {[1 .. n -> {"client_", "x", "9", ",", ";", "=", " ", "\""}] : n \in 0 .. 4}

\* Unfinished first headers.
Ends == {<<";">>, <<";", "client_", "=">>, <<";", "client_", "=", "\"", "9">>}

MCOtherLines ==
  {<<t>> : t \in EditedTexts} \cup {<<Deflate \o s>> : s \in Short} \cup {<<s>> : s \in Short}
  \cup {<<Deflate \o e, Deflate \o s>> : e \in Ends, s \in Short}
=============================================================================
