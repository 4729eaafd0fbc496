----------------------------- MODULE RemoteCodec -----------------------------
(***************************************************************************)
(* The JSON codec of the remote backend (src/src/model/model_remote_codec.c)*)
(* as it treats one string: the prompt it escapes into the request and the *)
(* content it unescapes from the response.  A text is a sequence of        *)
(* characters; the ones told apart are the quote "q", the backslash "bs",  *)
(* the line end "nl", another control character "ctl", a character outside *)
(* the basic plane "astral" and any other, "w".                            *)
(***************************************************************************)
EXTENDS Sequences, Integers, SequencesExt

Chars == {"q", "bs", "nl", "ctl", "astral", "w"}

(* One character of the request without the backslash case *)
EscapedCharLax(c) ==
    IF c = "q"        THEN <<"bs", "q">>
    ELSE IF c = "nl"  THEN <<"bs", "n">>
    ELSE IF c = "ctl" THEN <<"bs", "u", "hexctl">>
    ELSE <<c>>

(* w_escaped, one character *)
EscapedChar(c) ==
    IF c = "bs" THEN <<"bs", "bs">> ELSE EscapedCharLax(c)

Escaped(s) == FlattenSeq([i \in DOMAIN s |-> EscapedChar(s[i])])

(* hex4 and the UTF-16 halves: what the four digits after \u stand for *)
HexValue == [hexctl |-> "ctl", hexq |-> "q", hexw |-> "w", hexbs |-> "bs",
             hexnl |-> "nl", high |-> "high", low |-> "low"]

(* unescape_into: the text read at position i.. of the escaped s.  A high   *)
(* surrogate joins the low one that follows it; a lone half is emitted as   *)
(* it is.  A backslash at the very end is dropped.                          *)
Unescaped(s) ==
    LET escape(i)  == s[i] = "bs" /\ i < Len(s)
        unicode(i) == escape(i) /\ s[i + 1] = "u" /\ i + 2 <= Len(s)
        pair(i)    == /\ unicode(i) /\ s[i + 2] = "high"
                      /\ i + 5 <= Len(s) /\ s[i + 3] = "bs" /\ s[i + 4] = "u"
                      /\ s[i + 5] = "low"
        step(i) == IF pair(i)         THEN [n |-> 6, c |-> <<"astral">>]
                   ELSE IF unicode(i) THEN [n |-> 3, c |-> <<HexValue[s[i + 2]]>>]
                   ELSE IF escape(i)
                        THEN [n |-> 2, c |-> IF s[i + 1] = "n" THEN <<"nl">>
                                             ELSE IF s[i + 1] = "u" THEN <<>>
                                             ELSE <<s[i + 1]>>]
                   ELSE IF s[i] = "bs" THEN [n |-> 1, c |-> <<>>]
                   ELSE [n |-> 1, c |-> <<s[i]>>]
        from[i \in 1 .. Len(s) + 1] ==
            IF i > Len(s) THEN <<>> ELSE step(i).c \o from[i + step(i).n]
    IN from[1]

(* The ways a server may write one character of a JSON string (external) *)
JsonForms(c) ==
    CASE c = "q"      -> {<<"bs", "q">>, <<"bs", "u", "hexq">>}
      [] c = "bs"     -> {<<"bs", "bs">>, <<"bs", "u", "hexbs">>}
      [] c = "nl"     -> {<<"bs", "n">>, <<"bs", "u", "hexnl">>}
      [] c = "ctl"    -> {<<"bs", "u", "hexctl">>}
      [] c = "astral" -> {<<"astral">>, <<"bs", "u", "high", "bs", "u", "low">>}
      [] OTHER        -> {<<c>>, <<"bs", "u", "hexw">>}

(* The JSON texts a server may send for the string s (external) *)
JsonTexts(s) ==
    LET forms == UNION {JsonForms(s[i]) : i \in DOMAIN s}
    IN {FlattenSeq(f) : f \in {g \in [DOMAIN s -> forms] :
                                  \A i \in DOMAIN s : g[i] \in JsonForms(s[i])}}

(* s is the JSON text of t: how any reader of JSON (external) understands it *)
IsJsonOf(s, t) == s \in JsonTexts(t)
=============================================================================
