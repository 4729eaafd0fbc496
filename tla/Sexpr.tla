-------------------------------- MODULE Sexpr --------------------------------
(***************************************************************************)
(* The s-expression reader (src/src/dsl/sexpr.c) that every reply of the   *)
(* model and every configuration file goes through.                        *)
(*                                                                         *)
(* A text is a sequence of lexemes: the characters the tokenizer tells     *)
(* apart - "(", ")", ";", a quote "q", a backslash "bs", a space "sp", a   *)
(* line end "nl" - and words, which stand for runs of ordinary characters  *)
(* that no decision of the reader depends on.  Adjacent words are one      *)
(* symbol, as adjacent characters are.  An escaped character is the first  *)
(* one of the next lexeme: the words in EscapeWords begin with n, t or r.  *)
(***************************************************************************)
EXTENDS Integers, Sequences

CONSTANTS
    TokenCap,      \* token_capacity of the caller
    NodeCap,       \* node_capacity of the caller
    EscapeWords    \* the words that begin with a character valid after "\"

ASSUME SexprAssumption == TokenCap \in Nat \ {0} /\ NodeCap \in Nat \ {0}

Space     == {"sp", "nl"}
Delim     == Space \cup {"(", ")", ";"}
Escapable == {"q", "bs"} \cup EscapeWords

\* valid_symbol_char; a text holds no NUL (it is a C string).
SymbolChar(c) == c \notin Delim \cup {"q", "bs"}

-----------------------------------------------------------------------------
(* The tokenizer: [mode, cur, toks, bad].  mode is where the next lexeme is *)
(* read - "between" tokens, in a "comment", in a "string", after a          *)
(* backslash ("escape") or in a "symbol"; bad is the first error, after     *)
(* which nothing is read.                                                   *)
TokenizerStart == [mode |-> "between", cur |-> <<>>, toks |-> <<>>, bad |-> "ok"]

Fail(st, e) == [st EXCEPT !.bad = e]

PushToken(st, kind, val) ==
    IF Len(st.toks) >= TokenCap THEN Fail(st, "limit")
    ELSE [st EXCEPT !.toks = Append(@, [kind |-> kind, val |-> val]),
                    !.mode = "between", !.cur = <<>>]

Between(st, c) ==
    IF c \in Space          THEN st
    ELSE IF c = ";"         THEN [st EXCEPT !.mode = "comment"]
    ELSE IF c \in {"(", ")"} THEN PushToken(st, c, <<>>)
    ELSE IF c = "q"         THEN [st EXCEPT !.mode = "string"]
    ELSE IF ~SymbolChar(c)  THEN Fail(st, "format")
    ELSE [st EXCEPT !.mode = "symbol", !.cur = <<c>>]

InString(st, c) ==
    IF c = "nl"      THEN Fail(st, "format")
    ELSE IF c = "bs" THEN [st EXCEPT !.mode = "escape"]
    ELSE IF c = "q"  THEN PushToken(st, "string", st.cur)
    ELSE [st EXCEPT !.cur = Append(@, c)]

InEscape(st, c) ==
    IF c \in Escapable
    THEN [st EXCEPT !.mode = "string", !.cur = @ \o <<"bs", c>>]
    ELSE Fail(st, "format")

InSymbol(st, c) ==
    IF c \in Delim          THEN LET p == PushToken(st, "symbol", st.cur) IN
                                 IF p.bad = "ok" THEN Between(p, c) ELSE p
    ELSE IF ~SymbolChar(c)  THEN Fail(st, "format")
    ELSE [st EXCEPT !.cur = Append(@, c)]

Lexeme(st, c) ==
    IF st.bad # "ok"             THEN st
    ELSE IF st.mode = "between"  THEN Between(st, c)
    ELSE IF st.mode = "comment"  THEN (IF c = "nl" THEN [st EXCEPT !.mode = "between"]
                                       ELSE st)
    ELSE IF st.mode = "string"   THEN InString(st, c)
    ELSE IF st.mode = "escape"   THEN InEscape(st, c)
    ELSE InSymbol(st, c)

AtEnd(st) ==
    IF st.bad # "ok"                            THEN st
    ELSE IF st.mode \in {"string", "escape"}    THEN Fail(st, "format")
    ELSE IF st.mode = "symbol"                  THEN PushToken(st, "symbol", st.cur)
    ELSE st

(* spg_sexpr_tokenize *)
Tokenize(text) ==
    LET read[i \in 0 .. Len(text)] ==
            IF i = 0 THEN TokenizerStart ELSE Lexeme(read[i - 1], text[i])
    IN AtEnd(read[Len(text)])

-----------------------------------------------------------------------------
(* The tree: a sequence of nodes in the order they open, each with the      *)
(* index of its parent; 0 is SPG_SEXPR_INVALID_INDEX.                       *)
PushNode(st, kind, val) ==
    IF Len(st.nodes) >= NodeCap THEN [st EXCEPT !.bad = "limit"]
    ELSE [st EXCEPT !.nodes = Append(@, [kind |-> kind, val |-> val,
                                         parent |-> st.parent])]

Open(st) ==
    LET p == PushNode(st, "list", <<>>) IN
    IF p.bad = "ok" THEN [p EXCEPT !.parent = Len(p.nodes)] ELSE p

Close(st) ==
    IF st.parent = 0 THEN [st EXCEPT !.bad = "format"]
    ELSE [st EXCEPT !.parent = st.nodes[@].parent]

Token(st, t) ==
    IF st.bad # "ok"      THEN st
    ELSE IF t.kind = "("  THEN Open(st)
    ELSE IF t.kind = ")"  THEN Close(st)
    ELSE PushNode(st, t.kind, t.val)

(* spg_sexpr_parse: an error empties the tree *)
ParseTokens(toks) ==
    LET read[i \in 0 .. Len(toks)] ==
            IF i = 0 THEN [nodes |-> <<>>, parent |-> 0, bad |-> "ok"]
            ELSE Token(read[i - 1], toks[i])
        end == read[Len(toks)]
    IN IF end.bad # "ok"       THEN [status |-> end.bad, nodes |-> <<>>]
       ELSE IF end.parent # 0  THEN [status |-> "format", nodes |-> <<>>]
       ELSE [status |-> "ok", nodes |-> end.nodes]

(* spg_sexpr_parse_text *)
ParseText(text) ==
    LET lexed == Tokenize(text) IN
    IF lexed.bad # "ok" THEN [status |-> lexed.bad, nodes |-> <<>>]
    ELSE ParseTokens(lexed.toks)

(* first_child, next_sibling: the children of node i in order; those of 0   *)
(* are the top-level forms.                                                 *)
Children(nodes, i) ==
    SelectSeq([j \in DOMAIN nodes |-> j], LAMBDA j : nodes[j].parent = i)
=============================================================================
