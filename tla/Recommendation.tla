--------------------------- MODULE Recommendation ---------------------------
(***************************************************************************)
(* spg_recommendation_parse (src/src/actor/recommendation.c): the one gate *)
(* between the text a model writes and the action the policy is asked      *)
(* about.  It reads the first top-level form of the reply, field by field  *)
(* and in order, and stops at the first field that is wrong.               *)
(***************************************************************************)
EXTENDS Sexpr, FiniteSetsExt

CONSTANT UintMax       \* UINT64_MAX

\* The numbers the scaffolds contain are in range.
ASSUME RecommendationAssumption == UintMax \in Nat /\ UintMax >= 10000

IntMax == UintMax \div 2    \* INT64_MAX

(* The ten action kinds and their names (spg_action_kind_to_string), cut    *)
(* into the pieces a tokenizer may cut them into.                           *)
KindName ==
    [local_shell            |-> <<"local", "shell">>,
     ssh_auth_probe         |-> <<"ssh">>,
     simulator              |-> <<"sim">>,
     memory_save            |-> <<"memory", "save">>,
     memory_delete          |-> <<"memory", "delete">>,
     memory_read            |-> <<"memory", "read">>,
     machine_pause_process  |-> <<"machine", "pause">>,
     machine_resume_process |-> <<"machine", "resume">>,
     device_write           |-> <<"device">>,
     finish                 |-> <<"finish">>]

AllKinds == DOMAIN KindName

(* parse_action_kind *)
IsKindText(val)    == \E k \in AllKinds : KindName[k] = val
ParseActionKind(val) == CHOOSE k \in AllKinds : KindName[k] = val

-----------------------------------------------------------------------------
StringFields == {"capability", "reason", "command", "target", "slug",
                 "description", "body"}
FieldNames   == StringFields \cup {"kind", "cost", "uses_network",
                                   "confidence_bp", "value"}

(* field_for_name *)
IsFieldName(val) == Len(val) = 1 /\ val[1] \in FieldNames

(* Digit runs: their value and their width. *)
Digits == [d0 |-> [v |-> 0, w |-> 1], d1 |-> [v |-> 1, w |-> 1],
           d7 |-> [v |-> 7, w |-> 1], d5000 |-> [v |-> 5000, w |-> 4]]

NumeralValue(val) ==
    LET upto[i \in 0 .. Len(val)] ==
            IF i = 0 THEN 0
            ELSE upto[i - 1] * 10^(Digits[val[i]].w) + Digits[val[i]].v
    IN upto[Len(val)]

(* spg_sexpr_parse_uint64_span succeeds: there are digits and nothing else, *)
(* and the value stays in range.  More digits never make it smaller, so the *)
(* check at each digit says what one at the end does.                       *)
IsNumeral(val) ==
    /\ val # <<>> /\ \A i \in DOMAIN val : val[i] \in DOMAIN Digits
    /\ NumeralValue(val) <= UintMax

Unsigned(val) == IF val # <<>> /\ Head(val) = "-" THEN Tail(val) ELSE val

IsSignedLax(val) == IsNumeral(Unsigned(val))

(* The signed number of a device: its magnitude has a sign to carry. *)
IsSigned(val) == IsNumeral(Unsigned(val)) /\ NumeralValue(Unsigned(val)) <= IntMax

(* The value of one field: "none", or why the reply is rejected *)
ValueReject(name, node) ==
    LET symbol  == node.kind = "symbol"
        numeral == symbol /\ IsNumeral(node.val)
        right ==
            \/ name \in StringFields    /\ node.kind = "string"
            \/ name = "kind"            /\ symbol
            \/ name = "cost"            /\ numeral /\ NumeralValue(node.val) # 0
            \/ name = "confidence_bp"   /\ numeral /\ NumeralValue(node.val) <= 10000
            \/ name = "value"           /\ symbol /\ IsSigned(node.val)
            \/ name = "uses_network"    /\ symbol /\ node.val \in {<<"true">>, <<"false">>}
    IN IF ~right THEN "wrong_value"
       ELSE IF name = "kind" /\ ~IsKindText(node.val) THEN "unknown_kind"
       ELSE "none"

(* One pass of the field loop, for node f, seen the names before it *)
FieldReject(nodes, f, seen) ==
    LET kids == Children(nodes, f) IN
    IF \/ nodes[f].kind # "list" \/ Len(kids) # 2
       \/ nodes[kids[1]].kind # "symbol" \/ ~IsFieldName(nodes[kids[1]].val)
    THEN "schema"
    ELSE IF nodes[kids[1]].val[1] \in seen THEN "duplicate_field"
    ELSE ValueReject(nodes[kids[1]].val[1], nodes[kids[2]])

FieldName(nodes, f)  == nodes[Children(nodes, f)[1]].val[1]
FieldValue(nodes, f) == nodes[Children(nodes, f)[2]].val

-----------------------------------------------------------------------------
(* required_fields_seen *)
RequiredFieldsSeen(seen, kind) ==
    IF kind = "finish" THEN {"kind", "reason"} \subseteq seen
    ELSE {"kind", "capability", "cost", "uses_network", "confidence_bp",
          "reason"} \subseteq seen

Payload == {"command", "target", "slug", "description", "body", "value"}

(* kind_fields_match: seen are the fields given, net the network flag *)
KindFieldsMatch(kind, seen, net) ==
    LET has == seen \cap Payload IN
    /\ "value" \in has => kind = "device_write"
    /\ \/ kind = "simulator"       /\ ~net /\ "command" \notin has
       \/ kind = "local_shell"     /\ ~net /\ "command" \in has /\ "target" \notin has
       \/ kind = "ssh_auth_probe"  /\ net /\ "command" \notin has /\ "target" \in has
       \/ /\ kind = "memory_save" /\ ~net
          /\ has \cap {"command", "target"} = {}
          /\ {"slug", "description", "body"} \subseteq has
       \/ kind \in {"memory_delete", "memory_read"} /\ ~net /\ has = {"slug"}
       \/ /\ kind \in {"machine_pause_process", "machine_resume_process"}
          /\ ~net /\ has = {"target"}
       \/ kind = "device_write"    /\ ~net /\ has = {"target", "value"}
       \/ kind = "finish"          /\ has = {}

Rejected(reason) == [reason |-> reason, kind |-> "none", fields |-> <<>>]

(* The end of spg_recommendation_parse: every field is right by itself.  A  *)
(* missing kind leaves the kind at its first value.                         *)
Conclude(nodes, fields) ==
    LET given    == {fields[i] : i \in DOMAIN fields}
        seen     == {FieldName(nodes, f) : f \in given}
        value(n) == FieldValue(nodes, CHOOSE f \in given : FieldName(nodes, f) = n)
        kind == IF "kind" \in seen THEN ParseActionKind(value("kind")) ELSE "local_shell"
        net  == "uses_network" \in seen /\ value("uses_network") = <<"true">>
    IN IF ~RequiredFieldsSeen(seen, kind)         THEN Rejected("missing_field")
       ELSE IF ~KindFieldsMatch(kind, seen, net)  THEN Rejected("kind_mismatch")
       ELSE [reason |-> "none", kind |-> kind, fields |-> [n \in seen |-> value(n)]]

(* spg_recommendation_parse: reason "none" is SPG_RECOMMENDATION_VALID; the *)
(* reason "limit" stands for the status SPG_E_LIMIT, which the actor        *)
(* returns as an error of the step.                                         *)
Parse(text) ==
    LET read   == ParseText(text)
        nodes  == read.nodes
        top    == Children(nodes, 1)
        fields == Tail(top)
        before(i) == {FieldName(nodes, fields[j]) : j \in 1 .. i - 1}
        reject(i) == FieldReject(nodes, fields[i], before(i))
        passed[i \in 0 .. Len(fields)] ==
            i = 0 \/ (passed[i - 1] /\ reject(i) = "none")
    IN IF read.status = "limit"   THEN Rejected("limit")
       ELSE IF read.status # "ok" THEN Rejected("syntax")
       ELSE IF nodes = <<>>       THEN Rejected("empty")
       ELSE IF \/ nodes[1].kind # "list" \/ top = <<>>
               \/ nodes[top[1]].kind # "symbol" \/ nodes[top[1]].val # <<"recommend">>
            THEN Rejected("schema")
       ELSE IF ~passed[Len(fields)]
            THEN Rejected(reject(Max({i \in DOMAIN fields : passed[i - 1]})))
       ELSE Conclude(nodes, fields)
=============================================================================
