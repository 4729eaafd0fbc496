----------------------------- MODULE GrammarMask -----------------------------
(***************************************************************************)
(* The grammar of the constrained decoder (src/src/model/grammar_mask.c):  *)
(* which pieces keep a slot a live prefix of some name, the fixed text     *)
(* around the slots of each action kind, and the capability names a policy *)
(* offers to the decoder.  A piece is the text of one token of the model:  *)
(* a sequence of lexemes (module Sexpr).                                   *)
(***************************************************************************)
EXTENDS Recommendation, SequencesExt

CONSTANTS
    PolicyCaps,    \* the capabilities of the policy, in file order
    NameBufCap     \* room in name_buf, in names

(* skip_spaces *)
SkipSpaces(s) ==
    LET solid == {i \in DOMAIN s : s[i] # "sp"} IN
    IF solid = {} THEN <<>> ELSE SubSeq(s, Min(solid), Len(s))

(* spg_choice_prefix_ok *)
ChoicePrefixOk(names, emitted, piece) ==
    \E i \in DOMAIN names : IsPrefix(SkipSpaces(emitted \o piece), names[i])

(* spg_choice_complete *)
ChoiceComplete(names, emitted) ==
    /\ SkipSpaces(emitted) # <<>>
    /\ \E i \in DOMAIN names : names[i] = SkipSpaces(emitted)

(* ALL_KINDS, spg_kind_names *)
KindOrder == <<"local_shell", "ssh_auth_probe", "simulator", "memory_save",
               "memory_delete", "memory_read", "machine_pause_process",
               "machine_resume_process", "device_write", "finish">>
KindNames == [i \in DOMAIN KindOrder |-> KindName[KindOrder[i]]]

(* spg_kind_from_text *)
KindResolves(emitted) == IsKindText(SkipSpaces(emitted))
KindFromText(emitted) == ParseActionKind(SkipSpaces(emitted))

-----------------------------------------------------------------------------
(* Scaffolds: literal segments and slots.  A slot names the field whose     *)
(* value the model writes there.                                            *)
Lit(text)         == [t |-> "literal", text |-> text, field |-> "none"]
Slot(how, field)  == [t |-> how, text |-> <<>>, field |-> field]

Opening           == <<"(", "recommend", "sp", "(", "kind", "sp">>
FirstField(name)  == Lit(<<")", "sp", "(", name, "sp", "q">>)
NextField(name)   == Lit(<<"q", ")", "sp", "(", name, "sp", "q">>)
CloseForm         == Lit(<<"q", ")", ")">>)

Bureau(net) ==
    <<"q", ")", "sp", "(", "cost", "sp", "d1", ")", "sp",
      "(", "uses_network", "sp", net, ")", "sp",
      "(", "confidence_bp", "sp", "d5000", ")", "sp", "(">>
AfterCap(net, name) == Lit(Bureau(net) \o <<name, "sp", "q">>)

\* FirstField("capability"), CAP and the bureaucratic fields: the head of
\* every scaffold but finish.
Capped(net, name) == <<FirstField("capability"), Slot("capability", "capability"),
                       AfterCap(net, name)>>
\* the reason and the end of the form
Reasoned == <<NextField("reason"), Slot("string", "reason"), CloseForm>>

SegFinish == <<FirstField("reason"), Slot("string", "reason"), CloseForm>>
SegMachine == Capped("false", "target") \o <<Slot("string", "target")>> \o Reasoned
SegDevice ==
    Capped("false", "target") \o
    <<Slot("string", "target"), Lit(<<"q", ")", "sp", "(", "value", "sp">>),
      Slot("number", "value"), FirstField("reason"),
      Slot("string", "reason"), CloseForm>>
SegSimulator == Capped("false", "reason") \o <<Slot("string", "reason"), CloseForm>>
SegLocalShell == Capped("false", "command") \o <<Slot("command", "command")>> \o Reasoned
SegSsh == Capped("true", "target") \o <<Slot("string", "target")>> \o Reasoned
SegMemSave ==
    Capped("false", "slug") \o
    <<Slot("string", "slug"), NextField("description"),
      Slot("string", "description"), NextField("body"),
      Slot("string", "body")>> \o Reasoned
SegMemSlug == Capped("false", "slug") \o <<Slot("string", "slug")>> \o Reasoned

(* spg_scaffold_for_kind *)
ScaffoldForKind(kind) ==
    CASE kind \in {"machine_pause_process", "machine_resume_process"} -> SegMachine
      [] kind = "device_write"   -> SegDevice
      [] kind = "finish"         -> SegFinish
      [] kind = "simulator"      -> SegSimulator
      [] kind = "local_shell"    -> SegLocalShell
      [] kind = "ssh_auth_probe" -> SegSsh
      [] kind = "memory_save"    -> SegMemSave
      [] kind \in {"memory_delete", "memory_read"} -> SegMemSlug

-----------------------------------------------------------------------------
(* kinds_for_cap *)
KindsForCap(cap) ==
    CASE cap = "machine_process" -> {"machine_pause_process", "machine_resume_process"}
      [] cap = "device"          -> {"device_write"}
      [] cap = "memory"          -> {"memory_save", "memory_delete", "memory_read"}
      [] OTHER                   -> {cap}

(* `if (!cap->enabled) continue;` *)
Offered(caps) == SelectSeq(caps, LAMBDA c : c.enabled)

(* spg_model_capabilities_from_policy, then the filter by kind of           *)
(* decode_capability_slot: the names that fit the buffer, in file order     *)
CapabilityNames(kind) ==
    LET offered == Offered(PolicyCaps)
        fitting == SubSeq(offered, 1, Min({Len(offered), NameBufCap}))
        mine    == SelectSeq(fitting, LAMBDA c : kind \in KindsForCap(c.kind))
    IN [i \in DOMAIN mine |-> mine[i].name]

(* spg_tokens_are_prefix *)
TokensArePrefix(full, pfx) == pfx # <<>> /\ IsPrefix(pfx, full)

(* The comment that a line end inside the reasoning would close *)
ReasonCommentRaw(raw) == <<";", "sp">> \o raw \o <<"nl">>

(* spg_reason_comment: one comment line *)
ReasonComment(raw) ==
    <<";", "sp">> \o [i \in DOMAIN raw |-> IF raw[i] = "nl" THEN "sp" ELSE raw[i]]
        \o <<"nl">>
=============================================================================
