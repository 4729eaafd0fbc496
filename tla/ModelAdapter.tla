---------------------------- MODULE ModelAdapter ----------------------------
(***************************************************************************)
(* The model adapter (src/src/model/model_adapter.c, model_remote.c): one  *)
(* reply of the model per call, from a fake script, from libgeist in this  *)
(* process ("local"), from a geistd daemon behind a socket ("geistd") or   *)
(* from an HTTP endpoint ("remote"); and the parse of that reply, which is *)
(* what the actor does with it next.                                       *)
(*                                                                         *)
(* With a forced prefix the local and the daemon backends write the reply  *)
(* by construction: the decoder emits the fixed text of the form and lets  *)
(* the model fill only the slots (module GrammarMask).  The model is any   *)
(* function: it may choose every piece its slot allows.                    *)
(*                                                                         *)
(* The engine is external.  A session keeps a history of tokens, the KV    *)
(* cache; the daemon's history is prefilled as a whole, so the adapter     *)
(* keeps a shadow of it.  A call of the engine may fail; one that goes     *)
(* through the socket may fail after it took effect.                       *)
(***************************************************************************)
EXTENDS GrammarMask

CONSTANTS
    Configs,       \* the adapters that can be asked for
    Requests,      \* the calls that can be made
    Vocab,         \* the pieces the choice slots look through
    FreePieces,    \* the pieces that make a difference in a free slot
    NumberPieces,  \* the pieces that make a difference in a number slot
    Eos,           \* a token without text: the end of a turn
    ReasonTexts,   \* what the model may say before it decides
    FakeScript,    \* fake_responses
    RemoteReplies, \* contents a server may answer with
    AddBos,        \* the tokenizer asks for a BOS token
    ChoiceSteps,   \* 24
    StringSteps,   \* 64
    NumberSteps,   \* 12
    GdCtx,         \* GD_CTX
    MaxCalls, MaxFaults

ASSUME AdapterAssumption ==
    /\ {ChoiceSteps, StringSteps, NumberSteps, GdCtx} \subseteq Nat \ {0}
    /\ MaxCalls \in Nat /\ MaxFaults \in Nat /\ AddBos \in BOOLEAN

\* What a prompt is tokenised into, and what the engine adds to it.
Tokens == {"bos", "anchor", "g", "l"} \cup
          UNION {ToSet(r.full) \cup ToSet(r.pfx) : r \in Requests}

\* Every request of the agent resets the session (agent_run.c:154).
ASSUME PromptAssumption ==
    \A r \in Requests : r.reset /\ r.full \in Seq(Tokens) /\ r.pfx \in Seq(Tokens)

Codec == INSTANCE RemoteCodec

\* What goes over the wire is text, and an output has room for something
\* (spg_remote_parse_response).
ASSUME RemoteAssumption ==
    /\ RemoteReplies \subseteq Seq(Codec!Chars)
    /\ \A r \in Requests : r.text \in Seq(Codec!Chars) /\ r.cap \in Nat \ {0}

VARIABLES
    ad,      \* struct spg_model_adapter: [kind, cfg, pinned, pinOn, next]
    ses,     \* the session: [hist, dpin] the engine's, [shadow, gpin] ours,
             \* and the faults it has left
    stage,      \* "none", "idle", "prefilled", "decode", "done"
    req,     \* the request of the running or last call
    res,     \* spg_model_generate_result and its status
    dec,     \* the position of the constrained decoder
    said,    \* auxiliary: the text the model put into each slot
    wire,    \* auxiliary: what the endpoint was sent and what it answered
    rec,     \* the parsed reply
    calls

modelVars == <<ad, ses, stage, req, res, dec, said, wire, rec, calls>>

NoAdapter == [kind |-> "none", cfg |-> [kind |-> "none"], pinned |-> <<>>,
              pinOn |-> FALSE, next |-> 1]
NoRequest == [full |-> <<>>]
NoResult  == [out |-> <<>>, trunc |-> FALSE, eos |-> FALSE, lim |-> FALSE, st |-> "ok"]
NoDecode  == [ph |-> "none", segs |-> <<>>, names |-> <<>>, buf |-> <<>>,
              txt |-> <<>>, step |-> 0, kind |-> "none"]
NoWire    == [sent |-> <<>>, content |-> <<>>]
NoReply   == Rejected("empty")
Fresh(faults) ==
    [hist |-> <<>>, dpin |-> 0, shadow |-> <<>>, gpin |-> 0, faults |-> faults]

Upto(s, n) == SubSeq(s, 1, n)

-----------------------------------------------------------------------------
(* The engine layer.  An operation is the set of its outcomes: a session    *)
(* and whether the call succeeded.                                          *)
Ok(s)     == [s |-> s, ok |-> TRUE]
Failed(s) == [s |-> s, ok |-> FALSE]

\* The call succeeds; or it fails, and if it went over the socket the daemon
\* may have carried it out.
Try(kind, s, t) ==
    {Ok(t)} \cup
    (IF s.faults = 0 THEN {}
     ELSE LET one == [s EXCEPT !.faults = @ - 1] IN
          {Failed(one)} \cup
          (IF kind # "geistd" THEN {}
           ELSE {Failed([one EXCEPT !.hist = t.hist, !.dpin = t.dpin])}))

\* One operation after another, as long as they succeed.
Then(outcomes, Op(_)) == UNION {IF o.ok THEN Op(o.s) ELSE {o} : o \in outcomes}

(* eng_prefill_tokens: append; the daemon is sent shadow and tail, keeps    *)
(* what its history has in common with them and refuses to go back behind   *)
(* its pin.                                                                 *)
EngPrefillTokens(kind, s, ids) ==
    LET ctx == s.shadow \o ids IN
    IF kind = "local" THEN Try(kind, s, [s EXCEPT !.hist = @ \o ids])
    ELSE IF Len(ctx) > GdCtx \/ ~IsPrefix(Upto(s.hist, s.dpin), ctx)
         THEN {Failed(s)}
    ELSE Try(kind, s, [s EXCEPT !.hist = ctx, !.shadow = ctx])

(* eng_decode_step: one token of the model, written "g" *)
EngDecodeStep(kind, s) ==
    LET t == [s EXCEPT !.hist = Append(@, "g")] IN
    IF kind = "local" \/ Len(s.shadow) >= GdCtx THEN Try(kind, s, t)
    ELSE Try(kind, s, [t EXCEPT !.shadow = Append(@, "g")])

(* eng_reset with a shadow that is not cut back *)
EngResetKeepsShadow(kind, s) ==
    Try(kind, s, [s EXCEPT !.hist = Upto(@, s.dpin)])

(* eng_reset: both sides go back to the pinned prefix *)
EngReset(kind, s) ==
    Try(kind, s, [s EXCEPT !.hist = Upto(@, s.dpin),
                           !.shadow = IF kind = "local" THEN @ ELSE Upto(@, s.gpin)])

(* eng_set_prompt: BOS first when the tokenizer wants one and nothing is    *)
(* there yet                                                                *)
EngSetPrompt(kind, s, ids) ==
    LET seen == IF kind = "local" THEN s.hist ELSE s.shadow IN
    EngPrefillTokens(kind, s, IF AddBos /\ seen = <<>> THEN <<"bos">> \o ids ELSE ids)

(* eng_pin_prefix *)
EngPinPrefix(kind, s, n) ==
    Try(kind, s, [s EXCEPT !.dpin = n, !.gpin = IF kind = "local" THEN @ ELSE n])

-----------------------------------------------------------------------------
(* geist_prefill *)
PinnedPrefill(a, s, r) ==
    IF ~IsPrefix(a.pinned, r.full) THEN {[o |-> Failed(s), a |-> a]}
    ELSE {[o |-> o, a |-> a] :
             o \in Then(EngReset(a.kind, s),
                        LAMBDA t : EngPrefillTokens(a.kind, t,
                            SubSeq(r.full, Len(a.pinned) + 1, Len(r.full))))}

EstablishPin(a, s, r) ==
    LET filled == Then(EngReset(a.kind, s),
                       LAMBDA t : EngPrefillTokens(a.kind, t, r.full))
        pinned(o) == {[o |-> Ok(p.s),
                       a |-> IF p.ok THEN [a EXCEPT !.pinned = r.pfx]
                             ELSE [a EXCEPT !.pinOn = FALSE]] :
                         p \in EngPinPrefix(a.kind, o.s, Len(r.pfx))}
    IN UNION {IF o.ok THEN pinned(o) ELSE {[o |-> o, a |-> a]} : o \in filled}

FullPrefill(a, s, r) ==
    {[o |-> o, a |-> a] :
        o \in Then(IF r.reset THEN EngReset(a.kind, s) ELSE {Ok(s)},
                   LAMBDA t : EngSetPrompt(a.kind, t, r.full))}

GeistPrefill(a, s, r) ==
    IF a.pinned # <<>> THEN PinnedPrefill(a, s, r)
    ELSE IF a.pinOn /\ TokensArePrefix(r.full, r.pfx) THEN EstablishPin(a, s, r)
    ELSE FullPrefill(a, s, r)

-----------------------------------------------------------------------------
(* o_put: the output takes what fits beside its terminator *)
Fitting(text, cap) == IF Len(text) < cap THEN text ELSE Upto(text, cap - 1)

(* append_bytes *)
AppendBytes(r, text) ==
    LET all == r.out \o text IN
    [r EXCEPT !.out = Fitting(all, req.cap), !.trunc = Len(all) >= req.cap,
              !.st = IF Len(all) >= req.cap THEN "limit" ELSE @]

Return(r) == stage' = "done" /\ res' = r
Goto(d)   == stage' = "decode" /\ dec' = d

-----------------------------------------------------------------------------
ModelInit ==
    /\ ad = NoAdapter /\ ses = Fresh(MaxFaults)
    /\ stage = "none" /\ req = NoRequest /\ res = NoResult /\ dec = NoDecode
    /\ said = <<>> /\ wire = NoWire /\ rec = NoReply /\ calls = 0

Forget ==
    /\ req' = NoRequest /\ res' = NoResult /\ dec' = NoDecode
    /\ said' = <<>> /\ wire' = NoWire /\ rec' = NoReply

(* spg_model_adapter_init, and measure_pmi_baseline when it is asked for:   *)
(* the anchor it prefills stays in the session.  A failure of the           *)
(* measurement is no failure of the initialisation.                         *)
AdapterInit(c) ==
    /\ stage = "none" /\ calls < MaxCalls
    /\ LET s == Fresh(ses.faults) IN
       \E o \in IF c.pmi THEN EngSetPrompt(c.kind, s, <<"anchor">>) ELSE {Ok(s)} :
           ses' = o.s
    /\ ad' = [kind |-> c.kind, cfg |-> c, pinned |-> <<>>, pinOn |-> c.pin, next |-> 1]
    /\ stage' = "idle"
    /\ Forget /\ UNCHANGED calls

(* gd_init, spg_remote_init or the local engine fails: nothing is kept *)
AdapterInitFails(c) ==
    /\ stage = "none" /\ c.kind # "fake" /\ ses.faults > 0
    /\ ses' = [ses EXCEPT !.faults = @ - 1]
    /\ UNCHANGED <<ad, stage, req, res, dec, said, wire, rec, calls>>

(* spg_model_adapter_destroy *)
AdapterDestroy ==
    /\ stage = "idle"
    /\ ad' = NoAdapter /\ ses' = Fresh(ses.faults)
    /\ stage' = "none"
    /\ Forget /\ UNCHANGED calls

(* spg_model_generate up to the backend: an empty budget ends the call *)
Begin(r) ==
    /\ stage = "idle" /\ calls < MaxCalls
    /\ calls' = calls + 1 /\ req' = r
    /\ dec' = NoDecode /\ said' = <<>> /\ rec' = NoReply

GenerateNothing(r) ==
    /\ Begin(r) /\ r.max = 0
    /\ Return([NoResult EXCEPT !.lim = TRUE])
    /\ wire' = NoWire /\ UNCHANGED <<ad, ses>>

(* generate_geist: prefill the prompt *)
GenerateGeist(r) ==
    /\ ad.kind \in {"local", "geistd"} /\ Begin(r) /\ r.max > 0
    /\ \E p \in GeistPrefill(ad, ses, r) :
          /\ ses' = p.o.s /\ ad' = p.a
          /\ IF p.o.ok THEN stage' = "prefilled" /\ res' = NoResult
             ELSE Return([NoResult EXCEPT !.st = "model"])
    /\ wire' = NoWire

(* generate_fake: a gated fake blocks until its marker is in the prompt; a  *)
(* script that is used up ends the turn.                                    *)
GenerateFake(r) ==
    /\ ad.kind = "fake" /\ stage = "idle" /\ r.max > 0
    /\ LET blocked == ad.cfg.gate /\ ~r.marked
           empty   == ad.next > Len(FakeScript)
           reply   == IF blocked THEN <<"(", "blocked", ")">> ELSE FakeScript[ad.next]
       IN /\ Begin(r)
          /\ res' = IF ~blocked /\ empty THEN [NoResult EXCEPT !.eos = TRUE]
                    ELSE IF reply = <<>> THEN [NoResult EXCEPT !.lim = TRUE]
                    ELSE [NoResult EXCEPT !.out = Fitting(reply, r.cap),
                                          !.trunc = Len(reply) >= r.cap,
                                          !.st = IF Len(reply) >= r.cap THEN "limit" ELSE @]
          /\ ad' = [ad EXCEPT !.next = IF blocked \/ empty THEN @ ELSE @ + 1]
          /\ stage' = "done"
    /\ wire' = NoWire /\ UNCHANGED ses

(* spg_remote_parse_response of a body with a content string *)
ParseResponse(json, why, cap) ==
    LET text == Codec!Unescaped(json) IN
    [out |-> Fitting(text, cap), trunc |-> Len(text) >= cap,
     eos |-> why = "stop", lim |-> why = "length",
     st |-> IF Len(text) >= cap THEN "limit" ELSE "ok"]

(* spg_remote_generate: the request carries the escaped prompt, the         *)
(* response the content in some JSON text; a transfer that fails, a status  *)
(* that is not 2xx or a body without content is an error.                   *)
GenerateRemote(r) ==
    /\ ad.kind = "remote" /\ Begin(r) /\ r.max > 0
    /\ \/ \E content \in RemoteReplies, why \in {"stop", "length", "other"} :
          \E json \in Codec!JsonTexts(content) :
             /\ wire' = [sent |-> Codec!Escaped(r.text), content |-> content]
             /\ res' = ParseResponse(json, why, r.cap)
       \/ /\ wire' = NoWire
          /\ \E e \in {"io", "model", "schema"} : res' = [NoResult EXCEPT !.st = e]
    /\ stage' = "done"
    /\ UNCHANGED <<ad, ses>>

-----------------------------------------------------------------------------
(* The constrained decoder.  dec.ph says what comes next: the "opening",    *)
(* a slot that is a "choice" among dec.names, a "string" or a "number", or  *)
(* the next segment ("seg") of dec.segs; "free" is the unconstrained loop.  *)
(* dec.buf is what a choice slot wrote to its caller's buffer, dec.txt the  *)
(* text of the slot so far.                                                 *)
Field == Head(dec.segs).field

At(ph) == stage = "decode" /\ dec.ph = ph

Choose(d, names) == [d EXCEPT !.ph = "choice", !.names = names, !.buf = <<>>,
                              !.txt = <<>>, !.step = 0]
Free(d, how)     == [d EXCEPT !.ph = how, !.step = 0]

(* The session ran into an error: the call returns it *)
EngineError(o) == ~o.ok /\ Return([res EXCEPT !.st = "model"]) /\ UNCHANGED <<dec, said>>

(* emit_literal; the tokens of a literal are written "l" *)
EmitLiteral(text, d) ==
    LET r == AppendBytes(res, text) IN
    /\ \/ r.st # "ok" /\ Return(r) /\ UNCHANGED <<ses, dec>>
       \/ /\ r.st = "ok"
          /\ \E o \in EngPrefillTokens(ad.kind, ses, <<"l">>) :
                /\ ses' = o.s
                /\ IF o.ok THEN Goto(d) /\ res' = r
                   ELSE Return([r EXCEPT !.st = "model"]) /\ UNCHANGED dec
    /\ UNCHANGED said

(* emit_reason_prefix: what the model says first becomes one comment line.  *)
(* The tokens it took are one token of the history here.                    *)
EmitReasonPrefix ==
    /\ stage = "prefilled" /\ ad.cfg.constrained /\ ad.cfg.reason
    /\ \E raw \in ReasonTexts : \E o \in EngDecodeStep(ad.kind, ses) :
          LET r == AppendBytes(res, IF raw = <<>> THEN <<>> ELSE ReasonComment(raw)) IN
          /\ ses' = o.s
          /\ \/ EngineError(o)
             \/ o.ok /\ r.st # "ok" /\ Return(r) /\ UNCHANGED <<dec, said>>
             \/ o.ok /\ r.st = "ok" /\ Goto([dec EXCEPT !.ph = "opening"])
                /\ res' = r /\ UNCHANGED said
    /\ UNCHANGED <<ad, req, wire, rec, calls>>

SkipReason ==
    /\ stage = "prefilled" /\ ad.cfg.constrained /\ ~ad.cfg.reason
    /\ Goto([dec EXCEPT !.ph = "opening"])
    /\ UNCHANGED <<ad, ses, req, res, said, wire, rec, calls>>

(* the forced opening, then the kind slot *)
EmitOpening ==
    /\ At("opening")
    /\ EmitLiteral(Opening, Choose(dec, KindNames))
    /\ UNCHANGED <<ad, req, wire, rec, calls>>

-----------------------------------------------------------------------------
(* decode_choice_slot *)
LivePieces == {p \in Vocab : ChoicePrefixOk(dec.names, dec.buf, p)}
StillOpen == dec.step < ChoiceSteps /\ ~ChoiceComplete(dec.names, dec.buf)

(* One round of the loop: any candidate may have the best logit *)
ChoiceStep ==
    /\ At("choice") /\ StillOpen
    /\ \E p \in LivePieces :
          LET text == SkipSpaces(p)
              r    == AppendBytes(res, text)
          IN \/ r.st # "ok" /\ Return(r) /\ UNCHANGED <<ses, dec, said>>
             \/ /\ r.st = "ok"
                /\ \E o \in EngPrefillTokens(ad.kind, ses, <<"g">>) :
                      /\ ses' = o.s
                      /\ \/ EngineError(o)
                         \/ /\ o.ok /\ res' = r /\ UNCHANGED said
                            /\ Goto([dec EXCEPT !.buf = @ \o text, !.txt = @ \o text,
                                                !.step = @ + 1])
    /\ UNCHANGED <<ad, req, wire, rec, calls>>

(* Force-complete: the rest of the only name the text can still become.     *)
(* The caller's buffer keeps the partial text.                              *)
ForcedRest(names, buf) ==
    LET live == {i \in DOMAIN names : IsPrefix(SkipSpaces(buf), names[i])} IN
    IF ChoiceComplete(names, buf) \/ Cardinality(live) # 1 THEN <<>>
    ELSE LET name == names[CHOOSE i \in live : TRUE]
         IN SubSeq(name, Len(SkipSpaces(buf)) + 1, Len(name))

(* What follows a choice slot: the scaffold of the kind, if the buffer      *)
(* names one; the arguments of the command; the next segment.               *)
AfterChoice(txt) ==
    IF dec.kind = "none"
    THEN IF KindResolves(dec.buf)
         THEN LET k == KindFromText(dec.buf) IN
              /\ Goto([NoDecode EXCEPT !.ph = "seg", !.segs = ScaffoldForKind(k), !.kind = k])
              /\ UNCHANGED said
         ELSE stage' = "done" /\ UNCHANGED <<dec, said>>
    ELSE IF Head(dec.segs).t = "command"
         THEN Goto([Free(dec, "string") EXCEPT !.txt = txt]) /\ UNCHANGED said
         ELSE /\ Goto([dec EXCEPT !.ph = "seg", !.segs = Tail(@)])
              /\ said' = said @@ (Field :> txt)

(* The loop ends: a name is complete, no candidate is left, the steps are   *)
(* used up, or the engine has no logits to show (a fault).                  *)
ChoiceEnd ==
    /\ At("choice")
    /\ \/ ~(StillOpen /\ LivePieces # {}) /\ UNCHANGED ses
       \/ /\ StillOpen /\ ses.faults > 0
          /\ ses' = [ses EXCEPT !.faults = @ - 1]
    /\ LET rest == ForcedRest(dec.names, dec.buf)
           r    == AppendBytes(res, rest)
       IN \/ r.st # "ok" /\ Return(r) /\ UNCHANGED <<dec, said>>
          \/ r.st = "ok" /\ res' = r /\ AfterChoice(dec.txt \o rest)
    /\ UNCHANGED <<ad, req, wire, rec, calls>>

-----------------------------------------------------------------------------
(* strcspn(piece, "\"\n\r") *)
StringStop == {"q", "nl"}

(* What a free slot takes of a piece, and whether the piece ends the slot *)
StringPiece(p) ==
    LET stop == {i \in DOMAIN p : p[i] \in StringStop} IN
    IF stop = {} THEN [text |-> p, ends |-> p = <<>>]
    ELSE [text |-> Upto(p, Min(stop) - 1), ends |-> TRUE]

NumberPiece(p) ==
    LET numeric(i) == \/ p[i] \in DOMAIN Digits
                      \/ p[i] = "-" /\ i = 1 /\ dec.txt = <<>>
        stop == {i \in DOMAIN p : ~numeric(i)}
    IN IF stop = {} THEN [text |-> p, ends |-> p = <<>>]
       ELSE [text |-> Upto(p, Min(stop) - 1), ends |-> TRUE]

(* decode_string_slot and decode_number_slot: one token of the model; a     *)
(* token without text (the end of a turn) ends the slot                     *)
SlotStep(takes, cap) ==
    \E took \in takes : \E o \in EngDecodeStep(ad.kind, ses) :
        LET r   == AppendBytes(res, took.text)
            txt == dec.txt \o took.text
        IN /\ ses' = o.s
           /\ \/ EngineError(o)
              \/ o.ok /\ r.st # "ok" /\ Return(r) /\ UNCHANGED <<dec, said>>
              \/ /\ o.ok /\ r.st = "ok" /\ res' = r
                 /\ IF took.ends \/ dec.step + 1 = cap
                    THEN /\ Goto([dec EXCEPT !.ph = "seg", !.segs = Tail(@), !.txt = <<>>])
                         /\ said' = said @@ (Field :> txt)
                    ELSE /\ Goto([dec EXCEPT !.step = @ + 1, !.txt = txt])
                         /\ UNCHANGED said

DecodeStringSlot ==
    /\ At("string") /\ SlotStep({StringPiece(p) : p \in FreePieces \cup {<<>>}}, StringSteps)
    /\ UNCHANGED <<ad, req, wire, rec, calls>>

DecodeNumberSlot ==
    /\ At("number") /\ SlotStep({NumberPiece(p) : p \in NumberPieces \cup {<<>>}}, NumberSteps)
    /\ UNCHANGED <<ad, req, wire, rec, calls>>

(* The segment loop of generate_geist; decode_capability_slot without a     *)
(* matching capability and decode_command_slot without a menu are free      *)
(* string slots.                                                            *)
Segment ==
    /\ At("seg")
    /\ IF dec.segs = <<>> THEN stage' = "done" /\ UNCHANGED <<ses, res, dec, said>>
       ELSE LET seg   == Head(dec.segs)
                names == IF seg.t = "capability" THEN CapabilityNames(dec.kind)
                         ELSE ad.cfg.menu
                d     == [dec EXCEPT !.txt = <<>>]
            IN \/ seg.t = "literal" /\ EmitLiteral(seg.text, [dec EXCEPT !.segs = Tail(@)])
               \/ /\ seg.t # "literal"
                  /\ Goto(IF seg.t = "number" THEN Free(d, "number")
                          ELSE IF seg.t = "string" \/ names = <<>> THEN Free(d, "string")
                          ELSE Choose(d, names))
                  /\ UNCHANGED <<ses, res, said>>
    /\ UNCHANGED <<ad, req, wire, rec, calls>>

(* The unconstrained loop: max_decode_tokens tokens or the end of the turn *)
FreeStep ==
    /\ stage \in {"prefilled", "decode"} /\ ~ad.cfg.constrained
    /\ \E p \in FreePieces \cup {Eos} : \E o \in EngDecodeStep(ad.kind, ses) :
          LET r    == AppendBytes(res, IF p = Eos THEN <<>> ELSE p)
              last == dec.step + 1 = req.max
          IN /\ ses' = o.s
             /\ \/ EngineError(o)
                \/ o.ok /\ r.st # "ok" /\ Return(r) /\ UNCHANGED <<dec, said>>
                \/ o.ok /\ r.st = "ok" /\ p = Eos
                   /\ Return([r EXCEPT !.eos = TRUE]) /\ UNCHANGED <<dec, said>>
                \/ o.ok /\ r.st = "ok" /\ p # Eos /\ last
                   /\ Return([r EXCEPT !.lim = TRUE]) /\ UNCHANGED <<dec, said>>
                \/ o.ok /\ r.st = "ok" /\ p # Eos /\ ~last
                   /\ Goto([dec EXCEPT !.ph = "free", !.step = @ + 1])
                   /\ res' = r /\ UNCHANGED said
    /\ UNCHANGED <<ad, req, wire, rec, calls>>

(* The caller: a successful reply is parsed (spg_actor_step), a failed call *)
(* leaves none.                                                             *)
ParseReply ==
    /\ stage = "done" /\ stage' = "idle"
    /\ rec' = IF res.st = "ok" THEN Parse(res.out) ELSE NoReply
    /\ UNCHANGED <<ad, ses, req, res, dec, said, wire, calls>>

ModelNext ==
    \/ \E c \in Configs : AdapterInit(c) \/ AdapterInitFails(c)
    \/ AdapterDestroy
    \/ \E r \in Requests : \/ GenerateNothing(r) \/ GenerateGeist(r)
                           \/ GenerateFake(r)    \/ GenerateRemote(r)
    \/ EmitReasonPrefix \/ SkipReason \/ EmitOpening
    \/ ChoiceStep \/ ChoiceEnd \/ DecodeStringSlot \/ DecodeNumberSlot
    \/ Segment \/ FreeStep \/ ParseReply

ModelSpec == ModelInit /\ [][ModelNext]_modelVars

-----------------------------------------------------------------------------
Constrained == ad.kind \in {"local", "geistd"} /\ ad.cfg.constrained
Parsed      == stage = "idle" /\ req # NoRequest /\ req.max > 0

(* The session at the moment decoding starts holds the tokens of this       *)
(* request's prompt and nothing else but a BOS in front: no text of an      *)
(* earlier tick, of the calibration anchor or of a call that failed half    *)
(* way survives, whatever the pin, the shadow and the daemon went through   *)
(* (geist_prefill: "the KV always ends holding exactly the whole prompt's   *)
(* tokens").                                                                *)
KvIsPrompt ==
    stage = "prefilled" =>
        LET h == ses.hist IN
        h = req.full \/ h = <<"bos">> \o req.full

(* What the model may spoil in a slot: a backslash in a string; and a       *)
(* number slot, which ends after NumberSteps tokens of any length, by no    *)
(* number at all or by one that a signed one has no room for.               *)
InRange(val) == NumeralValue(Unsigned(val)) <= IntMax
Clean ==
    /\ \A f \in DOMAIN said : \A i \in DOMAIN said[f] : said[f][i] # "bs"
    /\ "value" \in DOMAIN said => Unsigned(said["value"]) # <<>> /\ InRange(said["value"])

\* The capabilities the policy has switched on for a kind, as far as their
\* names found room.
Usable(kind) ==
    LET on(j) == {i \in 1 .. j : PolicyCaps[i].enabled}
    IN {PolicyCaps[i].name : i \in {j \in DOMAIN PolicyCaps :
            /\ j \in on(j) /\ Cardinality(on(j)) <= NameBufCap
            /\ kind \in KindsForCap(PolicyCaps[j].kind)}}

(* A constrained reply whose kind was spelled out in the slot is accepted   *)
(* by the parser for every kind, unless the model spoiled a slot: the       *)
(* scaffolds mirror required_fields_seen and kind_fields_match.  And an     *)
(* accepted one says what the slots said and nothing else: no text written  *)
(* into one slot, nor the reasoning before the form, can end a string       *)
(* early, become a field or put another form first, and no number is one    *)
(* that only fits by wrapping around.  Its capability is one the policy     *)
(* offers for the kind, or a beginning that several share                   *)
(* (decode_capability_slot).                                                *)
RepliesSayWhatWasDecoded ==
    Parsed /\ Constrained /\ res.st = "ok" =>
        /\ dec.kind # "none" /\ Clean => rec.reason = "none"
        /\ rec.reason = "none" =>
              /\ rec.kind = dec.kind
              /\ \A f \in StringFields \cup {"value"} :
                    /\ f \in DOMAIN rec.fields <=> f \in DOMAIN said
                    /\ f \in DOMAIN said => rec.fields[f] = said[f]
              /\ "value" \in DOMAIN said => InRange(said["value"])
              /\ rec.kind # "finish" /\ Usable(rec.kind) # {} =>
                    LET cap == rec.fields["capability"]
                    IN \/ cap \in Usable(rec.kind)
                       \/ Cardinality({n \in Usable(rec.kind) : IsPrefix(cap, n)}) > 1

(* The endpoint receives the prompt and the caller gets the content as they *)
(* are: the escaped prompt is the JSON text of the prompt, and the reply is *)
(* the content, cut at the capacity of the output and then marked so        *)
(* (spg_remote_build_request, spg_remote_parse_response).                   *)
RemoteVerbatim ==
    stage = "done" /\ ad.kind = "remote" /\ wire # NoWire =>
        /\ Codec!IsJsonOf(wire.sent, req.text)
        /\ IF res.trunc THEN IsStrictPrefix(res.out, wire.content) /\ res.st = "limit"
           ELSE res.out = wire.content

(* What grammar_mask.h says of the scaffold ("Emitting the literals with    *)
(* the model filling the string slots yields a schema-valid form by         *)
(* construction"): a constrained call that succeeds yields an accepted      *)
(* reply.                                                                   *)
ValidByConstruction ==
    Parsed /\ Constrained /\ res.st = "ok" => rec.reason = "none"
=============================================================================
