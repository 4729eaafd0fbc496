--------------------------- MODULE MCModelAdapter ---------------------------
EXTENDS ModelAdapter

MCEos == <<"eos">>

MCPolicyCaps ==
    <<[name |-> <<"cap", "a">>, kind |-> "local_shell",     enabled |-> TRUE],
      [name |-> <<"cap", "b">>, kind |-> "local_shell",     enabled |-> TRUE],
      [name |-> <<"mem">>,      kind |-> "memory",          enabled |-> TRUE],
      [name |-> <<"mem2">>,     kind |-> "memory",          enabled |-> FALSE],
      [name |-> <<"probe">>,    kind |-> "ssh_auth_probe",  enabled |-> TRUE],
      [name |-> <<"dev">>,      kind |-> "device",          enabled |-> TRUE],
      [name |-> <<"simcap">>,   kind |-> "simulator",       enabled |-> FALSE],
      [name |-> <<"late">>,     kind |-> "machine_process", enabled |-> TRUE]>>

\* Every name can be spelled, some only in one piece: after "local" there is
\* no piece for the rest, after two blanks no step is left for "memory save".
MCVocab == {<<"sp">>, <<"local", "shell">>, <<"local">>, <<"ssh">>, <<"sim">>,
            <<"memory">>, <<"save">>, <<"delete">>, <<"memory", "read">>,
            <<"sp", "machine">>, <<"pause">>, <<"resume">>, <<"device">>,
            <<"finish">>, <<"cap">>, <<"cap", "a">>, <<"b">>, <<"mem">>,
            <<"mem2">>, <<"probe">>, <<"dev">>, <<"late">>, <<"ls">>}

MCFreePieces   == {<<"n">>, <<"bs">>, <<"n", "bs", "n">>, <<")", "q">>}
\* Two pieces make numbers that fit, that only fit unsigned and that do not fit.
MCNumberPieces == {<<"-">>, <<"d7">>, <<"d7", ")">>, <<"d5000">>}

MCFinishForm == <<"(", "recommend", "sp", "(", "kind", "sp", "finish", ")", "sp",
                  "(", "reason", "sp", "q", "n", "q", ")", ")">>
MCReasonTexts == {<<>>, <<"nl">> \o MCFinishForm}

MCFakeScript == <<MCFinishForm, <<>>, MCFinishForm \o <<"sp", ")">>>>
MCRemoteReplies == {<<>>, <<"astral", "bs">>, <<"q", "nl", "w">>, <<"ctl", "w">>}

Config(kind, constrained) ==
    [kind |-> kind, constrained |-> constrained, menu |-> <<>>, pin |-> FALSE,
     pmi |-> FALSE, reason |-> FALSE, gate |-> FALSE]
MCConfigs ==
    {[Config("local", TRUE) EXCEPT !.menu = <<<<"ls">>>>],
     [Config("local", TRUE) EXCEPT !.reason = TRUE, !.pin = TRUE],
     [Config("geistd", TRUE) EXCEPT !.pin = TRUE],
     [Config("geistd", FALSE) EXCEPT !.pin = TRUE, !.pmi = TRUE],
     Config("geistd", FALSE), Config("local", FALSE),
     [Config("fake", FALSE) EXCEPT !.gate = TRUE], Config("remote", FALSE)}

Request(full, pfx) ==
    [full |-> full, pfx |-> pfx, reset |-> TRUE, max |-> 2, cap |-> 80,
     text |-> <<"q", "bs", "w">>, marked |-> TRUE]
MCRequests ==
    {Request(<<"p", "x">>, <<"p">>), [Request(<<"p", "y">>, <<"p">>) EXCEPT !.cap = 34],
     [Request(<<"r", "z">>, <<"s">>) EXCEPT !.marked = FALSE, !.text = <<"ctl", "nl", "astral">>,
                                         !.cap = 3],
     [Request(<<"p", "x">>, <<"p">>) EXCEPT !.max = 0]}
=============================================================================
