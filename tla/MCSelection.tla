---------------------------- MODULE MCSelection ----------------------------
(* Instances of PureFunctions for TLC: up to three results with one metric *)
(* of each kind, and the questions for the functions without a loop.       *)
EXTENDS PureFunctions

CONSTANTS absent, success, cost

Successes == {success}
Costs     == {cost}
Small     == {1, 2}

(* One record for each quality, two that tie, and one that matches nothing.*)
Shared == { {}, {"model"}, {"session_id", "payload_hash"}, {"request_hash", "payload_hash"},
            {"request_hash", "payload_hash", "session_id", "model"}, {"turn_id"} }

SomeListings == UNION {[1 .. n -> Shared] : n \in 0 .. 5}

(* Three objects with up to two parts, the third a leaf or a container.    *)
Parts == UNION {[1 .. n -> 1 .. 3] : n \in 0 .. 2}

Entries(parts, texts) == [e \in DOMAIN parts |-> [text |-> texts[e], to |-> parts[e]]]

SomeGraphs ==
    {[kids |-> <<Entries(p, texts), Entries(q, <<"x", "y">>), Entries(r, <<"x", "y">>)>>,
      containers |-> containers \cup {3},
      wrappers |-> {n \in {1, 2} \ containers : Len(<<p, q>>[n]) = 1}] :
        p \in Parts, q \in Parts, r \in Parts, texts \in {<<"x", "y">>, <<"x", "x">>},
        containers \in SUBSET {1, 2}}

(* What a layer may say of a section; the overrides say it of at most one, *)
(* the file of at most two.                                                *)
SaysOf(f) ==
    CASE f = "mode"         -> {"null", "observe", "shadow", "banana"}
      [] f = "recording"    -> {"empty", "null", "full_content", "banana"}
      [] f = "model_calls"  -> {"empty", "null", "scalar", "true", "false", "text"}
      [] f = "promotion"    -> {"empty", "null", "true", "text"}
      [] f = "optimization" -> {"empty", "scalar", "true", "text"}
      [] OTHER              -> {"empty", "null", "drop_oldest", "block", "banana"}

Sayings == UNION {{[f |-> f, says |-> v] : v \in SaysOf(f)} : f \in Fields}

Files     == {[Unset EXCEPT ![s.f] = s.says, ![t.f] = t.says] : s, t \in Sayings}
Overrides == {[Unset EXCEPT ![s.f] = s.says] : s \in Sayings} \cup {Unset}

SomeLayers ==
    [read : {"mapping"}, file : Files \cup {Unset}, overrides : Overrides] \cup
    [read : {"missing", "not_json", "no_mapping"}, file : {Unset}, overrides : Overrides]

(* Every combination of what may be wrong with a candidate.                *)
Paths == {NoPath} \cup
    [under : {"skill", "elsewhere"}, climbs : BOOLEAN, guarded : {FALSE}, odd : BOOLEAN]
    \cup {[under |-> "skill", climbs |-> FALSE, guarded |-> TRUE, odd |-> FALSE]}

InSkill   == [under |-> "skill", climbs |-> FALSE, guarded |-> FALSE, odd |-> TRUE]
Elsewhere == [InSkill EXCEPT !.under = "elsewhere"]

Patches == {NoPatch} \cup
    [paths : {{}, {InSkill}, {InSkill, Elsewhere}}, size : {"fits", "too_large"},
     binary : {FALSE}, applies : BOOLEAN, secret : {"none", "scanned", "unscanned"}]

SomeCandidates ==
    [raw : [target : {"skill", "plugin_code", "audit_log", "theme", Missing},
            hypothesis : {"long", "short", "padded", "padded_short", Missing},
            format : {"unified_diff", "ed"}, path : Paths, patch : Patches,
            parent : {"p", "q"}],
     parent : {"any", "p"}]
=============================================================================
