--------------------------- MODULE Configuration ---------------------------
(***************************************************************************)
(* load_config and validate_config (config/schema.py): a file and the      *)
(* overrides are merged, the result is merged into DEFAULTS, then checked. *)
(* One field is followed of each section that the checks read, and mode,   *)
(* which is in none.  For a field, a layer (the file, the overrides, what  *)
(* they are merged to) has                                                 *)
(*   "unset"           it says nothing about the field's section           *)
(*   "empty"           the section is a mapping without the field          *)
(*   "null", "scalar"  the section is null, or something else that is no   *)
(*                     mapping                                             *)
(*   a value           in a file that may have been typed by hand: "text"  *)
(*                     stands for a value that is true and no boolean      *)
(***************************************************************************)
EXTENDS Integers

Sections == {"recording", "model_calls", "promotion", "optimization", "hooks"}
Fields   == Sections \cup {"mode"}

Unset == [f \in Fields |-> "unset"]

(* content_mode, enabled, automatic, code_candidates, overflow_policy.     *)
DEFAULTS ==
    [mode |-> "observe", recording |-> "metadata_only", model_calls |-> "false",
     promotion |-> "false", optimization |-> "false", hooks |-> "drop_newest"]

Modes    == {"observe", "prepare", "propose", "sandbox", "shadow", "canary"}
Contents == {"metadata_only", "redacted_content", "full_content"}
Overflow == {"drop_newest", "drop_oldest", "block", "bounded_block"}

NoMapping == {"null", "scalar"}

(* Mutation: a section replaces the section.                               *)
MergeShallow(base, layer) ==
    [f \in Fields |-> IF layer[f] = "unset" THEN base[f] ELSE layer[f]]

(* _deep_merge.                                                            *)
Merge(base, layer) ==
    [f \in Fields |->
        IF layer[f] = "unset" THEN base[f]
        ELSE IF layer[f] = "empty" /\ base[f] \notin NoMapping \cup {"unset"}
             THEN base[f]
        ELSE layer[f]]

(* The checks, in order.  A section that is no mapping has no get(), but a *)
(* model_calls that is null counts as an empty one.                        *)
Check(d) ==
    IF d.mode \notin Modes THEN "refused"
    ELSE IF d.recording \in NoMapping THEN "crash"
    ELSE IF d.recording \notin Contents THEN "refused"
    ELSE IF d.model_calls = "scalar" THEN "crash"
    ELSE IF d.model_calls = "text" THEN "refused"
    ELSE IF d.promotion \in NoMapping THEN "crash"
    ELSE IF d.promotion = "true" THEN "refused"
    ELSE IF d.optimization \in NoMapping THEN "crash"
    ELSE IF d.optimization = "true" /\ d.mode = "observe" THEN "refused"
    ELSE IF d.hooks \in NoMapping THEN "crash"
    ELSE IF d.hooks \notin Overflow THEN "refused"
    ELSE "ok"

(* What is kept: "block" is an alias, and an `enabled` that is not true    *)
(* becomes false.                                                          *)
Normal(d) ==
    [d EXCEPT !.hooks = IF @ = "block" THEN "bounded_block" ELSE @,
              !.model_calls = IF @ \in {"true", "null"} THEN @ ELSE "false"]

ValidateConfig(raw) ==
    LET data == Merge(DEFAULTS, raw)
    IN [outcome |-> Check(data), data |-> Normal(data)]

(* What there is to read: a mapping, no file at all, which counts as an    *)
(* empty one, or a file of something else.                                 *)
LoadConfig(read, file, overrides) ==
    CASE read = "mapping"    -> ValidateConfig(Merge(file, overrides))
      [] read = "missing"    -> ValidateConfig(Merge(Unset, overrides))
      [] read = "not_json"   -> [outcome |-> "crash"]
      [] read = "no_mapping" -> [outcome |-> "refused"]
=============================================================================
