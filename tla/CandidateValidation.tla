------------------------ MODULE CandidateValidation ------------------------
(***************************************************************************)
(* validate_candidate (candidates/validate.py, surfaces.py): the checks in *)
(* their order, and the normalised body that is hashed and stored.  Of the *)
(* texts a candidate is made of the model keeps what the checks look at:   *)
(*   hypothesis  its length, and white space around it that may make it    *)
(*               look long enough                                          *)
(*   a path      the directory of the surface it is in, whether it climbs  *)
(*               ("..", "/", "~") or names approvals or held-out data, and *)
(*               backslashes or spaces in its spelling                     *)
(*   patch       the paths of its headers (parse_diff_paths), its size     *)
(*               against MAX_PATCH_BYTES, a NUL, whether git applies it,   *)
(*               and a secret that redact_text finds, or does not because  *)
(*               the patch is larger than what it looks at                 *)
(* The other fields of the body are copied or get a default.               *)
(***************************************************************************)
Allowed      == {"skill", "executive_policy", "workflow_policy", "retrieval_policy",
                 "memory_policy", "tool_routing_policy", "budget_policy",
                 "reflection_policy", "stopping_policy"}
Experimental == {"python_code_patch", "tool_implementation", "plugin_code"}
Forbidden    == {"hermes_core", "provider_transport", "authentication",
                 "provider_recorder", "purity_registry", "redaction_rules",
                 "evaluator_source", "dataset_manifests", "heldout_datasets",
                 "approval_verification", "promotion_rules",
                 "rollback_implementation", "security_gates", "audit_log"}

Missing == "missing"   \* no such field, or one that is empty
NoPath  == [under |-> "nothing"]
NoPatch == [size |-> "empty"]

Strip(hypothesis) ==
    CASE hypothesis = "padded" -> "long" [] hypothesis = "padded_short" -> "short"
      [] OTHER -> hypothesis

(* Mutation: the length is that of the text before strip().                *)
LongEnoughPadded(hypothesis) == hypothesis \in {"long", "padded", "padded_short"}

LongEnough(hypothesis) == Strip(hypothesis) = "long"

(* _normalize_path, of target_path and of the paths that are checked.      *)
Normalized(path) == IF path = NoPath THEN path ELSE [path EXCEPT !.odd = FALSE]

(* Every allowed surface has a directory of its own (PATH_SCOPES), none of *)
(* them below FORBIDDEN_PATH_PREFIXES.                                     *)
InScope(path, target) ==
    \/ path = NoPath
    \/ /\ ~path.climbs /\ ~path.guarded
       /\ path.under = target

(* The code of the first check that fails, or "ok".                        *)
Code(raw, parent) ==
    IF Missing \in {raw.target, raw.hypothesis} \/ raw.patch = NoPatch THEN "schema"
    ELSE IF raw.format # "unified_diff" THEN "patch_format"
    ELSE IF raw.target \in Forbidden THEN "forbidden_surface"
    ELSE IF raw.target \in Experimental THEN "experimental"
    ELSE IF raw.target \notin Allowed THEN "allowlist"
    ELSE IF ~LongEnough(raw.hypothesis) THEN "hypothesis"
    ELSE IF ~InScope(Normalized(raw.path), raw.target) THEN "path"
    ELSE IF raw.patch.size = "too_large" THEN "patch_size"
    ELSE IF raw.patch.binary THEN "binary"
    ELSE IF raw.patch.paths = {} THEN "patch"
    ELSE IF \E p \in raw.patch.paths : ~InScope(Normalized(p), raw.target) THEN "path"
    ELSE IF ~raw.patch.applies THEN "patch_applicability"
    ELSE IF raw.patch.secret = "scanned" THEN "secret"
    ELSE IF parent # "any" /\ raw.parent # parent THEN "parent"
    ELSE "ok"

(* What is hashed, and comes back as the fields of the candidate.          *)
Body(raw) ==
    [raw EXCEPT !.hypothesis = Strip(@), !.path = Normalized(@)]

ValidateCandidate(raw, parent) == [code |-> Code(raw, parent), body |-> Body(raw)]
=============================================================================
