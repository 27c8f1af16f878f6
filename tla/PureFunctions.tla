--------------------------- MODULE PureFunctions ---------------------------
(***************************************************************************)
(* The functions of the program that keep no state, asked one question a   *)
(* behaviour: nondominated_sort, whose loops are the steps of Selection,   *)
(* correlate, canonicalize, load_config and validate_candidate, which      *)
(* answer in one step.                                                     *)
(***************************************************************************)
EXTENDS Selection, Correlation, CanonicalForm, Configuration, CandidateValidation

CONSTANTS
    Listings,   \* lists of records to correlate an event with
    Graphs,     \* values to canonicalize
    Layers,     \* [read, file, overrides] to load
    Candidates  \* [raw, parent] to validate

(* A listing is a list of records, each the keys it shares with the event; *)
(* a layer is read in one of four ways; a candidate is a mapping with these*)
(* fields, whatever their values.                                          *)
ASSUME ListingAssumption == \A list \in Listings : list \in Seq(SUBSET Keys)
ASSUME LayerAssumption ==
    \A l \in Layers : l.read \in {"mapping", "missing", "not_json", "no_mapping"}
ASSUME CandidateAssumption ==
    \A c \in Candidates :
        DOMAIN c.raw = {"target", "hypothesis", "format", "path", "patch", "parent"}

ASSUME GraphAssumption == \A g \in Graphs : WellFormed(g)

VARIABLES
    question,   \* [about, of]
    answer      \* the result, once there is one

NoAnswer == [about |-> "nothing"]
Sorting  == [about |-> "sorting"]

Ask(about, inputs) == question \in {[about |-> about, of |-> x] : x \in inputs}

AskInit ==
    /\ answer = NoAnswer
    /\ \/ Init /\ question = Sorting
       \/ /\ Ask("correlation", Listings) \/ Ask("canonical", Graphs)
             \/ Ask("configuration", Layers) \/ Ask("candidate", Candidates)
          /\ Init /\ rows = <<>>

Answer(about, result) ==
    /\ answer = NoAnswer
    /\ answer' = [about |-> about, result |-> result]
    /\ UNCHANGED <<vars, question>>

Asked(about) == question.about = about

AnswerCorrelate ==
    Asked("correlation") /\ Answer("correlation", Correlate(question.of))

AnswerCanonicalize ==
    Asked("canonical") /\ Answer("canonical", Canonicalize(question.of))

AnswerLoad ==
    /\ Asked("configuration")
    /\ Answer("configuration",
              LoadConfig(question.of.read, question.of.file, question.of.overrides))

AnswerValidate ==
    /\ Asked("candidate")
    /\ Answer("candidate", ValidateCandidate(question.of.raw, question.of.parent))

AskNext ==
    \/ Next /\ UNCHANGED <<question, answer>>
    \/ AnswerCorrelate \/ AnswerCanonicalize \/ AnswerLoad \/ AnswerValidate

AskSpec == AskInit /\ [][AskNext]_<<vars, question, answer>>

-----------------------------------------------------------------------------
Answered(about) == answer.about = about

Swapped(list, e) == [list EXCEPT ![e] = list[e + 1], ![e + 1] = list[e]]

(* Quality and confidence of a correlation do not depend on the order the  *)
(* provider lists its records in, and where the record chosen does, both   *)
(* are named: the one as result, the other among its alternatives (unless  *)
(* more than four are as good, of which the code names four).  Only an     *)
(* exact match keeps quiet about a second one (engine.py:37-68).           *)
CorrelationStable ==
    Answered("correlation") =>
        \A e \in 1 .. Len(question.of) - 1 :
            LET here  == answer.result
                there == Correlate(Swapped(question.of, e))
                moved == IF there.id = e THEN e + 1
                         ELSE IF there.id = e + 1 THEN e ELSE there.id
            IN /\ there.quality = here.quality
               /\ there.confidence = here.confidence
               /\ Cardinality(there.alternatives) = Cardinality(here.alternatives)
               /\ \/ here.quality = "exact" \/ moved = here.id
                  \/ moved \in here.alternatives

(* The ways down from an object: each a list of steps, an object and one   *)
(* of the places in it.                                                    *)
Steps(g) == UNION {{n} \X DOMAIN g.kids[n] : n \in DOMAIN g.kids}

To(g, step) == g.kids[step[1]][step[2]].to

Ways(g, from, depths) ==
    {way \in UNION {[1 .. k -> Steps(g)] : k \in depths} :
        \A d \in DOMAIN way :
            way[d][1] = IF d = 1 THEN from ELSE To(g, way[d - 1])}

(* Value g with the entries of object n in another order.                  *)
Orders(g, n) == Bijection(DOMAIN g.kids[n], DOMAIN g.kids[n])

Reordered(g, n, order) ==
    [g EXCEPT !.kids[n] = [e \in DOMAIN @ |-> @[order[e]]]]

(* canonicalize refuses a value exactly when it is too deep or has too     *)
(* many parts, a part that is shared counting once for each way to it: a   *)
(* cycle is too deep, and a part that is shared is no cycle.  And the      *)
(* hash of what it takes does not depend on the order of a dict's entries, *)
(* unless two keys have one text (canonical.py:34-124).                    *)
CanonicalTotal ==
    Answered("canonical") =>
        LET g == question.of
        IN /\ answer.result = Failed <=>
                  \/ Ways(g, 1, {MaxDepth + 1}) # {}
                  \/ Cardinality(Ways(g, 1, 0 .. MaxDepth)) > MaxItems
           /\ \A n \in DOMAIN g.kids :
                  Cardinality(Texts(g.kids[n])) = Len(g.kids[n]) =>
                      \A order \in Orders(g, n) :
                          Canonicalize(Reordered(g, n, order)) = answer.result

Says(layer, f) == layer[f] \notin {"unset", "empty"} \cup NoMapping

Canon(f, value) ==
    CASE f = "hooks" /\ value = "block" -> "bounded_block"
      [] f = "model_calls" /\ value # "true" -> "false"
      [] OTHER -> value

(* A configuration that is accepted has in each field what the overrides   *)
(* say, or the file if they do not, or the default: a section one layer    *)
(* leaves empty hides nothing of the layers below, and one that is null    *)
(* passes nowhere but in model_calls, where it means no calls.  Model      *)
(* calls are on only by a literal true, and no promotion is automatic by   *)
(* one ("fail-closed", schema.py:1).                                       *)
ConfigFailClosed ==
    Answered("configuration") /\ answer.result.outcome = "ok" =>
        LET over == question.of.overrides
            file == IF question.of.read = "missing" THEN Unset ELSE question.of.file
            data == answer.result.data
            Null(f) == \/ over[f] \in NoMapping
                       \/ over[f] = "unset" /\ file[f] \in NoMapping
            Said(f) == IF Says(over, f) THEN over[f]
                       ELSE IF Says(file, f) THEN file[f] ELSE DEFAULTS[f]
        IN /\ \A f \in Fields :
                  IF Null(f) THEN f = "model_calls" /\ data[f] = "null"
                  ELSE data[f] = Canon(f, Said(f))
           /\ data.promotion # "true"
           /\ ~(data.optimization = "true" /\ data.mode = "observe")

(* A candidate that was accepted is accepted again when what came out of   *)
(* the validation is validated (candidate import of a stored file, cli.py: *)
(* 364-384), with the same body and so the same hash.                      *)
Revalidates ==
    Answered("candidate") /\ answer.result.code = "ok" =>
        ValidateCandidate(answer.result.body, question.of.parent) = answer.result
=============================================================================
