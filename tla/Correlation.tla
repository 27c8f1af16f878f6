---------------------------- MODULE Correlation ----------------------------
(***************************************************************************)
(* CorrelationEngine.correlate: which of some provider records an event    *)
(* belongs to.  A record is given by the keys it shares with the event:    *)
(* those both have a value for, and the same one.  Its id is its place in  *)
(* the list.  Scores are in tenths; in the order the code adds the weights *)
(* the sums of floats compare with 0.4 and 0.7 and with each other as the  *)
(* sums of tenths do.                                                      *)
(***************************************************************************)
EXTENDS Integers, Sequences, FiniteSetsExt

ExactKeys == {"provider_request_id", "tool_call_id", "turn_id"}

Weight == [session_id |-> 3, turn_id |-> 3, model |-> 1, request_hash |-> 4,
           payload_hash |-> 3]

Keys == ExactKeys \cup DOMAIN Weight

Composite == 7
Heuristic == 4

Exact(record) == record \cap ExactKeys # {}

(* What a key adds to the score.                                           *)
Points(record, k) == IF k \in record THEN Weight[k] ELSE 0

Score(record) ==
    Points(record, "session_id") + Points(record, "turn_id") +
    Points(record, "model") + Points(record, "request_hash") +
    Points(record, "payload_hash")

(* The records whose score is enough.                                      *)
Scored(records) == {n \in DOMAIN records : Score(records[n]) >= Heuristic}

(* Mutation: the scored records are not sorted.                            *)
Unsorted(records) == Min(Scored(records))

(* sort is stable: of the best ones the first that is listed.              *)
Best(records) ==
    CHOOSE n \in Scored(records) :
        \A m \in Scored(records) :
            \/ Score(records[n]) > Score(records[m])
            \/ Score(records[n]) = Score(records[m]) /\ n <= m

(* At most the three after the best are looked at.                         *)
Alternatives(records) ==
    LET n    == Best(records)
        ties == {m \in Scored(records) \ {n} : Score(records[m]) = Score(records[n])}
    IN {m \in ties : Cardinality({k \in ties : k <= m}) <= 3}

Result(n, quality, confidence, alternatives) ==
    [id |-> n, quality |-> quality, confidence |-> confidence,
     alternatives |-> alternatives]

Correlate(records) ==
    LET exact == {n \in DOMAIN records : Exact(records[n])}
        best  == Best(records)
        score == Score(records[best])
    IN IF exact # {} THEN Result(Min(exact), "exact", 10, {})
       ELSE IF Scored(records) = {} THEN Result(0, "unmatched", 0, {})
       ELSE Result(best, IF score >= Composite THEN "composite" ELSE "heuristic",
                   score, Alternatives(records))
=============================================================================
