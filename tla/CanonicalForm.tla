--------------------------- MODULE CanonicalForm ---------------------------
(***************************************************************************)
(* canonicalize (canonical.py): what is hashed of a Python value, which    *)
(* may share parts or contain itself.  A value is a graph of objects:      *)
(*   kids[n]     what object n holds, a sequence of [text, to]: str() of   *)
(*               the key, or the index in a list, and the object there     *)
(*   containers  the dicts, lists and tuples, whose id() is kept while     *)
(*               they are walked; other mappings, and the dicts made of an *)
(*               object's public fields, are walked without                *)
(*   wrappers    enums and objects with fields, replaced by what they hold *)
(* The walk begins at object 1.  Objects without kids are all different.   *)
(* Sets, whose items are sorted, and the limit on bytes are left out.      *)
(***************************************************************************)
EXTENDS Integers, Sequences, SequencesExt

CONSTANTS
    MaxDepth,  \* _MAX_DEPTH
    MaxItems   \* _MAX_ITEMS

ASSUME LimitAssumption == MaxDepth \in Nat /\ MaxItems \in Nat

(* A value: every object holds objects, a wrapper one.                     *)
WellFormed(g) ==
    /\ g = [kids |-> g.kids, containers |-> g.containers, wrappers |-> g.wrappers]
    /\ g.kids \in [DOMAIN g.kids -> Seq([text : STRING, to : DOMAIN g.kids])]
    /\ 1 \in DOMAIN g.kids
    /\ \A n \in g.wrappers : n \in DOMAIN g.kids /\ Len(g.kids[n]) = 1

Failed == [failed |-> TRUE]

Texts(entries) == {entries[e].text : e \in DOMAIN entries}

(* Of entries whose keys have one text the last: the sort of the items is  *)
(* stable, and a dict is filled in their order.                            *)
Entry(entries, text) == Max({e \in DOMAIN entries : entries[e].text = text})

(* Mutation: _seen is not discarded, so an object met before counts as one *)
(* that is on the path.                                                    *)
SeenBefore(g, n, e, seen) ==
    seen \cup (g.containers \cap ({n} \cup {g.kids[n][d].to : d \in 1 .. e - 1}))

(* _seen while the e-th of the kids is walked.                             *)
Seen(g, n, e, seen) == seen \cup (g.containers \cap {n})

(* What the calls on the objects answer, walked with these containers on   *)
(* the path, when the calls one level below answer as given.               *)
Answers(g, below) ==
    [n \in DOMAIN g.kids |-> [seen \in SUBSET g.containers |->
        LET entries == g.kids[n]
            sub     == [e \in DOMAIN entries |->
                            below[entries[e].to][Seen(g, n, e, seen)]]
        IN IF n \in seen \/ \E e \in DOMAIN entries : sub[e] = Failed THEN Failed
           ELSE IF n \in g.wrappers THEN sub[1]
           ELSE [failed |-> FALSE, of |-> IF entries = <<>> THEN n ELSE 0,
                 parts  |-> [t \in Texts(entries) |-> sub[Entry(entries, t)]]]]]

(* Past the last depth every call fails; left is MaxDepth + 1 - _depth.    *)
Form(g) ==
    LET form[left \in 0 .. MaxDepth + 1] ==
            IF left = 0
            THEN [n \in DOMAIN g.kids |-> [seen \in SUBSET g.containers |-> Failed]]
            ELSE Answers(g, form[left - 1])
    IN form[MaxDepth + 1][1][{}]

Total(s) ==
    LET sum[e \in 0 .. Len(s)] == IF e = 0 THEN 0 ELSE sum[e - 1] + s[e]
    IN sum[Len(s)]

(* The calls that count: the one on each object, and those it makes.       *)
Calls(g, below) ==
    [n \in DOMAIN g.kids |->
        1 + Total([e \in DOMAIN g.kids[n] |-> below[g.kids[n][e].to]])]

(* _items: the calls of canonicalize down to the last depth, a shared      *)
(* object once for each way to it.                                         *)
Items(g) ==
    LET items[left \in 0 .. MaxDepth + 1] ==
            IF left = 0 THEN [n \in DOMAIN g.kids |-> 0]
            ELSE Calls(g, items[left - 1])
    IN items[MaxDepth + 1][1]

Canonicalize(g) ==
    LET form == Form(g)
    IN IF form # Failed /\ Items(g) > MaxItems THEN Failed ELSE form
=============================================================================
