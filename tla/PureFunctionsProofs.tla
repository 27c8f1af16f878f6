------------------------ MODULE PureFunctionsProofs ------------------------
(***************************************************************************)
(* What the functions that keep no state answer, for every input.          *)
(*                                                                         *)
(* nondominated_sort: no result kept dominates another one, and what is    *)
(* not kept is dominated by what is.  The invariant says what the two      *)
(* loops have found out so far (SortInv): before i the results kept are    *)
(* exactly those that nothing dominates, and of rows[i] it is known whether*)
(* one of the first j - 1 dominates it.                                    *)
(*                                                                         *)
(* The others answer in one step, and what is proved of them is about their*)
(* definitions.  That of canonicalize is recursive: its tables are filled  *)
(* from the last depth upwards, and what holds of every row of them is     *)
(* shown by climbing from one row to the next (Climb, an induction that    *)
(* rests on a finite set having a least element), as is the sum over the   *)
(* objects a value holds.                                                  *)
(***************************************************************************)
EXTENDS PureFunctions, FiniteSetTheorems, SequenceTheorems, TLAPS

(* A metric without a value counts as zero, so every metric has a number.  *)
LEMMA ValueIsNumber ==
    ASSUME NEW a \in Rows, NEW k \in Metrics
    PROVE  Value(a, k) \in Int
<1>1. a[k] \in Values \cup {Absent}
    BY DEF Rows
<1>2. CASE a[k] = Absent
    BY <1>2 DEF Value
<1>3. CASE a[k] # Absent
  <2>1. Value(a, k) = a[k]
    BY <1>3 DEF Value
  <2>2. a[k] \in Values
    BY <1>1, <1>3
  <2> QED
    BY <2>1, <2>2, ValueAssumption
<1> QED
    BY <1>2, <1>3

(* A result does not dominate itself, so the comparison the loop skips     *)
(* (pareto.py:49-50) could not have changed the frontier.                  *)
LEMMA NotItself ==
    ASSUME NEW a \in Rows
    PROVE  ~Dominates(a, a)
    BY ValueIsNumber DEF Dominates, Better, Metrics

(* What dominates a result that dominates c dominates c.                   *)
LEMMA Transitive ==
    ASSUME NEW a \in Rows, NEW b \in Rows, NEW c \in Rows,
           Dominates(a, b), Dominates(b, c)
    PROVE  Dominates(a, c)
<1>1. \A k \in Metrics : /\ Value(a, k) \in Int /\ Value(b, k) \in Int
                         /\ Value(c, k) \in Int
    BY ValueIsNumber
<1>2. AtLeast(a, c)
    BY <1>1 DEF Dominates, AtLeast, Metrics
<1>3. Better(a, c)
    BY <1>1 DEF Dominates, AtLeast, Better, Metrics
<1> QED
    BY <1>2, <1>3 DEF Dominates

(* Appending an index adds it to the set of the results kept.              *)
LEMMA AppendKeeps ==
    ASSUME NEW S, NEW f \in Seq(S), NEW e \in S
    PROVE  Range(Append(f, e)) = Range(f) \cup {e}
<1>1. /\ DOMAIN f = 1 .. Len(f) /\ Len(f) \in Nat
      /\ DOMAIN Append(f, e) = 1 .. Len(f) + 1
      /\ \A n \in 1 .. Len(f) : Append(f, e)[n] = f[n]
      /\ Append(f, e)[Len(f) + 1] = e
    OBVIOUS
<1>2. Range(Append(f, e)) \subseteq Range(f) \cup {e}
    BY <1>1 DEF Range
<1>3. Range(f) \subseteq Range(Append(f, e))
    BY <1>1 DEF Range
<1>4. e \in Range(Append(f, e))
    BY <1>1 DEF Range
<1>5. QED
    BY <1>2, <1>3, <1>4

-----------------------------------------------------------------------------
(* Types: the loop variables stay within one of the list, and the frontier *)
(* holds indices of the list.                                              *)
THEOREM TypeCorrect == Spec => []TypeOK
<1>1. Init => TypeOK
  <2>1. SUFFICES ASSUME Init PROVE TypeOK
    OBVIOUS
  <2>2. PICK n \in 0 .. MaxRows : rows \in [1 .. n -> Rows]
    BY <2>1 DEF Init
  <2>3. rows \in Seq(Rows) /\ Len(rows) = n
    BY <2>2, RowAssumption
  <2>4. /\ i = 1 /\ j = 1 /\ dominated = FALSE /\ frontier = <<>>
        /\ Len(rows) \in Nat
    BY <2>1, <2>3 DEF Init
  <2>5. <<>> \in Seq(1 .. Len(rows))
    OBVIOUS
  <2>6. i \in 1 .. Len(rows) + 1 /\ j \in 1 .. Len(rows) + 1
    BY <2>4
  <2>7. dominated \in BOOLEAN /\ frontier \in Seq(1 .. Len(rows))
    BY <2>4, <2>5, Zenon
  <2>8. QED
    BY <2>3, <2>6, <2>7 DEF TypeOK
<1>2. TypeOK /\ [Next]_vars => TypeOK'
  <2>1. SUFFICES ASSUME TypeOK, [Next]_vars PROVE TypeOK'
    OBVIOUS
  <2>2. Len(rows) \in Nat
    BY <2>1 DEF TypeOK
  <2>3. CASE SkipSelf
    BY <2>1, <2>2, <2>3 DEF TypeOK, SkipSelf, Inner
  <2>4. CASE Compare
    BY <2>1, <2>2, <2>4 DEF TypeOK, Compare, Inner, Dominates, AtLeast, Better
  <2>5. CASE EndInner
    <3>1. rows' = rows /\ i \in 1 .. Len(rows)
      BY <2>1, <2>2, <2>5 DEF TypeOK, EndInner
    <3>2. frontier' \in Seq(1 .. Len(rows))
      <4>1. Append(frontier, i) \in Seq(1 .. Len(rows))
        BY <2>1, <3>1 DEF TypeOK
      <4>2. QED
        BY <2>1, <2>5, <4>1 DEF TypeOK, EndInner
    <3>3. i' \in 1 .. Len(rows) + 1 /\ j' \in 1 .. Len(rows) + 1
      BY <2>2, <2>5, <3>1 DEF EndInner
    <3>4. dominated' \in BOOLEAN
      BY <2>5, Zenon DEF EndInner
    <3>5. QED
      BY <2>1, <3>1, <3>2, <3>3, <3>4 DEF TypeOK
  <2>6. CASE UNCHANGED vars
    BY <2>1, <2>6 DEF TypeOK, vars
  <2>7. QED
    BY <2>1, <2>3, <2>4, <2>5, <2>6 DEF Next, Finished
<1>3. QED
    BY <1>1, <1>2, PTL DEF Spec

-----------------------------------------------------------------------------
(* What the loops know holds at the start: nothing has been compared.      *)
LEMMA SortInit ==
    ASSUME TypeOK, Init
    PROVE  SortInv
<1>1. frontier = <<>> /\ i = 1 /\ j = 1 /\ dominated = FALSE
    BY DEF Init
<1>2. Kept = {}
    BY <1>1 DEF Kept, Range
<1>3. QED
    BY <1>1, <1>2 DEF SortInv, DominatedBy

(* And every turn of the loops keeps it.                                   *)
LEMMA SortNext ==
    ASSUME TypeOK, SortInv, [Next]_vars
    PROVE  SortInv'
<1>1. /\ Len(rows) \in Nat /\ DOMAIN rows = 1 .. Len(rows)
      /\ i \in Int /\ j \in Int /\ i >= 1 /\ j >= 1
      /\ i <= Len(rows) + 1 /\ j <= Len(rows) + 1
    BY DEF TypeOK
<1>2. CASE SkipSelf
  <2>1. UNCHANGED <<rows, i, dominated, frontier>> /\ j' = j + 1 /\ j = i
    BY <1>2 DEF SkipSelf
  <2>2. ~dominated => ~DominatedBy(i, 1 .. j - 1)
    BY DEF SortInv
  <2>3. ~dominated => ~DominatedBy(i, 1 .. j)
    BY <1>1, <2>1, <2>2 DEF DominatedBy
  <2>4. QED
    BY <1>1, <2>1, <2>3 DEF SortInv, Kept, DominatedBy
<1>3. CASE Compare
  <2>1. /\ UNCHANGED <<rows, i, frontier>> /\ j' = j + 1
        /\ j # i /\ i <= Len(rows) /\ j <= Len(rows) /\ ~dominated
        /\ dominated' = Dominates(rows[j], rows[i])
    BY <1>3 DEF Compare, Inner
  <2>2. ~DominatedBy(i, 1 .. j - 1)
    BY <2>1 DEF SortInv
  <2>3. dominated' => DominatedBy(i, DOMAIN rows)
    <3>1. SUFFICES ASSUME Dominates(rows[j], rows[i])
                   PROVE  DominatedBy(i, DOMAIN rows)
      BY <2>1
    <3>2. j \in DOMAIN rows
      BY <1>1, <2>1
    <3>3. QED
      BY <2>1, <3>1, <3>2 DEF DominatedBy
  <2>4. ~dominated' => ~DominatedBy(i, 1 .. j)
    BY <1>1, <2>1, <2>2 DEF DominatedBy
  <2>5. QED
    BY <1>1, <2>1, <2>3, <2>4 DEF SortInv, Kept, DominatedBy
<1>4. CASE EndInner
  <2>1. /\ rows' = rows /\ i' = i + 1 /\ j' = 1 /\ dominated' = FALSE
        /\ i <= Len(rows) /\ (j > Len(rows) \/ dominated)
        /\ frontier' = IF dominated THEN frontier ELSE Append(frontier, i)
    BY <1>4 DEF EndInner
  <2>2. dominated <=> DominatedBy(i, DOMAIN rows)
    <3>1. ASSUME ~dominated PROVE 1 .. j - 1 = DOMAIN rows
      BY <1>1, <2>1, <3>1
    <3>2. QED
      BY <3>1 DEF SortInv, TypeOK
  <2>3. Kept' = IF dominated THEN Kept ELSE Kept \cup {i}
    <3>1. CASE dominated
      BY <2>1, <3>1 DEF Kept
    <3>2. CASE ~dominated
      <4>1. frontier \in Seq(1 .. Len(rows)) /\ i \in 1 .. Len(rows)
        BY <1>1, <2>1 DEF TypeOK
      <4>2. frontier' = Append(frontier, i)
        BY <2>1, <3>2
      <4>3. QED
        BY <3>2, <4>1, <4>2, AppendKeeps DEF Kept
    <3>3. QED
      BY <3>1, <3>2
  <2>4. Kept = {m \in 1 .. i - 1 : ~DominatedBy(m, DOMAIN rows)}
    BY DEF SortInv
  <2>5. Kept' = {m \in 1 .. i' - 1 : ~DominatedBy(m, DOMAIN rows)}
    <3>1. 1 .. i' - 1 = (1 .. i - 1) \cup {i} /\ i \notin 1 .. i - 1
      BY <1>1, <2>1
    <3>2. QED
      BY <2>2, <2>3, <2>4, <3>1
  <2>6. \A m : DominatedBy(m, DOMAIN rows)' <=> DominatedBy(m, DOMAIN rows)
    BY <2>1 DEF DominatedBy
  <2>7. ~DominatedBy(i, 1 .. j - 1)'
    BY <2>1 DEF DominatedBy
  <2>8. QED
    BY <2>1, <2>5, <2>7 DEF SortInv, DominatedBy
<1>5. CASE UNCHANGED vars
    BY <1>5 DEF SortInv, Kept, DominatedBy, vars
<1>6. QED
    BY <1>2, <1>3, <1>4, <1>5 DEF Next, Finished

(* The loop invariant holds in every state.                                *)
THEOREM SortCorrect == Spec => []SortInv
<1>1. Init /\ TypeOK => SortInv
    BY SortInit
<1>2. TypeOK /\ SortInv /\ [Next]_vars => SortInv'
    BY SortNext
<1>3. QED
    BY <1>1, <1>2, TypeCorrect, PTL DEF Spec

(* No result of the frontier dominates another one, or itself.             *)
THEOREM MutualCorrect == Spec => []FrontierMutual
<1>1. TypeOK /\ SortInv => FrontierMutual
  <2>1. SUFFICES ASSUME TypeOK, SortInv, Done,
                        NEW m \in Kept, NEW n \in Kept
                 PROVE  ~Dominates(rows[m], rows[n])
    BY DEF FrontierMutual
  <2>2. m \in DOMAIN rows /\ n \in DOMAIN rows
    BY <2>1 DEF TypeOK, Kept, Range
  <2>3. ~DominatedBy(n, DOMAIN rows)
    BY <2>1 DEF SortInv
  <2>4. CASE m = n
    BY <2>1, <2>2, <2>4, NotItself DEF TypeOK
  <2>5. CASE m # n
    BY <2>2, <2>3, <2>5 DEF DominatedBy
  <2>6. QED
    BY <2>4, <2>5
<1>2. QED
    BY <1>1, TypeCorrect, SortCorrect, PTL

-----------------------------------------------------------------------------
(* Going from an element to a smaller one ends in a finite set, for what   *)
(* is below the one is fewer than what is below the other.                 *)
LEMMA HasMinimal ==
    ASSUME NEW D, IsFiniteSet(D), NEW R,
           \A x \in D : <<x, x>> \notin R,
           \A x, y, z \in D : <<x, y>> \in R /\ <<y, z>> \in R => <<x, z>> \in R,
           D # {}
    PROVE  \E x \in D : \A y \in D : <<y, x>> \notin R
<1> DEFINE B(n) == {k \in D : <<k, n>> \in R}
           T    == {B(n) : n \in D}
<1>1. \A n \in D : \A k \in B(n) : k \in D /\ B(k) \subseteq B(n) /\ k \notin B(k)
    OBVIOUS
<1>3. \A n \in D : B(n) \in T /\ B(n) \in SUBSET D
    OBVIOUS
<1>4. \A S \in T : \E n \in D : S = B(n)
    OBVIOUS
<1> HIDE DEF T
<1>2. T \subseteq SUBSET D
  <2> SUFFICES ASSUME NEW S \in T PROVE S \in SUBSET D
    OBVIOUS
  <2>1. PICK n \in D : S = B(n)
    BY <1>4
  <2> QED
    BY <1>3, <2>1
<1>5. IsWellFoundedOn(StrictSubsetOrdering(D), SUBSET D)
  <2>1. IsWellFoundedOn(StrictSubsetOrdering(D), FiniteSubsetsOf(D))
    BY FS_StrictSubsetOrderingWellFounded
  <2>2. FiniteSubsetsOf(D) = SUBSET D
    BY FS_FiniteSubsetsOfFinite
  <2> QED
    BY <2>1, <2>2
<1>6. PICK S \in T : \A U \in T : ~(<<U, S>> \in StrictSubsetOrdering(D))
  <2>1. PICK x \in D : TRUE
    OBVIOUS
  <2>2. T # {}
    BY <1>3, <2>1
  <2> QED
    BY <1>2, <1>5, <2>2, WFMin
<1>7. PICK n \in D : S = B(n)
    BY <1>4
<1>8. \A k \in D : k \notin B(n)
  <2> SUFFICES ASSUME NEW k \in B(n) PROVE FALSE
    OBVIOUS
  <2>1. k \in D /\ B(k) \subseteq B(n) /\ k \notin B(k)
    BY <1>1
  <2>2. B(k) \in T /\ B(k) # S
    BY <1>3, <1>7, <2>1
  <2>3. <<B(k), S>> \in StrictSubsetOrdering(D)
    BY <1>3, <1>7, <2>1, <2>2 DEF StrictSubsetOrdering
  <2> QED
    BY <1>6, <2>2, <2>3
<1> QED
    BY <1>8

(* A list has finitely many places.                                        *)
LEMMA FinitePlaces ==
    ASSUME NEW S, NEW list \in Seq(S)
    PROVE  IsFiniteSet(DOMAIN list)
<1>1. 1 \in Int /\ Len(list) \in Int /\ DOMAIN list = 1 .. Len(list)
    OBVIOUS
<1>2. IsFiniteSet(1 .. Len(list))
    BY <1>1, FS_Interval, Zenon
<1> QED
    BY <1>1, <1>2

(* Of what dominates a result something is not dominated.                  *)
LEMMA BestDominator ==
    ASSUME NEW list \in Seq(Rows), NEW m \in DOMAIN list,
           \E n \in DOMAIN list : Dominates(list[n], list[m])
    PROVE  \E n \in DOMAIN list :
               /\ Dominates(list[n], list[m])
               /\ \A k \in DOMAIN list : ~Dominates(list[k], list[n])
<1>1. PICK D, R :
          /\ D = {n \in DOMAIN list : Dominates(list[n], list[m])}
          /\ R = {p \in D \X D : Dominates(list[p[1]], list[p[2]])}
    OBVIOUS
<1>2. \A n \in DOMAIN list : list[n] \in Rows
    OBVIOUS
<1>3. \A k, n \in D : <<k, n>> \in R <=> Dominates(list[k], list[n])
    BY <1>1
<1>4. \A x \in D : <<x, x>> \notin R
    BY <1>1, <1>2, <1>3, NotItself
<1>5. \A x, y, z \in D : <<x, y>> \in R /\ <<y, z>> \in R => <<x, z>> \in R
    BY <1>1, <1>2, <1>3, Transitive
<1>6. D \subseteq DOMAIN list /\ D # {}
    BY <1>1
<1>7. IsFiniteSet(D)
    BY <1>6, FinitePlaces, FS_Subset
<1>8. PICK n \in D : \A k \in D : <<k, n>> \notin R
    BY <1>4, <1>5, <1>6, <1>7, HasMinimal
<1>9. n \in DOMAIN list /\ Dominates(list[n], list[m])
    BY <1>1
<1>10. ASSUME NEW k \in DOMAIN list PROVE ~Dominates(list[k], list[n])
  <2> SUFFICES ASSUME Dominates(list[k], list[n]) PROVE FALSE
    OBVIOUS
  <2>1. Dominates(list[k], list[m])
    BY <1>2, <1>9, Transitive
  <2>2. k \in D /\ <<k, n>> \in R
    BY <1>1, <1>3, <2>1
  <2> QED
    BY <1>8, <2>2
<1> QED
    BY <1>9, <1>10

(* What is not on the frontier is dominated by what is: a result is not    *)
(* dropped because of one that is dropped itself (pareto.py:40-57).        *)
THEOREM CoversCorrect == Spec => []FrontierCovers
<1>1. TypeOK /\ SortInv => FrontierCovers
  <2> SUFFICES ASSUME TypeOK, SortInv, Done, NEW m \in DOMAIN rows \ Kept
               PROVE  \E n \in Kept : Dominates(rows[n], rows[m])
    BY DEF FrontierCovers
  <2>1. Kept = {n \in DOMAIN rows : ~DominatedBy(n, DOMAIN rows)}
    <3>1. /\ i \in Int /\ i = Len(rows) + 1 /\ Len(rows) \in Nat
          /\ DOMAIN rows = 1 .. Len(rows)
      BY DEF TypeOK, Done
    <3>2. 1 .. i - 1 = DOMAIN rows
      BY <3>1
    <3> QED
      BY <3>2 DEF SortInv
  <2>2. PICK n \in DOMAIN rows :
            /\ Dominates(rows[n], rows[m])
            /\ \A k \in DOMAIN rows : ~Dominates(rows[k], rows[n])
    <3>1. rows \in Seq(Rows)
      BY DEF TypeOK
    <3>2. \E n \in DOMAIN rows : Dominates(rows[n], rows[m])
      BY <2>1 DEF DominatedBy
    <3> QED
      BY <3>1, <3>2, BestDominator
  <2>3. n \in Kept
    BY <2>1, <2>2 DEF DominatedBy
  <2> QED
    BY <2>2, <2>3
<1> QED
    BY <1>1, TypeCorrect, SortCorrect, PTL
-----------------------------------------------------------------------------
(***************************************************************************)
(* The functions that answer in one step.  The invariant says that an      *)
(* answer is the function's value for the question; the rest is about the  *)
(* functions.                                                              *)
(***************************************************************************)

(* A behaviour of questions is one of nondominated_sort, with an empty list*)
(* when something else is asked: what holds of the sort holds of it.       *)
THEOREM AskSorts == AskSpec => Spec
<1>1. AskInit => Init
    BY DEF AskInit
<1>2. [AskNext]_<<vars, question, answer>> => [Next]_vars
    BY DEF AskNext, AnswerCorrelate, AnswerCanonicalize, AnswerLoad,
           AnswerValidate, Answer
<1> QED
    BY <1>1, <1>2, PTL DEF AskSpec, Spec

QuestionInv ==
    /\ Asked("correlation")   => question.of \in Listings
    /\ Asked("canonical")     => question.of \in Graphs
    /\ Asked("configuration") => question.of \in Layers
    /\ Asked("candidate")     => question.of \in Candidates

AnswerInv ==
    /\ Answered("correlation") =>
           Asked("correlation") /\ answer.result = Correlate(question.of)
    /\ Answered("canonical") =>
           Asked("canonical") /\ answer.result = Canonicalize(question.of)
    /\ Answered("configuration") =>
           /\ Asked("configuration")
           /\ answer.result = LoadConfig(question.of.read, question.of.file,
                                         question.of.overrides)
    /\ Answered("candidate") =>
           /\ Asked("candidate")
           /\ answer.result = ValidateCandidate(question.of.raw, question.of.parent)

(* Every question is answered by the function it is about.                 *)
LEMMA AnswersCorrect == AskSpec => [](QuestionInv /\ AnswerInv)
<1>1. AskInit => QuestionInv /\ AnswerInv
  <2> SUFFICES ASSUME AskInit PROVE QuestionInv /\ AnswerInv
    OBVIOUS
  <2>1. answer.about = "nothing"
    BY DEF AskInit, NoAnswer
  <2>2. \/ question = [about |-> "sorting"]
        \/ \E x \in Listings : question = [about |-> "correlation", of |-> x]
        \/ \E x \in Graphs : question = [about |-> "canonical", of |-> x]
        \/ \E x \in Layers : question = [about |-> "configuration", of |-> x]
        \/ \E x \in Candidates : question = [about |-> "candidate", of |-> x]
    BY DEF AskInit, Ask, Sorting
  <2> QED
    BY <2>1, <2>2 DEF QuestionInv, AnswerInv, Asked, Answered
<1>2. QuestionInv /\ AnswerInv /\ [AskNext]_<<vars, question, answer>>
        => (QuestionInv /\ AnswerInv)'
  <2> SUFFICES ASSUME QuestionInv, AnswerInv, [AskNext]_<<vars, question, answer>>
               PROVE  QuestionInv' /\ AnswerInv'
    OBVIOUS
  <2>1. CASE UNCHANGED <<question, answer>>
    BY <2>1 DEF QuestionInv, AnswerInv, Asked, Answered
  <2>2. CASE AnswerCorrelate
    BY <2>2 DEF AnswerCorrelate, Answer, QuestionInv, AnswerInv, Asked, Answered
  <2>3. CASE AnswerCanonicalize
    BY <2>3 DEF AnswerCanonicalize, Answer, QuestionInv, AnswerInv, Asked, Answered
  <2>4. CASE AnswerLoad
    BY <2>4 DEF AnswerLoad, Answer, QuestionInv, AnswerInv, Asked, Answered
  <2>5. CASE AnswerValidate
    BY <2>5 DEF AnswerValidate, Answer, QuestionInv, AnswerInv, Asked, Answered
  <2> QED
    BY <2>1, <2>2, <2>3, <2>4, <2>5 DEF AskNext
<1> QED
    BY <1>1, <1>2, PTL DEF AskSpec

-----------------------------------------------------------------------------
(* The layers make a field's section no mapping, or say something of it.   *)
NullIn(over, file, f) ==
    over[f] \in NoMapping \/ (over[f] = "unset" /\ file[f] \in NoMapping)

SaidOf(over, file, f) ==
    IF Says(over, f) THEN over[f]
    ELSE IF Says(file, f) THEN file[f] ELSE DEFAULTS[f]

(* What the two merges make of a field: what the overrides say, or the     *)
(* file, or the default, or no mapping at all.                             *)
LEMMA MergedField ==
    ASSUME NEW over, NEW file, NEW f \in Fields,
           NEW merged, merged = Merge(DEFAULTS, Merge(file, over))
    PROVE  IF NullIn(over, file, f) THEN merged[f] \in NoMapping
           ELSE /\ merged[f] = SaidOf(over, file, f)
                /\ merged[f] \notin NoMapping
<1>1. PICK base : base = Merge(file, over)
    OBVIOUS
<1>2. base[f] = IF over[f] = "unset" THEN file[f]
                ELSE IF over[f] = "empty" /\ file[f] \notin NoMapping \cup {"unset"}
                     THEN file[f]
                ELSE over[f]
    BY <1>1 DEF Merge
<1>3. merged[f] = IF base[f] = "unset" THEN DEFAULTS[f]
                  ELSE IF base[f] = "empty" /\ DEFAULTS[f] \notin NoMapping \cup {"unset"}
                       THEN DEFAULTS[f]
                  ELSE base[f]
    BY <1>1 DEF Merge
<1>4. DEFAULTS[f] \notin NoMapping \cup {"unset"}
    BY DEF DEFAULTS, Fields, Sections, NoMapping
<1> QED
    BY <1>2, <1>3, <1>4 DEF Says, NoMapping, NullIn, SaidOf

(* What the checks let pass, and what is kept of it.                       *)
LEMMA CheckedFields ==
    ASSUME NEW d, Check(d) = "ok", d = [f \in Fields |-> d[f]]
    PROVE  LET data == Normal(d)
           IN /\ \A f \in Fields :
                     IF d[f] \in NoMapping
                     THEN f = "model_calls" /\ data[f] = "null"
                     ELSE data[f] = Canon(f, d[f])
              /\ data.promotion # "true"
              /\ ~(data.optimization = "true" /\ data.mode = "observe")
<1>1. /\ d.mode \in Modes /\ d.recording \in Contents
      /\ d.model_calls \notin {"scalar", "text"}
      /\ d.promotion \notin NoMapping \cup {"true"}
      /\ d.optimization \notin NoMapping
      /\ ~(d.optimization = "true" /\ d.mode = "observe")
      /\ d.hooks \in Overflow
    BY DEF Check, NoMapping
<1>2. PICK data : data = Normal(d)
    OBVIOUS
<1>3. /\ data.mode = d.mode /\ data.recording = d.recording
      /\ data.promotion = d.promotion /\ data.optimization = d.optimization
      /\ data.hooks = IF d.hooks = "block" THEN "bounded_block" ELSE d.hooks
      /\ data.model_calls = IF d.model_calls \in {"true", "null"}
                            THEN d.model_calls ELSE "false"
    BY <1>2 DEF Normal, Fields, Sections
<1>4. ASSUME NEW f \in Fields
      PROVE  IF d[f] \in NoMapping THEN f = "model_calls" /\ data[f] = "null"
             ELSE data[f] = Canon(f, d[f])
  <2>1. CASE f = "mode"
    BY <1>1, <1>3, <2>1 DEF Modes, NoMapping, Canon
  <2>2. CASE f = "recording"
    BY <1>1, <1>3, <2>2 DEF Contents, NoMapping, Canon
  <2>3. CASE f = "model_calls"
    BY <1>1, <1>3, <2>3 DEF NoMapping, Canon
  <2>4. CASE f \in {"promotion", "optimization"}
    BY <1>1, <1>3, <2>4 DEF Canon
  <2>5. CASE f = "hooks"
    BY <1>1, <1>3, <2>5 DEF Overflow, NoMapping, Canon
  <2> QED
    BY <2>1, <2>2, <2>3, <2>4, <2>5 DEF Fields, Sections
<1> QED
    BY <1>1, <1>2, <1>3, <1>4

(* A configuration that is accepted says what was said, layer for layer,   *)
(* whatever stands in the file and in the overrides ("fail-closed",        *)
(* schema.py:1).                                                           *)
THEOREM ConfigCorrect == AskSpec => []ConfigFailClosed
<1>1. QuestionInv /\ AnswerInv => ConfigFailClosed
  <2> SUFFICES ASSUME QuestionInv, AnswerInv, Answered("configuration"),
                      answer.result.outcome = "ok"
               PROVE  ConfigFailClosed
    BY DEF ConfigFailClosed
  <2>1. PICK over, file, read :
            /\ over = question.of.overrides /\ read = question.of.read
            /\ file = IF read = "missing" THEN Unset ELSE question.of.file
    OBVIOUS
  <2>2. question.of \in Layers /\ answer.result =
            LoadConfig(question.of.read, question.of.file, question.of.overrides)
    BY DEF QuestionInv, AnswerInv
  <2>3. answer.result = ValidateConfig(Merge(file, over))
    <3>1. read \in {"mapping", "missing"}
      BY <2>1, <2>2, LayerAssumption DEF LoadConfig
    <3> QED
      BY <2>1, <2>2, <3>1 DEF LoadConfig
  <2>4. PICK merged : merged = Merge(DEFAULTS, Merge(file, over))
    OBVIOUS
  <2>5. answer.result = [outcome |-> Check(merged), data |-> Normal(merged)]
    BY <2>3, <2>4 DEF ValidateConfig
  <2>6. Check(merged) = "ok" /\ answer.result.data = Normal(merged)
    BY <2>5
  <2>7. merged = [f \in Fields |-> merged[f]]
    BY <2>4 DEF Merge
  <2>8. PICK data : data = Normal(merged)
    OBVIOUS
  <2>9. /\ \A f \in Fields :
               IF merged[f] \in NoMapping
               THEN f = "model_calls" /\ data[f] = "null"
               ELSE data[f] = Canon(f, merged[f])
        /\ data.promotion # "true"
        /\ ~(data.optimization = "true" /\ data.mode = "observe")
    BY <2>6, <2>7, <2>8, CheckedFields
  <2>10. ASSUME NEW f \in Fields
         PROVE  IF NullIn(over, file, f)
                THEN f = "model_calls" /\ data[f] = "null"
                ELSE data[f] = Canon(f, SaidOf(over, file, f))
    <3>1. IF NullIn(over, file, f) THEN merged[f] \in NoMapping
          ELSE /\ merged[f] = SaidOf(over, file, f)
               /\ merged[f] \notin NoMapping
      BY <2>4, MergedField
    <3> QED
      BY <2>9, <3>1
  <2> QED
    BY <2>1, <2>6, <2>8, <2>9, <2>10 DEF ConfigFailClosed, NullIn, SaidOf
<1> QED
    BY <1>1, AnswersCorrect, PTL

-----------------------------------------------------------------------------
(* The body that was validated passes the checks it passed, and comes out  *)
(* as it went in.                                                          *)
THEOREM RevalidationCorrect == AskSpec => []Revalidates
<1>1. ASSUME NEW path PROVE Normalized(Normalized(path)) = Normalized(path)
    BY DEF Normalized
<1>2. ASSUME NEW h
      PROVE  /\ Strip(Strip(h)) = Strip(h)
             /\ Strip(h) = Missing => h = Missing
    BY DEF Strip, Missing
<1>3. QuestionInv /\ AnswerInv => Revalidates
  <2> SUFFICES ASSUME QuestionInv, AnswerInv, Answered("candidate"),
                      answer.result.code = "ok"
               PROVE  ValidateCandidate(answer.result.body, question.of.parent)
                        = answer.result
    BY DEF Revalidates
  <2>1. PICK raw, parent : raw = question.of.raw /\ parent = question.of.parent
    OBVIOUS
  <2>2. answer.result = ValidateCandidate(raw, parent)
    BY <2>1 DEF AnswerInv
  <2>3. DOMAIN raw = {"target", "hypothesis", "format", "path", "patch", "parent"}
    BY <2>1, CandidateAssumption DEF QuestionInv, AnswerInv
  <2>4. PICK body : body = Body(raw)
    OBVIOUS
  <2>5. /\ body.hypothesis = Strip(raw.hypothesis)
        /\ body.path = Normalized(raw.path)
        /\ body.target = raw.target /\ body.format = raw.format
        /\ body.patch = raw.patch /\ body.parent = raw.parent
        /\ DOMAIN body = DOMAIN raw /\ body = [f \in DOMAIN body |-> body[f]]
    BY <2>3, <2>4 DEF Body
  <2>6. Code(raw, parent) = "ok" /\ answer.result = [code |-> "ok", body |-> body]
    BY <2>2, <2>4 DEF ValidateCandidate
  <2>7. Code(body, parent) = "ok"
    BY <1>1, <1>2, <2>5, <2>6 DEF Code, LongEnough
  <2>8. Body(body) = body
    <3>1. Body(body) = [body EXCEPT !.hypothesis = Strip(@), !.path = Normalized(@)]
      BY DEF Body
    <3>2. /\ Strip(body.hypothesis) = body.hypothesis
          /\ Normalized(body.path) = body.path
      BY <1>1, <1>2, <2>5
    <3>3. /\ "hypothesis" \in DOMAIN body /\ "path" \in DOMAIN body
          /\ body = [f \in DOMAIN body |-> body[f]]
      BY <2>3, <2>5
    <3>4. ASSUME NEW x, NEW y, x = body.hypothesis, y = body.path
          PROVE  [body EXCEPT !.hypothesis = x, !.path = y] = body
      BY <3>3, <3>4
    <3> QED
      BY <3>1, <3>2, <3>4
  <2> QED
    BY <2>1, <2>6, <2>7, <2>8 DEF ValidateCandidate
<1> QED
    BY <1>3, AnswersCorrect, PTL
-----------------------------------------------------------------------------
(***************************************************************************)
(* correlate.  Two neighbours of the list change places; the records with  *)
(* the best score (Top) are the same records then, and in the same order   *)
(* unless both neighbours are among them.                                  *)
(***************************************************************************)

(* A score is a number.                                                    *)
LEMMA ScoreIsNumber ==
    ASSUME NEW record
    PROVE  Score(record) \in Int
<1>1. \A k \in DOMAIN Weight : Points(record, k) \in Int
    BY DEF Points, Weight
<1> QED
    BY <1>1 DEF Score, Weight

(* The records with the best score.                                        *)
Top(list) ==
    {n \in Scored(list) :
        \A m \in Scored(list) : Score(list[m]) <= Score(list[n])}

Ties(list) == Top(list) \ {Best(list)}

(* The first three of a set of numbers.                                    *)
Early(S) == {m \in S : Cardinality({k \in S : k <= m}) <= 3}

(* sort puts the first of the best records first.                          *)
LEMMA BestIsFirst ==
    ASSUME NEW list \in Seq(SUBSET Keys), Scored(list) # {}
    PROVE  /\ Best(list) \in Top(list)
           /\ \A m \in Top(list) : Best(list) <= m
           /\ Alternatives(list) = Early(Ties(list))
<1>1. PICK D, R :
          /\ D = Scored(list)
          /\ R = {p \in D \X D :
                    \/ Score(list[p[1]]) > Score(list[p[2]])
                    \/ Score(list[p[1]]) = Score(list[p[2]]) /\ p[1] < p[2]}
    OBVIOUS
<1>2. D \subseteq DOMAIN list /\ \A n \in D : n \in Int /\ Score(list[n]) \in Int
    BY <1>1, ScoreIsNumber DEF Scored
<1>3. \A k, n \in D : <<k, n>> \in R <=>
          \/ Score(list[k]) > Score(list[n])
          \/ Score(list[k]) = Score(list[n]) /\ k < n
    BY <1>1
<1>4. \A x \in D : <<x, x>> \notin R
    BY <1>2, <1>3
<1>5. \A x, y, z \in D : <<x, y>> \in R /\ <<y, z>> \in R => <<x, z>> \in R
    BY <1>2, <1>3
<1>6. IsFiniteSet(D) /\ D # {}
    BY <1>1, <1>2, FinitePlaces, FS_Subset
<1>7. PICK n \in D : \A k \in D : <<k, n>> \notin R
    BY <1>4, <1>5, <1>6, HasMinimal
<1>8. \A m \in D :
          \/ Score(list[n]) > Score(list[m])
          \/ Score(list[n]) = Score(list[m]) /\ n <= m
  <2>1. ASSUME NEW m \in D
        PROVE  \/ Score(list[n]) > Score(list[m])
               \/ Score(list[n]) = Score(list[m]) /\ n <= m
    <3>1. <<m, n>> \notin R
      BY <1>7
    <3>2. ~(Score(list[m]) > Score(list[n]) \/ (Score(list[m]) = Score(list[n]) /\ m < n))
      BY <1>3, <3>1
    <3> QED
      BY <1>2, <3>2
  <2> QED
    BY <2>1
<1>9. /\ Best(list) \in D
      /\ \A m \in D :
             \/ Score(list[Best(list)]) > Score(list[m])
             \/ /\ Score(list[Best(list)]) = Score(list[m])
                /\ Best(list) <= m
    BY <1>1, <1>8 DEF Best
<1>10. Best(list) \in Top(list) /\ \A m \in Top(list) : Best(list) <= m
    BY <1>1, <1>2, <1>9 DEF Top
<1>11. Ties(list) = {m \in Scored(list) \ {Best(list)} :
                        Score(list[m]) = Score(list[Best(list)])}
    BY <1>1, <1>2, <1>9 DEF Top, Ties
<1> QED
    BY <1>10, <1>11 DEF Alternatives, Early

(* A one-to-one image has as many elements.                                *)
LEMMA SameSize ==
    ASSUME NEW A, IsFiniteSet(A), NEW B, NEW f \in [A -> B],
           \A x, y \in A : f[x] = f[y] => x = y,
           \A y \in B : \E x \in A : f[x] = y
    PROVE  Cardinality(B) = Cardinality(A)
<1>1. f \in Bijection(A, B)
    BY DEF Bijection, Injection, IsInjective, Surjection
<1> QED
    BY <1>1, FS_Bijection DEF ExistsBijection

(* As many elements come early in one order as in the other.               *)
LEMMA SameEarly ==
    ASSUME NEW A, IsFiniteSet(A), NEW B, NEW f \in [A -> B],
           \A x, y \in A : f[x] = f[y] => x = y,
           \A y \in B : \E x \in A : f[x] = y,
           \A x, y \in A : x <= y <=> f[x] <= f[y]
    PROVE  Cardinality(Early(B)) = Cardinality(Early(A))
<1>1. ASSUME NEW m \in A
      PROVE  Cardinality({k \in B : k <= f[m]}) = Cardinality({k \in A : k <= m})
  <2>1. PICK S, T, g : /\ S = {k \in A : k <= m} /\ T = {k \in B : k <= f[m]}
                       /\ g = [k \in S |-> f[k]]
    OBVIOUS
  <2>2. IsFiniteSet(S)
    BY <2>1, FS_Subset
  <2>3. g \in [S -> T] /\ \A x, y \in S : g[x] = g[y] => x = y
    BY <2>1
  <2>4. \A y \in T : \E x \in S : g[x] = y
    BY <2>1
  <2> QED
    BY <2>1, <2>2, <2>3, <2>4, SameSize
<1>2. PICK S, T, g :
          /\ S = {m \in A : Cardinality({k \in A : k <= m}) <= 3}
          /\ T = {m \in B : Cardinality({k \in B : k <= m}) <= 3}
          /\ g = [m \in S |-> f[m]]
    OBVIOUS
<1>3. IsFiniteSet(S)
    BY <1>2, FS_Subset
<1>4. g \in [S -> T] /\ \A x, y \in S : g[x] = g[y] => x = y
    BY <1>1, <1>2
<1>5. \A y \in T : \E x \in S : g[x] = y
    BY <1>1, <1>2
<1>6. Cardinality(T) = Cardinality(S)
    BY <1>3, <1>4, <1>5, SameSize
<1> QED
    BY <1>2, <1>6 DEF Early

(* Where the e-th and the next record change places.                       *)
Turn(e, m) == IF m = e THEN e + 1 ELSE IF m = e + 1 THEN e ELSE m

LEMMA SwappedList ==
    ASSUME NEW list \in Seq(SUBSET Keys), NEW e \in 1 .. Len(list) - 1,
           NEW other, other = Swapped(list, e)
    PROVE  /\ other \in Seq(SUBSET Keys)
           /\ DOMAIN other = DOMAIN list
           /\ \A m \in DOMAIN list : /\ m \in Int /\ Turn(e, m) \in DOMAIN list
                                     /\ Turn(e, Turn(e, m)) = m
                                     /\ other[m] = list[Turn(e, m)]
           /\ \A m \in DOMAIN list :
                  /\ m \in Scored(other) <=> Turn(e, m) \in Scored(list)
                  /\ m \in Top(other) <=> Turn(e, m) \in Top(list)
<1>1. /\ DOMAIN list = 1 .. Len(list) /\ Len(list) \in Nat /\ e \in Int
      /\ e \in DOMAIN list /\ e + 1 \in DOMAIN list
    OBVIOUS
<1>2. other = [list EXCEPT ![e] = list[e + 1], ![e + 1] = list[e]]
    BY DEF Swapped
<1>3. other \in Seq(SUBSET Keys)
  <2>1. list[e] \in SUBSET Keys /\ list[e + 1] \in SUBSET Keys
    BY <1>1
  <2>2. PICK once : once = [list EXCEPT ![e] = list[e + 1]]
    OBVIOUS
  <2>3. once \in Seq(SUBSET Keys) /\ DOMAIN once = DOMAIN list
    BY <1>1, <2>1, <2>2
  <2>4. other = [once EXCEPT ![e + 1] = list[e]]
    BY <1>2, <2>2
  <2> QED
    BY <1>1, <2>1, <2>3, <2>4
<1>4. DOMAIN other = DOMAIN list
    BY <1>2
<1>5. \A m \in DOMAIN list : /\ m \in Int /\ Turn(e, m) \in DOMAIN list
                             /\ Turn(e, Turn(e, m)) = m
  <2> SUFFICES ASSUME NEW m \in DOMAIN list
               PROVE  /\ m \in Int /\ Turn(e, m) \in DOMAIN list
                      /\ Turn(e, Turn(e, m)) = m
    OBVIOUS
  <2>1. m \in Int /\ e + 1 # e
    BY <1>1
  <2>2. CASE m = e
    BY <1>1, <2>1, <2>2 DEF Turn
  <2>3. CASE m = e + 1
    BY <1>1, <2>1, <2>3 DEF Turn
  <2>4. CASE m # e /\ m # e + 1
    BY <2>1, <2>4 DEF Turn
  <2> QED
    BY <2>2, <2>3, <2>4
<1>6. \A m \in DOMAIN list : other[m] = list[Turn(e, m)]
    BY <1>1, <1>2 DEF Turn
<1>7. \A m \in DOMAIN list : m \in Scored(other) <=> Turn(e, m) \in Scored(list)
    BY <1>4, <1>5, <1>6 DEF Scored
<1>8. ASSUME NEW m \in DOMAIN list
      PROVE  m \in Top(other) <=> Turn(e, m) \in Top(list)
  <2>1. Scored(other) \subseteq DOMAIN list /\ Scored(list) \subseteq DOMAIN list
    BY <1>4 DEF Scored
  <2>2. ASSUME m \in Top(other), NEW k \in Scored(list)
        PROVE  Score(list[k]) <= Score(list[Turn(e, m)])
    <3>1. /\ k \in DOMAIN list /\ Turn(e, k) \in DOMAIN list
          /\ Turn(e, Turn(e, k)) = k
      BY <1>5, <2>1
    <3>2. Turn(e, k) \in Scored(other)
      BY <1>7, <2>2, <3>1
    <3>3. Score(other[Turn(e, k)]) <= Score(other[m])
      BY <2>2, <3>2 DEF Top
    <3>4. other[Turn(e, k)] = list[k] /\ other[m] = list[Turn(e, m)]
      BY <1>6, <3>1
    <3> QED
      BY <3>3, <3>4
  <2>3. ASSUME Turn(e, m) \in Top(list), NEW k \in Scored(other)
        PROVE  Score(other[k]) <= Score(other[m])
    <3>1. k \in DOMAIN list /\ Turn(e, k) \in Scored(list)
      BY <1>7, <2>1
    <3>2. Score(list[Turn(e, k)]) <= Score(list[Turn(e, m)])
      BY <2>3, <3>1 DEF Top
    <3>3. other[k] = list[Turn(e, k)] /\ other[m] = list[Turn(e, m)]
      BY <1>6, <3>1
    <3> QED
      BY <3>2, <3>3
  <2>4. ASSUME m \in Top(other) PROVE Turn(e, m) \in Top(list)
    BY <1>7, <2>2, <2>4 DEF Top
  <2>5. ASSUME Turn(e, m) \in Top(list) PROVE m \in Top(other)
    BY <1>7, <2>3, <2>5 DEF Top
  <2> QED
    BY <2>4, <2>5
<1> QED
    BY <1>3, <1>4, <1>5, <1>6, <1>7, <1>8

(* The best of the turned list is the best of the list, or its neighbour   *)
(* that is as good, and is named among the alternatives; and as many of    *)
(* them are named.                                                         *)
LEMMA BestTurned ==
    ASSUME NEW list \in Seq(SUBSET Keys), NEW e \in 1 .. Len(list) - 1,
           NEW other, other = Swapped(list, e), Scored(list) # {}
    PROVE  LET here  == Best(list)
               there == Turn(e, Best(other))
           IN /\ Score(list[here]) = Score(other[Best(other)])
              /\ Cardinality(Alternatives(other)) = Cardinality(Alternatives(list))
              /\ there = here \/ there \in Alternatives(list)
<1>0. /\ other \in Seq(SUBSET Keys)
      /\ DOMAIN other = DOMAIN list
      /\ \A m \in DOMAIN list : /\ m \in Int /\ Turn(e, m) \in DOMAIN list
                                /\ Turn(e, Turn(e, m)) = m
                                /\ other[m] = list[Turn(e, m)]
      /\ \A m \in DOMAIN list :
             /\ m \in Scored(other) <=> Turn(e, m) \in Scored(list)
             /\ m \in Top(other) <=> Turn(e, m) \in Top(list)
    BY SwappedList
<1>1. /\ Scored(list) \subseteq DOMAIN list /\ Top(list) \subseteq DOMAIN list
      /\ Scored(other) \subseteq DOMAIN list /\ Top(other) \subseteq DOMAIN list
    BY <1>0 DEF Scored, Top
<1>2. Scored(other) # {}
  <2>1. PICK m \in Scored(list) : TRUE
    OBVIOUS
  <2>2. Turn(e, m) \in Scored(other)
    BY <1>0, <1>1
  <2> QED
    BY <2>2
<1>3. PICK b, c : b = Best(list) /\ c = Best(other)
    OBVIOUS
<1>4. PICK A, B : A = Ties(list) /\ B = Ties(other)
    OBVIOUS
<1>5. /\ b \in Top(list) /\ \A m \in Top(list) : b <= m
      /\ A = Top(list) \ {b}
      /\ Alternatives(list) = Early(A)
    BY <1>3, <1>4, BestIsFirst DEF Ties
<1>6. /\ c \in Top(other) /\ \A m \in Top(other) : c <= m
      /\ B = Top(other) \ {c}
      /\ Alternatives(other) = Early(B)
    BY <1>0, <1>2, <1>3, <1>4, BestIsFirst DEF Ties
<1>7. Score(list[b]) = Score(other[c])
  <2>1. Turn(e, c) \in Top(list) /\ other[c] = list[Turn(e, c)]
    BY <1>0, <1>1, <1>6
  <2>2. /\ Score(list[b]) <= Score(list[Turn(e, c)])
        /\ Score(list[Turn(e, c)]) <= Score(list[b])
    BY <1>5, <2>1 DEF Top
  <2>3. Score(list[b]) \in Int /\ Score(list[Turn(e, c)]) \in Int
    BY ScoreIsNumber
  <2> QED
    BY <2>1, <2>2, <2>3
<1>8. /\ b \in Int /\ c \in Int /\ e \in Int
      /\ \A m \in A : m \in Int
      /\ e \in DOMAIN list /\ e + 1 \in DOMAIN list
    BY <1>0, <1>1, <1>5, <1>6
<1>9. IsFiniteSet(A) /\ IsFiniteSet(B)
    BY <1>1, <1>5, <1>6, FinitePlaces, FS_Subset
<1>10. CASE e \in Top(list) <=> e + 1 \in Top(list)
  <2>1. Top(other) = Top(list)
    BY <1>0, <1>1, <1>10 DEF Turn
  <2>2. c = b /\ A = B
    BY <1>5, <1>6, <1>8, <2>1
  <2>3. Turn(e, c) = b \/ Turn(e, c) \in Alternatives(list)
    <3>1. CASE b = e
      <4>1. Turn(e, c) = e + 1 /\ e + 1 \in A
        BY <1>5, <1>8, <1>10, <2>2, <3>1 DEF Turn
      <4>2. {k \in A : k <= e + 1} = {e + 1}
        <5>1. \A k \in A : k \in Int /\ e <= k /\ k # e
          BY <1>5, <1>8, <3>1
        <5>2. \A k \in A : k <= e + 1 => k = e + 1
          BY <1>8, <5>1
        <5>3. e + 1 <= e + 1
          BY <1>8
        <5> QED
          BY <4>1, <5>2, <5>3
      <4>3. Cardinality({k \in A : k <= e + 1}) = 1
        BY <4>2, FS_Singleton
      <4> QED
        BY <1>5, <4>1, <4>3 DEF Early
    <3>2. CASE b # e
      <4>1. b # e + 1
        BY <1>5, <1>8, <1>10
      <4> QED
        BY <2>2, <3>2, <4>1 DEF Turn
    <3> QED
      BY <3>1, <3>2
  <2> QED
    BY <1>3, <1>5, <1>6, <1>7, <2>2, <2>3
<1>11. CASE ~(e \in Top(list) <=> e + 1 \in Top(list))
  <2>1. \A x, y \in Top(other) :
            /\ Turn(e, x) \in Top(list)
            /\ x <= y <=> Turn(e, x) <= Turn(e, y)
            /\ Turn(e, x) = Turn(e, y) => x = y
    <3> SUFFICES ASSUME NEW x \in Top(other), NEW y \in Top(other)
                 PROVE  /\ Turn(e, x) \in Top(list)
                        /\ x <= y <=> Turn(e, x) <= Turn(e, y)
                        /\ Turn(e, x) = Turn(e, y) => x = y
      OBVIOUS
    <3>1. /\ Turn(e, x) \in Top(list) /\ Turn(e, y) \in Top(list)
          /\ x \in Int /\ y \in Int
      BY <1>0, <1>1
    <3>2. ~({x, y} = {e, e + 1})
      BY <1>8, <1>11, <3>1 DEF Turn
    <3>3. /\ ~(x = e /\ y = e + 1)
          /\ ~(x = e + 1 /\ y = e)
      BY <3>2
    <3> QED
      BY <1>8, <3>1, <3>3 DEF Turn
  <2>2. \A x \in Top(list) : Turn(e, x) \in Top(other) /\ Turn(e, Turn(e, x)) = x
    BY <1>0, <1>1
  <2>3. Turn(e, c) = b
    <3>1. /\ Turn(e, c) \in Top(list) /\ Turn(e, b) \in Top(other)
          /\ Turn(e, Turn(e, b)) = b
      BY <1>5, <1>6, <2>1, <2>2
    <3>2. c <= Turn(e, b) /\ b <= Turn(e, c)
      BY <1>5, <1>6, <3>1
    <3>3. Turn(e, c) <= Turn(e, Turn(e, b))
      BY <1>6, <2>1, <3>1, <3>2
    <3>4. Turn(e, c) \in Int
      BY <1>0, <1>1, <3>1
    <3> QED
      BY <1>8, <3>1, <3>2, <3>3, <3>4
  <2>4. PICK f : f = [m \in B |-> Turn(e, m)]
    OBVIOUS
  <2>5. f \in [B -> A] /\ \A x, y \in B : f[x] = f[y] => x = y
    BY <1>5, <1>6, <2>1, <2>3, <2>4
  <2>6. \A y \in A : \E x \in B : f[x] = y
    <3> SUFFICES ASSUME NEW y \in A PROVE \E x \in B : f[x] = y
      OBVIOUS
    <3>1. Turn(e, y) \in Top(other) /\ Turn(e, Turn(e, y)) = y /\ y # b
      BY <1>5, <2>2
    <3>2. Turn(e, y) \in B
      BY <1>6, <2>3, <3>1
    <3> QED
      BY <2>4, <3>1, <3>2
  <2>7. \A x, y \in B : x <= y <=> f[x] <= f[y]
    BY <1>6, <2>1, <2>4
  <2>8. Cardinality(Alternatives(list)) = Cardinality(Alternatives(other))
    <3>1. Cardinality(Early(A)) = Cardinality(Early(B))
      BY <1>9, <2>5, <2>6, <2>7, SameEarly
    <3> QED
      BY <1>5, <1>6, <3>1
  <2> QED
    BY <1>3, <1>7, <2>3, <2>8
<1> QED
    BY <1>10, <1>11

(* Quality and confidence do not depend on the order of the provider's     *)
(* records, and a record that another order would have chosen is named     *)
(* (engine.py:37-68).  Any order comes of turns of neighbours.             *)
THEOREM CorrelationCorrect == AskSpec => []CorrelationStable
<1>1. QuestionInv /\ AnswerInv => CorrelationStable
  <2> SUFFICES ASSUME QuestionInv, AnswerInv, Answered("correlation"),
                      NEW e \in 1 .. Len(question.of) - 1
               PROVE  LET here  == answer.result
                          there == Correlate(Swapped(question.of, e))
                          moved == IF there.id = e THEN e + 1
                                   ELSE IF there.id = e + 1 THEN e ELSE there.id
                      IN /\ there.quality = here.quality
                         /\ there.confidence = here.confidence
                         /\ Cardinality(there.alternatives) =
                                Cardinality(here.alternatives)
                         /\ \/ here.quality = "exact" \/ moved = here.id
                            \/ moved \in here.alternatives
    BY DEF CorrelationStable
  <2>1. PICK list, other : list = question.of /\ other = Swapped(list, e)
    OBVIOUS
  <2>2. list \in Seq(SUBSET Keys) /\ e \in 1 .. Len(list) - 1
    BY <2>1, ListingAssumption DEF QuestionInv, AnswerInv
  <2>3. PICK here, there : here = Correlate(list) /\ there = Correlate(other)
    OBVIOUS
  <2>4. /\ DOMAIN other = DOMAIN list
        /\ \A m \in DOMAIN list : /\ Turn(e, m) \in DOMAIN list
                                  /\ Turn(e, Turn(e, m)) = m
                                  /\ other[m] = list[Turn(e, m)]
                                  /\ m \in Scored(other) <=> Turn(e, m) \in Scored(list)
    BY <2>1, <2>2, SwappedList
  <2>5. PICK X, Y : /\ X = {n \in DOMAIN list : Exact(list[n])}
                    /\ Y = {n \in DOMAIN other : Exact(other[n])}
    OBVIOUS
  <2>6. X # {} <=> Y # {}
    BY <2>4, <2>5
  <2>7. Scored(list) = {} <=> Scored(other) = {}
    BY <2>4 DEF Scored
  <2>8. /\ there.quality = here.quality /\ there.confidence = here.confidence
        /\ Cardinality(there.alternatives) = Cardinality(here.alternatives)
        /\ \/ here.quality = "exact" \/ Turn(e, there.id) = here.id
           \/ Turn(e, there.id) \in here.alternatives
    <3>1. CASE X # {}
      BY <2>3, <2>5, <2>6, <3>1 DEF Correlate, Result
    <3>2. CASE X = {} /\ Scored(list) = {}
      <4>1. here = Result(0, "unmatched", 0, {}) /\ there = Result(0, "unmatched", 0, {})
        BY <2>3, <2>5, <2>6, <2>7, <3>2 DEF Correlate
      <4>2. Turn(e, 0) = 0
        BY <2>2 DEF Turn
      <4> QED
        BY <4>1, <4>2 DEF Result
    <3>3. CASE X = {} /\ Scored(list) # {}
      <4>1. PICK b, c, s : b = Best(list) /\ c = Best(other) /\ s = Score(list[b])
        OBVIOUS
      <4>2. /\ s = Score(other[c])
            /\ Cardinality(Alternatives(other)) = Cardinality(Alternatives(list))
            /\ Turn(e, c) = b \/ Turn(e, c) \in Alternatives(list)
        BY <2>1, <2>2, <3>3, <4>1, BestTurned
      <4>3. PICK quality : quality = IF s >= Composite THEN "composite" ELSE "heuristic"
        OBVIOUS
      <4>4. here = Result(b, quality, s, Alternatives(list))
        BY <2>3, <2>5, <3>3, <4>1, <4>3 DEF Correlate
      <4>5. there = Result(c, quality, s, Alternatives(other))
        BY <2>3, <2>5, <2>6, <2>7, <3>3, <4>1, <4>2, <4>3 DEF Correlate
      <4> QED
        BY <4>2, <4>4, <4>5 DEF Result
    <3> QED
      BY <3>1, <3>2, <3>3
  <2>9. answer.result = here
    BY <2>1, <2>3 DEF AnswerInv
  <2> QED
    BY <2>1, <2>3, <2>8, <2>9 DEF Turn
<1> QED
    BY <1>1, AnswersCorrect, PTL

-----------------------------------------------------------------------------
(* What holds at zero and of each next number up to N holds up to N.       *)
LEMMA Climb ==
    ASSUME NEW N \in Nat, NEW G, 0 \in G,
           \A k \in 0 .. N : k \in G /\ k < N => k + 1 \in G
    PROVE  \A k \in 0 .. N : k \in G
<1> DEFINE D == (0 .. N) \ G
           R == {r \in D \X D : r[1] < r[2]}
<1> SUFFICES ASSUME D # {} PROVE FALSE
    OBVIOUS
<1>1. IsFiniteSet(D)
  <2>1. IsFiniteSet(0 .. N)
    BY FS_Interval
  <2> QED
    BY <2>1, FS_Subset
<1>2. /\ \A x, y \in D : <<x, y>> \in R <=> x < y
      /\ D \subseteq Int
    OBVIOUS
<1>5. \A k \in D : k - 1 \in 0 .. N /\ k - 1 < k /\ k - 1 \notin G
    OBVIOUS
<1>6. \A k \in D : k - 1 \in 0 .. N => k - 1 \in D \/ k - 1 \in G
    OBVIOUS
<1> HIDE DEF R, D
<1>7. /\ \A x \in D : <<x, x>> \notin R
      /\ \A x, y, z \in D : <<x, y>> \in R /\ <<y, z>> \in R => <<x, z>> \in R
    BY <1>2
<1>3. PICK k \in D : \A m \in D : <<m, k>> \notin R
    BY <1>1, <1>7, HasMinimal, Zenon
<1>4. k - 1 \in D /\ k - 1 < k
    BY <1>5, <1>6
<1> QED
    BY <1>2, <1>3, <1>4

LEMMA TotalDef ==
    ASSUME NEW s, NEW m \in Nat, Len(s) = m
    PROVE  \E sum : /\ sum[0] = 0 /\ Total(s) = sum[m]
                    /\ \A e \in 1 .. m : sum[e] = sum[e - 1] + s[e]
<1> DEFINE Is(f, k) == f = [e \in 0 .. k |-> IF e = 0 THEN 0 ELSE f[e - 1] + s[e]]
           G == {k \in 0 .. m : \E f : Is(f, k)}
<1>1. \E f : Is(f, 0)
  <2>1. Is([e \in 0 .. 0 |-> 0], 0)
    OBVIOUS
  <2> QED
    BY <2>1
<1>2. ASSUME NEW k \in 0 .. m, NEW f, Is(f, k) PROVE \E h : Is(h, k + 1)
  <2> DEFINE h == [e \in 0 .. k + 1 |-> IF e <= k THEN f[e] ELSE f[k] + s[k + 1]]
  <2>2. Is(h, k + 1)
    BY <1>2
  <2> HIDE DEF h
  <2> QED
    BY <2>2
<1>3. \E f : Is(f, m)
  <2> HIDE DEF Is
  <2>1. 0 \in G /\ \A k \in 0 .. m : k \in G /\ k < m => k + 1 \in G
    BY <1>1, <1>2
  <2>3. \A k \in G : \E f : Is(f, k)
    OBVIOUS
  <2> HIDE DEF G
  <2>2. \A k \in 0 .. m : k \in G
    BY <2>1, Climb, Zenon
  <2> QED
    BY <2>2, <2>3
<1> DEFINE sum == CHOOSE f : Is(f, m)
<1>4. Is(sum, m)
    BY <1>3
<1>5. Total(s) = sum[m]
    BY DEF Total
<1> HIDE DEF sum
<1> QED
    BY <1>4, <1>5

(* The calls of each depth answer what the calls below let them.           *)
LEMMA FormDef ==
    ASSUME NEW g
    PROVE  \E table : /\ table[0] = [n \in DOMAIN g.kids |-> [seen \in SUBSET g.containers |-> Failed]]
                      /\ \A k \in 1 .. MaxDepth + 1 :
                             table[k] = Answers(g, table[k - 1])
                      /\ Form(g) = table[MaxDepth + 1][1][{}]
<1> DEFINE N == MaxDepth + 1
           low == [n \in DOMAIN g.kids |-> [seen \in SUBSET g.containers |-> Failed]]
           Is(f, k) == f = [d \in 0 .. k |-> IF d = 0 THEN low
                                             ELSE Answers(g, f[d - 1])]
           G == {k \in 0 .. N : \E f : Is(f, k)}
<1>0. N \in Nat
    BY LimitAssumption
<1>1. \E f : Is(f, 0)
  <2>1. Is([d \in 0 .. 0 |-> low], 0)
    OBVIOUS
  <2> QED
    BY <2>1
<1>2. ASSUME NEW k \in 0 .. N, NEW f, Is(f, k) PROVE \E h : Is(h, k + 1)
  <2> DEFINE h == [d \in 0 .. k + 1 |-> IF d <= k THEN f[d] ELSE Answers(g, f[k])]
  <2> HIDE DEF low, N
  <2>1. Is(h, k + 1)
    BY <1>0, <1>2
  <2> HIDE DEF h
  <2> QED
    BY <2>1
<1>3. \E f : Is(f, N)
  <2> HIDE DEF Is, N
  <2>1. 0 \in G /\ \A k \in 0 .. N : k \in G /\ k < N => k + 1 \in G
    BY <1>0, <1>1, <1>2
  <2>2. \A k \in G : \E f : Is(f, k)
    OBVIOUS
  <2> HIDE DEF G
  <2>3. \A k \in 0 .. N : k \in G
    BY <1>0, <2>1, Climb, Zenon
  <2> QED
    BY <1>0, <2>2, <2>3
<1> DEFINE table == CHOOSE f : Is(f, N)
<1>4. Is(table, N)
    BY <1>3
<1>5. Form(g) = table[N][1][{}]
    BY DEF Form
<1> HIDE DEF table, low
<1>6. table[0] = low /\ \A k \in 1 .. N : table[k] = Answers(g, table[k - 1])
    BY <1>0, <1>4
<1> QED
    BY <1>5, <1>6 DEF low

(* And count one more than the calls below do together.                    *)
LEMMA ItemsDef ==
    ASSUME NEW g
    PROVE  \E table : /\ table[0] = [n \in DOMAIN g.kids |-> 0]
                      /\ \A k \in 1 .. MaxDepth + 1 :
                             table[k] = Calls(g, table[k - 1])
                      /\ Items(g) = table[MaxDepth + 1][1]
<1> DEFINE N == MaxDepth + 1
           low == [n \in DOMAIN g.kids |-> 0]
           Is(f, k) == f = [d \in 0 .. k |-> IF d = 0 THEN low
                                             ELSE Calls(g, f[d - 1])]
           G == {k \in 0 .. N : \E f : Is(f, k)}
<1>0. N \in Nat
    BY LimitAssumption
<1>1. \E f : Is(f, 0)
  <2>1. Is([d \in 0 .. 0 |-> low], 0)
    OBVIOUS
  <2> QED
    BY <2>1
<1>2. ASSUME NEW k \in 0 .. N, NEW f, Is(f, k) PROVE \E h : Is(h, k + 1)
  <2> DEFINE h == [d \in 0 .. k + 1 |-> IF d <= k THEN f[d] ELSE Calls(g, f[k])]
  <2> HIDE DEF low, N
  <2>1. Is(h, k + 1)
    BY <1>0, <1>2
  <2> HIDE DEF h
  <2> QED
    BY <2>1
<1>3. \E f : Is(f, N)
  <2> HIDE DEF Is, N
  <2>1. 0 \in G /\ \A k \in 0 .. N : k \in G /\ k < N => k + 1 \in G
    BY <1>0, <1>1, <1>2
  <2>2. \A k \in G : \E f : Is(f, k)
    OBVIOUS
  <2> HIDE DEF G
  <2>3. \A k \in 0 .. N : k \in G
    BY <1>0, <2>1, Climb, Zenon
  <2> QED
    BY <1>0, <2>2, <2>3
<1> DEFINE table == CHOOSE f : Is(f, N)
<1>4. Is(table, N)
    BY <1>3
<1>5. Items(g) = table[N][1]
    BY DEF Items
<1> HIDE DEF table, low
<1>6. table[0] = low /\ \A k \in 1 .. N : table[k] = Calls(g, table[k - 1])
    BY <1>0, <1>4
<1> QED
    BY <1>5, <1>6 DEF low

(* A step names an object and one of its places.                           *)
LEMMA StepFacts ==
    ASSUME NEW g
    PROVE  /\ \A n \in DOMAIN g.kids : \A e \in DOMAIN g.kids[n] : <<n, e>> \in Steps(g)
           /\ \A s \in Steps(g) : /\ s = <<s[1], s[2]>> /\ s[1] \in DOMAIN g.kids
                                  /\ s[2] \in DOMAIN g.kids[s[1]]
    BY DEF Steps

LEMMA WayFacts ==
    ASSUME NEW g, NEW n, NEW depths, NEW w
    PROVE  w \in Ways(g, n, depths) <=>
               \E k \in depths :
                   /\ w \in [1 .. k -> Steps(g)]
                   /\ \A d \in 1 .. k :
                          w[d][1] = IF d = 1 THEN n ELSE To(g, w[d - 1])
    BY DEF Ways

(* A way goes to a part first, and is a way from there.                    *)
First(n, e, w) == <<<<n, e>>>> \o w

LEMMA WayOn ==
    ASSUME NEW g, NEW n \in DOMAIN g.kids, NEW e \in DOMAIN g.kids[n], NEW k \in Nat,
           NEW w \in Ways(g, g.kids[n][e].to, {k})
    PROVE  First(n, e, w) \in Ways(g, n, {k + 1})
<1>1. /\ w \in [1 .. k -> Steps(g)] /\ <<n, e>> \in Steps(g)
      /\ \A d \in 1 .. k : w[d][1] = IF d = 1 THEN g.kids[n][e].to ELSE To(g, w[d - 1])
    BY StepFacts, WayFacts
<1> DEFINE v == First(n, e, w)
<1>2. w \in Seq(Steps(g)) /\ Len(w) = k
    BY <1>1
<1>3. /\ v \in Seq(Steps(g)) /\ Len(v) = k + 1 /\ v[1] = <<n, e>>
      /\ \A d \in 1 .. k : v[d + 1] = w[d]
    BY <1>1, <1>2 DEF First
<1> HIDE DEF v
<1>4. v \in [1 .. k + 1 -> Steps(g)]
    BY <1>3
<1>5. ASSUME NEW d \in 1 .. k + 1 PROVE v[d][1] = IF d = 1 THEN n ELSE To(g, v[d - 1])
  <2>1. CASE d = 1
    BY <1>3, <2>1
  <2>2. CASE d = 2
    <3>1. v[2] = w[1] /\ 1 \in 1 .. k
      BY <1>3, <2>2
    <3>2. To(g, v[1]) = g.kids[n][e].to
      BY <1>3 DEF To
    <3> QED
      BY <1>1, <2>2, <3>1, <3>2
  <2>3. CASE d > 2
    <3> DEFINE c == d - 1
    <3>1. c \in 1 .. k /\ c - 1 \in 1 .. k /\ d = c + 1
      BY <2>3
    <3>2. v[d] = w[c] /\ v[d - 1] = w[c - 1]
      <4>1. v[c + 1] = w[c] /\ v[(c - 1) + 1] = w[c - 1]
        BY <1>3, <3>1
      <4> QED
        BY <4>1
    <3>3. w[c][1] = To(g, w[c - 1])
      BY <1>1, <2>3, <3>1
    <3> QED
      BY <2>3, <3>2, <3>3
  <2> QED
    BY <2>1, <2>2, <2>3
<1> QED
    BY <1>4, <1>5, WayFacts DEF v

(* The ways that go down by one place.                                     *)
Through(g, n, e, depths) ==
    {First(n, e, w) : w \in Ways(g, g.kids[n][e].to, depths)}

LEMMA WayFrom ==
    ASSUME NEW g, NEW n, NEW k \in Nat, NEW v \in Ways(g, n, {k + 1})
    PROVE  \E e \in DOMAIN g.kids[n] : v \in Through(g, n, e, {k})
<1>1. /\ v \in [1 .. k + 1 -> Steps(g)]
      /\ \A d \in 1 .. k + 1 : v[d][1] = IF d = 1 THEN n ELSE To(g, v[d - 1])
    BY WayFacts
<1>2. v[1] = <<n, v[1][2]>> /\ v[1][2] \in DOMAIN g.kids[n]
    BY <1>1, StepFacts
<1> DEFINE e == v[1][2]
           w == [d \in 1 .. k |-> v[d + 1]]
<1>3. w \in [1 .. k -> Steps(g)] /\ w \in Seq(Steps(g)) /\ Len(w) = k
    BY <1>1
<1>4. \A d \in 1 .. k : w[d][1] = IF d = 1 THEN g.kids[n][e].to ELSE To(g, w[d - 1])
  <2> SUFFICES ASSUME NEW d \in 1 .. k
               PROVE  w[d][1] = IF d = 1 THEN g.kids[n][e].to ELSE To(g, w[d - 1])
    OBVIOUS
  <2>1. w[d][1] = To(g, v[d])
    BY <1>1
  <2>2. CASE d = 1
    <3>1. To(g, v[1]) = g.kids[n][e].to
      BY <1>2 DEF To
    <3> QED
      BY <2>1, <2>2, <3>1
  <2>3. CASE d # 1
    <3>1. w[d - 1] = v[d]
      BY <2>3
    <3> QED
      BY <2>1, <2>3, <3>1
  <2> QED
    BY <2>2, <2>3
<1>5. v = First(n, e, w)
  <2>1. v \in Seq(Steps(g)) /\ Len(v) = k + 1
    BY <1>1
  <2>2. <<n, e>> \in Steps(g)
    <3>1. v[1] \in Steps(g)
      BY <1>1
    <3> QED
      BY <1>2, <3>1
  <2>3. \A d \in 1 .. k : w[d] = v[d + 1]
    OBVIOUS
  <2> DEFINE u == First(n, e, w)
  <2> HIDE DEF w
  <2>4. /\ u \in Seq(Steps(g)) /\ Len(u) = k + 1 /\ u[1] = <<n, e>>
        /\ \A d \in 1 .. k : u[d + 1] = w[d]
    BY <1>3, <2>2 DEF First
  <2> HIDE DEF u
  <2>5. \A d \in 1 .. k + 1 : u[d] = v[d]
    <3> SUFFICES ASSUME NEW d \in 1 .. k + 1 PROVE u[d] = v[d]
      OBVIOUS
    <3>1. CASE d = 1
      BY <1>2, <2>4, <3>1
    <3>2. CASE d > 1
      <4>1. d - 1 \in 1 .. k
        BY <3>2
      <4>2. u[(d - 1) + 1] = v[(d - 1) + 1]
        BY <2>3, <2>4, <4>1
      <4> QED
        BY <4>2
    <3> QED
      BY <3>1, <3>2
  <2>6. u = v
    BY <2>1, <2>4, <2>5
  <2> QED
    BY <2>6 DEF u
<1>6. w \in Ways(g, g.kids[n][e].to, {k})
    BY <1>3, <1>4, WayFacts
<1>7. v \in Through(g, n, e, {k})
    BY <1>5, <1>6 DEF Through
<1> HIDE DEF w, e
<1> QED
    BY <1>2, <1>7 DEF e

(* The ways down by k + 1 steps are those through each place by k more.    *)
LEMMA WaysDown ==
    ASSUME NEW g, NEW n \in DOMAIN g.kids, NEW k \in Nat
    PROVE  Ways(g, n, {k + 1}) = UNION {Through(g, n, e, {k}) : e \in DOMAIN g.kids[n]}
<1>1. ASSUME NEW v \in Ways(g, n, {k + 1})
      PROVE  \E e \in DOMAIN g.kids[n] : v \in Through(g, n, e, {k})
    BY WayFrom
<1>2. ASSUME NEW e \in DOMAIN g.kids[n], NEW v \in Through(g, n, e, {k})
      PROVE  v \in Ways(g, n, {k + 1})
  <2>1. PICK w \in Ways(g, g.kids[n][e].to, {k}) : v = First(n, e, w)
    BY DEF Through
  <2> QED
    BY <2>1, WayOn
<1> QED
    BY <1>1, <1>2

LEMMA WaysGoOn ==
    ASSUME NEW g, NEW n \in DOMAIN g.kids, NEW k \in Nat
    PROVE  Ways(g, n, {k + 1}) # {} <=>
               \E e \in DOMAIN g.kids[n] : Ways(g, g.kids[n][e].to, {k}) # {}
<1>1. \A e \in DOMAIN g.kids[n] :
          Through(g, n, e, {k}) # {} <=> Ways(g, g.kids[n][e].to, {k}) # {}
    BY DEF Through
<1>2. Ways(g, n, {k + 1}) # {} <=>
          \E e \in DOMAIN g.kids[n] : Through(g, n, e, {k}) # {}
  <2> DEFINE T(e) == Through(g, n, e, {k})
  <2>1. Ways(g, n, {k + 1}) = UNION {T(e) : e \in DOMAIN g.kids[n]}
    BY WaysDown
  <2> HIDE DEF T
  <2>2. Ways(g, n, {k + 1}) # {} <=> \E e \in DOMAIN g.kids[n] : T(e) # {}
    <3>1. ASSUME NEW v \in Ways(g, n, {k + 1}) PROVE \E e \in DOMAIN g.kids[n] : v \in T(e)
      BY <2>1
    <3>2. ASSUME NEW e \in DOMAIN g.kids[n], NEW v \in T(e) PROVE v \in Ways(g, n, {k + 1})
      BY <2>1
    <3> QED
      BY <3>1, <3>2, Zenon
  <2> QED
    BY <2>2 DEF T
<1> QED
    BY <1>1, <1>2

LEMMA Shortest ==
    ASSUME NEW g, NEW n
    PROVE  Ways(g, n, {0}) = {<<>>}
<1>1. \A w : w \in Ways(g, n, {0}) <=> w \in [1 .. 0 -> Steps(g)]
    BY WayFacts
<1>2. \A w : w \in [1 .. 0 -> Steps(g)] => w = <<>>
  <2> SUFFICES ASSUME NEW w \in [1 .. 0 -> Steps(g)] PROVE w = <<>>
    OBVIOUS
  <2>1. w \in Seq(Steps(g)) /\ Len(w) = 0
    OBVIOUS
  <2> QED
    BY <2>1
<1>3. <<>> \in [1 .. 0 -> Steps(g)]
  <2>1. <<>> \in Seq(Steps(g)) /\ Len(<<>>) = 0
    OBVIOUS
  <2> QED
    BY <2>1
<1> QED
    BY <1>1, <1>2, <1>3

(* From a set of objects each of which has a part in it the ways go on.    *)
LEMMA Endless ==
    ASSUME NEW g, NEW P, P \subseteq DOMAIN g.kids,
           \A n \in P : \E e \in DOMAIN g.kids[n] : g.kids[n][e].to \in P,
           NEW N \in Nat
    PROVE  \A k \in 0 .. N : \A n \in P : Ways(g, n, {k}) # {}
<1> DEFINE G == {k \in 0 .. N : \A n \in P : Ways(g, n, {k}) # {}}
<1>1. 0 \in G
  <2>1. \A n \in P : Ways(g, n, {0}) # {}
    <3> TAKE n \in P
    <3>1. Ways(g, n, {0}) = {<<>>}
      BY Shortest
    <3> QED
      BY <3>1, Zenon
  <2> QED
    BY <2>1
<1>2. ASSUME NEW k \in G, k < N PROVE k + 1 \in G
  <2>0. k \in Nat /\ k + 1 \in 0 .. N
    BY <1>2
  <2>1. ASSUME NEW n \in P PROVE Ways(g, n, {k + 1}) # {}
    <3>1. PICK e \in DOMAIN g.kids[n] : g.kids[n][e].to \in P
      OBVIOUS
    <3>2. PICK w : w \in Ways(g, g.kids[n][e].to, {k})
      BY <3>1
    <3>3. First(n, e, w) \in Ways(g, n, {k + 1})
      BY <2>0, <3>1, <3>2, WayOn
    <3> QED
      BY <3>3
  <2> QED
    BY <2>0, <2>1
<1>3. \A k \in G : \A n \in P : Ways(g, n, {k}) # {}
    OBVIOUS
<1> HIDE DEF G
<1>4. \A k \in 0 .. N : k \in G
  <2>1. 0 \in G /\ \A k \in 0 .. N : k \in G /\ k < N => k + 1 \in G
    BY <1>1, <1>2
  <2> QED
    BY <2>1, Climb, Zenon
<1> QED
    BY <1>3, <1>4

(* The objects seen lie on a path that comes to object n.                  *)
Behind(g, seen, n) ==
    \E P \in SUBSET DOMAIN g.kids :
        /\ seen \subseteq P
        /\ \A m \in P : \E e \in DOMAIN g.kids[m] : g.kids[m][e].to \in P \cup {n}

LEMMA BehindPart ==
    ASSUME NEW g, NEW n \in DOMAIN g.kids, NEW e \in DOMAIN g.kids[n],
           NEW seen, Behind(g, seen, n)
    PROVE  Behind(g, Seen(g, n, e, seen), g.kids[n][e].to)
<1>1. PICK P \in SUBSET DOMAIN g.kids :
          /\ seen \subseteq P
          /\ \A m \in P : \E d \in DOMAIN g.kids[m] : g.kids[m][d].to \in P \cup {n}
    BY DEF Behind
<1>2. P \cup {n} \in SUBSET DOMAIN g.kids /\ Seen(g, n, e, seen) \subseteq P \cup {n}
    BY <1>1 DEF Seen
<1>3. \A m \in P \cup {n} : \E d \in DOMAIN g.kids[m] :
          g.kids[m][d].to \in (P \cup {n}) \cup {g.kids[n][e].to}
    BY <1>1
<1> QED
    BY <1>2, <1>3 DEF Behind

(* An object seen before lies on a cycle.                                  *)
LEMMA BehindItself ==
    ASSUME NEW g, NEW n, NEW seen, Behind(g, seen, n), n \in seen, NEW k \in Nat
    PROVE  Ways(g, n, {k}) # {}
<1>1. PICK P \in SUBSET DOMAIN g.kids :
          /\ seen \subseteq P
          /\ \A m \in P : \E d \in DOMAIN g.kids[m] : g.kids[m][d].to \in P \cup {n}
    BY DEF Behind
<1>2. n \in P /\ \A m \in P : \E d \in DOMAIN g.kids[m] : g.kids[m][d].to \in P
    BY <1>1
<1>3. \A d \in 0 .. k : \A m \in P : Ways(g, m, {d}) # {}
    BY <1>1, <1>2, Endless
<1> QED
    BY <1>2, <1>3

(* What WellFormed says of the objects, for the provers.                   *)
LEMMA Objects ==
    ASSUME NEW g, WellFormed(g)
    PROVE  /\ 1 \in DOMAIN g.kids
           /\ \A n \in DOMAIN g.kids :
                /\ Len(g.kids[n]) \in Nat /\ DOMAIN g.kids[n] = 1 .. Len(g.kids[n])
                /\ g.kids[n] = <<>> <=> DOMAIN g.kids[n] = {}
                /\ \A e \in DOMAIN g.kids[n] : g.kids[n][e].to \in DOMAIN g.kids
           /\ \A n \in g.wrappers : n \in DOMAIN g.kids /\ DOMAIN g.kids[n] = {1}
<1>1. ASSUME NEW n \in DOMAIN g.kids
      PROVE  /\ Len(g.kids[n]) \in Nat /\ DOMAIN g.kids[n] = 1 .. Len(g.kids[n])
             /\ g.kids[n] = <<>> <=> DOMAIN g.kids[n] = {}
             /\ \A e \in DOMAIN g.kids[n] : g.kids[n][e].to \in DOMAIN g.kids
  <2>1. g.kids[n] \in Seq([text : STRING, to : DOMAIN g.kids])
    BY DEF WellFormed
  <2> DEFINE s == g.kids[n]
             D == DOMAIN g.kids
             R == [text : STRING, to : D]
  <2>2. s \in Seq(R)
    BY <2>1
  <2>3. \A r \in R : r.to \in D
    OBVIOUS
  <2> HIDE DEF s, R, D
  <2>4. Len(s) \in Nat /\ DOMAIN s = 1 .. Len(s) /\ \A e \in DOMAIN s : s[e] \in R
    BY <2>2
  <2>6. s = <<>> <=> DOMAIN s = {}
    <3>1. s = <<>> <=> Len(s) = 0
      BY <2>2, EmptySeq
    <3> QED
      BY <2>4, <3>1
  <2>5. \A e \in DOMAIN s : s[e].to \in D
    BY <2>3, <2>4
  <2> QED
    BY <2>4, <2>5, <2>6 DEF s, D
<1>2. ASSUME NEW n \in g.wrappers PROVE n \in DOMAIN g.kids /\ DOMAIN g.kids[n] = {1}
  <2>1. n \in DOMAIN g.kids /\ Len(g.kids[n]) = 1
    BY DEF WellFormed
  <2>2. DOMAIN g.kids[n] = 1 .. 1
    BY <1>1, <2>1
  <2> QED
    BY <2>1, <2>2
<1> QED
    BY <1>1, <1>2 DEF WellFormed

(* The walk fails exactly when a way goes past the last depth: a call with *)
(* k levels left does when a way goes k steps down.                        *)
LEMMA FailsWhenDeep ==
    ASSUME NEW g, WellFormed(g)
    PROVE  Form(g) = Failed <=> Ways(g, 1, {MaxDepth + 1}) # {}
<1> DEFINE N == MaxDepth + 1
<1>t. PICK table :
          /\ table[0] = [n \in DOMAIN g.kids |-> [seen \in SUBSET g.containers |-> Failed]]
          /\ \A k \in 1 .. N : table[k] = Answers(g, table[k - 1])
          /\ Form(g) = table[N][1][{}]
    BY FormDef
<1>n. N \in Nat
    BY LimitAssumption
<1> HIDE DEF N
<1> DEFINE Right(k) ==
               \A n \in DOMAIN g.kids : \A seen \in SUBSET g.containers :
                   Behind(g, seen, n) =>
                       (table[k][n][seen] = Failed <=> Ways(g, n, {k}) # {})
           G == {k \in 0 .. N : Right(k)}
<1>0. \A n \in DOMAIN g.kids : \A k \in Nat :
          Ways(g, n, {k + 1}) # {} <=>
              \E e \in DOMAIN g.kids[n] : Ways(g, g.kids[n][e].to, {k}) # {}
    BY WaysGoOn
<1>1. Right(0)
  <2> SUFFICES ASSUME NEW n \in DOMAIN g.kids, NEW seen \in SUBSET g.containers
               PROVE  table[0][n][seen] = Failed /\ Ways(g, n, {0}) # {}
    OBVIOUS
  <2>1. Ways(g, n, {0}) = {<<>>}
    BY Shortest
  <2>2. table[0][n][seen] = Failed
    BY <1>t
  <2> QED
    BY <2>1, <2>2, Zenon
<1>2. ASSUME NEW k \in 0 .. N, Right(k), k < N PROVE Right(k + 1)
  <2> SUFFICES ASSUME NEW n \in DOMAIN g.kids, NEW seen \in SUBSET g.containers,
                      Behind(g, seen, n)
               PROVE  table[k + 1][n][seen] = Failed <=> Ways(g, n, {k + 1}) # {}
    OBVIOUS
  <2>0. k \in Nat /\ k + 1 \in Nat
    BY <1>2
  <2>1. table[k + 1] = Answers(g, table[k])
    <3>1. k + 1 \in 1 .. N /\ (k + 1) - 1 = k
      BY <1>n, <1>2
    <3> QED
      BY <1>t, <3>1
  <2> DEFINE entries == g.kids[n]
             sub == [e \in DOMAIN entries |->
                         table[k][entries[e].to][Seen(g, n, e, seen)]]
  <2>2. \A e \in DOMAIN entries :
            sub[e] = Failed <=> Ways(g, entries[e].to, {k}) # {}
    <3> SUFFICES ASSUME NEW e \in DOMAIN entries
                 PROVE  sub[e] = Failed <=> Ways(g, entries[e].to, {k}) # {}
      OBVIOUS
    <3>1. /\ entries[e].to \in DOMAIN g.kids
          /\ Seen(g, n, e, seen) \in SUBSET g.containers
          /\ Behind(g, Seen(g, n, e, seen), entries[e].to)
      BY Objects, BehindPart DEF Seen
    <3> QED
      BY <1>2, <3>1
  <2>3. (\E e \in DOMAIN entries : sub[e] = Failed) <=> Ways(g, n, {k + 1}) # {}
    <3>1. Ways(g, n, {k + 1}) # {} <=>
              \E e \in DOMAIN entries : Ways(g, entries[e].to, {k}) # {}
      BY <2>0, <1>0, Zenon
    <3> QED
      BY <2>2, <3>1
  <2>4. n \in seen => Ways(g, n, {k + 1}) # {}
    BY <2>0, BehindItself
  <2> DEFINE form == [failed |-> FALSE, of |-> IF entries = <<>> THEN n ELSE 0,
                      parts |-> [t \in Texts(entries) |-> sub[Entry(entries, t)]]]
  <2>5. table[k + 1][n][seen] =
            IF n \in seen \/ \E e \in DOMAIN entries : sub[e] = Failed THEN Failed
            ELSE IF n \in g.wrappers THEN sub[1] ELSE form
    <3>1. Answers(g, table[k])[n][seen] =
              IF n \in seen \/ \E e \in DOMAIN entries : sub[e] = Failed THEN Failed
              ELSE IF n \in g.wrappers THEN sub[1] ELSE form
      BY Zenon DEF Answers
    <3> QED
      BY <2>1, <3>1
  <2>6. form # Failed
    <3>1. form.failed = FALSE /\ Failed.failed = TRUE
      BY DEF Failed
    <3> QED
      BY <3>1
  <2>7. n \in g.wrappers => 1 \in DOMAIN entries
    BY Objects
  <2> HIDE DEF sub, form, entries
  <2> QED
    BY <2>3, <2>4, <2>5, <2>6, <2>7
<1>3. \A k \in G : Right(k)
    OBVIOUS
<1>4. 0 \in G /\ \A k \in 0 .. N : k \in G /\ k < N => k + 1 \in G
  <2> HIDE DEF Right
  <2> QED
    BY <1>n, <1>1, <1>2
<1> HIDE DEF G
<1>5. \A k \in 0 .. N : k \in G
    BY <1>n, <1>4, Climb, Zenon
<1>6. Right(N)
  <2> HIDE DEF Right
  <2> QED
    BY <1>n, <1>3, <1>5
<1>7. 1 \in DOMAIN g.kids /\ {} \in SUBSET g.containers /\ Behind(g, {}, 1)
    BY Objects DEF Behind
<1> QED
    BY <1>t, <1>6, <1>7 DEF N

LEMMA WaysEach ==
    ASSUME NEW g, NEW n, NEW depths, NEW w
    PROVE  w \in Ways(g, n, depths) <=> \E k \in depths : w \in Ways(g, n, {k})
<1> DEFINE Is(k) == /\ w \in [1 .. k -> Steps(g)]
                    /\ \A d \in 1 .. k :
                           w[d][1] = IF d = 1 THEN n ELSE To(g, w[d - 1])
<1>1. ASSUME NEW D PROVE w \in Ways(g, n, D) <=> \E k \in D : Is(k)
    BY WayFacts
<1> HIDE DEF Is
<1> QED
    BY <1>1

LEMMA ThroughEach ==
    ASSUME NEW g, NEW n, NEW e, NEW depths, NEW w
    PROVE  w \in Through(g, n, e, depths) <=> \E k \in depths : w \in Through(g, n, e, {k})
<1>1. ASSUME w \in Through(g, n, e, depths)
      PROVE  \E k \in depths : w \in Through(g, n, e, {k})
  <2>1. PICK u \in Ways(g, g.kids[n][e].to, depths) : w = First(n, e, u)
    BY <1>1 DEF Through
  <2>2. PICK k \in depths : u \in Ways(g, g.kids[n][e].to, {k})
    BY WaysEach
  <2> QED
    BY <2>1, <2>2 DEF Through
<1>2. ASSUME NEW k \in depths, w \in Through(g, n, e, {k})
      PROVE  w \in Through(g, n, e, depths)
  <2>1. PICK u \in Ways(g, g.kids[n][e].to, {k}) : w = First(n, e, u)
    BY <1>2 DEF Through
  <2>2. u \in Ways(g, g.kids[n][e].to, depths)
    BY WaysEach
  <2> QED
    BY <2>1, <2>2 DEF Through
<1> QED
    BY <1>1, <1>2

LEMMA WaysAreLists ==
    ASSUME NEW g, NEW n, NEW depths \in SUBSET Nat, NEW w \in Ways(g, n, depths)
    PROVE  w \in Seq(Steps(g))
<1>1. PICK k \in depths : w \in [1 .. k -> Steps(g)]
    BY WayFacts, Zenon
<1> QED
    BY <1>1

(* The ways of at most k steps: none, or down by a place and k - 1 more.   *)
LEMMA WaysUpTo ==
    ASSUME NEW g, NEW n \in DOMAIN g.kids, NEW k \in Nat
    PROVE  Ways(g, n, 0 .. k) =
               {<<>>} \cup UNION {Through(g, n, e, 0 .. k - 1) : e \in DOMAIN g.kids[n]}
<1> DEFINE Rest == UNION {Through(g, n, e, 0 .. k - 1) : e \in DOMAIN g.kids[n]}
<1>1. \A w : w \in Rest <=> \E e \in DOMAIN g.kids[n] : w \in Through(g, n, e, 0 .. k - 1)
    OBVIOUS
<1>2. ASSUME NEW w \in Ways(g, n, 0 .. k) PROVE w = <<>> \/ w \in Rest
  <2>1. PICK d \in 0 .. k : w \in Ways(g, n, {d})
    BY WaysEach
  <2>2. CASE d = 0
    BY <2>1, <2>2, Shortest
  <2>3. CASE d # 0
    <3>1. d - 1 \in 0 .. k - 1 /\ d - 1 \in Nat /\ d = (d - 1) + 1
      BY <2>3
    <3>2. \A c \in Nat : w \in Ways(g, n, {c + 1}) =>
              \E e \in DOMAIN g.kids[n] : w \in Through(g, n, e, {c})
      BY WayFrom
    <3>3. PICK e \in DOMAIN g.kids[n] : w \in Through(g, n, e, {d - 1})
      BY <2>1, <3>1, <3>2
    <3>4. w \in Through(g, n, e, 0 .. k - 1)
      BY <3>1, <3>3, ThroughEach
    <3> QED
      BY <1>1, <3>4
  <2> QED
    BY <2>2, <2>3
<1>3. <<>> \in Ways(g, n, 0 .. k)
  <2>1. 0 \in 0 .. k
    OBVIOUS
  <2>2. <<>> \in Ways(g, n, {0})
    BY Shortest
  <2> QED
    BY <2>1, <2>2, WaysEach
<1>4. ASSUME NEW w \in Rest PROVE w \in Ways(g, n, 0 .. k)
  <2>1. PICK e \in DOMAIN g.kids[n] : w \in Through(g, n, e, 0 .. k - 1)
    BY <1>1
  <2>2. PICK d \in 0 .. k - 1 : w \in Through(g, n, e, {d})
    BY <2>1, ThroughEach
  <2>3. PICK u \in Ways(g, g.kids[n][e].to, {d}) : w = First(n, e, u)
    BY <2>2 DEF Through
  <2>4. d \in Nat /\ d + 1 \in 0 .. k
    BY <2>2
  <2>5. w \in Ways(g, n, {d + 1})
    BY <2>3, <2>4, WayOn
  <2> QED
    BY <2>4, <2>5, WaysEach
<1> HIDE DEF Rest
<1>5. Ways(g, n, 0 .. k) = {<<>>} \cup Rest
    BY <1>2, <1>3, <1>4
<1> QED
    BY <1>5 DEF Rest

LEMMA FirstFacts ==
    ASSUME NEW S, NEW n, NEW e, <<n, e>> \in S, NEW w \in Seq(S)
    PROVE  /\ First(n, e, w) \in Seq(S) /\ Len(First(n, e, w)) = Len(w) + 1
           /\ First(n, e, w)[1] = <<n, e>>
           /\ \A d \in 1 .. Len(w) : First(n, e, w)[d + 1] = w[d]
    BY DEF First

(* There are as many ways through a place as from the object there, and no *)
(* way is through two places.                                              *)
LEMMA ThroughSize ==
    ASSUME NEW g, NEW n \in DOMAIN g.kids, NEW e \in DOMAIN g.kids[n],
           NEW depths \in SUBSET Nat, IsFiniteSet(Ways(g, g.kids[n][e].to, depths))
    PROVE  /\ IsFiniteSet(Through(g, n, e, depths))
           /\ Cardinality(Through(g, n, e, depths)) =
                  Cardinality(Ways(g, g.kids[n][e].to, depths))
           /\ \A v \in Through(g, n, e, depths) : v # <<>> /\ v[1] = <<n, e>>
<1> DEFINE W == Ways(g, g.kids[n][e].to, depths)
           T == Through(g, n, e, depths)
           f == [w \in W |-> First(n, e, w)]
           S == Steps(g)
<1>1. <<n, e>> \in S
    BY StepFacts
<1>2. \A w \in W : w \in Seq(S)
    BY WaysAreLists
<1>0. T = {First(n, e, w) : w \in W}
    BY DEF Through
<1> HIDE DEF W, T, S
<1>3. \A w \in W : /\ First(n, e, w) \in Seq(S) /\ Len(First(n, e, w)) = Len(w) + 1
                   /\ First(n, e, w)[1] = <<n, e>>
                   /\ \A d \in 1 .. Len(w) : First(n, e, w)[d + 1] = w[d]
    BY <1>1, <1>2, FirstFacts
<1>4. ASSUME NEW w \in W, NEW u \in W, First(n, e, w) = First(n, e, u)
      PROVE  w = u
  <2>1. Len(w) = Len(u)
    BY <1>2, <1>3, <1>4
  <2>2. \A d \in 1 .. Len(w) : w[d] = u[d]
    BY <1>3, <1>4, <2>1
  <2> QED
    BY <1>2, <2>1, <2>2, SeqEqual
<1>5. f \in Bijection(W, T)
  <2>1. f \in [W -> T]
    BY <1>0
  <2>2. \A w, u \in W : f[w] = f[u] => w = u
    BY <1>4
  <2>3. \A v \in T : \E w \in W : f[w] = v
    BY <1>0
  <2> HIDE DEF f
  <2> QED
    BY <2>1, <2>2, <2>3 DEF Bijection, Injection, Surjection, IsInjective
<1>6. IsFiniteSet(T) /\ Cardinality(T) = Cardinality(W)
  <2>1. ExistsBijection(W, T)
    BY <1>5 DEF ExistsBijection
  <2>2. IsFiniteSet(W)
    BY DEF W
  <2> QED
    BY <2>1, <2>2, FS_Bijection
<1>7. \A v \in T : v # <<>> /\ v[1] = <<n, e>>
  <2> SUFFICES ASSUME NEW v \in T PROVE v # <<>> /\ v[1] = <<n, e>>
    OBVIOUS
  <2>1. PICK w \in W : v = First(n, e, w)
    BY <1>0
  <2>2. Len(v) = Len(w) + 1 /\ Len(w) \in Nat /\ v[1] = <<n, e>>
    BY <1>2, <1>3, <2>1
  <2>3. Len(<<>>) = 0
    OBVIOUS
  <2> QED
    BY <2>2, <2>3
<1> QED
    BY <1>6, <1>7 DEF W, T

(* The ways through the places of an object add up, as each is through one.*)
LEMMA WaysAddUp ==
    ASSUME NEW g, WellFormed(g), NEW n \in DOMAIN g.kids, NEW k \in Nat, NEW below,
           \A m \in DOMAIN g.kids :
               /\ IsFiniteSet(Ways(g, m, 0 .. k - 1))
               /\ below[m] = Cardinality(Ways(g, m, 0 .. k - 1))
    PROVE  /\ IsFiniteSet(Ways(g, n, 0 .. k))
           /\ Calls(g, below)[n] = Cardinality(Ways(g, n, 0 .. k))
<1> DEFINE m == Len(g.kids[n])
           T(e) == Through(g, n, e, 0 .. k - 1)
           s == [e \in DOMAIN g.kids[n] |-> below[g.kids[n][e].to]]
           U(c) == UNION {T(e) : e \in 1 .. c}
<1>1. m \in Nat /\ DOMAIN g.kids[n] = 1 .. m
    BY Objects
<1>2. ASSUME NEW e \in 1 .. m
      PROVE  /\ IsFiniteSet(T(e)) /\ Cardinality(T(e)) = s[e] /\ s[e] \in Nat
             /\ \A v \in T(e) : v # <<>> /\ v[1] = <<n, e>>
  <2>1. e \in DOMAIN g.kids[n] /\ g.kids[n][e].to \in DOMAIN g.kids
    BY <1>1, Objects
  <2>2. 0 .. k - 1 \in SUBSET Nat
    OBVIOUS
  <2>3. IsFiniteSet(Ways(g, g.kids[n][e].to, 0 .. k - 1))
    BY <2>1
  <2>4. /\ IsFiniteSet(T(e))
        /\ Cardinality(T(e)) = Cardinality(Ways(g, g.kids[n][e].to, 0 .. k - 1))
        /\ \A v \in T(e) : v # <<>> /\ v[1] = <<n, e>>
    BY <2>1, <2>2, <2>3, ThroughSize
  <2>5. s[e] = Cardinality(Ways(g, g.kids[n][e].to, 0 .. k - 1))
    BY <2>1
  <2>6. s[e] \in Nat
    BY <2>3, <2>5, FS_CardinalityType
  <2> HIDE DEF s, T
  <2> QED
    BY <2>4, <2>5, <2>6
<1>3. Len(s) = m
  <2>1. s \in Seq(Nat)
    <3>1. s \in [1 .. m -> Nat]
      <4>1. \A e \in 1 .. m : s[e] \in Nat
        BY <1>2
      <4>2. s = [e \in 1 .. m |-> s[e]]
        BY <1>1
      <4> HIDE DEF s
      <4> QED
        BY <4>1, <4>2
    <3> HIDE DEF s, m
    <3> QED
      BY <1>1, <3>1
  <2>2. DOMAIN s = 1 .. m
    BY <1>1
  <2> HIDE DEF s, m
  <2> QED
    BY <1>1, <2>1, <2>2
<1>4. PICK sum : /\ sum[0] = 0 /\ Total(s) = sum[m]
                 /\ \A e \in 1 .. m : sum[e] = sum[e - 1] + s[e]
  <2> HIDE DEF s, m
  <2> QED
    BY <1>1, <1>3, TotalDef
<1> DEFINE G == {c \in 0 .. m : IsFiniteSet(U(c)) /\ Cardinality(U(c)) = sum[c]}
<1> HIDE DEF T, s, m
<1>5. 0 \in G
  <2>1. U(0) = {}
    OBVIOUS
  <2> HIDE DEF U
  <2>2. IsFiniteSet(U(0)) /\ Cardinality(U(0)) = 0
    BY <2>1, FS_EmptySet
  <2>3. 0 \in 0 .. m
    BY <1>1
  <2> QED
    BY <1>4, <2>2, <2>3
<1>6. ASSUME NEW c \in G, c < m PROVE c + 1 \in G
  <2>0. /\ c \in 0 .. m /\ c + 1 \in 1 .. m /\ (c + 1) - 1 = c
        /\ IsFiniteSet(U(c)) /\ Cardinality(U(c)) = sum[c]
    BY <1>1, <1>6
  <2>1. U(c + 1) = U(c) \cup T(c + 1)
    <3>1. 1 .. c + 1 = (1 .. c) \cup {c + 1}
      BY <2>0
    <3> QED
      BY <3>1
  <2>2. U(c) \cap T(c + 1) = {}
    <3> SUFFICES ASSUME NEW v \in U(c), v \in T(c + 1) PROVE FALSE
      OBVIOUS
    <3>1. PICK e \in 1 .. c : v \in T(e)
      OBVIOUS
    <3>2. e \in 1 .. m /\ e # c + 1
      BY <1>1, <2>0, <3>1
    <3>3. v[1] = <<n, e>>
      BY <1>2, <3>1, <3>2
    <3>4. v[1] = <<n, c + 1>>
      BY <1>2, <2>0
    <3> QED
      BY <3>2, <3>3, <3>4
  <2> HIDE DEF U, G
  <2>3. IsFiniteSet(T(c + 1)) /\ Cardinality(T(c + 1)) = s[c + 1] /\ s[c + 1] \in Nat
    BY <1>2, <2>0
  <2>4. /\ IsFiniteSet(U(c + 1))
        /\ Cardinality(U(c + 1)) = Cardinality(U(c)) + Cardinality(T(c + 1)) - 0
    <3>1. Cardinality(U(c) \cap T(c + 1)) = 0
      BY <2>2, FS_EmptySet
    <3> QED
      BY <2>0, <2>1, <2>3, <3>1, FS_Union
  <2>5. Cardinality(U(c)) \in Nat
    BY <2>0, FS_CardinalityType
  <2>6. sum[c + 1] = sum[c] + s[c + 1]
    BY <1>4, <2>0
  <2>7. Cardinality(U(c + 1)) = sum[c + 1]
    BY <2>0, <2>3, <2>4, <2>5, <2>6
  <2> QED
    BY <1>1, <2>0, <2>4, <2>7 DEF G
<1>7. IsFiniteSet(U(m)) /\ Cardinality(U(m)) = sum[m]
  <2> HIDE DEF U
  <2>1. 0 \in G /\ \A c \in 0 .. m : c \in G /\ c < m => c + 1 \in G
    BY <1>5, <1>6
  <2>2. \A c \in G : IsFiniteSet(U(c)) /\ Cardinality(U(c)) = sum[c]
    OBVIOUS
  <2> HIDE DEF G
  <2>3. \A c \in 0 .. m : c \in G
    BY <1>1, <2>1, Climb, Zenon
  <2> QED
    BY <1>1, <2>2, <2>3
<1>8. <<>> \notin U(m)
    BY <1>2
<1>9. Ways(g, n, 0 .. k) = U(m) \cup {<<>>}
  <2>1. Ways(g, n, 0 .. k) = {<<>>} \cup UNION {T(e) : e \in DOMAIN g.kids[n]}
    BY WaysUpTo DEF T
  <2> QED
    BY <1>1, <2>1
<1> HIDE DEF U, G
<1>10. IsFiniteSet(Ways(g, n, 0 .. k)) /\ Cardinality(Ways(g, n, 0 .. k)) = sum[m] + 1
    BY <1>7, <1>8, <1>9, FS_AddElement
<1>11. Calls(g, below)[n] = 1 + Total(s)
    BY DEF Calls, s
<1>12. sum[m] \in Nat
    BY <1>7, FS_CardinalityType
<1> QED
    BY <1>4, <1>10, <1>11, <1>12

(* _items counts the ways that go no deeper than the limit.                *)
LEMMA ItemsAreWays ==
    ASSUME NEW g, WellFormed(g)
    PROVE  /\ IsFiniteSet(Ways(g, 1, 0 .. MaxDepth))
           /\ Items(g) = Cardinality(Ways(g, 1, 0 .. MaxDepth))
<1> DEFINE N == MaxDepth + 1
<1>1. PICK table : /\ table[0] = [n \in DOMAIN g.kids |-> 0]
                   /\ \A k \in 1 .. N : table[k] = Calls(g, table[k - 1])
                   /\ Items(g) = table[N][1]
    BY ItemsDef
<1>2. N \in Nat /\ N - 1 = MaxDepth
    BY LimitAssumption
<1> HIDE DEF N
<1> DEFINE Right(k) == \A n \in DOMAIN g.kids :
                           /\ IsFiniteSet(Ways(g, n, 0 .. k - 1))
                           /\ table[k][n] = Cardinality(Ways(g, n, 0 .. k - 1))
           G == {k \in 0 .. N : Right(k)}
<1>3. Right(0)
  <2> SUFFICES ASSUME NEW n \in DOMAIN g.kids
               PROVE  /\ IsFiniteSet(Ways(g, n, 0 .. 0 - 1))
                      /\ table[0][n] = Cardinality(Ways(g, n, 0 .. 0 - 1))
    OBVIOUS
  <2>1. 0 .. 0 - 1 = {}
    OBVIOUS
  <2>2. Ways(g, n, {}) = {}
    BY DEF Ways
  <2> QED
    BY <1>1, <2>1, <2>2, FS_EmptySet
<1>4. ASSUME NEW k \in 0 .. N, Right(k), k < N PROVE Right(k + 1)
  <2>1. k \in Nat /\ k + 1 \in 1 .. N /\ (k + 1) - 1 = k
    BY <1>2, <1>4
  <2>2. table[k + 1] = Calls(g, table[k])
    BY <1>1, <2>1
  <2> SUFFICES ASSUME NEW n \in DOMAIN g.kids
               PROVE  /\ IsFiniteSet(Ways(g, n, 0 .. (k + 1) - 1))
                      /\ table[k + 1][n] = Cardinality(Ways(g, n, 0 .. (k + 1) - 1))
    OBVIOUS
  <2>3. /\ IsFiniteSet(Ways(g, n, 0 .. k))
        /\ Calls(g, table[k])[n] = Cardinality(Ways(g, n, 0 .. k))
    BY <1>4, <2>1, WaysAddUp
  <2> QED
    BY <2>1, <2>2, <2>3
<1>5. \A k \in G : Right(k)
    OBVIOUS
<1>6. 0 \in G /\ \A k \in 0 .. N : k \in G /\ k < N => k + 1 \in G
  <2> HIDE DEF Right
  <2> QED
    BY <1>2, <1>3, <1>4
<1> HIDE DEF G
<1>7. \A k \in 0 .. N : k \in G
    BY <1>2, <1>6, Climb, Zenon
<1>8. Right(N)
  <2> HIDE DEF Right
  <2> QED
    BY <1>2, <1>5, <1>7
<1>9. 1 \in DOMAIN g.kids
    BY Objects
<1> QED
    BY <1>1, <1>2, <1>8, <1>9

(* What canonicalize refuses.                                              *)
LEMMA Refused ==
    ASSUME NEW g, WellFormed(g)
    PROVE  Canonicalize(g) = Failed <=>
               \/ Ways(g, 1, {MaxDepth + 1}) # {}
               \/ Cardinality(Ways(g, 1, 0 .. MaxDepth)) > MaxItems
<1>4. Form(g) = Failed <=> Ways(g, 1, {MaxDepth + 1}) # {}
    BY FailsWhenDeep
<1>5. Items(g) = Cardinality(Ways(g, 1, 0 .. MaxDepth))
    BY ItemsAreWays
<1>6. Canonicalize(g) = Failed <=> Form(g) = Failed \/ Items(g) > MaxItems
    BY DEF Canonicalize
<1> QED
    BY <1>4, <1>5, <1>6

(* Each place in value h has its own place in value g that holds the same. *)
InPlace(h, g, place) ==
    /\ DOMAIN h.kids = DOMAIN g.kids
    /\ \A m \in DOMAIN h.kids : \A e \in DOMAIN h.kids[m] :
           /\ place[m][e] \in DOMAIN g.kids[m]
           /\ g.kids[m][place[m][e]].to = h.kids[m][e].to
           /\ \A d \in DOMAIN h.kids[m] : place[m][e] = place[m][d] => e = d

(* So h has no more ways than g.                                           *)
LEMMA WaysFewer ==
    ASSUME NEW g, NEW h, NEW place, InPlace(h, g, place),
           NEW n, NEW depths \in SUBSET Nat, IsFiniteSet(Ways(g, n, depths))
    PROVE  Cardinality(Ways(h, n, depths)) <= Cardinality(Ways(g, n, depths))
<1>0. /\ DOMAIN h.kids = DOMAIN g.kids
      /\ \A m \in DOMAIN h.kids : \A e \in DOMAIN h.kids[m] :
             /\ place[m][e] \in DOMAIN g.kids[m]
             /\ g.kids[m][place[m][e]].to = h.kids[m][e].to
             /\ \A d \in DOMAIN h.kids[m] : place[m][e] = place[m][d] => e = d
    BY DEF InPlace
<1>w. \A w \in Ways(h, n, depths) : \E k \in depths :
          /\ w \in [1 .. k -> Steps(h)]
          /\ \A d \in 1 .. k : w[d][1] = IF d = 1 THEN n ELSE To(h, w[d - 1])
  <2> TAKE w \in Ways(h, n, depths)
  <2>1. w \in Ways(h, n, depths)
    OBVIOUS
  <2> QED
    BY <2>1 DEF Ways
<1> DEFINE Turned(step) == <<step[1], place[step[1]][step[2]]>>
<1>1. \A step \in Steps(h) : Turned(step) \in Steps(g) /\ To(g, Turned(step)) = To(h, step)
  <2> SUFFICES ASSUME NEW step \in Steps(h)
               PROVE  Turned(step) \in Steps(g) /\ To(g, Turned(step)) = To(h, step)
    OBVIOUS
  <2>1. step[1] \in DOMAIN h.kids /\ step[2] \in DOMAIN h.kids[step[1]]
    BY StepFacts
  <2>2. Turned(step) \in Steps(g)
    BY <1>0, <2>1, StepFacts
  <2> QED
    BY <1>0, <2>1, <2>2 DEF To
<1>2. \A a, b \in Steps(h) : Turned(a) = Turned(b) => a = b
  <2> SUFFICES ASSUME NEW a \in Steps(h), NEW b \in Steps(h), Turned(a) = Turned(b)
               PROVE  a = b
    OBVIOUS
  <2>1. /\ a = <<a[1], a[2]>> /\ a[1] \in DOMAIN h.kids /\ a[2] \in DOMAIN h.kids[a[1]]
        /\ b = <<b[1], b[2]>> /\ b[1] \in DOMAIN h.kids /\ b[2] \in DOMAIN h.kids[b[1]]
    BY StepFacts
  <2>2. a[1] = b[1] /\ place[a[1]][a[2]] = place[a[1]][b[2]]
    OBVIOUS
  <2> QED
    BY <1>0, <2>1, <2>2
<1>3. \A step : Turned(step)[1] = step[1]
    OBVIOUS
<1> HIDE DEF Turned
<1> DEFINE W == Ways(h, n, depths)
           V == Ways(g, n, depths)
           f == [w \in W |-> [d \in DOMAIN w |-> Turned(w[d])]]
<1>4. ASSUME NEW w \in W PROVE f[w] \in V
  <2>0. w \in Ways(h, n, depths)
    OBVIOUS
  <2>1. PICK k \in depths :
            /\ w \in [1 .. k -> Steps(h)]
            /\ \A d \in 1 .. k : w[d][1] = IF d = 1 THEN n ELSE To(h, w[d - 1])
    <3> HIDE DEF f, W, V
    <3> QED
      BY <2>0, <1>w
  <2> DEFINE u == f[w]
  <2>2. u = [d \in 1 .. k |-> Turned(w[d])]
    BY <2>1
  <2> HIDE DEF f, W, V
  <2>3. k \in Nat
    OBVIOUS
  <2> HIDE DEF u
  <2>4. u \in [1 .. k -> Steps(g)]
    BY <1>1, <2>1, <2>2
  <2>5. \A d \in 1 .. k : u[d][1] = IF d = 1 THEN n ELSE To(g, u[d - 1])
    <3> SUFFICES ASSUME NEW d \in 1 .. k
                 PROVE  u[d][1] = IF d = 1 THEN n ELSE To(g, u[d - 1])
      OBVIOUS
    <3>1. u[d][1] = w[d][1]
      BY <1>3, <2>2
    <3>2. CASE d = 1
      BY <2>1, <3>1, <3>2
    <3>3. CASE d # 1
      <4>1. d - 1 \in 1 .. k
        BY <2>3, <3>3
      <4>2. To(g, u[d - 1]) = To(h, w[d - 1])
        BY <1>1, <2>1, <2>2, <4>1
      <4> QED
        BY <2>1, <3>1, <3>3, <4>2
    <3> QED
      BY <3>2, <3>3
  <2>6. u \in V
    BY <2>4, <2>5, WayFacts DEF V
  <2> QED
    BY <2>6 DEF u
<1>5. ASSUME NEW w \in W, NEW u \in W, f[w] = f[u] PROVE w = u
  <2>1. w \in Seq(Steps(h)) /\ u \in Seq(Steps(h))
    BY WaysAreLists
  <2>2. DOMAIN w = DOMAIN u /\ \A d \in DOMAIN w : Turned(w[d]) = Turned(u[d])
    <3>1. f[w] = [d \in DOMAIN w |-> Turned(w[d])] /\ f[u] = [d \in DOMAIN u |-> Turned(u[d])]
      OBVIOUS
    <3> HIDE DEF f
    <3>2. DOMAIN f[w] = DOMAIN w /\ DOMAIN f[u] = DOMAIN u
      BY <3>1
    <3>3. DOMAIN w = DOMAIN u
      BY <1>5, <3>2
    <3>4. \A d \in DOMAIN w : f[w][d] = Turned(w[d])
      BY <3>1
    <3>5. \A d \in DOMAIN u : f[u][d] = Turned(u[d])
      BY <3>1
    <3> QED
      BY <1>5, <3>3, <3>4, <3>5
  <2> HIDE DEF f, W
  <2>3. Len(w) = Len(u) /\ DOMAIN w = 1 .. Len(w)
    BY <2>1, <2>2
  <2>4. \A d \in 1 .. Len(w) : w[d] = u[d]
    BY <1>2, <2>1, <2>2, <2>3
  <2> QED
    BY <2>1, <2>3, <2>4, SeqEqual
<1>6. f \in Injection(W, V)
  <2>1. f \in [W -> V]
    <3>1. f = [w \in W |-> f[w]]
      OBVIOUS
    <3> HIDE DEF f
    <3> QED
      BY <1>4, <3>1
  <2>2. DOMAIN f = W
    OBVIOUS
  <2> HIDE DEF f, W, V
  <2> QED
    BY <1>5, <2>1, <2>2 DEF Injection, IsInjective
<1> HIDE DEF f, W
<1> QED
    BY <1>6, FS_Injection DEF W

(* Value h is g but for the order of the entries of one object.            *)
Differ(h, g, n, order) ==
    /\ h.containers = g.containers /\ h.wrappers = g.wrappers
    /\ DOMAIN h.kids = DOMAIN g.kids
    /\ \A m \in DOMAIN g.kids : m # n => h.kids[m] = g.kids[m]
    /\ h.kids[n] = [e \in DOMAIN g.kids[n] |-> g.kids[n][order[e]]]
    /\ \A e \in DOMAIN g.kids[n] : order[e] \in DOMAIN g.kids[n]
    /\ \A e, d \in DOMAIN g.kids[n] : order[e] = order[d] => e = d
    /\ \A d \in DOMAIN g.kids[n] : \E e \in DOMAIN g.kids[n] : order[e] = d
    /\ WellFormed(h)

LEMMA ReorderedFacts ==
    ASSUME NEW g, WellFormed(g), NEW n \in DOMAIN g.kids, NEW order \in Orders(g, n),
           NEW h, h = Reordered(g, n, order)
    PROVE  Differ(h, g, n, order)
<1> DEFINE D == DOMAIN g.kids
           E == DOMAIN g.kids[n]
           new == [e \in E |-> g.kids[n][order[e]]]
           R == [text : STRING, to : D]
<1>1. g = [kids |-> g.kids, containers |-> g.containers, wrappers |-> g.wrappers]
    BY DEF WellFormed
<1>2. h = [g EXCEPT !.kids = [g.kids EXCEPT ![n] = new]]
    BY DEF Reordered
<1>3. /\ h.kids = [g.kids EXCEPT ![n] = new]
      /\ h.containers = g.containers /\ h.wrappers = g.wrappers
      /\ h = [kids |-> h.kids, containers |-> h.containers, wrappers |-> h.wrappers]
  <2> DEFINE kids == [g.kids EXCEPT ![n] = new]
  <2>1. h = [g EXCEPT !.kids = kids]
    BY <1>2
  <2> HIDE DEF kids
  <2>2. h = [kids |-> kids, containers |-> g.containers, wrappers |-> g.wrappers]
    BY <1>1, <2>1
  <2>3. h.kids = kids /\ h.containers = g.containers /\ h.wrappers = g.wrappers
    BY <2>2
  <2> QED
    BY <2>2, <2>3 DEF kids
<1>4. g.kids \in [D -> Seq(R)]
    BY DEF WellFormed
<1>5. order \in [E -> E] /\ (\A e, d \in E : order[e] = order[d] => e = d)
      /\ \A d \in E : \E e \in E : order[e] = d
    BY DEF Orders, Bijection, Injection, Surjection, IsInjective
<1>6. Len(g.kids[n]) \in Nat /\ E = 1 .. Len(g.kids[n])
    BY Objects
<1> HIDE DEF R, E
<1>7. new \in Seq(R) /\ Len(new) = Len(g.kids[n])
  <2>1. \A e \in E : g.kids[n][e] \in R
    <3>1. g.kids[n] \in Seq(R)
      BY <1>4
    <3> QED
      BY <1>6, <3>1
  <2>2. new \in [1 .. Len(g.kids[n]) -> R]
    BY <1>5, <1>6, <2>1
  <2> HIDE DEF new
  <2> QED
    BY <1>6, <2>2
<1>8. /\ DOMAIN h.kids = D /\ h.kids[n] = new
      /\ \A m \in D : m # n => h.kids[m] = g.kids[m]
  <2> HIDE DEF new
  <2> QED
    BY <1>3
<1>9. h.kids \in [D -> Seq(R)]
  <2> HIDE DEF new
  <2> QED
    BY <1>3, <1>4, <1>7
<1>10. \A m \in h.wrappers : m \in D /\ Len(h.kids[m]) = 1
  <2>1. \A m \in g.wrappers : m \in D /\ Len(g.kids[m]) = 1
    BY DEF WellFormed
  <2> HIDE DEF new, D
  <2> QED
    BY <1>3, <1>7, <1>8, <2>1
<1>11. WellFormed(h)
  <2>1. 1 \in D
    BY DEF WellFormed
  <2> HIDE DEF new
  <2> QED
    BY <1>3, <1>8, <1>9, <1>10, <2>1 DEF WellFormed, R
<1> QED
  <2> HIDE DEF D
  <2> QED
    BY <1>3, <1>5, <1>8, <1>11 DEF E, D, Differ

(* It has as many parts as before.                                         *)
LEMMA SameItems ==
    ASSUME NEW g, WellFormed(g), NEW n \in DOMAIN g.kids, NEW order \in Orders(g, n),
           NEW h, h = Reordered(g, n, order)
    PROVE  Items(h) = Items(g)
<1> DEFINE E == DOMAIN g.kids[n]
           up == [m \in DOMAIN g.kids |-> IF m = n THEN order
                                          ELSE [e \in DOMAIN g.kids[m] |-> e]]
           back == [e \in E |-> CHOOSE d \in E : order[d] = e]
           down == [m \in DOMAIN g.kids |-> IF m = n THEN back
                                            ELSE [e \in DOMAIN g.kids[m] |-> e]]
           depths == 0 .. MaxDepth
<1>1. /\ DOMAIN h.kids = DOMAIN g.kids
      /\ \A m \in DOMAIN g.kids : m # n => h.kids[m] = g.kids[m]
      /\ h.kids[n] = [e \in E |-> g.kids[n][order[e]]]
      /\ \A e \in E : order[e] \in E
      /\ \A e, d \in E : order[e] = order[d] => e = d
      /\ \A d \in E : \E e \in E : order[e] = d
      /\ WellFormed(h)
  <2>1. Differ(h, g, n, order)
    BY ReorderedFacts, Zenon
  <2> QED
    BY <2>1 DEF Differ
<1>2. \A e \in E : back[e] \in E /\ order[back[e]] = e
    BY <1>1
<1>3. DOMAIN h.kids[n] = E /\ \A e \in E : h.kids[n][e] = g.kids[n][order[e]]
    BY <1>1
<1> HIDE DEF back
<1>4. /\ IsFiniteSet(Ways(g, 1, depths)) /\ Items(g) = Cardinality(Ways(g, 1, depths))
      /\ IsFiniteSet(Ways(h, 1, depths)) /\ Items(h) = Cardinality(Ways(h, 1, depths))
    BY <1>1, ItemsAreWays
<1>5. depths \in SUBSET Nat
    OBVIOUS
<1> HIDE DEF E
<1>6. InPlace(h, g, up)
  <2> SUFFICES ASSUME NEW m \in DOMAIN g.kids, NEW e \in DOMAIN h.kids[m]
               PROVE  /\ up[m][e] \in DOMAIN g.kids[m]
                      /\ g.kids[m][up[m][e]].to = h.kids[m][e].to
                      /\ \A d \in DOMAIN h.kids[m] : up[m][e] = up[m][d] => e = d
    BY <1>1 DEF InPlace
  <2>1. CASE m = n
    <3>1. up[n] = order
      OBVIOUS
    <3> HIDE DEF up
    <3>2. e \in E /\ h.kids[n][e] = g.kids[n][order[e]]
      BY <1>3, <2>1
    <3> QED
      BY <1>1, <1>3, <2>1, <3>1, <3>2 DEF E
  <2>2. CASE m # n
    <3>1. up[m] = [d \in DOMAIN g.kids[m] |-> d] /\ h.kids[m] = g.kids[m]
      BY <1>1, <2>2
    <3> QED
      BY <3>1
  <2> QED
    BY <2>1, <2>2
<1>7. InPlace(g, h, down)
  <2> SUFFICES ASSUME NEW m \in DOMAIN g.kids, NEW e \in DOMAIN g.kids[m]
               PROVE  /\ down[m][e] \in DOMAIN h.kids[m]
                      /\ h.kids[m][down[m][e]].to = g.kids[m][e].to
                      /\ \A d \in DOMAIN g.kids[m] : down[m][e] = down[m][d] => e = d
    BY <1>1 DEF InPlace
  <2>1. CASE m = n
    <3>1. down[n] = back
      OBVIOUS
    <3> HIDE DEF down
    <3>2. e \in E /\ h.kids[n][back[e]] = g.kids[n][e]
      BY <1>2, <1>3, <2>1 DEF E
    <3> QED
      BY <1>2, <1>3, <2>1, <3>1, <3>2 DEF E
  <2>2. CASE m # n
    <3>1. down[m] = [d \in DOMAIN g.kids[m] |-> d] /\ h.kids[m] = g.kids[m]
      BY <1>1, <2>2
    <3> QED
      BY <3>1
  <2> QED
    BY <2>1, <2>2
<1> HIDE DEF up, down, depths
<1>8. Cardinality(Ways(h, 1, depths)) <= Cardinality(Ways(g, 1, depths))
    BY <1>4, <1>5, <1>6, WaysFewer
<1>9. Cardinality(Ways(g, 1, depths)) <= Cardinality(Ways(h, 1, depths))
    BY <1>4, <1>5, <1>7, WaysFewer
<1>10. Cardinality(Ways(g, 1, depths)) \in Nat /\ Cardinality(Ways(h, 1, depths)) \in Nat
    BY <1>4, FS_CardinalityType
<1> QED
    BY <1>4, <1>8, <1>9, <1>10

(* A set that holds one number has it as its greatest.                     *)
LEMMA OneIsMost ==
    ASSUME NEW x \in Int
    PROVE  Max({x}) = x
    BY DEF Max

(* Keys that differ are as many as their texts, and each is the one of its *)
(* text.                                                                   *)
LEMMA TextsDiffer ==
    ASSUME NEW entries, NEW m \in Nat, DOMAIN entries = 1 .. m,
           Cardinality(Texts(entries)) = m
    PROVE  /\ \A e, d \in 1 .. m : entries[e].text = entries[d].text => e = d
           /\ \A e \in 1 .. m : Entry(entries, entries[e].text) = e
<1> DEFINE S == 1 .. m
           T == Texts(entries)
           f == [e \in S |-> entries[e].text]
<1>1. f \in Surjection(S, T)
  <2>1. f \in [S -> T]
    BY DEF Texts
  <2>2. \A t \in T : \E e \in S : f[e] = t
    BY DEF Texts
  <2> HIDE DEF f, S, T
  <2> QED
    BY <2>1, <2>2 DEF Surjection
<1>2. IsFiniteSet(S) /\ Cardinality(S) = m
    BY FS_Interval
<1>3. f \in Injection(S, T)
  <2> HIDE DEF f, S, T
  <2>1. Cardinality(T) = Cardinality(S) <=> f \in Injection(S, T)
    BY <1>1, <1>2, FS_Surjection
  <2> QED
    BY <1>2, <2>1 DEF T
<1>4. \A e, d \in S : f[e] = f[d] => e = d
  <2>1. DOMAIN f = S
    OBVIOUS
  <2> HIDE DEF f, S, T
  <2> QED
    BY <1>3, <2>1 DEF Injection, IsInjective
<1>5. \A e, d \in S : entries[e].text = entries[d].text => e = d
    BY <1>4
<1>6. ASSUME NEW e \in S PROVE Entry(entries, entries[e].text) = e
  <2>1. {d \in DOMAIN entries : entries[d].text = entries[e].text} = {e}
    BY <1>5
  <2>2. Max({e}) = e
    BY OneIsMost
  <2> QED
    BY <2>1, <2>2 DEF Entry
<1> QED
    BY <1>5, <1>6

(* A call answers the same when the entries are in another order.          *)
LEMMA SameAnswers ==
    ASSUME NEW g, WellFormed(g), NEW n \in DOMAIN g.kids, NEW order \in Orders(g, n),
           NEW h, h = Reordered(g, n, order),
           Cardinality(Texts(g.kids[n])) = Len(g.kids[n]), NEW below
    PROVE  Answers(h, below) = Answers(g, below)
<1> DEFINE E == DOMAIN g.kids[n]
           old == g.kids[n]
           new == h.kids[n]
<1>1. /\ h.containers = g.containers /\ h.wrappers = g.wrappers
      /\ DOMAIN h.kids = DOMAIN g.kids
      /\ \A m \in DOMAIN g.kids : m # n => h.kids[m] = g.kids[m]
      /\ new = [e \in E |-> old[order[e]]]
      /\ \A e \in E : order[e] \in E
      /\ \A e, d \in E : order[e] = order[d] => e = d
      /\ \A d \in E : \E e \in E : order[e] = d
      /\ WellFormed(h)
  <2>1. Differ(h, g, n, order)
    BY ReorderedFacts, Zenon
  <2> QED
    BY <2>1 DEF Differ
<1>2. Len(old) \in Nat /\ E = 1 .. Len(old)
    BY Objects
<1>3. /\ \A e, d \in E : old[e].text = old[d].text => e = d
      /\ \A e \in E : Entry(old, old[e].text) = e
  <2> HIDE DEF old
  <2>1. E = 1 .. Len(old) /\ DOMAIN old = E
    BY <1>2 DEF old
  <2>2. Cardinality(Texts(old)) = Len(old)
    BY DEF old
  <2> HIDE DEF E
  <2> QED
    BY <1>2, <2>1, <2>2, TextsDiffer
<1>4. DOMAIN new = E /\ \A e \in E : new[e] = old[order[e]]
    BY <1>1
<1> HIDE DEF E, new, old
<1>5. \A d \in E : \E e \in E : order[e] = d /\ new[e] = old[d]
    BY <1>1, <1>4
<1>6. Texts(new) = Texts(old)
  <2>1. DOMAIN old = E /\ DOMAIN new = E
    BY <1>4 DEF old, E
  <2>2. ASSUME NEW e \in E PROVE new[e].text \in Texts(old)
    BY <1>1, <1>4, <2>1 DEF Texts
  <2>3. ASSUME NEW d \in E PROVE old[d].text \in Texts(new)
    <3>1. PICK e \in E : new[e] = old[d]
      BY <1>5
    <3> QED
      BY <2>1, <3>1 DEF Texts
  <2> QED
    BY <2>1, <2>2, <2>3 DEF Texts
<1>7. \A t \in Texts(new) : \E e \in E : /\ Entry(new, t) = e /\ Entry(old, t) = order[e]
  <2> SUFFICES ASSUME NEW e \in E
               PROVE  Entry(new, new[e].text) = e /\ Entry(old, new[e].text) = order[e]
    BY <1>4 DEF Texts
  <2>1. new[e].text = old[order[e]].text /\ order[e] \in E
    BY <1>1, <1>4
  <2>2. Entry(old, new[e].text) = order[e]
    BY <1>3, <2>1
  <2>3. {d \in DOMAIN new : new[d].text = new[e].text} = {e}
    BY <1>1, <1>3, <1>4
  <2>4. Max({e}) = e
    BY <1>2, OneIsMost
  <2> QED
    BY <2>2, <2>3, <2>4 DEF Entry
<1> DEFINE sub(v, m, seen) == [e \in DOMAIN v.kids[m] |->
                                  below[v.kids[m][e].to][Seen(v, m, e, seen)]]
           form(v, m, seen) ==
               [failed |-> FALSE, of |-> IF v.kids[m] = <<>> THEN m ELSE 0,
                parts |-> [t \in Texts(v.kids[m]) |->
                               sub(v, m, seen)[Entry(v.kids[m], t)]]]
           reply(v, m, seen) ==
               IF m \in seen \/ \E e \in DOMAIN v.kids[m] : sub(v, m, seen)[e] = Failed
               THEN Failed
               ELSE IF m \in v.wrappers THEN sub(v, m, seen)[1] ELSE form(v, m, seen)
<1>8. ASSUME NEW m \in DOMAIN g.kids, NEW seen \in SUBSET g.containers
      PROVE  reply(h, m, seen) = reply(g, m, seen)
  <2>2. CASE m # n
    <3>1. h.kids[m] = g.kids[m]
      BY <1>1, <2>2
    <3>2. \A e : Seen(h, m, e, seen) = Seen(g, m, e, seen)
      BY <1>1 DEF Seen
    <3>3. sub(h, m, seen) = sub(g, m, seen)
      BY <3>1, <3>2
    <3> HIDE DEF sub
    <3> QED
      BY <1>1, <3>1, <3>3
  <2>3. CASE m = n
    <3>1. \A e \in E : sub(h, m, seen)[e] = sub(g, m, seen)[order[e]]
      BY <1>1, <1>4, <2>3 DEF Seen, E, new, old
    <3>2. (\E e \in DOMAIN h.kids[m] : sub(h, m, seen)[e] = Failed) <=>
              \E e \in DOMAIN g.kids[m] : sub(g, m, seen)[e] = Failed
      <4>1. DOMAIN h.kids[m] = E /\ DOMAIN g.kids[m] = E
        BY <1>4, <2>3 DEF E, new
      <4> HIDE DEF sub
      <4> QED
        BY <1>1, <3>1, <4>1
    <3>3. m \in g.wrappers => sub(h, m, seen)[1] = sub(g, m, seen)[1]
      <4> SUFFICES ASSUME m \in g.wrappers PROVE sub(h, m, seen)[1] = sub(g, m, seen)[1]
        OBVIOUS
      <4>1. E = {1}
        BY <2>3, Objects DEF E
      <4>2. order[1] = 1
        BY <1>1, <4>1
      <4> HIDE DEF sub
      <4> QED
        BY <3>1, <4>1, <4>2
    <3>4. form(h, m, seen) = form(g, m, seen)
      <4>1. h.kids[m] = new /\ g.kids[m] = old
        BY <2>3 DEF new, old
      <4>2. new = <<>> <=> old = <<>>
        BY <1>1, <1>4, Objects DEF E, new, old
      <4> HIDE DEF sub
      <4>3. \A t \in Texts(new) : sub(h, m, seen)[Entry(new, t)] = sub(g, m, seen)[Entry(old, t)]
        BY <1>7, <3>1
      <4> QED
        BY <1>6, <4>1, <4>2, <4>3
    <3> HIDE DEF sub, form
    <3> QED
      BY <1>1, <3>2, <3>3, <3>4
  <2> QED
    BY <2>2, <2>3
<1>9. /\ Answers(h, below) = [m \in DOMAIN h.kids |-> [seen \in SUBSET h.containers |->
                                  reply(h, m, seen)]]
      /\ Answers(g, below) = [m \in DOMAIN g.kids |-> [seen \in SUBSET g.containers |->
                                  reply(g, m, seen)]]
    BY Zenon DEF Answers
<1> HIDE DEF reply
<1> QED
    BY <1>1, <1>8, <1>9

(* The canonical form does not depend on the order of entries whose keys   *)
(* have different texts.                                                   *)
LEMMA SameForm ==
    ASSUME NEW g, WellFormed(g), NEW n \in DOMAIN g.kids, NEW order \in Orders(g, n),
           Cardinality(Texts(g.kids[n])) = Len(g.kids[n])
    PROVE  Canonicalize(Reordered(g, n, order)) = Canonicalize(g)
<1> DEFINE h == Reordered(g, n, order)
           N == MaxDepth + 1
<1>0. h = Reordered(g, n, order)
    OBVIOUS
<1> HIDE DEF h
<1>1. N \in Nat
    BY LimitAssumption
<1>2. /\ DOMAIN h.kids = DOMAIN g.kids /\ h.containers = g.containers
  <2>1. Differ(h, g, n, order)
    BY <1>0, ReorderedFacts, Zenon
  <2> QED
    BY <2>1 DEF Differ
<1>3. Items(h) = Items(g)
    BY <1>0, SameItems, Zenon
<1>4. \A below : Answers(h, below) = Answers(g, below)
    BY <1>0, SameAnswers, Zenon
<1>5. PICK table :
          /\ table[0] = [m \in DOMAIN g.kids |-> [seen \in SUBSET g.containers |-> Failed]]
          /\ \A k \in 1 .. N : table[k] = Answers(g, table[k - 1])
          /\ Form(g) = table[N][1][{}]
    BY FormDef
<1>6. PICK other :
          /\ other[0] = [m \in DOMAIN h.kids |-> [seen \in SUBSET h.containers |-> Failed]]
          /\ \A k \in 1 .. N : other[k] = Answers(h, other[k - 1])
          /\ Form(h) = other[N][1][{}]
    BY FormDef
<1> HIDE DEF N
<1> DEFINE G == {k \in 0 .. N : other[k] = table[k]}
<1>7. 0 \in G
    BY <1>1, <1>2, <1>5, <1>6
<1>8. ASSUME NEW k \in G, k < N PROVE k + 1 \in G
  <2>1. k + 1 \in 1 .. N /\ (k + 1) - 1 = k /\ k + 1 \in 0 .. N
    BY <1>1, <1>8
  <2>2. other[k + 1] = Answers(h, other[k]) /\ table[k + 1] = Answers(g, table[k])
    BY <1>5, <1>6, <2>1
  <2> QED
    BY <1>4, <2>1, <2>2
<1>9. \A k \in G : other[k] = table[k]
    OBVIOUS
<1>10. 0 \in G /\ \A k \in 0 .. N : k \in G /\ k < N => k + 1 \in G
    BY <1>7, <1>8
<1> HIDE DEF G
<1>11. \A k \in 0 .. N : k \in G
    BY <1>1, <1>10, Climb, Zenon
<1>12. other[N] = table[N]
    BY <1>1, <1>9, <1>11
<1>13. Form(h) = Form(g)
    BY <1>5, <1>6, <1>12
<1>14. Canonicalize(h) = Canonicalize(g)
    BY <1>3, <1>13 DEF Canonicalize
<1> QED
    BY <1>14 DEF h

(* canonicalize refuses exactly the values that are too deep or have too   *)
(* many parts, a part counting once for each way to it, and the canonical  *)
(* form, which is hashed, depends on no order of a dict's entries unless   *)
(* two keys have one text (canonical.py:34-124).                           *)
THEOREM CanonicalCorrect == AskSpec => []CanonicalTotal
<1>1. QuestionInv /\ AnswerInv => CanonicalTotal
  <2> SUFFICES ASSUME QuestionInv, AnswerInv, Answered("canonical")
               PROVE  LET g == question.of
                      IN /\ answer.result = Failed <=>
                                \/ Ways(g, 1, {MaxDepth + 1}) # {}
                                \/ Cardinality(Ways(g, 1, 0 .. MaxDepth)) > MaxItems
                         /\ \A n \in DOMAIN g.kids :
                                Cardinality(Texts(g.kids[n])) = Len(g.kids[n]) =>
                                    \A order \in Orders(g, n) :
                                        Canonicalize(Reordered(g, n, order)) = answer.result
    BY DEF CanonicalTotal
  <2> DEFINE g == question.of
  <2>1. WellFormed(g) /\ answer.result = Canonicalize(g)
    BY GraphAssumption DEF QuestionInv, AnswerInv
  <2> HIDE DEF g
  <2>2. Canonicalize(g) = Failed <=>
            \/ Ways(g, 1, {MaxDepth + 1}) # {}
            \/ Cardinality(Ways(g, 1, 0 .. MaxDepth)) > MaxItems
    BY <2>1, Refused
  <2>3. ASSUME NEW n \in DOMAIN g.kids, Cardinality(Texts(g.kids[n])) = Len(g.kids[n]),
               NEW order \in Orders(g, n)
        PROVE  Canonicalize(Reordered(g, n, order)) = Canonicalize(g)
    BY <2>1, <2>3, SameForm
  <2> QED
    BY <2>1, <2>2, <2>3 DEF g
<1> QED
    BY <1>1, AnswersCorrect, PTL
=============================================================================
