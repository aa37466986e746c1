--------------------------- MODULE ResolutionProofs ---------------------------
(***************************************************************************)
(* Proofs about Resolution: that the choices of the ranking exist, for any *)
(* set of targets, and that the answer is the best that could be given.    *)
(***************************************************************************)
EXTENDS Resolution, WellFoundedInduction, TLAPS

Candidate == [target : Targets, exact : BOOLEAN, confidence : 0..100]

\* A nonempty set whose members have a natural number each has a member with
\* the least one.
LEMMA LeastExists ==
    ASSUME NEW S, S # {}, NEW f, \A s \in S : f[s] \in Nat
    PROVE  \E s \in S : \A r \in S : f[s] =< f[r]
<1> DEFINE Less == OpToRel(<, Nat)
           T == {f[s] : s \in S}
<1>1. T \subseteq Nat /\ T # {}
  OBVIOUS
<1>2. PICK x \in T : \A y \in T : ~(<<y, x>> \in Less)
  BY <1>1, WFMin, NatLessThanWellFounded
<1>3. \A m, n \in Nat : m < n => <<m, n>> \in Less
  BY DEF OpToRel
<1> HIDE DEF Less
<1>4. \A y \in T : x =< y
  <2> SUFFICES ASSUME NEW y \in T PROVE x =< y
    OBVIOUS
  <2>1. x \in Nat /\ y \in Nat
    BY <1>1
  <2>2. ~(y < x)
    BY <1>2, <1>3, <2>1
  <2> QED
    BY <2>1, <2>2
<1> QED
  BY <1>4

LEMMA ScoreIsCandidate ==
    ASSUME NEW t \in Targets, NEW label \in Labels, NEW name \in Labels
    PROVE  Score(t, label, name) \in Candidate
<1>1. Similarity[name][label] \in 0..100
  BY ResolutionAssumption
<1>2. CASE label = name \/ NameOf[t] = name
  <2>1. Score(t, label, name) = [target |-> t, exact |-> TRUE, confidence |-> 100]
    BY <1>2, Zenon DEF Score
  <2> QED
    BY <2>1 DEF Candidate
<1>3. CASE ~(label = name \/ NameOf[t] = name)
  <2>1. Score(t, label, name) =
           [target |-> t, exact |-> FALSE, confidence |-> Similarity[name][label]]
    BY <1>3, Zenon DEF Score
  <2> QED
    BY <1>1, <2>1 DEF Candidate
<1> QED
  BY <1>2, <1>3

LEMMA ScoresType ==
    ASSUME NEW t \in Targets, NEW name \in Labels
    PROVE  /\ Scores(t, name) \subseteq Candidate
           /\ Scores(t, name) # {}
           /\ \A s \in Scores(t, name) : s.target = t
<1>1. {NameOf[t]} \union AliasesOf[t] \subseteq Labels
  BY ResolutionAssumption
<1>2. \A label : Score(t, label, name).target = t
  BY DEF Score
<1>3. \A s \in Scores(t, name) : \E label \in Labels : s = Score(t, label, name)
  BY <1>1, Zenon DEF Scores
<1>4. Score(t, NameOf[t], name) \in Scores(t, name)
  BY Zenon DEF Scores
<1> QED
  BY <1>2, <1>3, <1>4, ScoreIsCandidate

\* _score_place_candidate and _score_asset_candidate keep a score of the
\* target, and none of its names scores higher.
LEMMA BestIsBest ==
    ASSUME NEW t \in Targets, NEW name \in Labels
    PROVE  /\ Best(t, name) \in Scores(t, name)
           /\ \A r \in Scores(t, name) : Best(t, name).confidence >= r.confidence
<1> DEFINE S == Scores(t, name)
           f == [s \in S |-> 100 - s.confidence]
<1>1. \A s \in S : s.confidence \in 0..100
  BY ScoresType DEF Candidate
<1>2. \A s \in S : f[s] \in Nat
  BY <1>1
<1>3. PICK s \in S : \A r \in S : f[s] =< f[r]
  <2> HIDE DEF f
  <2> QED
    BY <1>2, LeastExists, ScoresType
<1>4. \A r \in S : s.confidence >= r.confidence
  <2> SUFFICES ASSUME NEW r \in S PROVE s.confidence >= r.confidence
    OBVIOUS
  <2>1. 100 - s.confidence =< 100 - r.confidence
    BY <1>3
  <2>2. s.confidence \in Int /\ r.confidence \in Int
    BY <1>1
  <2> QED
    BY <2>1, <2>2
<1> QED
  BY <1>4 DEF Best

LEMMA SearchedTargets ==
    ASSUME NEW type
    PROVE  Searched(type) \subseteq Targets
BY ResolutionAssumption DEF Searched, Targets

LEMMA CandidatesType ==
    ASSUME NEW name \in Labels, NEW type
    PROVE  /\ Candidates(name, type) \subseteq Candidate
           /\ \A s \in Candidates(name, type) :
                 s.target \in Searched(type) /\ s = Best(s.target, name)
<1> SUFFICES ASSUME NEW s \in Candidates(name, type)
             PROVE  s \in Candidate /\ s.target \in Searched(type) /\ s = Best(s.target, name)
  BY Zenon
<1>1. PICK t \in Searched(type) : s = Best(t, name)
  BY DEF Candidates
<1>2. t \in Targets
  BY SearchedTargets
<1>3. s \in Scores(t, name)
  BY <1>1, <1>2, BestIsBest
<1> QED
  BY <1>1, <1>2, <1>3, ScoresType

\* The ranking has a first candidate, whatever the places and the assets:
\* the first by name of those that are exact, if any is, among those with the
\* highest confidence.
LEMMA FirstIsFirst ==
    ASSUME NEW name \in Labels, NEW type, Candidates(name, type) # {}
    PROVE  LET S == Candidates(name, type) IN
           /\ FirstOf(S) \in S
           /\ \A r \in S \ {FirstOf(S)} : RanksBefore(FirstOf(S), r)
<1> DEFINE S == Candidates(name, type)
           lack == [s \in S |-> 100 - s.confidence]
           order == [s \in S |-> Order[s.target]]
<1>1. \A s \in S : /\ s.confidence \in 0..100 /\ s.exact \in BOOLEAN
                   /\ s.target \in Targets /\ Order[s.target] \in Nat
  BY CandidatesType, ResolutionAssumption DEF Candidate
<1>2. \A s, r \in S : s # r => Order[s.target] # Order[r.target]
  <2>1. \A s, r \in S : s # r => s.target # r.target
    BY CandidatesType
  <2> QED
    BY <1>1, <2>1, ResolutionAssumption
<1>3. PICK top \in S : \A r \in S : lack[top] =< lack[r]
  <2>1. \A s \in S : lack[s] \in Nat
    BY <1>1
  <2> HIDE DEF lack, S
  <2> QED
    BY <2>1, LeastExists DEF S
<1>4. \A r \in S : top.confidence >= r.confidence
  <2> SUFFICES ASSUME NEW r \in S PROVE top.confidence >= r.confidence
    OBVIOUS
  <2>1. 100 - top.confidence =< 100 - r.confidence
    BY <1>3
  <2>2. top.confidence \in Int /\ r.confidence \in Int
    BY <1>1
  <2> QED
    BY <2>1, <2>2
<1> DEFINE Highest == {s \in S : s.confidence = top.confidence}
           Chosen == {s \in Highest : s.exact \/ \A r \in Highest : ~r.exact}
<1>5. Chosen # {}
  <2>1. top \in Highest
    OBVIOUS
  <2> QED
    BY <2>1
<1>6. PICK s \in Chosen : \A r \in Chosen : order[s] =< order[r]
  <2>1. \A r \in Chosen : order[r] \in Nat
    BY <1>1
  <2> HIDE DEF order, Chosen
  <2> QED
    BY <1>5, <2>1, LeastExists
<1>7. s \in S /\ s.confidence = top.confidence
  OBVIOUS
<1>8. ASSUME NEW r \in S, r # s PROVE RanksBefore(s, r)
  <2>1. CASE r \notin Highest
    <3>1. top.confidence \in Int /\ r.confidence \in Int
      BY <1>1
    <3>2. s.confidence > r.confidence
      BY <1>4, <1>7, <2>1, <3>1
    <3> QED
      BY <3>2 DEF RanksBefore
  <2>2. CASE r \in Highest /\ r \notin Chosen
    <3>1. s.exact /\ ~r.exact
      BY <2>2
    <3> QED
      BY <1>7, <2>2, <3>1 DEF RanksBefore
  <2>3. CASE r \in Chosen
    <3>1. Order[s.target] =< Order[r.target]
      BY <1>6, <2>3
    <3>2. Order[s.target] < Order[r.target]
      <4>1. Order[s.target] # Order[r.target]
        BY <1>2, <1>7, <1>8
      <4>2. Order[s.target] \in Nat /\ Order[r.target] \in Nat
        BY <1>1, <1>7
      <4> QED
        BY <3>1, <4>1, <4>2
    <3>3. s.exact = r.exact
      BY <1>1, <1>7, <2>3
    <3> QED
      BY <1>7, <2>3, <3>2, <3>3 DEF RanksBefore
  <2> QED
    BY <2>1, <2>2, <2>3
<1> HIDE DEF S, Highest, Chosen, lack, order
<1>9. \E x \in S : \A r \in S \ {x} : RanksBefore(x, r)
  BY <1>7, <1>8
<1>10. FirstOf(S) \in S /\ \A r \in S \ {FirstOf(S)} : RanksBefore(FirstOf(S), r)
  BY <1>9, Zenon DEF FirstOf
<1> QED
  BY <1>10 DEF S

\* What is kept of a target is its closeness, and it is exact just when that
\* is 100.
LEMMA BestIsCloseness ==
    ASSUME NEW t \in Targets, NEW name \in Labels
    PROVE  /\ Best(t, name).confidence = Closeness(t, name)
           /\ Best(t, name).exact <=> Best(t, name).confidence = 100
<1> DEFINE L == {NameOf[t]} \union AliasesOf[t]
           b == Best(t, name)
<1>1. L \subseteq Labels /\ NameOf[t] \in L
  BY ResolutionAssumption
<1>2. \A l \in L : Similarity[name][l] \in 0..100 /\ (Similarity[name][l] = 100 <=> name = l)
  BY <1>1, ResolutionAssumption
<1>3. Closenesses(t, name) = {Similarity[name][l] : l \in L}
  BY Zenon DEF Closenesses
<1>4. Scores(t, name) = {Score(t, l, name) : l \in L}
  BY Zenon DEF Scores
<1>5. ASSUME NEW l \in L
      PROVE  LET s == Score(t, l, name) IN
             /\ s.exact <=> (l = name \/ NameOf[t] = name)
             /\ s.exact => s.confidence = 100
             /\ ~s.exact => s.confidence = Similarity[name][l]
  BY DEF Score
<1> HIDE DEF L, b
<1>6. PICK l \in L : b = Score(t, l, name)
  BY <1>4, BestIsBest DEF b
<1>7. \A m \in L : b.confidence >= Score(t, m, name).confidence
  BY <1>4, BestIsBest DEF b
<1>8. b.exact <=> b.confidence = 100
  BY <1>2, <1>5, <1>6
<1>9. b.confidence \in Closenesses(t, name)
  <2>1. CASE NameOf[t] = name
    BY <1>1, <1>2, <1>3, <1>5, <1>6, <2>1
  <2>2. CASE NameOf[t] # name
    BY <1>2, <1>3, <1>5, <1>6, <2>2
  <2> QED
    BY <2>1, <2>2
<1>10. \A y \in Closenesses(t, name) : b.confidence >= y
  <2> SUFFICES ASSUME NEW m \in L PROVE b.confidence >= Similarity[name][m]
    BY <1>3
  <2>1. Score(t, m, name).confidence >= Similarity[name][m]
    BY <1>2, <1>5
  <2>2. b.confidence \in Int /\ Score(t, m, name).confidence \in Int
        /\ Similarity[name][m] \in Int
    BY <1>2, <1>5, <1>6
  <2> QED
    BY <1>7, <2>1, <2>2
<1>11. Closenesses(t, name) \subseteq Int
  BY <1>2, <1>3
<1>12. b.confidence = Closeness(t, name)
  <2>1. \A x \in Closenesses(t, name) :
           (\A y \in Closenesses(t, name) : x >= y) => x = b.confidence
    BY <1>9, <1>10, <1>11
  <2> QED
    BY <1>9, <1>10, <2>1 DEF Closeness
<1> QED
  BY <1>8, <1>12 DEF b

\* Everything resolve_target answers has its type.
AnswerType ==
    [status : {"success", "blocked"}, mode : {"none", "exact", "best_effort"},
     target : Targets \union {"none"}, best : Targets \union {"none"},
     confidence : 0..100]

LEMMA AnswerIsTyped ==
    ASSUME NEW name \in Labels, NEW type, NEW atLeast
    PROVE  Answer(name, type, atLeast) \in AnswerType
<1> DEFINE S == Candidates(name, type)
           best == FirstOf(S)
<1>1. CASE S = {}
  <2>1. Answer(name, type, atLeast) = Unknown
    BY <1>1 DEF Answer
  <2> QED
    BY <2>1 DEF Unknown, AnswerType
<1>2. CASE S # {}
  <2>1. best \in Candidate
    BY <1>2, FirstIsFirst, CandidatesType
  <2>2. Answer(name, type, atLeast) \in
           {Accepted("exact", best), Accepted("best_effort", best), Refused(best)}
    <3> HIDE DEF best, S
    <3>1. Answer(name, type, atLeast) =
             CASE S = {} -> Unknown
               [] S # {} /\ best.exact -> Accepted("exact", best)
               [] S # {} /\ ~best.exact /\ best.confidence >= atLeast ->
                     Accepted("best_effort", best)
               [] OTHER -> Refused(best)
      BY Zenon DEF Answer, S, best
    <3> QED
      BY <1>2, <3>1
  <2> HIDE DEF best
  <2> QED
    BY <2>1, <2>2 DEF Candidate, Accepted, Refused, AnswerType
<1> QED
  BY <1>1, <1>2

\* The reference: a target is named only if no other one searched has a name
\* closer to the one asked for (resolve_target).
THEOREM AnswerIsClosest ==
    ASSUME NEW name \in Labels, NEW type, NEW atLeast,
           Answer(name, type, atLeast).status = "success"
    PROVE  LET answer == Answer(name, type, atLeast)
               reached == Closeness(answer.target, name)
           IN  /\ answer.target \in Searched(type)
               /\ \A u \in Searched(type) : Closeness(u, name) <= reached
               /\ reached = 100 \/ reached >= atLeast
               /\ (reached = 100) = (answer.mode = "exact")
<1> DEFINE S == Candidates(name, type)
           best == FirstOf(S)
           answer == Answer(name, type, atLeast)
           reached == Closeness(answer.target, name)
<1>1. S # {} /\ answer.target = best.target
      /\ \/ best.exact /\ answer.mode = "exact"
         \/ ~best.exact /\ best.confidence >= atLeast /\ answer.mode = "best_effort"
  <2>1. answer = CASE S = {} -> Unknown
                   [] S # {} /\ best.exact -> Accepted("exact", best)
                   [] S # {} /\ ~best.exact /\ best.confidence >= atLeast ->
                         Accepted("best_effort", best)
                   [] OTHER -> Refused(best)
    BY Zenon DEF Answer
  <2>2. answer.status = "success"
    OBVIOUS
  <2> HIDE DEF answer, best, S
  <2> QED
    BY <2>1, <2>2 DEF Unknown, Accepted, Refused
<1>2. best \in S /\ \A r \in S \ {best} : RanksBefore(best, r)
  BY <1>1, FirstIsFirst
<1>3. best \in Candidate /\ best.target \in Searched(type) /\ best = Best(best.target, name)
  <2> HIDE DEF best
  <2> QED
    BY <1>2, CandidatesType
<1>4. best.target \in Targets
  BY <1>3, SearchedTargets
<1>5. best.confidence = reached /\ (best.exact <=> reached = 100)
  <2>1. best.confidence = Closeness(best.target, name)
    BY <1>3, <1>4, BestIsCloseness
  <2>2. best.exact <=> best.confidence = 100
    BY <1>3, <1>4, BestIsCloseness
  <2> QED
    BY <1>1, <2>1, <2>2
<1>6. ASSUME NEW u \in Searched(type) PROVE Closeness(u, name) <= reached
  <2>1. u \in Targets
    BY SearchedTargets
  <2>2. Best(u, name) \in S
    BY DEF Candidates
  <2>3. Best(u, name).confidence = Closeness(u, name)
    BY <2>1, BestIsCloseness
  <2>4. best.confidence >= Best(u, name).confidence
    <3>1. best.confidence \in Int /\ Best(u, name).confidence \in Int
      BY <1>3, <2>2, CandidatesType DEF Candidate
    <3>2. CASE Best(u, name) = best
      BY <3>1, <3>2
    <3>3. CASE Best(u, name) # best
      <4>1. RanksBefore(best, Best(u, name))
        BY <1>2, <2>2, <3>3
      <4> HIDE DEF best
      <4> QED
        BY <3>1, <4>1 DEF RanksBefore
    <3> QED
      BY <3>2, <3>3
  <2>5. best.confidence \in Int /\ Best(u, name).confidence \in Int
    BY <1>3, <2>2, CandidatesType DEF Candidate
  <2> HIDE DEF best, reached
  <2> QED
    BY <1>5, <2>3, <2>4, <2>5
<1>7. best.confidence \in Int
  BY <1>3 DEF Candidate
<1> HIDE DEF best, S, answer, reached
<1>8. (reached = 100) = (answer.mode = "exact")
  BY <1>1, <1>5
<1> QED
  BY <1>1, <1>3, <1>5, <1>6, <1>7, <1>8 DEF answer, reached

===============================================================================
