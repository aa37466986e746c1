------------------------------ MODULE Resolution ------------------------------
(***************************************************************************)
(* resolve_target's ranking (tools/handlers.py): every name of every       *)
(* active place and of every asset is scored against the name asked for,   *)
(* the best score of each is kept, and the first of the order is the       *)
(* answer.                                                                 *)
(*                                                                         *)
(* A label stands for a normalised text; Order counts the names that come  *)
(* after a target's in the order of strings.  Similarity is                *)
(* SequenceMatcher's ratio, in hundredths: 100 for equal texts and for no  *)
(* others.                                                                 *)
(***************************************************************************)
EXTENDS Integers, Sequences, FiniteSets

CONSTANTS Places, Assets, ActivePlaces, Labels,
          NameOf, AliasesOf, Order, Similarity

Targets == Places \union Assets

ASSUME ResolutionAssumption ==
    /\ Places \intersect Assets = {} /\ ActivePlaces \subseteq Places
    /\ NameOf \in [Targets -> Labels] /\ AliasesOf \in [Targets -> SUBSET Labels]
    /\ Order \in [Targets -> Nat]
    /\ \A t, u \in Targets : Order[t] = Order[u] => t = u
    /\ Similarity \in [Labels -> [Labels -> 0..100]]
    /\ \A l, m \in Labels : Similarity[l][m] = 100 <=> l = m

TargetType == {"place", "asset", "auto"}

Searched(type) ==
    (IF type \in {"place", "auto"} THEN ActivePlaces ELSE {})
    \union (IF type \in {"asset", "auto"} THEN Assets ELSE {})

\* _score_place_candidate and _score_asset_candidate: an alias of a target
\* whose own name is asked for is exact too.
Score(t, label, name) ==
    LET exact == label = name \/ NameOf[t] = name
    IN  [target |-> t, exact |-> exact,
         confidence |-> IF exact THEN 100 ELSE Similarity[name][label]]

\* Mutant: aliases are not looked at.
ScoresByName(t, name) == {Score(t, NameOf[t], name)}

Scores(t, name) ==
    {Score(t, label, name) : label \in {NameOf[t]} \union AliasesOf[t]}

Best(t, name) ==
    CHOOSE s \in Scores(t, name) :
        \A r \in Scores(t, name) : s.confidence >= r.confidence

Candidates(name, type) == {Best(t, name) : t \in Searched(type)}

\* The order of the ranking: confidence, exactness, name, all descending.
RanksBefore(s, r) ==
    \/ s.confidence > r.confidence
    \/ /\ s.confidence = r.confidence
       /\ \/ s.exact /\ ~r.exact
          \/ s.exact = r.exact /\ Order[s.target] < Order[r.target]

FirstOf(S) == CHOOSE s \in S : \A r \in S \ {s} : RanksBefore(s, r)

\* The reply of resolve_target; best is the first of its ranked candidates.
Unknown ==
    [status |-> "blocked", mode |-> "none", target |-> "none", best |-> "none",
     confidence |-> 0]

Accepted(mode, s) ==
    [status |-> "success", mode |-> mode, target |-> s.target, best |-> s.target,
     confidence |-> s.confidence]

Refused(s) ==
    [status |-> "blocked", mode |-> "best_effort", target |-> "none",
     best |-> s.target, confidence |-> s.confidence]

\* atLeast is the request's min_confidence.
Answer(name, type, atLeast) ==
    LET ranked == Candidates(name, type)
        best == FirstOf(ranked)
    IN  CASE ranked = {} -> Unknown
          [] ranked # {} /\ best.exact -> Accepted("exact", best)
          [] ranked # {} /\ ~best.exact /\ best.confidence >= atLeast ->
                Accepted("best_effort", best)
          [] OTHER -> Refused(best)

\* Mutant: a refused request writes its best candidate to the row too.
ColumnsOfBest(row, answer) ==
    [target |-> IF answer.best # "none" THEN answer.best ELSE row.target,
     mode |-> IF answer.mode = "none" THEN row.mode ELSE answer.mode,
     confidence |-> answer.confidence]

\* _persist_resolution with update_task_status: a None leaves its column.
Columns(row, answer) ==
    [target |-> IF answer.target # "none" THEN answer.target ELSE row.target,
     mode |-> IF answer.mode = "none" THEN row.mode ELSE answer.mode,
     confidence |-> answer.confidence]

-------------------------------------------------------------------------------
\* How close a target's names come to a name; the reference for the ranking.
Closenesses(t, name) ==
    {Similarity[name][label] : label \in {NameOf[t]} \union AliasesOf[t]}

Closeness(t, name) ==
    CHOOSE x \in Closenesses(t, name) : \A y \in Closenesses(t, name) : x >= y

===============================================================================
