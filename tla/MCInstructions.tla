---------------------------- MODULE MCInstructions ----------------------------
(***************************************************************************)
(* A finite instance of Instructions: an optics bench that is also called  *)
(* "bench", a deactivated "old bench", and a microscope.                   *)
(***************************************************************************)
EXTENDS Instructions, TLC

CONSTANTS bench, old, scope, photo, wide, close, clear

MCPlaces == {bench, old}
MCActivePlaces == {bench}
MCAssets == {scope}
MCLabels == {"optics bench", "bench", "old bench", "microscope", "scope"}

Named(atBench, atOld, atScope) ==
    [t \in MCPlaces \union MCAssets |->
        CASE t = bench -> atBench [] t = old -> atOld [] t = scope -> atScope]

MCNameOf == Named("optics bench", "old bench", "microscope")
MCAliasesOf == Named({"bench"}, {}, {})
MCOrder == Named(0, 1, 2)

\* The ratios of SequenceMatcher; it is not symmetric.
MCSimilarity ==
    [asked \in MCLabels |-> [label \in MCLabels |->
        CASE asked = label -> 100
          [] {asked, label} = {"bench", "old bench"} -> 71
          [] {asked, label} = {"optics bench", "old bench"} -> 67
          [] {asked, label} = {"scope", "microscope"} -> 67
          [] {asked, label} = {"bench", "optics bench"} -> 59
          [] {asked, label} = {"scope", "optics bench"} -> 35
          [] asked = "microscope" /\ label = "optics bench" -> 36
          [] asked = "optics bench" /\ label = "microscope" -> 27
          [] OTHER -> 20]]

\* Exact by an alias, closest to a place that is no longer active, too far.
MCLookups ==
    <<[name |-> "bench", type |-> "auto", atLeast |-> 50],
      [name |-> "old bench", type |-> "place", atLeast |-> 70],
      [name |-> "scope", type |-> "auto", atLeast |-> 70]>>

Asks(profiles, targets) ==
    [captures |-> [i \in DOMAIN profiles |-> [kind |-> photo, profile |-> profiles[i]]],
     conditions |-> [i \in DOMAIN targets |-> [target |-> targets[i], condition |-> clear]]]

\* One picture, two of one kind, none.
MCPlans == {Asks(<<wide>>, <<Here>>), Asks(<<wide, close>>, <<>>), Asks(<<>>, <<scope>>)}

CallSymmetry == Permutations(Calls)

===============================================================================
