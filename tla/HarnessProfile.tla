--------------------------- MODULE HarnessProfile ---------------------------
(***************************************************************************)
(* resolveHarnessProfile: the settings an agent runs under, from what four *)
(* layers declare and what receipts have earned it (HarnessProfile.ts).    *)
(*                                                                         *)
(* The resolver keeps nothing: the state is its input, which vendor,       *)
(* organisation, user, agent and the verification pillar change over time, *)
(* and a profile is resolved from it in every state.  Settings are         *)
(* numbers; one that is not has no safe direction, and its bounds are      *)
(* those of Values.  Rejections and provenance are reports.                *)
(***************************************************************************)
EXTENDS Integers, Sequences, FiniteSets, FiniteSetsExt

CONSTANTS
  Specs,       \* HARNESS_SETTINGS: key -> [authority, default, min, max, safe]
  Entries,     \* [key, value] a layer may carry
  Grants,      \* [key, value, backed, expires] that may be presented
  Mistyped,    \* the value that is of another type than its setting's
  Ceiling, Target,   \* the organisation's ceiling, and what it is a ceiling of
  LastDay,     \* bound of the clock
  MaxChanges   \* bound of the entries and grants in all

ProfileAssumption ==
  /\ \A k \in DOMAIN Specs :
       /\ Specs[k].min \in Int /\ Specs[k].default \in Int /\ Specs[k].max \in Int
       /\ Specs[k].min <= Specs[k].default /\ Specs[k].default <= Specs[k].max
  /\ {Ceiling, Target} \subseteq DOMAIN Specs
  /\ Specs[Ceiling].authority = "org"
  /\ Specs[Ceiling].safe = "lower" /\ Specs[Target].safe = "lower"
  /\ \A e \in Entries : e = [key |-> e.key, value |-> e.value]
  /\ \A v \in {e.value : e \in Entries} \cup {g.value : g \in Grants} :
       v = Mistyped \/ v \in Int
  /\ LastDay \in Nat

VARIABLES
  layers,   \* [layer -> [key -> value]], for the keys it sets
  grants,   \* the earned grants, in the order they are given
  today

vars == <<layers, grants, today>>

Layers == {"vendor", "org", "user", "agent"}

(* Which layers an authority admits writes from: for what is earned, none. *)
WritableBy ==
  [constitutional |-> {}, earned |-> {},
   org |-> {"vendor", "org"},
   vendor_default |-> {"vendor", "org", "user"},
   user |-> {"vendor", "org", "user"},
   agent_tunable |-> Layers]

Init ==
  /\ layers = [l \in Layers |-> <<>>]
  /\ grants = <<>>
  /\ today = 0

-----------------------------------------------------------------------------
Clamp(spec, value) ==
  IF value < spec.min THEN spec.min ELSE IF value > spec.max THEN spec.max ELSE value

Loosens(spec, current, candidate) ==
  CASE spec.safe = "lower" -> candidate > current
    [] spec.safe = "higher" -> candidate < current
    [] OTHER -> FALSE

\* fault: an agent may move what it may tune as it likes, within the bounds
AcceptsWithinBounds(layer, key, value, current) ==
  layer \in WritableBy[Specs[key].authority] /\ value # Mistyped

(* What a layer's value has to pass; current is what the layers before it  *)
(* made of the setting.                                                    *)
Accepts(layer, key, value, current) ==
  /\ layer \in WritableBy[Specs[key].authority]
  /\ value # Mistyped
  /\ layer = "agent" => ~Loosens(Specs[key], current, value)

(* A layer's turn, after before.                                           *)
After(layer, from, key, before) ==
  IF key \in DOMAIN from[layer] /\ Accepts(layer, key, from[layer][key], before.value)
  THEN [value |-> Clamp(Specs[key], from[layer][key]), source |-> layer]
  ELSE before

(* A setting after the layers, in their order: later ones win where they   *)
(* are accepted.                                                           *)
DeclaredByOthers(from, key) ==
  After("user", from, key, After("org", from, key, After("vendor", from, key,
    [value |-> Specs[key].default, source |-> "default"])))
Declared(from, key) == After("agent", from, key, DeclaredByOthers(from, key))

(* A grant counts while it is backed by receipts and has not expired.      *)
Counts(grant, key) ==
  /\ grant.key = key /\ Specs[key].authority = "earned"
  /\ grant.backed /\ grant.expires > today
  /\ grant.value # Mistyped

(* Of several the last one given.                                          *)
Earned(from, key) ==
  LET counting == {i \in DOMAIN grants : Counts(grants[i], key)} IN
  IF counting = {} THEN Declared(from, key)
  ELSE [value |-> Clamp(Specs[key], grants[Max(counting)].value), source |-> "earned"]

(* The ceiling cuts what was earned, if somebody set one.                  *)
Resolved(from, key) ==
  LET setting == Earned(from, key)
      ceiling == Earned(from, Ceiling)
  IN IF key = Target /\ ceiling.source # "default" /\ setting.value > ceiling.value
     THEN [value |-> ceiling.value, source |-> setting.source]
     ELSE setting

-----------------------------------------------------------------------------
Changes == MapThenSumSet(LAMBDA l : Cardinality(DOMAIN layers[l]), Layers) + Len(grants)

(* A layer sets a key, or sets it again.                                   *)
Declare(l) ==
  /\ \E e \in Entries :
       /\ Changes < MaxChanges \/ e.key \in DOMAIN layers[l]
       /\ layers' = [layers EXCEPT ![l] =
            [k \in DOMAIN @ \cup {e.key} |-> IF k = e.key THEN e.value ELSE @[k]]]
  /\ UNCHANGED <<grants, today>>

Grant ==
  /\ Changes < MaxChanges
  /\ \E g \in Grants : grants' = Append(grants, g)
  /\ UNCHANGED <<layers, today>>

Tick ==
  /\ today < LastDay
  /\ today' = today + 1
  /\ UNCHANGED <<layers, grants>>

Next == (\E l \in Layers : Declare(l)) \/ Grant \/ Tick

Spec == Init /\ [][Next]_vars

-----------------------------------------------------------------------------
TypeOK ==
  /\ \A l \in Layers : \A k \in DOMAIN layers[l] : [key |-> k, value |-> layers[l][k]] \in Entries
  /\ grants \in Seq(Grants)
  /\ today \in 0..LastDay

(* "An agent may tighten its own harness freely, but may not loosen it"    *)
(* (lines 767-768): the profile is as cautious as the one without what the *)
(* agent declares.                                                         *)
AgentsOnlyTighten ==
  LET without == [layers EXCEPT !["agent"] = <<>>] IN
  \A k \in DOMAIN Specs :
    ~Loosens(Specs[k], Resolved(without, k).value, Resolved(layers, k).value)

(* "Absence of evidence resolves to least privilege" (lines 787-789): what *)
(* is above the floor is covered by a backed grant that is in date.        *)
PowerIsEarned ==
  \A k \in DOMAIN Specs :
    /\ Specs[k].authority = "earned"
    /\ Resolved(layers, k).value > Specs[k].default
    => \E i \in DOMAIN grants :
         /\ grants[i].key = k /\ grants[i].backed /\ today < grants[i].expires
         /\ Resolved(layers, k).value <= grants[i].value

(* "An org ceiling outranks anything an agent earned elsewhere" (line 949) *)
(* and anything else: the ceiling the organisation set is kept.            *)
CeilingIsKept ==
  LET set == layers["org"] IN
  Ceiling \in DOMAIN set /\ set[Ceiling] # Mistyped =>
    Resolved(layers, Target).value <= Clamp(Specs[Ceiling], set[Ceiling])
=============================================================================
