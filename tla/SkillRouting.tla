---------------------------- MODULE SkillRouting ------------------------------
(***************************************************************************)
(* From the skills on disk to the ones a message is given: discovery,      *)
(* registry, scoring, the slots of the mode, the files that hand a skill   *)
(* over and the log of uses.                                               *)
(* Code: src/src/skills/engine.js, src/src/policy/skill-routing.js.        *)
(*                                                                         *)
(* A text is a version, and what the words of a prompt add up to against a *)
(* skill is a score chosen with the prompt.  Skills are numbered in the    *)
(* order of the registry.                                                  *)
(***************************************************************************)
EXTENDS Naturals, Sequences, SequencesExt, FiniteSets

CONSTANTS Skill,        \* a set of numbers
          BaseSkill,    \* those whose own entry says loadStrategy "base"
          Tier,         \* the directories searched, 1 first
          Slots,        \* a mode's places for skills on demand
          MaxVersion,   \* the bound on versions of a text; a catalogue comes with 1
          MaxScore,     \* the bound on what a prompt adds up to
          MaxChanged,   \* the bound on changes of the skills
          MaxUses,      \* the bound on the log (200 in the code)
          NoSkill,      \* no such directory or file
          Garbled       \* a log cut short

ASSUME SkillAssumption ==
  /\ Skill \subseteq Nat /\ IsFiniteSet(Skill) /\ BaseSkill \subseteq Skill
  /\ IsFiniteSet(Tier) /\ Tier = 1 .. Cardinality(Tier)
  /\ Slots \in [{"FAST", "NORMAL", "STRICT"} -> Nat]
  /\ MaxVersion \in Nat \ {0} /\ MaxScore \in Nat /\ MaxChanged \in Nat /\ MaxUses \in Nat

VARIABLES installed, \* the SKILL.md files of each directory
          catalogue, \* the plugin's own registry.json
          corpus,    \* the files under .wam/skills/bundled
          usage,     \* how many entries the log of uses has
          changes,   \* how often the skills changed
          routing    \* what the last prompt was given

skillVars == <<installed, catalogue, corpus, usage, changes, routing>>

\* Version 0 is a file without text.
Text == 0 .. MaxVersion
Entry == [content: Text, base: BOOLEAN, status: {"APPROVED"}]
Choice == [selected: Seq(Skill), exceeded: Seq(Skill),
           score: [Skill \ BaseSkill -> 0 .. MaxScore], mode: DOMAIN Slots \cup {"none"},
           registry: SUBSET Skill, base: SUBSET Skill]

\* The first directory that has a skill of this name.
Found(s) == {t \in Tier : installed[t][s] # NoSkill}
discoverSkills == {s \in Skill : Found(s) # {}}
Local(s) == installed[CHOOSE t \in Found(s) : \A u \in Found(s) : t <= u][s]

\* The catalogue drops what has no text to speak of.
loadBundledRegistry == {s \in Skill : catalogue[s] # NoSkill /\ catalogue[s] # 0}

\* A skill on disk goes before the catalogue's of the same name, and all are
\* approved.
buildRegistry ==
  [s \in discoverSkills \cup loadBundledRegistry |->
     [content |-> IF s \in discoverSkills THEN Local(s) ELSE catalogue[s],
      base |-> s \in BaseSkill, status |-> "APPROVED"]]

\* The best score first, the registry's order among equals.
Before(score, s, t) == score[s] > score[t] \/ (score[s] = score[t] /\ s < t)

\* Some skills, the best first.
Best(score, some) == CHOOSE s \in some : \A t \in some \ {s} : Before(score, s, t)
Ordered(score, some) ==
  LET order[n \in 0 .. Cardinality(some)] ==
        IF n = 0 THEN <<>>
        ELSE Append(order[n - 1], Best(score, some \ ToSet(order[n - 1])))
  IN  order[Cardinality(some)]

\* The skills on demand that score.
Ranked(registry, score) ==
  Ordered(score, {s \in DOMAIN registry : ~registry[s].base /\ score[s] > 0})

\* The skills of base strategy, which score nothing, and the best of the
\* others.  What is called exceeded is counted as if the base took places too.
routeSkillsV2(registry, score, mode) ==
  LET base == Ordered([s \in Skill |-> 0], {s \in DOMAIN registry : registry[s].base})
      candidates == Ranked(registry, score)
      spare == IF Len(base) > Slots[mode] THEN 0 ELSE Slots[mode] - Len(base)
  IN  [selected |-> base \o SubSeq(candidates, 1, IF Slots[mode] < Len(candidates)
                                                  THEN Slots[mode] ELSE Len(candidates)),
       exceeded |-> SubSeq(candidates, spare + 1, Len(candidates)),
       score |-> score, mode |-> mode, registry |-> DOMAIN registry, base |-> ToSet(base)]

\* A log that cannot be read begins anew; beyond the limit the oldest entries
\* go.
recordSkillUsage(log, uses) ==
  LET all == (IF log = Garbled THEN 0 ELSE log) + uses
  IN  IF all > MaxUses THEN MaxUses ELSE all

\* A prompt: the skills it is given, each noted, unless the last note is cut
\* short.  Without skills in the configuration nothing is looked for.
RoutePrompt ==
  \E score \in [Skill \ BaseSkill -> 0 .. MaxScore], mode \in DOMAIN Slots :
    LET choice == routeSkillsV2(buildRegistry, score, mode)
    IN  /\ routing' = choice
        /\ \/ usage' = recordSkillUsage(usage, Len(choice.selected))
           \/ usage' = Garbled /\ choice.selected # <<>>
        /\ UNCHANGED <<installed, catalogue, corpus, changes>>

RouteNothing ==
  /\ routing' = [routing EXCEPT !.mode = "none", !.selected = <<>>,
                   !.exceeded = <<>>, !.registry = {}, !.base = {}]
  /\ UNCHANGED <<installed, catalogue, corpus, usage, changes>>

\* A skill is handed over as a file, written the first time only.
loadSkillOnDemand ==
  \E s \in DOMAIN buildRegistry :
    /\ buildRegistry[s].content # 0
    /\ corpus' = [corpus EXCEPT ![s] = IF @ = NoSkill THEN buildRegistry[s].content ELSE @]
    /\ UNCHANGED <<installed, catalogue, usage, changes, routing>>

\* Around the plugin: skills are put on disk, changed and taken away, and a
\* release brings another catalogue.
InstallSkill ==
  \E t \in Tier, s \in Skill, text \in Text \cup {NoSkill} :
    /\ changes < MaxChanged /\ changes' = changes + 1
    /\ installed' = [installed EXCEPT ![t][s] = text]
    /\ UNCHANGED <<catalogue, corpus, usage, routing>>
UpgradePlugin ==
  \E s \in Skill, text \in Text \cup {NoSkill} :
    /\ changes < MaxChanged /\ changes' = changes + 1
    /\ catalogue' = [catalogue EXCEPT ![s] = text]
    /\ UNCHANGED <<installed, corpus, usage, routing>>

SkillsInit ==
  /\ installed = [t \in Tier |-> [s \in Skill |-> NoSkill]]
  /\ catalogue = [s \in Skill |-> 1] /\ corpus = [s \in Skill |-> NoSkill]
  /\ usage = 0 /\ changes = 0
  /\ routing = [selected |-> <<>>, exceeded |-> <<>>, mode |-> "none",
                score |-> [s \in Skill \ BaseSkill |-> 0], registry |-> {}, base |-> {}]

\* Prompts and files handed over do not read one another's state.
RoutingNext == RoutePrompt \/ RouteNothing \/ InstallSkill \/ UpgradePlugin
HandOverNext == loadSkillOnDemand \/ InstallSkill \/ UpgradePlugin
SkillsNext == RoutingNext \/ HandOverNext
SkillsSpec == SkillsInit /\ [][SkillsNext]_skillVars

SkillsTypeOK ==
  /\ \A t \in Tier : installed[t] \in [Skill -> Text \cup {NoSkill}]
  /\ changes \in 0 .. MaxChanged
  /\ catalogue \in [Skill -> Text \cup {NoSkill}] /\ corpus \in [Skill -> Text \cup {NoSkill}]
  /\ usage \in 0 .. MaxUses \cup {Garbled}
  /\ routing \in Choice

\* A prompt gets every base skill, no more on demand than its mode has places
\* for, none twice, and leaves none out that scores higher than one it gets.
SelectionIsRanked ==
  routing.mode # "none" =>
    LET selected == ToSet(routing.selected)
    IN  /\ routing.base \subseteq selected
        /\ Cardinality(selected) = Len(routing.selected)
        /\ Cardinality(selected \ routing.base) <= Slots[routing.mode]
        /\ \A s \in selected \ routing.base, t \in routing.registry \ selected :
             routing.score[t] <= routing.score[s]
=============================================================================
