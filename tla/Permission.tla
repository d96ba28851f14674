----------------------------- MODULE Permission -----------------------------
(***************************************************************************)
(* The permission policy (internal/permission): rules match a tool and the *)
(* subject of a call, the most specific match wins and the last of equals, *)
(* and a bash command that chains another is never allowed unseen.         *)
(*                                                                         *)
(* A subject is a call's command, path or arguments.  Text is abstracted   *)
(* to what patterns tell apart: Begins[p] are the subjects that start with *)
(* p, Widens[s] those a pattern with the text of s matches - s alone,      *)
(* unless s ends in a star - and Blank those whose text is a wildcard.     *)
(***************************************************************************)
EXTENDS Naturals, Lists

CONSTANTS Tools, Subjects, Chained, Blank, Widens, Begins

RulePrefixes == {"rm -rf ", "rm -rf /", "git push", "git status"}
Decisions == {"allow", "ask", "deny"}

PermissionAssumption ==
  /\ {"bash", "read_file", "delete_file", "move_file"} \subseteq Tools
  /\ Chained \subseteq Subjects
  /\ Blank \subseteq Subjects
  /\ Widens \in [Subjects -> SUBSET Subjects]
  /\ Begins \in [RulePrefixes -> SUBSET Subjects]

(***************************************************************************)
(* A rule: the tools its name or glob covers, whether it is a glob, whether*)
(* its pattern is a wildcard, and else the subjects the pattern matches.   *)
(***************************************************************************)
Rule == [tools : SUBSET Tools, glob : BOOLEAN, any : BOOLEAN,
         subjects : SUBSET Subjects, decision : Decisions]

On(t, p, d) == [tools |-> {t}, glob |-> FALSE, any |-> FALSE,
                subjects |-> Begins[p], decision |-> d]
OnAll(t, d) == [tools |-> {t}, glob |-> FALSE, any |-> TRUE,
                subjects |-> {}, decision |-> d]

MatchesTool(r, t) == t \in r.tools
MatchesSubject(r, s) == r.any \/ s \in r.subjects

Specificity(r) == CASE ~r.glob /\ ~r.any -> 3
                    [] ~r.glob /\ r.any -> 2
                    [] OTHER -> 1

Matching(rules, t, s) ==
  {i \in DOMAIN rules : MatchesTool(rules[i], t) /\ MatchesSubject(rules[i], s)}

Outranks(rules, i, j) ==
  \/ Specificity(rules[i]) > Specificity(rules[j])
  \/ Specificity(rules[i]) = Specificity(rules[j]) /\ i >= j

\* The decision of the rules alone.
Verdict(rules, default, t, s) ==
  LET hits == Matching(rules, t, s)
  IN  IF hits = {} THEN default
      ELSE rules[CHOOSE i \in hits : \A j \in hits : Outranks(rules, i, j)].decision

HasCommandChaining(s) == s \in Chained

Evaluate(rules, default, t, s) ==
  LET v == Verdict(rules, default, t, s)
  IN  IF t = "bash" /\ v = "allow" /\ HasCommandChaining(s) THEN "ask" ELSE v

\* Whether a tool is taken from what the model is offered: patterns do not count.
FullyDenied(rules, default, t) ==
  LET mine == {i \in DOMAIN rules : MatchesTool(rules[i], t)}
  IN  IF mine = {} THEN default = "deny"
      ELSE \A i \in mine : rules[i].decision = "deny"

(***************************************************************************)
(* Policy files, their merging, and the rule an "always" grant becomes.    *)
(***************************************************************************)
NoPolicy == [default |-> "", rules |-> <<>>]

\* A rule without a tool, or with a decision that is none, is left out.
MergeConfigFile(into, f) ==
  [default |-> IF f.default \in Decisions THEN f.default ELSE into.default,
   rules |-> into.rules \o Only(f.rules, Rule)]

LoadConfig(global, project) ==
  MergeConfigFile(MergeConfigFile(NoPolicy, global), project)

DefaultOf(policy) == IF policy.default \in Decisions THEN policy.default ELSE "allow"

GrantRule(g) == [tools |-> {g.tool}, glob |-> FALSE, any |-> g.subject \in Blank,
                 subjects |-> Widens[g.subject], decision |-> "allow"]

RecommendedPolicy ==
  [default |-> "allow",
   rules |-> <<On("bash", "rm -rf ", "ask"), On("bash", "git push", "ask"),
               OnAll("delete_file", "ask"), OnAll("move_file", "ask")>>]

StrictPolicy ==
  [default |-> "ask",
   rules |-> <<OnAll("read_file", "allow"), On("bash", "git status", "allow"),
               On("bash", "rm -rf ", "deny"), OnAll("delete_file", "deny")>>]

AutonomousPolicy ==
  [default |-> "allow", rules |-> <<On("bash", "rm -rf /", "deny")>>]
=============================================================================
