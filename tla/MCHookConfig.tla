---------------------------- MODULE MCHookConfig ----------------------------
(***************************************************************************)
(* Instances of HookConfig for TLC: a full configuration, and one that     *)
(* differs from it in each of the ways that Validate and Compile look at.  *)
(***************************************************************************)
EXTENDS HookConfig

MCRegexps == ({BuiltinPattern[f] : f \in PatternFields} \union {"auto"}) \ {""}

MCStrings == MCRegexps \union {"1.0", "enforce", "email_prefix", "", "(", "audit", "name"}

\* plain parses and executes; unclosed does not parse; itself defines a template
\* named non_fast_forward; broken fails in the middle of its execution.
MCTemplates == {"plain", "unclosed", "itself", "broken"}
MCParsesAs == [t \in MCTemplates |->
  CASE t = "unclosed" -> {}
    [] t = "itself" -> {"", "direct_push_denied", "committer_mismatch", "task_id_missing"}
    [] OTHER -> Kinds \union {""}]
MCBody == [t \in MCTemplates |->
  CASE t = "plain" -> <<"text", "BranchName", "CommitID", "CommitSubject", "Protocol">>
    [] t = "broken" -> <<"text", "Username", Bad, "text">>
    [] OTHER -> <<"text">>]

Full == [DefaultConfig EXCEPT !.pattern["ExemptMessageRegex"] = "auto",
                              !.template = [k \in Kinds |-> "plain"]]

\* An empty file, which is YAML, is the zero HookConfig.
Zero == [version |-> "", mode |-> "", strategy |-> "",
         enabled |-> [r \in RuleNames |-> FALSE], allow |-> {}, deny |-> {},
         pattern |-> [f \in PatternFields |-> ""], template |-> [k \in Kinds |-> ""]]

MCContents ==
  {Garbage, Zero, Full, DefaultConfig}
  \union {[Full EXCEPT !.mode = "audit"], [Full EXCEPT !.strategy = "name"],
          [Full EXCEPT !.allow = {}, !.deny = {}]}
  \union {[Full EXCEPT !.pattern[f] = p] : f \in PatternFields, p \in {"", "("}}
  \union {[Full EXCEPT !.enabled[r] = FALSE, !.pattern = [f \in PatternFields |->
             IF f \in PatternsOf[r] THEN "(" ELSE @[f]]] : r \in RuleNames}
  \union {[Full EXCEPT !.template[k] = t] : k \in Kinds, t \in MCTemplates \union {""}}

\* A push of which all is known, and one of which GitLab told the hook nothing.
Known == [f \in Fields |-> "the " \o f]
Bare == [f \in Fields |-> IF f \in {"CommitID", "CommitSubject", "CommitterEmail"}
                          THEN Known[f] ELSE ""]
MCFacts == {Known, Bare}
MCValues == {Known[f] : f \in Fields}
=============================================================================
