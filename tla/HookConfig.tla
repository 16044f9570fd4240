----------------------------- MODULE HookConfig -----------------------------
(***************************************************************************)
(* How a configuration comes into force: AtomicWrite lets through what     *)
(* Validate accepts, a hook loads the cache file, compiles it and judges a *)
(* push by it, and a violation is reported by the template it configures.  *)
(* The replacement of the file is one step here (Cache shows that it is).  *)
(* Regular expressions and templates are what they compile to, or not.     *)
(***************************************************************************)
EXTENDS Messages

CONSTANTS Hooks,       \* hook processes
          Protocols,   \* what a list of protocols may hold
          Strings,     \* the scalar fields' values, patterns among them
          Regexps,     \* the patterns that regexp.Compile accepts
          Templates,   \* the custom templates' texts
          ParsesAs,    \* the names under which each of them parses
          Body,        \* what it then executes
          Contents,    \* what may be published at the server or put into the file
          Garbage,     \* what is no YAML
          None

RuleNames == {"non_fast_forward", "deny_direct_push", "committer_match_push_user",
              "task_id"}
PatternFields == {"DenyDirectPushRegex", "BranchCheckScopeRegex", "TaskIDRegex",
                  "ExemptMessageRegex", "BranchWhitelistRegex"}

\* The patterns of each rule; the whitelist's belongs to none.
PatternsOf ==
  [non_fast_forward |-> {}, deny_direct_push |-> {"DenyDirectPushRegex"},
   committer_match_push_user |-> {},
   task_id |-> {"BranchCheckScopeRegex", "TaskIDRegex", "ExemptMessageRegex"}]

HookConf ==
  [version : Strings, mode : Strings, strategy : Strings,
   enabled : [RuleNames -> BOOLEAN],
   allow : SUBSET Protocols, deny : SUBSET Protocols,
   pattern : [PatternFields -> Strings],
   template : [Kinds -> Templates \union {""}]]

\* A CompiledConfig: what was compiled, and the expressions and templates; None
\* and Nil are nil pointers.
Compiled == [conf : HookConf, regexp : [PatternFields -> Strings \union {None}],
             msg : [Kinds -> Bodies \union {Nil}]]

BuiltinPattern ==
  [DenyDirectPushRegex |-> "master|sit_|uat_", BranchCheckScopeRegex |-> "feature|dev",
   TaskIDRegex |-> "TSK-|DEF-", ExemptMessageRegex |-> "",
   BranchWhitelistRegex |-> "init/|migrate/|tmp/"]

DefaultConfig ==
  [version |-> "1.0", mode |-> "enforce", strategy |-> "email_prefix",
   enabled |-> [r \in RuleNames |-> TRUE],
   allow |-> {"web"}, deny |-> {"http", "ssh", ""},
   pattern |-> BuiltinPattern,
   template |-> [k \in Kinds |-> ""]]

ASSUME HookConfigAssumption ==
  /\ {"web", "http", "ssh", ""} \subseteq Protocols
  /\ "" \notin Regexps
  /\ {"1.0", "enforce", "email_prefix", ""} \union Regexps \subseteq Strings
  /\ \A f \in PatternFields : BuiltinPattern[f] \in Regexps \union {""}
  /\ "" \notin Templates
  /\ ParsesAs \in [Templates -> SUBSET (Kinds \union {""})]
  /\ Body \in [Templates -> Bodies]
  /\ Contents \subseteq HookConf \union {Garbage}
  /\ Garbage \notin HookConf /\ None \notin HookConf \union Compiled \union {Garbage}

-----------------------------------------------------------------------------
RegexpOK(p) == p = "" \/ p \in Regexps
TemplateOK(name, t) == t = "" \/ name \in ParsesAs[t]

\* The patterns that are looked at: those of a disabled rule are not.
ActivePatterns(c) == {"BranchWhitelistRegex"} \union
                     UNION {PatternsOf[r] : r \in {q \in RuleNames : c.enabled[q]}}

\* Mutant of Validate: the templates are not parsed.
ValidateRegexps(c) ==
  /\ c.version = "1.0" /\ c.mode \in {"enforce", "warn"}
  /\ \A f \in ActivePatterns(c) : RegexpOK(c.pattern[f])

\* Whether Validate has no complaint.
Validate(c) ==
  /\ c.version = "1.0" /\ c.mode \in {"enforce", "warn"}
  /\ c.enabled["deny_direct_push"] => c.allow \union c.deny # {}
  /\ c.enabled["committer_match_push_user"] => c.strategy = "email_prefix"
  /\ \A f \in ActivePatterns(c) : RegexpOK(c.pattern[f])
  /\ \A k \in Kinds : TemplateOK("", c.template[k])

\* Compile's result; None is an error.
Compile(c) ==
  IF /\ \A f \in ActivePatterns(c) : RegexpOK(c.pattern[f])
     /\ \A k \in Kinds : TemplateOK(k, c.template[k])
  THEN [conf |-> c,
        regexp |-> [f \in PatternFields |->
           IF f \in ActivePatterns(c) /\ c.pattern[f] # "" THEN c.pattern[f] ELSE None],
        msg |-> [k \in Kinds |->
           IF c.template[k] = "" THEN Nil ELSE Body[c.template[k]]]]
  ELSE None

\* Mutant of Load: Compile's error is dropped, as it is for the built-in rules.
LoadUncompiled(f) ==
  IF f = None THEN [conf |-> Compile(DefaultConfig), err |-> "not found"]
  ELSE IF f = Garbage \/ ~Validate(f) THEN [conf |-> None, err |-> "invalid"]
  ELSE [conf |-> Compile(f), err |-> "nil"]

\* What Load makes of the file it has read; None is no file.
Load(f) ==
  IF f = None THEN [conf |-> Compile(DefaultConfig), err |-> "not found"]
  ELSE IF f = Garbage \/ ~Validate(f) \/ Compile(f) = None
  THEN [conf |-> None, err |-> "invalid"]
  ELSE [conf |-> Compile(f), err |-> "nil"]

-----------------------------------------------------------------------------
VARIABLES file,    \* the cache file
          writer,  \* who put it there: "sync" or "hand" (a history variable)
          pc,      \* where a hook is
          conf,    \* the CompiledConfig it judges by
          said     \* the violation it found and what it printed

vars == <<file, writer, pc, conf, said>>

Violations == [kind : Kinds, facts : Facts, tmpl : Bodies \union {Nil},
               text : Seq(Values \union {"unknown"} \union Kinds \union Texts)]

TypeOK ==
  /\ file \in Contents \union {None}
  /\ writer \in {"sync", "hand"}
  /\ pc \in [Hooks -> {"start", "judging", "reported", "refused", "passed"}]
  /\ conf \in [Hooks -> Compiled \union {None}]
  /\ said \in [Hooks -> Violations \union {None}]

Init ==
  /\ file = None /\ writer = "sync"
  /\ pc = [h \in Hooks |-> "start"]
  /\ conf = [h \in Hooks |-> None]
  /\ said = [h \in Hooks |-> None]

Hook == <<pc, conf, said>>

\* config-sync hands a published content to AtomicWrite: the old file stays when
\* Validate objects.
Sync(c) ==
  /\ IF c # Garbage /\ Validate(c)
     THEN file' = c /\ writer' = "sync" ELSE UNCHANGED <<file, writer>>
  /\ UNCHANGED Hook

\* An administrator edits the file by hand or removes it.
Edit(c) == file' = c /\ writer' = "hand" /\ UNCHANGED Hook

\* A hook starts and loads the file; a caller of Load goes on with the built-in
\* rules when there is none and refuses the push on any other error.
LoadFile(h) ==
  /\ pc[h] = "start"
  /\ LET l == Load(file) IN
       /\ conf' = [conf EXCEPT ![h] = l.conf]
       /\ pc' = [pc EXCEPT ![h] = IF l.err = "invalid" THEN "refused" ELSE "judging"]
  /\ UNCHANGED <<file, writer, said>>

\* The file is there and cannot be read.
ReadFail(h) ==
  /\ pc[h] = "start" /\ file # None
  /\ pc' = [pc EXCEPT ![h] = "refused"]
  /\ UNCHANGED <<file, writer, conf, said>>

\* The violations that CheckRef can find under a configuration: a nil branch
\* expression matches no branch.
Finds(c, k) ==
  \/ k = "non_fast_forward" /\ c.conf.enabled["non_fast_forward"]
  \/ k = "direct_push_denied" /\ c.conf.enabled["deny_direct_push"]
                              /\ c.regexp["DenyDirectPushRegex"] # None
  \/ k = "committer_mismatch" /\ c.conf.enabled["committer_match_push_user"]
  \/ k = "task_id_missing" /\ c.conf.enabled["task_id"]
                           /\ c.regexp["BranchCheckScopeRegex"] # None

\* CheckRef finds a violation and renders its message.
Violate(h, k, facts) ==
  /\ pc[h] = "judging" /\ Finds(conf[h], k)
  /\ said' = [said EXCEPT ![h] =
       [kind |-> k, facts |-> facts, tmpl |-> conf[h].msg[k],
        text |-> Render(conf[h].msg[k], k, facts)]]
  /\ pc' = [pc EXCEPT ![h] = "reported"]
  /\ conf' = [conf EXCEPT ![h] = None]
  /\ UNCHANGED <<file, writer>>

\* CheckRef finds none.
Pass(h) ==
  /\ pc[h] = "judging"
  /\ pc' = [pc EXCEPT ![h] = "passed"]
  /\ conf' = [conf EXCEPT ![h] = None]
  /\ UNCHANGED <<file, writer, said>>

Next ==
  \/ \E c \in Contents : Sync(c)
  \/ \E c \in Contents \union {None} : Edit(c)
  \/ \E h \in Hooks : \/ LoadFile(h) \/ ReadFail(h) \/ Pass(h)
                      \/ \E k \in Kinds, facts \in Facts : Violate(h, k, facts)

Spec == Init /\ [][Next]_vars

-----------------------------------------------------------------------------
\* Templates that parse under one name and not under another define a template
\* of their own name.
NamesItself(t) == t \in Templates /\ ParsesAs[t] \notin {{}, Kinds \union {""}}

\* What config-sync wrote, a hook loads: Validate and Compile, two readings of
\* the same fields, agree wherever no template defines its own name.
SyncedLoads ==
  writer = "sync" /\ file # None /\ (\A k \in Kinds : ~NamesItself(file.template[k]))
    => Load(file).err = "nil"

\* README 189 and 205: a template that does not compile is refused by
\* config-sync, so what it wrote, whatever its templates, a hook loads.
EverySyncedLoads == writer = "sync" /\ file # None => Load(file).err = "nil"

\* A hook that judges has every pattern of every enabled rule and every custom
\* template compiled, whatever is in the file: a configuration that cannot be
\* read in full never switches a rule off, it refuses the push.
FailsClosed ==
  \A h \in Hooks : pc[h] = "judging" =>
    LET c == conf[h] IN
    /\ c # None
    /\ \A r \in RuleNames : \A f \in PatternsOf[r] :
         c.conf.enabled[r] /\ c.conf.pattern[f] # "" =>
           c.regexp[f] = c.conf.pattern[f] /\ c.regexp[f] \in Regexps
    /\ \A k \in Kinds : c.conf.template[k] # "" =>
         k \in ParsesAs[c.conf.template[k]] /\ c.msg[k] = Body[c.conf.template[k]]

\* The fields that the README's table promises to a template of each kind.
Promised(k) ==
  {"ProjectPath", "RepoName", "Username", "BranchName"} \union
  (IF k = "direct_push_denied" THEN {"Protocol"} ELSE {}) \union
  (IF k = "task_id_missing" THEN {"CommitID", "CommitSubject"} ELSE {}) \union
  (IF k = "committer_mismatch" THEN {"CommitID", "CommitterEmail"} ELSE {})

\* A message is one template from its first piece to its last, the custom one
\* unless it fails and then the built-in one with nothing before it; where it
\* names the push or the commit at fault it says what they are.
MessageIsWhole ==
  \A h \in Hooks : said[h] # None =>
    LET s == said[h]
        body == IF s.tmpl # Nil /\ (\A i \in DOMAIN s.tmpl : s.tmpl[i] # Bad)
                THEN s.tmpl ELSE DefaultTemplate[s.kind]
    IN  /\ Len(s.text) = Len(body)
        /\ \A i \in DOMAIN body :
             IF body[i] \in Fields
             THEN body[i] \in Promised(s.kind) /\ s.facts[body[i]] # "" =>
                    s.text[i] = s.facts[body[i]]
             ELSE s.text[i] = body[i]
=============================================================================
