-------------------------- MODULE HookConfigProofs --------------------------
(***************************************************************************)
(* Proofs about HookConfig, for any configurations, patterns and templates. *)
(***************************************************************************)
EXTENDS HookConfig, TLAPS

\* The texts of messages.
Out == Values \union {"unknown"} \union Kinds \union Texts

FileInv == writer = "sync" /\ file # None => file # Garbage /\ Validate(file)

ConfInv == \A h \in Hooks : pc[h] = "judging" =>
             \E c \in HookConf : conf[h] = Compile(c) /\ conf[h] # None

SaidInv == \A h \in Hooks : said[h] # None =>
             /\ said[h].kind \in Kinds /\ said[h].facts \in Facts
             /\ said[h].tmpl \in Bodies \union {Nil}
             /\ said[h].text = Render(said[h].tmpl, said[h].kind, said[h].facts)

ConfigInv == TypeOK /\ FileInv /\ ConfInv /\ SaidInv

-----------------------------------------------------------------------------
\* What Compile returns when it has no error.
CompiledOf(c) ==
  [conf |-> c,
   regexp |-> [f \in PatternFields |->
      IF f \in ActivePatterns(c) /\ c.pattern[f] # "" THEN c.pattern[f] ELSE None],
   msg |-> [k \in Kinds |-> IF c.template[k] = "" THEN Nil ELSE Body[c.template[k]]]]

LEMMA CompiledOfFields ==
  ASSUME NEW c
  PROVE  /\ CompiledOf(c).conf = c
         /\ \A f \in ActivePatterns(c) : f \in PatternFields /\ c.pattern[f] # "" =>
              CompiledOf(c).regexp[f] = c.pattern[f]
         /\ \A k \in Kinds : c.template[k] # "" =>
              CompiledOf(c).msg[k] = Body[c.template[k]]
  BY DEF CompiledOf

LEMMA CompiledOfType ==
  ASSUME NEW c \in HookConf
  PROVE  CompiledOf(c) \in Compiled /\ CompiledOf(c) # None
<1>1. c.pattern \in [PatternFields -> Strings] /\ c.template \in [Kinds -> Templates \union {""}]
  BY DEF HookConf
<1>2. \A k \in Kinds : c.template[k] # "" => Body[c.template[k]] \in Bodies
  BY <1>1, HookConfigAssumption
<1>3. CompiledOf(c) \in Compiled
  BY <1>1, <1>2 DEF CompiledOf, Compiled
<1> QED
  BY <1>3, HookConfigAssumption

LEMMA CompileType ==
  ASSUME NEW c \in HookConf
  PROVE  Compile(c) \in Compiled \union {None}
  BY CompiledOfType DEF Compile, CompiledOf

\* The patterns that Compile looks at are fields of the configuration.
LEMMA ActiveAreFields ==
  ASSUME NEW c
  PROVE  ActivePatterns(c) \subseteq PatternFields
  BY DEF ActivePatterns, PatternsOf, PatternFields, RuleNames
\* When every active pattern and every template is fine Compile has no error.
LEMMA CompileSucceeds ==
  ASSUME NEW c \in HookConf,
         \A f \in ActivePatterns(c) : RegexpOK(c.pattern[f]),
         \A k \in Kinds : TemplateOK(k, c.template[k])
  PROVE  Compile(c) # None
  BY CompiledOfType DEF Compile, CompiledOf

\* The built-in configuration compiles, so Load may drop that error.
LEMMA DefaultCompiles ==
  /\ DefaultConfig \in HookConf
  /\ Compile(DefaultConfig) # None
<1>1. BuiltinPattern \in [PatternFields -> Strings]
  BY HookConfigAssumption DEF BuiltinPattern, PatternFields
<1>2. DefaultConfig \in HookConf
  BY <1>1, HookConfigAssumption DEF DefaultConfig, HookConf
<1>3. \A f \in ActivePatterns(DefaultConfig) : RegexpOK(DefaultConfig.pattern[f])
  BY HookConfigAssumption, ActiveAreFields DEF DefaultConfig, RegexpOK
<1>4. \A k \in Kinds : TemplateOK(k, DefaultConfig.template[k])
  BY DEF DefaultConfig, TemplateOK
<1> QED
  BY <1>2, <1>3, <1>4, CompileSucceeds

\* What Load returns with another error than "invalid" is a CompiledConfig.
LEMMA LoadType ==
  ASSUME NEW f \in Contents \union {None}
  PROVE  /\ Load(f).conf \in Compiled \union {None}
         /\ Load(f).err # "invalid" =>
              \E c \in HookConf : Load(f).conf = Compile(c) /\ Load(f).conf # None
<1>1. CASE f = None
  BY <1>1, DefaultCompiles, CompileType DEF Load
<1>2. CASE f # None /\ (f = Garbage \/ ~Validate(f) \/ Compile(f) = None)
  BY <1>2 DEF Load
<1>3. CASE f # None /\ ~(f = Garbage \/ ~Validate(f) \/ Compile(f) = None)
  <2>1. f \in HookConf
    BY <1>3, HookConfigAssumption
  <2>2. Load(f) = [conf |-> Compile(f), err |-> "nil"]
    BY <1>3 DEF Load
  <2> QED
    BY <1>3, <2>1, <2>2, CompileType
<1> QED
  BY <1>1, <1>2, <1>3

-----------------------------------------------------------------------------
\* The built-in templates are made of fields and text.
LEMMA DefaultTemplateType ==
  ASSUME NEW k \in Kinds
  PROVE  DefaultTemplate[k] \in Seq(Pieces)
<1> DEFINE P == Pieces
<1>0. Fields \subseteq P /\ Kinds \subseteq P
  BY DEF Pieces
<1>1. /\ "ProjectPath" \in P /\ "RepoName" \in P /\ "Username" \in P
      /\ "BranchName" \in P /\ "Protocol" \in P /\ "CommitID" \in P
      /\ "CommitSubject" \in P /\ "CommitterEmail" \in P
  BY <1>0 DEF Fields, PushFields
<1>2. /\ "non_fast_forward" \in P /\ "direct_push_denied" \in P
      /\ "committer_mismatch" \in P /\ "task_id_missing" \in P
  BY <1>0 DEF Kinds
<1> HIDE DEF P
<1>3. DefaultTemplate.non_fast_forward \in Seq(P)
  BY <1>1, <1>2 DEF DefaultTemplate
<1>4. DefaultTemplate.direct_push_denied \in Seq(P)
  BY <1>1, <1>2 DEF DefaultTemplate
<1>5. DefaultTemplate.committer_mismatch \in Seq(P)
  BY <1>1, <1>2 DEF DefaultTemplate
<1>6. DefaultTemplate.task_id_missing \in Seq(P)
  BY <1>1, <1>2 DEF DefaultTemplate
<1>7. DefaultTemplate[k] \in Seq(P)
  BY <1>3, <1>4, <1>5, <1>6 DEF Kinds
<1> QED
  BY <1>7 DEF P

\* A template that does not fail is executed to its end.
LEMMA ExecuteWhole ==
  ASSUME NEW body \in Bodies, ~Fails(body), NEW ctx \in [Fields -> Values \union {"unknown"}]
  PROVE  /\ Execute(body, ctx) \in Seq(Out)
         /\ Len(Execute(body, ctx)) = Len(body)
         /\ \A i \in DOMAIN body :
              Execute(body, ctx)[i] = IF body[i] \in Fields THEN ctx[body[i]] ELSE body[i]
<1>1. DOMAIN body = 1..Len(body) /\ Len(body) \in Nat
  BY DEF Bodies
<1>2. \A i \in DOMAIN body : body[i] \in Pieces
  BY DEF Bodies, Fails
<1>3. Written(body) = 1..Len(body)
  BY <1>1 DEF Written, Fails
<1>4. \A i \in 1..Len(body) :
        (IF body[i] \in Fields THEN ctx[body[i]] ELSE body[i]) \in Out
  BY <1>1, <1>2 DEF Pieces, Out
<1>5. Execute(body, ctx) =
        [i \in 1..Len(body) |-> IF body[i] \in Fields THEN ctx[body[i]] ELSE body[i]]
  BY <1>3 DEF Execute
<1> QED
  BY <1>1, <1>4, <1>5

\* The template that render ends with.
Chosen(tmpl, k) == IF tmpl # Nil /\ ~Fails(tmpl) THEN tmpl ELSE DefaultTemplate[k]

LEMMA ChosenType ==
  ASSUME NEW k \in Kinds, NEW tmpl \in Bodies \union {Nil}
  PROVE  Chosen(tmpl, k) \in Bodies /\ ~Fails(Chosen(tmpl, k))
<1>1. DefaultTemplate[k] \in Seq(Pieces)
  BY DefaultTemplateType
<1>2. ~Fails(DefaultTemplate[k])
  <2>1. \A i \in DOMAIN DefaultTemplate[k] : DefaultTemplate[k][i] \in Pieces
    BY <1>1
  <2> QED
    BY <2>1, MessagesAssumption DEF Fails
<1>3. DefaultTemplate[k] \in Bodies
  BY <1>1 DEF Bodies
<1> QED
  BY <1>2, <1>3 DEF Chosen

\* The context of a violation, with what is missing filled in.
LEMMA ContextType ==
  ASSUME NEW k \in Kinds, NEW facts \in Facts
  PROVE  FillUnknown(Context(k, facts)) \in [Fields -> Values \union {"unknown"}]
  BY MessagesAssumption DEF FillUnknown, Context, OrUnknown

\* Render is the whole of one template.
LEMMA RenderWhole ==
  ASSUME NEW k \in Kinds, NEW facts \in Facts, NEW tmpl \in Bodies \union {Nil}
  PROVE  Render(tmpl, k, facts) =
           Execute(Chosen(tmpl, k), FillUnknown(Context(k, facts)))
<1> DEFINE ctx == FillUnknown(Context(k, facts))
<1>1. Execute(DefaultTemplate[k], ctx) \in Seq(Out) /\ ~Fails(DefaultTemplate[k])
  <2>1. Chosen(Nil, k) = DefaultTemplate[k]
    BY DEF Chosen
  <2> QED
    BY <2>1, ChosenType, ContextType, ExecuteWhole
<1> HIDE DEF ctx
<1>2. <<>> \o Execute(DefaultTemplate[k], ctx) = Execute(DefaultTemplate[k], ctx)
  BY <1>1
<1> QED
  BY <1>1, <1>2 DEF Render, Chosen, Reset, ctx


-----------------------------------------------------------------------------
LEMMA InvInit == Init => ConfigInv
  BY HookConfigAssumption
  DEF Init, ConfigInv, TypeOK, FileInv, ConfInv, SaidInv

\* A violation and its message keep the invariant.
LEMMA ViolateStep ==
  ASSUME ConfigInv, NEW h \in Hooks, NEW k \in Kinds, NEW facts \in Facts,
         Violate(h, k, facts)
  PROVE  ConfigInv'
<1> DEFINE tmpl == conf[h].msg[k]
           s == [kind |-> k, facts |-> facts, tmpl |-> tmpl, text |-> Render(tmpl, k, facts)]
<1>1. pc[h] = "judging" /\ conf[h] \in Compiled
  BY DEF ConfigInv, TypeOK, ConfInv, Violate
<1>2. tmpl \in Bodies \union {Nil}
  BY <1>1 DEF Compiled
<1>3. Render(tmpl, k, facts) \in Seq(Out)
  BY <1>2, RenderWhole, ChosenType, ContextType, ExecuteWhole
<1>4. s \in Violations
  BY <1>2, <1>3 DEF Violations, Out
<1>5. said' = [said EXCEPT ![h] = s]
  BY DEF Violate
<1> HIDE DEF tmpl
<1>6. /\ s.kind \in Kinds /\ s.facts \in Facts /\ s.tmpl \in Bodies \union {Nil}
      /\ s.text = Render(s.tmpl, s.kind, s.facts)
  BY <1>2
<1> HIDE DEF s
<1>7. TypeOK'
  BY <1>4, <1>5 DEF ConfigInv, TypeOK, Violate
<1>8. FileInv' /\ ConfInv'
  BY DEF ConfigInv, FileInv, ConfInv, TypeOK, Violate
<1>9. SaidInv'
  BY <1>5, <1>6 DEF ConfigInv, SaidInv, TypeOK
<1> QED
  BY <1>7, <1>8, <1>9 DEF ConfigInv

LEMMA InvStep ==
  ASSUME ConfigInv, [Next]_vars
  PROVE  ConfigInv'
<1> USE DEF ConfigInv
<1>1. ASSUME NEW c \in Contents, Sync(c) PROVE ConfigInv'
  BY <1>1 DEF Sync, Hook, TypeOK, FileInv, ConfInv, SaidInv
<1>2. ASSUME NEW c \in Contents \union {None}, Edit(c) PROVE ConfigInv'
  BY <1>2 DEF Edit, Hook, TypeOK, FileInv, ConfInv, SaidInv
<1>3. ASSUME NEW h \in Hooks, LoadFile(h) PROVE ConfigInv'
  <2> DEFINE l == Load(file)
  <2>1. /\ l.conf \in Compiled \union {None}
        /\ l.err # "invalid" => \E c \in HookConf : l.conf = Compile(c) /\ l.conf # None
    BY LoadType DEF TypeOK
  <2>2. /\ conf' = [conf EXCEPT ![h] = l.conf]
        /\ pc' = [pc EXCEPT ![h] = IF l.err = "invalid" THEN "refused" ELSE "judging"]
        /\ UNCHANGED <<file, writer, said>>
    BY <1>3 DEF LoadFile
  <2> HIDE DEF l
  <2> QED
    BY <2>1, <2>2 DEF TypeOK, FileInv, ConfInv, SaidInv
<1>4. ASSUME NEW h \in Hooks, ReadFail(h) PROVE ConfigInv'
  BY <1>4 DEF ReadFail, TypeOK, FileInv, ConfInv, SaidInv
<1>5. ASSUME NEW h \in Hooks, Pass(h) PROVE ConfigInv'
  BY <1>5 DEF Pass, TypeOK, FileInv, ConfInv, SaidInv
<1>6. CASE UNCHANGED vars
  BY <1>6 DEF vars, TypeOK, FileInv, ConfInv, SaidInv
<1> QED
  BY <1>1, <1>2, <1>3, <1>4, <1>5, <1>6, ViolateStep DEF Next

LEMMA Invariant == Spec => []ConfigInv
  BY InvInit, InvStep, PTL DEF Spec

-----------------------------------------------------------------------------
\* Every variable keeps its type; a message is made of values and texts.
THEOREM TypeCorrect == Spec => []TypeOK
<1>1. ConfigInv => TypeOK
  BY DEF ConfigInv
<1> QED
  BY <1>1, Invariant, PTL

\* Validate accepts nothing that Compile then refuses, for any patterns and
\* templates of which none defines a template of its own name: HookConfig_accepted
\* shows that the exception is needed.
THEOREM ValidatedIsLoaded == Spec => []SyncedLoads
<1>1. ASSUME ConfigInv PROVE SyncedLoads
  <2> SUFFICES ASSUME writer = "sync", file # None,
                      \A k \in Kinds : ~NamesItself(file.template[k])
               PROVE  Load(file).err = "nil"
    BY DEF SyncedLoads
  <2>1. file # Garbage /\ Validate(file)
    BY <1>1 DEF ConfigInv, FileInv
  <2>2. file \in HookConf
    BY <1>1, <2>1, HookConfigAssumption DEF ConfigInv, TypeOK
  <2>3. ASSUME NEW k \in Kinds PROVE TemplateOK(k, file.template[k])
    <3>1. TemplateOK("", file.template[k]) /\ file.template[k] \in Templates \union {""}
      BY <2>1, <2>2 DEF Validate, HookConf
    <3> QED
      BY <3>1 DEF TemplateOK, NamesItself
  <2>4. Compile(file) # None
    BY <2>1, <2>2, <2>3, CompileSucceeds DEF Validate
  <2> QED
    BY <2>1, <2>4 DEF Load
<1> QED
  BY <1>1, Invariant, PTL

\* A hook that judges has every enabled rule's patterns and every custom
\* template compiled.
THEOREM LoadFailsClosed == Spec => []FailsClosed
<1>1. ASSUME ConfigInv PROVE FailsClosed
  <2> SUFFICES ASSUME NEW h \in Hooks, pc[h] = "judging"
               PROVE  /\ conf[h] # None
                      /\ \A r \in RuleNames : \A f \in PatternsOf[r] :
                           conf[h].conf.enabled[r] /\ conf[h].conf.pattern[f] # "" =>
                             /\ conf[h].regexp[f] = conf[h].conf.pattern[f]
                             /\ conf[h].regexp[f] \in Regexps
                      /\ \A k \in Kinds : conf[h].conf.template[k] # "" =>
                           /\ k \in ParsesAs[conf[h].conf.template[k]]
                           /\ conf[h].msg[k] = Body[conf[h].conf.template[k]]
    BY DEF FailsClosed
  <2>1. PICK c \in HookConf : conf[h] = Compile(c) /\ conf[h] # None
    BY <1>1 DEF ConfigInv, ConfInv
  <2>2. /\ \A f \in ActivePatterns(c) : RegexpOK(c.pattern[f])
        /\ \A k \in Kinds : TemplateOK(k, c.template[k])
        /\ conf[h] = CompiledOf(c)
    BY <2>1 DEF Compile, CompiledOf
  <2>3. conf[h].conf = c
    BY <2>2, CompiledOfFields
  <2>4. ASSUME NEW r \in RuleNames, NEW f \in PatternsOf[r], c.enabled[r], c.pattern[f] # ""
        PROVE  conf[h].regexp[f] = c.pattern[f] /\ conf[h].regexp[f] \in Regexps
    <3>1. f \in ActivePatterns(c)
      BY <2>4 DEF ActivePatterns
    <3>2. f \in PatternFields /\ c.pattern[f] \in Regexps
      BY <2>2, <2>4, <3>1, ActiveAreFields DEF RegexpOK
    <3>3. CompiledOf(c).regexp[f] = c.pattern[f]
      BY <2>4, <3>1, <3>2, CompiledOfFields
    <3>4. conf[h] = CompiledOf(c)
      BY <2>2
    <3> QED
      BY <3>2, <3>3, <3>4
  <2>5. ASSUME NEW k \in Kinds, c.template[k] # ""
        PROVE  k \in ParsesAs[c.template[k]] /\ conf[h].msg[k] = Body[c.template[k]]
    <3>1. k \in ParsesAs[c.template[k]]
      BY <2>2, <2>5 DEF TemplateOK
    <3>2. CompiledOf(c).msg[k] = Body[c.template[k]]
      BY <2>5, CompiledOfFields
    <3>3. conf[h] = CompiledOf(c)
      BY <2>2
    <3> QED
      BY <3>1, <3>2, <3>3
  <2> QED
    BY <2>1, <2>3, <2>4, <2>5
<1> QED
  BY <1>1, Invariant, PTL

\* Every message is the whole of one template and says what it is about, for
\* any templates, one that fails in the middle included.
THEOREM MessagesAreWhole == Spec => []MessageIsWhole
<1>1. ASSUME ConfigInv PROVE MessageIsWhole
  <2> SUFFICES ASSUME NEW h \in Hooks, said[h] # None
               PROVE  LET s == said[h]
                          body == Chosen(s.tmpl, s.kind)
                      IN  /\ Len(s.text) = Len(body)
                          /\ \A i \in DOMAIN body :
                               IF body[i] \in Fields
                               THEN body[i] \in Promised(s.kind) /\ s.facts[body[i]] # "" =>
                                      s.text[i] = s.facts[body[i]]
                               ELSE s.text[i] = body[i]
    BY DEF MessageIsWhole, Chosen, Fails
  <2> DEFINE k == said[h].kind
             facts == said[h].facts
             body == Chosen(said[h].tmpl, k)
             ctx == FillUnknown(Context(k, facts))
  <2>1. /\ k \in Kinds /\ facts \in Facts /\ said[h].tmpl \in Bodies \union {Nil}
        /\ said[h].text = Render(said[h].tmpl, k, facts)
    BY <1>1 DEF ConfigInv, SaidInv
  <2>2. said[h].text = Execute(body, ctx)
    BY <2>1, RenderWhole
  <2>3. ctx \in [Fields -> Values \union {"unknown"}]
    BY <2>1, ContextType
  <2>4. body \in Bodies /\ ~Fails(body)
    BY <2>1, ChosenType
  <2>5. ASSUME NEW f \in Fields, f \in Promised(k), facts[f] # "" PROVE ctx[f] = facts[f]
    <3>1. f \in PushFields \union CommitFields[k]
      <4>1. CASE f \in PushFields
        BY <4>1
      <4>2. CASE k = "direct_push_denied" /\ f = "Protocol"
        BY <4>2 DEF PushFields
      <4>3. CASE k = "task_id_missing" /\ f \in {"CommitID", "CommitSubject"}
        BY <4>3 DEF CommitFields
      <4>4. CASE k = "committer_mismatch" /\ f \in {"CommitID", "CommitterEmail"}
        BY <4>4 DEF CommitFields
      <4> QED
        BY <2>5, <4>1, <4>2, <4>3, <4>4 DEF Promised, PushFields
    <3> QED
      BY <2>5, <3>1 DEF FillUnknown, Context, OrUnknown
  <2> HIDE DEF k, facts, body, ctx
  <2>6. /\ Len(said[h].text) = Len(body)
        /\ \A i \in DOMAIN body :
             said[h].text[i] = IF body[i] \in Fields THEN ctx[body[i]] ELSE body[i]
    BY <2>2, <2>3, <2>4, ExecuteWhole
  <2>7. \A i \in DOMAIN body :
          IF body[i] \in Fields
          THEN body[i] \in Promised(k) /\ facts[body[i]] # "" =>
                 said[h].text[i] = facts[body[i]]
          ELSE said[h].text[i] = body[i]
    BY <2>5, <2>6
  <2> QED
    BY <2>6, <2>7 DEF k, facts, body
<1> QED
  BY <1>1, Invariant, PTL
=============================================================================
