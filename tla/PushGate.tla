------------------------------ MODULE PushGate ------------------------------
(***************************************************************************)
(* The pre-receive hook of a whole push.  git writes a line per ref on the *)
(* hook's stdin; ParseStdin turns the lines into ref updates; CheckRef     *)
(* judges them one after the other, by the rules the hook loaded when it   *)
(* started; git moves the refs, one by one, if the hook exits 0, and none  *)
(* of them otherwise.  A hook of HookRules is here a line of a push.       *)
(***************************************************************************)
EXTENDS HookRules

CONSTANTS Pushes,   \* the pushes
          MaxLines  \* bound on the refs of a push

ASSUME PushGateAssumption ==
  /\ MaxLines \in Nat
  /\ Hooks = Pushes \X (1..MaxLines)
  /\ None \notin {"ok", "refused"}

VARIABLES cmd,  \* per push: what git tells the hook, and the rules it loads
          exit  \* how the hook exited

gate == <<cmd, exit>>
gateVars == <<vars, gate>>

Lines == (Commits \union {Zero}) \X (Commits \union {Zero}) \X Refs

Command == [lines : Seq(Lines), user : Users, protocol : Protocols, rules : Configs]

GateTypeOK ==
  /\ TypeOK
  /\ cmd \in [Pushes -> Command \union {None}]
  /\ exit \in [Pushes -> {None, "ok", "refused"}]
  /\ \A p \in Pushes : cmd[p] # None => Len(cmd[p].lines) \in 1..MaxLines

GateInit == /\ Init
            /\ cmd = [p \in Pushes |-> None]
            /\ exit = [p \in Pushes |-> None]

\* Mutant of ParseStdin: the last line of several is lost.
ParseStdinButLast(lines) == {i \in DOMAIN lines : i = 1 \/ i < Len(lines)}

\* Every line that git writes becomes a ref update.  (A blank or malformed line
\* and a failing read of stdin are outside the model.)
ParseStdin(lines) == DOMAIN lines

\* Mutant of Update: the first two fields of a line the other way round.
UpdateSwapped(c, i) ==
  [ref |-> c.lines[i][3], old |-> c.lines[i][2], new |-> c.lines[i][1],
   user |-> c.user, protocol |-> c.protocol]

\* Mutant of Update: the ref is taken for the first field.
UpdateShifted(c, i) ==
  [ref |-> c.lines[i][1], old |-> c.lines[i][2], new |-> c.lines[i][3],
   user |-> c.user, protocol |-> c.protocol]

Update(c, i) ==
  [ref |-> c.lines[i][3], old |-> c.lines[i][1], new |-> c.lines[i][2],
   user |-> c.user, protocol |-> c.protocol]

-----------------------------------------------------------------------------
\* Whether CheckRef has returned v for line i of p.
Returned(p, i, v) == pc[<<p, i>>] = "decided" /\ verdict[<<p, i>>] = v

\* What git may be asked for a ref: to move it from a value that it has had.
GitCommands == UNION {Held(ref) \X (Commits \union {Zero}) \X {ref} : ref \in Refs}

\* A user pushes one ref or several; the hook starts and loads its rules.
Start(p, lines, u, x, r) ==
  /\ cmd[p] = None
  /\ \A i \in DOMAIN lines : /\ lines[i][1] # lines[i][2]
                             /\ \A j \in DOMAIN lines \ {i} : lines[i][3] # lines[j][3]
  /\ cmd' = [cmd EXCEPT ![p] = [lines |-> lines, user |-> u, protocol |-> x,
                                rules |-> r]]
  /\ UNCHANGED <<vars, exit>>

\* The loop over the ref updates hands the next one to CheckRef.
CheckLine(p, i) ==
  /\ cmd[p] # None /\ exit[p] = None
  /\ i \in ParseStdin(cmd[p].lines)
  /\ \A j \in ParseStdin(cmd[p].lines) : j < i => Returned(p, j, "pass")
  /\ Receive(<<p, i>>, Update(cmd[p], i), cmd[p].rules)
  /\ UNCHANGED gate

CheckOn(h) == Check(h) /\ UNCHANGED gate

ExitOK(p) ==
  /\ cmd[p] # None /\ exit[p] = None
  /\ \A i \in ParseStdin(cmd[p].lines) : Returned(p, i, "pass")
  /\ exit' = [exit EXCEPT ![p] = "ok"]
  /\ UNCHANGED <<vars, cmd>>

\* Enforce mode: the hook stops at the first violation or error.
ExitRefused(p) ==
  /\ cmd[p] # None /\ exit[p] = None
  /\ \E i \in ParseStdin(cmd[p].lines), v \in Verdicts \ {"pass"} : Returned(p, i, v)
  /\ exit' = [exit EXCEPT ![p] = "refused"]
  /\ UNCHANGED <<vars, cmd>>

\* git moves the ref of line i, unless another push has moved it first.
Move(p, i) ==
  LET line == cmd[p].lines[i] IN
  /\ exit[p] = "ok" /\ i \in DOMAIN cmd[p].lines /\ ~Finished(<<p, i>>)
  /\ IF refs[line[3]] = line[1]
     THEN /\ refs' = [refs EXCEPT ![line[3]] = line[2]]
          /\ pc' = [pc EXCEPT ![<<p, i>>] = "landed"]
          /\ UNCHANGED <<push, rules>>
     ELSE Refused(<<p, i>>)
  /\ Exit(<<p, i>>)
  /\ UNCHANGED gate

\* git moves no ref of a push that the hook refused.
Drop(p, i) == /\ exit[p] = "refused" /\ Refuse(<<p, i>>)
              /\ UNCHANGED gate

GateEnded == /\ \A p \in Pushes : exit[p] # None
             /\ \A h \in Hooks : Finished(h) \/ pc[h] = "idle"
             /\ UNCHANGED gateVars

GateNext ==
  \/ \E p \in Pushes, n \in 1..MaxLines :
       \E lines \in [1..n -> GitCommands], u \in Users, x \in Protocols, r \in Configs :
         Start(p, lines, u, x, r)
  \/ \E p \in Pushes : ExitOK(p) \/ ExitRefused(p)
  \/ \E p \in Pushes, i \in 1..MaxLines : CheckLine(p, i) \/ Move(p, i) \/ Drop(p, i)
  \/ \E h \in Hooks : CheckOn(h)
  \/ GateEnded

GateSpec == GateInit /\ [][GateNext]_gateVars

-----------------------------------------------------------------------------
\* Every line of every push is judged and applied as a push of one ref is in
\* HookRules: what is proved of CheckRef and of overlapping pushes there holds
\* of pushes of several refs.
ImplementsHookRules == Spec

\* docs 4.3: all the refs of a push are looked at.  None is moved unless CheckRef
\* let every one of them pass.
AllOrNothing ==
  \A p \in Pushes :
    (\E i \in 1..MaxLines : pc[<<p, i>>] = "landed") =>
      \A i \in DOMAIN cmd[p].lines : Returned(p, i, "pass") \/ Finished(<<p, i>>)
=============================================================================
