------------------------------ MODULE SagaProofs ------------------------------
(***************************************************************************)
(* All or nothing, for any number of sagas, processes, failed statements   *)
(* and crashes.                                                            *)
(***************************************************************************)
EXTENDS Saga, TLAPS, FiniteSetTheorems

\* Process p executes s, or is going to.
Hand(p, s) == ctx[p][s].pc # "none" \/ s \in todo[p]

\* A process that is down has nothing in hand.
Down == \A p \in Procs, s \in Sagas : up[p] = "down" => ~Hand(p, s)

\* A group id is given once: who remembers it is the saga that got it.
Ids ==
  /\ \A g \in groups : 0 < g[1] /\ g[1] < nextGid
  /\ \A s \in Sagas :
       /\ slog[s].gid < nextGid
       /\ \A g \in groups : g[1] = slog[s].gid => g[2] = s
       /\ \A p \in Procs :
            /\ ctx[p][s].gid < nextGid
            /\ \A g \in groups : g[1] = ctx[p][s].gid => g[2] = s

\* Before saga_log has its row nothing was done for a saga.
NotStarted ==
  \A s \in Sagas : slog[s].state = "none" => \A p \in Procs : ~Hand(p, s)

\* One process has a saga in hand, once, and only while it is unfinished.
Single(s) ==
  /\ \A p, q \in Procs : Hand(p, s) /\ Hand(q, s) => p = q
  /\ \A p \in Procs : Hand(p, s) =>
       /\ slog[s].state \in {"running", "compensating"}
       /\ ctx[p][s].pc = "none" \/ s \notin todo[p]

\* What the steps that saga_log has recorded left in the tables.  A group whose
\* saga is at step 1 may have been deleted by a compensation.
Table(s) ==
  /\ slog[s].step = 0 => GroupsOf(s) = {} /\ slog[s].state # "done"
  /\ slog[s].step = 1 =>
       /\ slog[s].state # "done" /\ slog[s].gid \notin members
       /\ GroupsOf(s) = {} \/ GroupsOf(s) = {<<slog[s].gid, s>>}
  /\ slog[s].step = 2 =>
       /\ slog[s].state # "failed" /\ slog[s].gid \in members
       /\ GroupsOf(s) = {<<slog[s].gid, s>>}
  /\ slog[s].state = "none" => slog[s].step = 0
  /\ slog[s].state = "failed" => GroupsOf(s) = {}

\* execute knows what saga_log says, and is at the end of the compensation only
\* when nothing is left.
Progress(p, s) ==
  /\ ctx[p][s].pc \notin {"none", "load"} =>
       /\ ctx[p][s].step = slog[s].step
       /\ slog[s].step > 0 => ctx[p][s].gid = slog[s].gid
  /\ ctx[p][s].pc \in {"compensating", "compensate", "failed"} => slog[s].step < 2
  /\ ctx[p][s].pc = "failed" => GroupsOf(s) = {}

\* An answer is given when the saga is over, or never began.
Told(s) ==
  /\ answer[s] = "ok" => slog[s].state = "done"
  /\ answer[s] = "fail" => slog[s].state \in {"none", "failed"}

Good(s) == Single(s) /\ Table(s) /\ Told(s) /\ \A p \in Procs : Progress(p, s)

Inv == TypeOK /\ Down /\ Ids /\ NotStarted /\ \A s \in Sagas : Clean(s) => Good(s)

-------------------------------------------------------------------------------
(* Types, and what the small updates of the actions do.                    *)

Entries == [state : {"none", "running", "compensating", "done", "failed"},
            step : Steps, gid : Nat]
Pcs == {"none", "load", "forward", "done", "compensating", "compensate", "failed"}
Runs == [pc : Pcs, step : Steps, gid : Nat, by : {"nobody", "client", "recovery"}]
Results == {"none", "ok", "fail"}

\* The type invariant in the names above.
LEMMA Unfold ==
  ASSUME TypeOK
  PROVE  /\ slog \in [Sagas -> Entries] /\ ctx \in [Procs -> [Sagas -> Runs]]
         /\ answer \in [Sagas -> Results] /\ nextGid \in Nat
         /\ \A g \in groups : g = <<g[1], g[2]>> /\ g[1] \in Nat /\ g[2] \in Sagas
  BY DEF TypeOK, Entries, Runs, Pcs, Results

\* A new state of the run of s on p.
SetRun(p, s, r) == ctx' = [ctx EXCEPT ![p][s] = r]

\* Only that run changes.
LEMMA RunSet ==
  ASSUME TypeOK, NEW p \in Procs, NEW s \in Sagas, NEW r \in Runs, SetRun(p, s, r)
  PROVE  /\ ctx' \in [Procs -> [Sagas -> Runs]]
         /\ ctx'[p][s] = r
         /\ \A q \in Procs, t \in Sagas : q # p \/ t # s => ctx'[q][t] = ctx[q][t]
  BY Unfold DEF SetRun

\* No run is a run.
LEMMA NoRunType == NoRun \in Runs /\ NoRun.pc = "none" /\ NoRun.gid = 0 /\ NoRun.step = 0
  BY DEF NoRun, Runs, Pcs, Steps

\* The next point of execute.
LEMMA GotoSet ==
  ASSUME TypeOK, NEW p \in Procs, NEW s \in Sagas, NEW pc \in Pcs, Goto(p, s, pc)
  PROVE  /\ ctx' \in [Procs -> [Sagas -> Runs]]
         /\ ctx'[p][s].pc = pc /\ ctx'[p][s].step = ctx[p][s].step /\ ctx'[p][s].gid = ctx[p][s].gid
         /\ \A q \in Procs, t \in Sagas : q # p \/ t # s => ctx'[q][t] = ctx[q][t]
  <1>0. ctx[p][s] \in Runs
    BY Unfold
  <1>1. [ctx[p][s] EXCEPT !.pc = pc] \in Runs
    BY <1>0 DEF Runs
  <1>2. SetRun(p, s, [ctx[p][s] EXCEPT !.pc = pc])
    BY Unfold DEF Goto, SetRun
  <1>3. /\ ctx' \in [Procs -> [Sagas -> Runs]]
        /\ ctx'[p][s] = [ctx[p][s] EXCEPT !.pc = pc]
        /\ \A q \in Procs, t \in Sagas : q # p \/ t # s => ctx'[q][t] = ctx[q][t]
    BY <1>1, <1>2, RunSet
  <1> QED
    BY <1>0, <1>3 DEF Runs

\* The start of execute.
LEMMA ExecuteSet ==
  ASSUME TypeOK, NEW p \in Procs, NEW s \in Sagas, NEW by \in {"client", "recovery"},
         Execute(p, s, by)
  PROVE  /\ ctx' \in [Procs -> [Sagas -> Runs]]
         /\ ctx'[p][s].pc = "load" /\ ctx'[p][s].gid = 0
         /\ \A q \in Procs, t \in Sagas : q # p \/ t # s => ctx'[q][t] = ctx[q][t]
  <1> DEFINE r == [NoRun EXCEPT !.pc = "load", !.by = by]
  <1>1. r \in Runs /\ r.pc = "load" /\ r.gid = 0
    BY NoRunType DEF Runs, Pcs
  <1>2. SetRun(p, s, r)
    BY DEF Execute, SetRun
  <1> HIDE DEF r
  <1> QED
    BY <1>1, <1>2, RunSet

\* The end of execute, with the answer of createGroup.
LEMMA ReturnSet ==
  ASSUME TypeOK, NEW p \in Procs, NEW s \in Sagas, NEW result \in {"ok", "fail"},
         Return(p, s, result)
  PROVE  /\ ctx' \in [Procs -> [Sagas -> Runs]] /\ answer' \in [Sagas -> Results]
         /\ ctx'[p][s].pc = "none" /\ ctx'[p][s].gid = 0
         /\ \A q \in Procs, t \in Sagas : q # p \/ t # s => ctx'[q][t] = ctx[q][t]
         /\ answer'[s] \in {answer[s], result}
         /\ \A t \in Sagas : t # s => answer'[t] = answer[t]
  <1>2. SetRun(p, s, NoRun)
    BY DEF Return, SetRun
  <1>3. /\ answer' \in [Sagas -> Results] /\ answer'[s] \in {answer[s], result}
        /\ \A t \in Sagas : t # s => answer'[t] = answer[t]
    BY Unfold DEF Return, Results
  <1> QED
    BY <1>2, <1>3, NoRunType, RunSet

\* A new state in saga_log.
LEMMA StateSet ==
  ASSUME TypeOK, NEW s \in Sagas, NEW state \in {"running", "compensating", "done", "failed"},
         SetState(s, state)
  PROVE  /\ slog' \in [Sagas -> Entries]
         /\ slog'[s].state = state /\ slog'[s].step = slog[s].step /\ slog'[s].gid = slog[s].gid
         /\ \A t \in Sagas : t # s => slog'[t] = slog[t]
  <1>1. slog[s] \in Entries
    BY Unfold
  <1> QED
    BY <1>1, Unfold DEF SetState, Entries

\* What the commit of a step writes.
LEMMA CommitSet ==
  ASSUME TypeOK, NEW p \in Procs, NEW s \in Sagas, NEW gid \in Nat, ctx[p][s].step < 2,
         StepCommits(p, s, gid)
  PROVE  /\ slog' \in [Sagas -> Entries]
         /\ slog'[s].state = slog[s].state
         /\ slog'[s].step = ctx[p][s].step + 1 /\ slog'[s].gid = gid
         /\ \A t \in Sagas : t # s => slog'[t] = slog[t]
  <1>1. slog[s] \in Entries /\ ctx[p][s].step + 1 \in Steps
    <2>1. slog[s] \in Entries /\ ctx[p][s] \in Runs
      BY Unfold
    <2>2. ctx[p][s].step \in Steps
      BY <2>1 DEF Runs
    <2> QED
      BY <2>1, <2>2 DEF Steps
  <1>2. slog' = [slog EXCEPT ![s].step = ctx[p][s].step + 1, ![s].gid = gid]
    BY DEF StepCommits
  <1> QED
    BY <1>1, <1>2, Unfold DEF Entries

\* A fault hits one saga.
LEMMA FaultType ==
  ASSUME TypeOK, NEW s \in Sagas, NoFault \/ StepFault \/ Fault(s)
  PROVE  /\ faults' \in 0..MaxFaults /\ blamed' \subseteq Sagas /\ blamed \subseteq blamed'
         /\ \A t \in Sagas : t # s => (t \in blamed' <=> t \in blamed)
  BY SagaAssumption DEF SagaAssumption, TypeOK, NoFault, StepFault, Fault

-------------------------------------------------------------------------------
(* A step of process p for saga s.                                         *)

\* The step leaves the other sagas, and s on other processes, alone.
Touch(p, s) ==
  /\ up' = up /\ rerun' = rerun
  /\ blamed \subseteq blamed'
  /\ \A t \in Sagas : t # s =>
       /\ t \in blamed' <=> t \in blamed
       /\ slog'[t] = slog[t] /\ answer'[t] = answer[t]
       /\ GroupsOf(t)' = GroupsOf(t)
       /\ slog[t].gid \in members' <=> slog[t].gid \in members
  /\ \A q \in Procs, t \in Sagas : q # p \/ t # s =>
       /\ ctx'[q][t] = ctx[q][t]
       /\ t \in todo'[q] <=> t \in todo[q]

\* What the invariant says of the other sagas stays.
LEMMA OthersGood ==
  ASSUME Inv, NEW p \in Procs, NEW s \in Sagas, Touch(p, s), NEW t \in Sagas, t # s, Clean(t)'
  PROVE  Good(t)'
  <1>1. Clean(t) /\ Good(t)
    BY DEF Touch, Clean, Inv
  <1>2. \A q \in Procs : Hand(q, t)' <=> Hand(q, t)
    BY DEF Touch, Hand
  <1>3. Single(t)'
    BY <1>1, <1>2 DEF Good, Single, Touch
  <1>4. Table(t)'
    BY <1>1 DEF Good, Table, Touch
  <1>5. Told(t)'
    BY <1>1 DEF Good, Told, Touch
  <1>6. \A q \in Procs : Progress(q, t)'
    BY <1>1 DEF Good, Progress, Touch
  <1> QED
    BY <1>3, <1>4, <1>5, <1>6 DEF Good

\* So what is left to show of such a step is about s.
LEMMA TouchInv ==
  ASSUME Inv, TypeOK', NEW p \in Procs, NEW s \in Sagas, Touch(p, s), up[p] # "down", Ids',
         slog'[s].state # "none" \/ \A q \in Procs : ~Hand(q, s)',
         Clean(s)' => Good(s)'
  PROVE  Inv'
  <1>1. Down'
    BY DEF Inv, Down, Hand, Touch
  <1>2. NotStarted'
    BY DEF Inv, NotStarted, Hand, Touch
  <1>3. \A t \in Sagas : Clean(t)' => Good(t)'
    BY OthersGood
  <1> QED
    BY <1>1, <1>2, <1>3 DEF Inv

\* A saga that p executes is in no other hand.
LEMMA HandGood ==
  ASSUME NEW p \in Procs, NEW s \in Sagas, Good(s), ctx[p][s].pc # "none", Touch(p, s),
         todo' = todo, Table(s)', Told(s)', Progress(p, s)',
         ctx'[p][s].pc = "none" \/ slog'[s].state \in {"running", "compensating"}
  PROVE  Good(s)'
  <1>1. \A q \in Procs : q # p => ~Hand(q, s) /\ ~Hand(q, s)'
    BY DEF Good, Single, Hand, Touch
  <1>2. s \notin todo[p]
    BY DEF Good, Single, Hand
  <1>3. Single(s)'
    BY <1>1, <1>2 DEF Single, Hand
  <1>4. \A q \in Procs : Progress(q, s)'
    BY <1>1 DEF Hand, Progress
  <1> QED
    BY <1>3, <1>4 DEF Good

\* The ids stay with their sagas when no new one is given.
LEMMA IdsKept ==
  ASSUME Inv, TypeOK', NEW p \in Procs, NEW s \in Sagas, Touch(p, s),
         groups' \subseteq groups, nextGid' = nextGid,
         slog'[s].gid \in {slog[s].gid, ctx[p][s].gid},
         ctx'[p][s].gid \in {0, slog[s].gid, ctx[p][s].gid}
  PROVE  Ids'
  <1>0. Ids /\ nextGid \in Nat /\ \A g \in groups' : g \in groups /\ g[1] \in Nat
    BY Unfold DEF Inv
  <1>1. \A g \in groups' : 0 < g[1] /\ g[1] < nextGid'
    BY <1>0 DEF Ids
  <1>3. 0 < nextGid
    BY <1>0, Unfold DEF Inv, Ids, Entries
  <1>4. ASSUME NEW t \in Sagas
        PROVE  slog'[t].gid < nextGid' /\ \A g \in groups' : g[1] = slog'[t].gid => g[2] = t
    BY <1>0 DEF Ids, Touch
  <1>5. ASSUME NEW t \in Sagas, NEW q \in Procs
        PROVE  ctx'[q][t].gid < nextGid' /\ \A g \in groups' : g[1] = ctx'[q][t].gid => g[2] = t
    <2>1. CASE q # p \/ t # s
      BY <1>0, <2>1 DEF Ids, Touch
    <2>2. CASE q = p /\ t = s
      BY <1>0, <1>1, <1>3, <2>2 DEF Ids
    <2> QED
      BY <2>1, <2>2
  <1> QED
    BY <1>1, <1>4, <1>5 DEF Ids

\* A process that executes something is not down.
LEMMA Busy ==
  ASSUME Inv, NEW p \in Procs, NEW s \in Sagas, ctx[p][s].pc # "none"
  PROVE  /\ up[p] # "down" /\ slog[s].state # "none"
         /\ ctx[p][s] \in Runs /\ slog[s] \in Entries
         /\ Clean(s) => Good(s) /\ Single(s) /\ Table(s) /\ Told(s) /\ Progress(p, s)
                        /\ slog[s].state \in {"running", "compensating"}
  BY Unfold DEF Inv, Down, NotStarted, Hand, Good, Single

\* Starting a saga, and failing to.
LEMMA StartInv == ASSUME Inv, NEW p \in Procs, NEW s \in Sagas, Start(p, s) PROVE Inv'
  <1> USE DEF Inv
  <1>1. /\ up[p] = "serving" /\ slog[s].state = "none" /\ answer[s] = "none"
        /\ SetState(s, "running") /\ Execute(p, s, "client") /\ NoFault
        /\ UNCHANGED <<groups, members, nextGid, up, todo, answer, crashes, rerun>>
    BY DEF Start
  <1>2. /\ slog' \in [Sagas -> Entries]
        /\ slog'[s].state = "running" /\ slog'[s].step = slog[s].step /\ slog'[s].gid = slog[s].gid
        /\ \A t \in Sagas : t # s => slog'[t] = slog[t]
    BY <1>1, StateSet
  <1>3. /\ ctx' \in [Procs -> [Sagas -> Runs]]
        /\ ctx'[p][s].pc = "load" /\ ctx'[p][s].gid = 0
        /\ \A q \in Procs, t \in Sagas : q # p \/ t # s => ctx'[q][t] = ctx[q][t]
    BY <1>1, ExecuteSet
  <1>4. TypeOK'
    BY <1>1, <1>2, <1>3 DEF TypeOK, NoFault, Entries, Runs, Pcs
  <1>5. Touch(p, s)
    BY <1>1, <1>2, <1>3 DEF Touch, NoFault, GroupsOf
  <1>6. Ids'
    BY <1>1, <1>2, <1>3, <1>4, <1>5, IdsKept
  <1>7. ASSUME Clean(s)' PROVE Good(s)'
    <2>1. Good(s)
      BY <1>1, <1>7 DEF Clean, NoFault
    <2>2. \A q \in Procs : ~Hand(q, s)
      BY <1>1 DEF NotStarted
    <2>3. Single(s)' /\ \A q \in Procs : Progress(q, s)'
      BY <1>1, <1>2, <1>3, <2>2 DEF Single, Hand, Progress
    <2>4. Table(s)' /\ Told(s)'
      BY <1>1, <1>2, <2>1 DEF Good, Table, Told, GroupsOf
    <2> QED
      BY <2>3, <2>4 DEF Good
  <1> QED
    BY <1>1, <1>2, <1>4, <1>5, <1>6, <1>7, TouchInv

\* A start that fails has its client told, and may leave a row in saga_log.
LEMMA StartFailsInv == ASSUME Inv, NEW p \in Procs, NEW s \in Sagas, StartFails(p, s) PROVE Inv'
  <1> USE DEF Inv
  <1>1. /\ up[p] = "serving" /\ slog[s].state = "none" /\ answer[s] = "none"
        /\ answer' = [answer EXCEPT ![s] = "fail"]
        /\ UNCHANGED <<groups, members, nextGid, up, todo, ctx, crashes, rerun>>
        /\ (UNCHANGED slog /\ StepFault) \/ (SetState(s, "running") /\ Fault(s))
    BY DEF StartFails
  <1>2. /\ slog' \in [Sagas -> Entries] /\ slog'[s].gid = slog[s].gid
        /\ \A t \in Sagas : t # s => slog'[t] = slog[t]
    BY <1>1, StateSet, Unfold
  <1>3. /\ faults' \in 0..MaxFaults /\ blamed' \subseteq Sagas /\ blamed \subseteq blamed'
        /\ \A t \in Sagas : t # s => (t \in blamed' <=> t \in blamed)
    BY <1>1, FaultType
  <1>4. TypeOK'
    BY <1>1, <1>2, <1>3 DEF TypeOK, Entries
  <1>5. Touch(p, s)
    BY <1>1, <1>2, <1>3 DEF Touch, GroupsOf, TypeOK
  <1>6. Ids'
    BY <1>1, <1>2, <1>4, <1>5, IdsKept
  <1>7. \A q \in Procs : ~Hand(q, s) /\ ~Hand(q, s)'
    BY <1>1 DEF NotStarted, Hand
  <1>8. ASSUME Clean(s)' PROVE Good(s)'
    <2>1. UNCHANGED slog /\ Clean(s)
      BY <1>1, <1>3, <1>8 DEF Clean, Fault
    <2>2. Good(s)
      BY <2>1
    <2>3. Single(s)' /\ \A q \in Procs : Progress(q, s)'
      BY <1>1, <1>7, <2>1, <2>2 DEF Good, Single, Hand, Progress
    <2>4. Table(s)' /\ Told(s)'
      BY <1>1, <2>1, <2>2 DEF Good, Table, Told, GroupsOf, TypeOK
    <2> QED
      BY <2>3, <2>4 DEF Good
  <1> QED
    BY <1>1, <1>4, <1>5, <1>6, <1>7, <1>8, TouchInv

\* execute reads saga_log.
LEMMA LoadInv == ASSUME Inv, NEW p \in Procs, NEW s \in Sagas, Load(p, s) PROVE Inv'
  <1> USE DEF Inv
  <1>1. /\ ctx[p][s].pc = "load"
        /\ UNCHANGED <<dbVars, up, todo, crashes, rerun>>
        /\ UNCHANGED <<slog, groups, members, nextGid>>
    BY DEF Load, At, dbVars
  <1>2. /\ up[p] # "down" /\ slog[s].state # "none"
        /\ ctx[p][s] \in Runs /\ slog[s] \in Entries
        /\ Clean(s) => Good(s) /\ Table(s) /\ Told(s)
                       /\ slog[s].state \in {"running", "compensating"}
    BY <1>1, Busy
  <1> DEFINE r == [ctx[p][s] EXCEPT !.pc = "forward", !.step = slog[s].step, !.gid = slog[s].gid]
  <1>3. r \in Runs /\ r.pc = "forward" /\ r.step = slog[s].step /\ r.gid = slog[s].gid
    BY <1>2 DEF Runs, Pcs, Entries
  <1>4. CASE SetRun(p, s, r) /\ NoFault /\ UNCHANGED answer
    <2> HIDE DEF r
    <2>1. /\ ctx' \in [Procs -> [Sagas -> Runs]] /\ ctx'[p][s] = r
          /\ \A q \in Procs, t \in Sagas : q # p \/ t # s => ctx'[q][t] = ctx[q][t]
      BY <1>3, <1>4, RunSet
    <2>2. TypeOK'
      BY <1>1, <1>4, <2>1 DEF TypeOK, NoFault, Runs, Pcs
    <2>3. Touch(p, s)
      BY <1>1, <1>4, <2>1 DEF Touch, NoFault, GroupsOf
    <2>4. Ids'
      BY <1>1, <1>3, <2>1, <2>2, <2>3, IdsKept
    <2>5. ASSUME Clean(s)' PROVE Good(s)'
      <3>1. Clean(s)
        BY <1>1, <1>4, <2>5 DEF Clean, NoFault
      <3>2. Table(s)' /\ Told(s)'
        BY <1>1, <1>2, <1>4, <3>1 DEF Table, Told, GroupsOf
      <3>3. Progress(p, s)'
        BY <1>1, <1>3, <2>1 DEF Progress
      <3> QED
        BY <1>1, <1>2, <2>3, <3>1, <3>2, <3>3, HandGood
    <2> QED
      BY <1>1, <1>2, <2>2, <2>3, <2>4, <2>5, TouchInv
  <1>5. CASE Fault(s) /\ Return(p, s, "fail")
    <2>1. /\ ctx' \in [Procs -> [Sagas -> Runs]] /\ answer' \in [Sagas -> Results]
          /\ ctx'[p][s].pc = "none" /\ ctx'[p][s].gid = 0
          /\ \A q \in Procs, t \in Sagas : q # p \/ t # s => ctx'[q][t] = ctx[q][t]
          /\ \A t \in Sagas : t # s => answer'[t] = answer[t]
      BY <1>5, ReturnSet
    <2>2. /\ faults' \in 0..MaxFaults /\ blamed' \subseteq Sagas /\ blamed \subseteq blamed'
          /\ \A t \in Sagas : t # s => (t \in blamed' <=> t \in blamed)
      BY <1>5, FaultType
    <2>3. TypeOK'
      BY <1>1, <2>1, <2>2 DEF TypeOK, Runs, Pcs, Results
    <2>4. Touch(p, s)
      BY <1>1, <2>1, <2>2 DEF Touch, GroupsOf
    <2>5. Ids'
      BY <1>1, <2>1, <2>3, <2>4, IdsKept
    <2>6. ~Clean(s)'
      BY <1>5 DEF Fault, Clean
    <2> QED
      BY <1>1, <1>2, <2>3, <2>4, <2>5, <2>6, TouchInv
  <1> QED
    BY <1>4, <1>5 DEF Load, SetRun

\* What a step commits is about s alone: its id is new, or it is the id of s.
LEMMA CommitTables ==
  ASSUME Inv, NEW p \in Procs, NEW s \in Sagas, ctx[p][s].pc = "forward", ctx[p][s].step < 2,
         StepPossible(p, s), StepCommits(p, s, Gid(p, s))
  PROVE  /\ Gid(p, s) \in Nat /\ nextGid' \in Nat /\ nextGid <= nextGid' /\ Gid(p, s) < nextGid'
         /\ groups' \subseteq Nat \X Sagas /\ members' \subseteq {g[1] : g \in groups'}
         /\ \A t \in Sagas : t # s =>
              /\ GroupsOf(t)' = GroupsOf(t)
              /\ slog[t].gid \in members' <=> slog[t].gid \in members
         /\ \A g \in groups' : /\ 0 < g[1] /\ g[1] < nextGid'
                               /\ g[1] = Gid(p, s) => g[2] = s
                               /\ g[1] < nextGid => g \in groups
  <1> USE DEF Inv
  <1>0. ctx[p][s] \in Runs /\ slog[s] \in Entries /\ nextGid \in Nat
    BY Unfold
  <1>1. 0 < nextGid /\ ctx[p][s].gid < nextGid
    BY <1>0 DEF Ids, Entries
  <1>2. CASE ctx[p][s].step = 0
    <2>1. /\ Gid(p, s) = nextGid /\ groups' = groups \cup {<<nextGid, s>>}
          /\ nextGid' = nextGid + 1 /\ members' = members
      BY <1>2 DEF Gid, StepCommits
    <2>2. groups' \subseteq Nat \X Sagas /\ members' \subseteq {g[1] : g \in groups'}
      BY <1>0, <2>1 DEF TypeOK
    <2>3. \A t \in Sagas : t # s => GroupsOf(t)' = GroupsOf(t)
      BY <2>1 DEF GroupsOf
    <2>4. ASSUME NEW g \in groups'
          PROVE  /\ 0 < g[1] /\ g[1] < nextGid'
                 /\ g[1] = Gid(p, s) => g[2] = s
                 /\ g[1] < nextGid => g \in groups
      <3>1. CASE g \in groups
        BY <1>0, <2>1, <3>1, Unfold DEF Ids
      <3>2. CASE g = <<nextGid, s>>
        BY <1>0, <1>1, <2>1, <3>2
      <3> QED
        BY <2>1, <3>1, <3>2
    <2> QED
      BY <1>0, <2>1, <2>2, <2>3, <2>4
  <1>3. CASE ctx[p][s].step # 0
    <2>1. ctx[p][s].step = 1
      BY <1>0, <1>3 DEF Runs, Steps
    <2>2. /\ Gid(p, s) = ctx[p][s].gid /\ groups' = groups
          /\ nextGid' = nextGid /\ members' = members \cup {ctx[p][s].gid}
      BY <2>1 DEF Gid, StepCommits
    <2>3. PICK h \in groups : h[1] = ctx[p][s].gid
      BY <2>1 DEF StepPossible
    <2>4. h[2] = s
      BY <2>3 DEF Ids
    <2>5. members' \subseteq {g[1] : g \in groups'}
      BY <2>2, <2>3 DEF TypeOK
    <2>6. \A t \in Sagas : t # s => slog[t].gid # ctx[p][s].gid
      BY <2>3, <2>4 DEF Ids
    <2>7. \A t \in Sagas : t # s => GroupsOf(t)' = GroupsOf(t)
      BY <2>2 DEF GroupsOf
    <2>8. \A g \in groups : 0 < g[1] /\ g[1] < nextGid /\ (g[1] = ctx[p][s].gid => g[2] = s)
      BY DEF Ids
    <2> QED
      BY <1>0, <1>1, <2>2, <2>5, <2>6, <2>7, <2>8 DEF TypeOK, Runs
  <1> QED
    BY <1>2, <1>3

\* The ids stay with their sagas when a step commits.
LEMMA IdsCommitted ==
  ASSUME Inv, TypeOK', NEW p \in Procs, NEW s \in Sagas, Touch(p, s),
         ctx[p][s].pc = "forward", ctx[p][s].step < 2,
         StepPossible(p, s), StepCommits(p, s, Gid(p, s)),
         ctx'[p][s].gid \in {ctx[p][s].gid, Gid(p, s)}
  PROVE  Ids'
  <1> USE DEF Inv
  <1>0. /\ nextGid \in Nat /\ slog \in [Sagas -> Entries] /\ ctx \in [Procs -> [Sagas -> Runs]]
    BY Unfold
  <1>1. /\ Gid(p, s) \in Nat /\ nextGid' \in Nat /\ nextGid <= nextGid' /\ Gid(p, s) < nextGid'
        /\ \A g \in groups' : /\ 0 < g[1] /\ g[1] < nextGid'
                              /\ g[1] = Gid(p, s) => g[2] = s
                              /\ g[1] < nextGid => g \in groups
    BY CommitTables
  <1>2. slog'[s].gid = Gid(p, s)
    BY <1>1, CommitSet
  <1>3. ASSUME NEW i \in Nat, NEW t \in Sagas, i < nextGid,
               \A g \in groups : g[1] = i => g[2] = t
        PROVE  i < nextGid' /\ \A g \in groups' : g[1] = i => g[2] = t
    BY <1>0, <1>1, <1>3
  <1>4. ASSUME NEW t \in Sagas
        PROVE  slog'[t].gid < nextGid' /\ \A g \in groups' : g[1] = slog'[t].gid => g[2] = t
    <2>1. CASE t = s
      BY <1>1, <1>2, <2>1
    <2>2. CASE t # s
      <3>1. slog'[t].gid = slog[t].gid /\ slog[t].gid \in Nat
        BY <1>0, <2>2 DEF Touch, Entries
      <3>2. slog[t].gid < nextGid /\ \A g \in groups : g[1] = slog[t].gid => g[2] = t
        BY DEF Ids
      <3> QED
        BY <1>3, <3>1, <3>2
    <2> QED
      BY <2>1, <2>2
  <1>5. ASSUME NEW t \in Sagas, NEW q \in Procs
        PROVE  ctx'[q][t].gid < nextGid' /\ \A g \in groups' : g[1] = ctx'[q][t].gid => g[2] = t
    <2>1. CASE q = p /\ t = s /\ ctx'[p][s].gid = Gid(p, s)
      BY <1>1, <2>1
    <2>2. CASE ctx'[q][t].gid = ctx[q][t].gid
      <3>1. ctx[q][t].gid \in Nat
        BY <1>0 DEF Runs
      <3>2. ctx[q][t].gid < nextGid /\ \A g \in groups : g[1] = ctx[q][t].gid => g[2] = t
        BY DEF Ids
      <3> QED
        BY <1>3, <2>2, <3>1, <3>2
    <2> QED
      BY <2>1, <2>2 DEF Touch
  <1> QED
    BY <1>1, <1>4, <1>5 DEF Ids

\* A step of the saga commits, with its progress.
LEMMA ForwardInv == ASSUME Inv, NEW p \in Procs, NEW s \in Sagas, Forward(p, s) PROVE Inv'
  <1> USE DEF Inv
  <1>1. /\ ctx[p][s].pc = "forward" /\ ctx[p][s].step < 2 /\ StepPossible(p, s)
        /\ StepCommits(p, s, Gid(p, s)) /\ NoFault
        /\ ctx' = [ctx EXCEPT ![p][s].step = @ + 1, ![p][s].gid = Gid(p, s)]
        /\ UNCHANGED <<up, todo, answer, crashes, rerun>>
    BY DEF Forward, At
  <1>2. /\ up[p] # "down" /\ slog[s].state # "none"
        /\ ctx[p][s] \in Runs /\ slog[s] \in Entries
        /\ Clean(s) => Good(s) /\ Table(s) /\ Told(s) /\ Progress(p, s)
                       /\ slog[s].state \in {"running", "compensating"}
    BY <1>1, Busy
  <1>3. /\ Gid(p, s) \in Nat /\ nextGid' \in Nat
        /\ groups' \subseteq Nat \X Sagas /\ members' \subseteq {g[1] : g \in groups'}
        /\ \A t \in Sagas : t # s =>
             /\ GroupsOf(t)' = GroupsOf(t)
             /\ slog[t].gid \in members' <=> slog[t].gid \in members
    BY <1>1, CommitTables
  <1>4. /\ slog' \in [Sagas -> Entries]
        /\ slog'[s].state = slog[s].state
        /\ slog'[s].step = ctx[p][s].step + 1 /\ slog'[s].gid = Gid(p, s)
        /\ \A t \in Sagas : t # s => slog'[t] = slog[t]
    BY <1>1, <1>3, CommitSet
  <1> DEFINE r == [ctx[p][s] EXCEPT !.step = @ + 1, !.gid = Gid(p, s)]
  <1>5. /\ r \in Runs /\ r.pc = "forward" /\ r.step = ctx[p][s].step + 1 /\ r.gid = Gid(p, s)
    <2>1. ctx[p][s].step + 1 \in Steps
      BY <1>1, <1>2 DEF Runs, Steps
    <2> QED
      BY <1>1, <1>2, <1>3, <2>1 DEF Runs
  <1>6. SetRun(p, s, r)
    BY <1>1, Unfold DEF SetRun
  <1> HIDE DEF r
  <1>7. /\ ctx' \in [Procs -> [Sagas -> Runs]] /\ ctx'[p][s] = r
        /\ \A q \in Procs, t \in Sagas : q # p \/ t # s => ctx'[q][t] = ctx[q][t]
    BY <1>5, <1>6, RunSet
  <1>8. TypeOK'
    BY <1>1, <1>3, <1>4, <1>7 DEF TypeOK, NoFault, Entries, Runs, Pcs
  <1>9. Touch(p, s)
    BY <1>1, <1>3, <1>4, <1>7 DEF Touch, NoFault
  <1>10. Ids'
    BY <1>1, <1>5, <1>7, <1>8, <1>9, IdsCommitted
  <1>11. ASSUME Clean(s)' PROVE Good(s)'
    <2>1. Clean(s)
      BY <1>1, <1>11 DEF Clean, NoFault
    <2>2. /\ Table(s) /\ ctx[p][s].step = slog[s].step
          /\ slog[s].step > 0 => ctx[p][s].gid = slog[s].gid
      BY <1>1, <1>2, <2>1 DEF Progress
    <2>3. Progress(p, s)'
      BY <1>4, <1>5, <1>7 DEF Progress
    <2>4. Told(s)'
      BY <1>1, <1>2, <1>4, <2>1 DEF Told
    <2>5. Table(s)'
      <3>1. CASE slog[s].step = 0
        <4>1. /\ Gid(p, s) = nextGid /\ groups' = groups \cup {<<nextGid, s>>} /\ members' = members
          BY <1>1, <2>2, <3>1 DEF Gid, StepCommits
        <4>2. GroupsOf(s) = {}
          BY <2>2, <3>1 DEF Table
        <4>3. GroupsOf(s)' = {<<nextGid, s>>}
          BY <4>1, <4>2 DEF GroupsOf
        <4>4. nextGid \notin members
          BY Unfold DEF TypeOK, Ids
        <4>5. slog'[s].step = 1 /\ slog'[s].gid = nextGid
          BY <1>4, <2>2, <3>1, <4>1
        <4> QED
          BY <1>2, <1>4, <2>1, <4>1, <4>3, <4>4, <4>5 DEF Table
      <3>2. CASE slog[s].step # 0
        <4>1. slog[s].step = 1
          BY <1>1, <1>2, <2>2, <3>2 DEF Entries, Steps
        <4>2. /\ Gid(p, s) = slog[s].gid /\ groups' = groups
              /\ members' = members \cup {slog[s].gid}
          BY <1>1, <2>2, <4>1 DEF Gid, StepCommits
        <4>3. PICK h \in groups : h[1] = slog[s].gid
          BY <1>1, <2>2, <4>1 DEF StepPossible
        <4>4. h \in GroupsOf(s)
          BY <4>3 DEF Ids, GroupsOf
        <4>5. GroupsOf(s) = {<<slog[s].gid, s>>}
          BY <2>2, <4>1, <4>4 DEF Table
        <4>6. slog'[s].step = 2 /\ slog'[s].gid = slog[s].gid
          BY <1>4, <2>2, <4>1, <4>2
        <4> QED
          BY <1>2, <1>4, <2>1, <4>2, <4>5, <4>6 DEF Table, GroupsOf
      <3> QED
        BY <3>1, <3>2
    <2> QED
      BY <1>1, <1>2, <1>4, <1>9, <2>1, <2>3, <2>4, <2>5, HandGood
  <1> QED
    BY <1>2, <1>4, <1>8, <1>9, <1>10, <1>11, TouchInv

\* A step that fails leaves no trace but the start of the compensation, unless
\* its commit is in doubt.
LEMMA ForwardFailsInv == ASSUME Inv, NEW p \in Procs, NEW s \in Sagas, ForwardFails(p, s) PROVE Inv'
  <1> USE DEF Inv
  <1>1. /\ ctx[p][s].pc = "forward" /\ ctx[p][s].step < 2 /\ Goto(p, s, "compensating")
        /\ UNCHANGED <<up, todo, answer, crashes, rerun>>
    BY DEF ForwardFails, At
  <1>2. /\ up[p] # "down" /\ slog[s].state # "none"
        /\ ctx[p][s] \in Runs /\ slog[s] \in Entries
        /\ Clean(s) => Good(s) /\ Table(s) /\ Told(s) /\ Progress(p, s)
                       /\ slog[s].state \in {"running", "compensating"}
    BY <1>1, Busy
  <1>3. /\ ctx' \in [Procs -> [Sagas -> Runs]] /\ ctx'[p][s].pc = "compensating"
        /\ ctx'[p][s].step = ctx[p][s].step /\ ctx'[p][s].gid = ctx[p][s].gid
        /\ \A q \in Procs, t \in Sagas : q # p \/ t # s => ctx'[q][t] = ctx[q][t]
    BY <1>1, GotoSet DEF Pcs
  <1>4. CASE (NoFault \/ StepFault) /\ UNCHANGED dbVars
    <2>1. /\ faults' \in 0..MaxFaults /\ blamed' = blamed
      BY <1>4, FaultType DEF NoFault, StepFault
    <2>2. UNCHANGED <<slog, groups, members, nextGid>>
      BY <1>4 DEF dbVars
    <2>3. TypeOK'
      BY <1>1, <1>3, <2>1, <2>2 DEF TypeOK, Runs, Pcs
    <2>4. Touch(p, s)
      BY <1>1, <1>3, <2>1, <2>2 DEF Touch, GroupsOf
    <2>5. Ids'
      BY <1>3, <2>2, <2>3, <2>4, IdsKept
    <2>6. ASSUME Clean(s)' PROVE Good(s)'
      <3>1. Clean(s)
        BY <1>1, <2>1, <2>6 DEF Clean
      <3>2. Table(s)' /\ Told(s)'
        BY <1>1, <1>2, <2>2, <3>1 DEF Table, Told, GroupsOf
      <3>3. Progress(p, s)'
        BY <1>1, <1>2, <1>3, <2>2, <3>1 DEF Progress
      <3> QED
        BY <1>1, <1>2, <2>2, <2>4, <3>1, <3>2, <3>3, HandGood
    <2> QED
      BY <1>2, <2>2, <2>3, <2>4, <2>5, <2>6, TouchInv
  <1>5. CASE StepPossible(p, s) /\ Fault(s) /\ StepCommits(p, s, Gid(p, s))
    <2>1. /\ faults' \in 0..MaxFaults /\ blamed' \subseteq Sagas /\ blamed \subseteq blamed'
          /\ \A t \in Sagas : t # s => (t \in blamed' <=> t \in blamed)
      BY <1>5, FaultType
    <2>2. /\ Gid(p, s) \in Nat /\ nextGid' \in Nat
          /\ groups' \subseteq Nat \X Sagas /\ members' \subseteq {g[1] : g \in groups'}
          /\ \A t \in Sagas : t # s =>
               /\ GroupsOf(t)' = GroupsOf(t)
               /\ slog[t].gid \in members' <=> slog[t].gid \in members
      BY <1>1, <1>5, CommitTables
    <2>3. /\ slog' \in [Sagas -> Entries] /\ slog'[s].state = slog[s].state
          /\ \A t \in Sagas : t # s => slog'[t] = slog[t]
      BY <1>1, <1>5, <2>2, CommitSet
    <2>4. TypeOK'
      BY <1>1, <1>3, <2>1, <2>2, <2>3 DEF TypeOK, Entries, Runs, Pcs
    <2>5. Touch(p, s)
      BY <1>1, <1>3, <2>1, <2>2, <2>3 DEF Touch
    <2>6. Ids'
      BY <1>1, <1>3, <1>5, <2>4, <2>5, IdsCommitted
    <2>7. ~Clean(s)'
      BY <1>5 DEF Fault, Clean
    <2> QED
      BY <1>2, <2>3, <2>4, <2>5, <2>6, <2>7, TouchInv
  <1> QED
    BY <1>4, <1>5 DEF ForwardFails

\* saga_log gets a new state, or not when its statement fails, and execute goes
\* on or returns.
LEMMA MarkInv ==
  ASSUME Inv, NEW p \in Procs, NEW s \in Sagas,
         MarkDone(p, s) \/ MarkCompensating(p, s) \/ MarkFailed(p, s)
  PROVE  Inv'
  <1> USE DEF Inv
  <1>1. /\ UNCHANGED <<groups, members, nextGid, up, todo, crashes, rerun>>
        /\ ctx[p][s].pc # "none"
    BY DEF MarkDone, MarkCompensating, MarkFailed, At
  <1>2. /\ up[p] # "down" /\ slog[s].state # "none"
        /\ ctx[p][s] \in Runs /\ slog[s] \in Entries
        /\ Clean(s) => Good(s) /\ Table(s) /\ Told(s) /\ Progress(p, s)
                       /\ slog[s].state \in {"running", "compensating"}
    BY <1>1, Busy
  <1>3. /\ slog' = slog \/ \E state \in {"compensating", "done", "failed"} : SetState(s, state)
        /\ NoFault \/ Fault(s)
        /\ \/ Goto(p, s, "compensate") /\ UNCHANGED answer
           \/ \E result \in {"ok", "fail"} : Return(p, s, result)
    BY DEF MarkDone, MarkCompensating, MarkFailed
  <1>4. /\ slog' \in [Sagas -> Entries] /\ slog'[s].state # "none"
        /\ slog'[s].step = slog[s].step /\ slog'[s].gid = slog[s].gid
        /\ \A t \in Sagas : t # s => slog'[t] = slog[t]
    BY <1>2, <1>3, StateSet, Unfold
  <1>5. /\ ctx' \in [Procs -> [Sagas -> Runs]] /\ answer' \in [Sagas -> Results]
        /\ ctx'[p][s].gid \in {0, ctx[p][s].gid}
        /\ \A q \in Procs, t \in Sagas : q # p \/ t # s => ctx'[q][t] = ctx[q][t]
        /\ \A t \in Sagas : t # s => answer'[t] = answer[t]
    BY <1>3, GotoSet, ReturnSet, Unfold DEF Pcs
  <1>6. /\ faults' \in 0..MaxFaults /\ blamed' \subseteq Sagas /\ blamed \subseteq blamed'
        /\ \A t \in Sagas : t # s => (t \in blamed' <=> t \in blamed)
    BY <1>3, FaultType
  <1>7. TypeOK'
    BY <1>1, <1>4, <1>5, <1>6 DEF TypeOK, Entries, Runs, Pcs, Results
  <1>8. Touch(p, s)
    BY <1>1, <1>4, <1>5, <1>6 DEF Touch, GroupsOf
  <1>9. Ids'
    BY <1>1, <1>4, <1>5, <1>7, <1>8, IdsKept
  <1>10. ASSUME Clean(s)' PROVE Good(s)'
    <2>0. GroupsOf(s)' = GroupsOf(s) /\ members' = members
      BY <1>1 DEF GroupsOf
    <2>1. Clean(s) /\ ~Fault(s)
      BY <1>1, <1>6, <1>10 DEF Clean, Fault
    <2>2. Table(s) /\ Told(s) /\ Progress(p, s) /\ slog[s].state \in {"running", "compensating"}
      BY <1>2, <2>1
    <2>3. CASE MarkDone(p, s)
      <3>1. /\ SetState(s, "done") /\ Return(p, s, "ok")
            /\ ctx[p][s].pc = "forward" /\ ctx[p][s].step = 2
        BY <2>1, <2>3 DEF MarkDone, At
      <3>2. slog'[s].state = "done" /\ slog[s].step = 2
        BY <2>2, <3>1, StateSet DEF Progress
      <3>3. ctx'[p][s].pc = "none" /\ answer'[s] \in {answer[s], "ok"}
        BY <3>1, ReturnSet
      <3>4. Table(s)' /\ Told(s)' /\ Progress(p, s)'
        BY <1>4, <2>0, <2>2, <3>2, <3>3 DEF Table, Told, Progress
      <3> QED
        BY <1>1, <1>2, <1>8, <2>1, <3>3, <3>4, HandGood
    <2>4. CASE MarkCompensating(p, s)
      <3>1. /\ SetState(s, "compensating") /\ Goto(p, s, "compensate") /\ answer' = answer
            /\ ctx[p][s].pc = "compensating"
        BY <2>1, <2>4 DEF MarkCompensating, At
      <3>2. slog'[s].state = "compensating"
        BY <3>1, StateSet
      <3>3. /\ ctx'[p][s].pc = "compensate" /\ ctx'[p][s].step = ctx[p][s].step
            /\ ctx'[p][s].gid = ctx[p][s].gid
        BY <3>1, GotoSet DEF Pcs
      <3>4. Table(s)' /\ Told(s)' /\ Progress(p, s)'
        BY <1>4, <2>0, <2>2, <3>1, <3>2, <3>3 DEF Table, Told, Progress
      <3> QED
        BY <1>1, <1>2, <1>8, <2>1, <3>2, <3>4, HandGood
    <2>5. CASE MarkFailed(p, s)
      <3>1. SetState(s, "failed") /\ Return(p, s, "fail") /\ ctx[p][s].pc = "failed"
        BY <2>1, <2>5 DEF MarkFailed, At
      <3>2. slog'[s].state = "failed" /\ slog[s].step < 2 /\ GroupsOf(s) = {}
        BY <2>2, <3>1, StateSet DEF Progress
      <3>3. ctx'[p][s].pc = "none" /\ answer'[s] \in {answer[s], "fail"}
        BY <3>1, ReturnSet
      <3>4. Table(s)' /\ Told(s)' /\ Progress(p, s)'
        BY <1>2, <1>4, <2>0, <2>2, <3>2, <3>3 DEF Table, Told, Progress
      <3> QED
        BY <1>1, <1>2, <1>8, <2>1, <3>3, <3>4, HandGood
    <2> QED
      BY <2>3, <2>4, <2>5
  <1> QED
    BY <1>2, <1>4, <1>7, <1>8, <1>9, <1>10, TouchInv

\* The group goes, and with it the membership.
LEMMA CompensateInv == ASSUME Inv, NEW p \in Procs, NEW s \in Sagas, Compensate(p, s) PROVE Inv'
  <1> USE DEF Inv
  <1>1. /\ ctx[p][s].pc = "compensate" /\ Goto(p, s, "failed")
        /\ UNCHANGED <<slog, nextGid, up, todo, answer, crashes, rerun>>
    BY DEF Compensate, At
  <1>2. /\ up[p] # "down" /\ slog[s].state # "none"
        /\ ctx[p][s] \in Runs /\ slog[s] \in Entries
        /\ Clean(s) => Good(s) /\ Table(s) /\ Told(s) /\ Progress(p, s)
                       /\ slog[s].state \in {"running", "compensating"}
    BY <1>1, Busy
  <1>3. /\ ctx' \in [Procs -> [Sagas -> Runs]] /\ ctx'[p][s].pc = "failed"
        /\ ctx'[p][s].step = ctx[p][s].step /\ ctx'[p][s].gid = ctx[p][s].gid
        /\ \A q \in Procs, t \in Sagas : q # p \/ t # s => ctx'[q][t] = ctx[q][t]
    BY <1>1, GotoSet DEF Pcs
  <1>4. /\ NoFault \/ Fault(s)
        /\ \/ UNCHANGED <<groups, members>>
           \/ /\ groups' = {g \in groups : g[1] # ctx[p][s].gid}
              /\ members' = members \ {ctx[p][s].gid}
    BY DEF Compensate
  <1>5. /\ faults' \in 0..MaxFaults /\ blamed' \subseteq Sagas /\ blamed \subseteq blamed'
        /\ \A t \in Sagas : t # s => (t \in blamed' <=> t \in blamed)
    BY <1>4, FaultType
  <1>6. groups' \subseteq groups /\ members' \subseteq {g[1] : g \in groups'}
    BY <1>4 DEF TypeOK
  <1>7. TypeOK'
    BY <1>1, <1>3, <1>5, <1>6 DEF TypeOK, Runs, Pcs
  <1>8. \A t \in Sagas : t # s => GroupsOf(t)' = GroupsOf(t)
    <2>1. \A g \in groups : g[1] = ctx[p][s].gid => g[2] = s
      BY DEF Ids
    <2> QED
      BY <1>4, <2>1 DEF GroupsOf
  <1>9. ASSUME NEW t \in Sagas, t # s, slog[t].gid \in members
        PROVE  slog[t].gid # ctx[p][s].gid
    <2>1. PICK g \in groups : g[1] = slog[t].gid
      BY <1>9 DEF TypeOK
    <2> QED
      BY <1>9, <2>1 DEF Ids
  <1>10. Touch(p, s)
    BY <1>1, <1>3, <1>4, <1>5, <1>8, <1>9 DEF Touch
  <1>11. Ids'
    BY <1>1, <1>3, <1>6, <1>7, <1>10, IdsKept
  <1>12. ASSUME Clean(s)' PROVE Good(s)'
    <2>1. Clean(s) /\ ~Fault(s)
      BY <1>1, <1>5, <1>12 DEF Clean, Fault
    <2>2. Table(s) /\ Told(s) /\ Progress(p, s) /\ slog[s].state \in {"running", "compensating"}
      BY <1>2, <2>1
    <2>3. /\ ctx[p][s].step = slog[s].step /\ slog[s].step < 2
          /\ slog[s].step > 0 => ctx[p][s].gid = slog[s].gid
      BY <1>1, <2>2 DEF Progress
    <2>4. GroupsOf(s)' = {}
      <3>1. CASE slog[s].step = 0
        BY <2>2, <2>3, <3>1 DEF Compensate, GroupsOf, Table
      <3>2. CASE slog[s].step # 0
        <4>1. slog[s].step = 1 /\ ctx[p][s].gid = slog[s].gid
          BY <1>2, <2>3, <3>2 DEF Entries, Steps
        <4>2. groups' = {g \in groups : g[1] # slog[s].gid}
          BY <2>1, <2>3, <4>1 DEF Compensate
        <4>3. GroupsOf(s) = {} \/ GroupsOf(s) = {<<slog[s].gid, s>>}
          BY <2>2, <4>1 DEF Table
        <4> QED
          BY <4>2, <4>3 DEF GroupsOf
      <3> QED
        BY <3>1, <3>2
    <2>5. slog[s].gid \in members' => slog[s].gid \in members
      BY <1>4
    <2>6. Table(s)' /\ Told(s)' /\ Progress(p, s)'
      BY <1>1, <1>2, <1>3, <2>2, <2>3, <2>4, <2>5 DEF Table, Told, Progress
    <2> QED
      BY <1>1, <1>2, <1>10, <2>1, <2>2, <2>6, HandGood
  <1> QED
    BY <1>1, <1>2, <1>7, <1>10, <1>11, <1>12, TouchInv

\* Recovery executes the next saga that it found.
LEMMA RecoverInv == ASSUME Inv, NEW p \in Procs, NEW s \in Sagas, Recover(p, s) PROVE Inv'
  <1> USE DEF Inv
  <1>1. /\ up[p] = "recovering" /\ s \in todo[p] /\ Execute(p, s, "recovery") /\ NoFault
        /\ todo' = [todo EXCEPT ![p] = @ \ {s}]
        /\ UNCHANGED <<slog, groups, members, nextGid, up, answer, crashes, rerun>>
    BY DEF Recover, dbVars
  <1>2. /\ ctx' \in [Procs -> [Sagas -> Runs]]
        /\ ctx'[p][s].pc = "load" /\ ctx'[p][s].gid = 0
        /\ \A q \in Procs, t \in Sagas : q # p \/ t # s => ctx'[q][t] = ctx[q][t]
    BY <1>1, ExecuteSet
  <1>3. /\ todo' \in [Procs -> SUBSET Sagas] /\ s \notin todo'[p]
        /\ \A q \in Procs, t \in Sagas : q # p \/ t # s => (t \in todo'[q] <=> t \in todo[q])
    BY <1>1 DEF TypeOK
  <1>4. TypeOK'
    BY <1>1, <1>2, <1>3 DEF TypeOK, NoFault, Runs, Pcs
  <1>5. Touch(p, s)
    BY <1>1, <1>2, <1>3 DEF Touch, NoFault, GroupsOf
  <1>6. Ids'
    BY <1>1, <1>2, <1>4, <1>5, IdsKept
  <1>7. Hand(p, s) /\ slog[s].state # "none"
    BY <1>1 DEF Hand, NotStarted
  <1>8. ASSUME Clean(s)' PROVE Good(s)'
    <2>1. Good(s)
      BY <1>1, <1>8 DEF Clean, NoFault
    <2>2. /\ slog[s].state \in {"running", "compensating"}
          /\ \A q \in Procs : q # p => ~Hand(q, s) /\ ~Hand(q, s)'
      BY <1>5, <1>7, <2>1 DEF Good, Single, Hand, Touch
    <2>3. Single(s)' /\ \A q \in Procs : Progress(q, s)'
      BY <1>1, <1>2, <1>3, <2>2 DEF Single, Hand, Progress
    <2>4. Table(s)' /\ Told(s)'
      BY <1>1, <2>1 DEF Good, Table, Told, GroupsOf
    <2> QED
      BY <2>3, <2>4 DEF Good
  <1> QED
    BY <1>1, <1>4, <1>5, <1>6, <1>7, <1>8, TouchInv

-------------------------------------------------------------------------------
(* A step of a process.                                                    *)

\* The tables and the answers stay: what is left are the hands of the sagas.
LEMMA ProcessInv ==
  ASSUME Inv, TypeOK', Down', UNCHANGED <<slog, groups, members, nextGid, answer>>,
         blamed \cup rerun \subseteq blamed' \cup rerun',
         \A q \in Procs, t \in Sagas : ctx'[q][t] = ctx[q][t] \/ ctx'[q][t] = NoRun,
         \A q \in Procs, t \in Sagas : Hand(q, t)' => Hand(q, t) \/ t \in Unfinished,
         \A t \in Sagas : Clean(t)' => Single(t)'
  PROVE  Inv'
  <1> USE DEF Inv
  <1>0. NoRun.pc = "none" /\ NoRun.gid = 0
    BY NoRunType
  <1>1. Ids'
    <2>1. \A t \in Sagas : slog[t].gid \in Nat /\ nextGid \in Nat
      BY Unfold DEF Entries
    <2>2. \A t \in Sagas : 0 < nextGid
      BY <2>1 DEF Ids
    <2>3. ASSUME NEW q \in Procs, NEW t \in Sagas
          PROVE  ctx'[q][t].gid < nextGid /\ \A g \in groups : g[1] = ctx'[q][t].gid => g[2] = t
      BY <1>0, <2>2 DEF Ids
    <2> QED
      BY <2>3 DEF Ids
  <1>2. NotStarted'
    BY DEF NotStarted, Unfinished
  <1>3. ASSUME NEW t \in Sagas, Clean(t)' PROVE Good(t)'
    <2>1. Good(t)
      BY <1>3 DEF Clean
    <2>2. Table(t)' /\ Told(t)'
      BY <2>1 DEF Good, Table, Told, GroupsOf
    <2>3. \A q \in Procs : Progress(q, t)'
      BY <1>0, <2>1 DEF Good, Progress, GroupsOf
    <2> QED
      BY <1>3, <2>2, <2>3 DEF Good
  <1> QED
    BY <1>1, <1>2, <1>3

\* Recovery lists unfinished sagas; those that are in hand elsewhere are marked.
LEMMA BootInv == ASSUME Inv, NEW p \in Procs, Boot(p) PROVE Inv'
  <1> USE DEF Inv
  <1>1. /\ up[p] = "down" /\ up' = [up EXCEPT ![p] = "recovering"]
        /\ UNCHANGED <<slog, groups, members, nextGid, ctx, answer, crashes>>
    BY DEF Boot, dbVars
  <1>2. \A t \in Sagas : ~Hand(p, t)
    BY <1>1 DEF Down
  <1>3. CASE /\ todo' = [todo EXCEPT ![p] = Unfinished] /\ NoFault
             /\ rerun' = rerun \cup (Unfinished \cap UNION {Active(q) \cup todo[q] : q \in Procs})
    <2>1. TypeOK'
      BY <1>1, <1>3 DEF TypeOK, NoFault, Unfinished
    <2>2. /\ \A t \in Sagas : Hand(p, t)' <=> t \in Unfinished
          /\ \A q \in Procs, t \in Sagas : q # p => (Hand(q, t)' <=> Hand(q, t))
      BY <1>1, <1>2, <1>3 DEF Hand, TypeOK
    <2>3. Down'
      BY <1>1, <2>2 DEF Down, TypeOK
    <2>4. ASSUME NEW t \in Sagas, Clean(t)' PROVE Single(t)'
      <3>1. Single(t)
        BY <1>3, <2>4 DEF Clean, NoFault, Good
      <3>2. ASSUME NEW q \in Procs, Hand(q, t) PROVE t \notin Unfinished
        BY <1>3, <2>4, <3>2 DEF Clean, NoFault, Hand, Active
      <3>3. \A q \in Procs, r \in Procs : Hand(q, t)' /\ Hand(r, t)' => q = r
        BY <2>2, <3>1, <3>2 DEF Single
      <3>4. ASSUME NEW q \in Procs, Hand(q, t)'
            PROVE  /\ slog'[t].state \in {"running", "compensating"}
                   /\ ctx'[q][t].pc = "none" \/ t \notin todo'[q]
        <4>1. CASE q = p
          BY <1>1, <1>2, <2>2, <3>4, <4>1 DEF Hand, Unfinished
        <4>2. CASE q # p
          BY <1>1, <1>3, <2>2, <3>1, <3>4, <4>2 DEF Single, TypeOK
        <4> QED
          BY <4>1, <4>2
      <3> QED
        BY <3>3, <3>4 DEF Single
    <2> QED
      BY <1>1, <1>3, <2>1, <2>2, <2>3, <2>4, ProcessInv DEF NoFault
  <1>4. CASE /\ faults < MaxFaults /\ faults' = faults + 1 /\ blamed' = blamed \cup Unfinished
             /\ UNCHANGED <<todo, rerun>>
    <2>1. TypeOK'
      BY <1>1, <1>4, SagaAssumption DEF SagaAssumption, TypeOK, Unfinished
    <2>2. \A q \in Procs, t \in Sagas : Hand(q, t)' <=> Hand(q, t)
      BY <1>1, <1>4 DEF Hand
    <2>3. Down'
      BY <1>1, <2>2 DEF Down, TypeOK
    <2>4. ASSUME NEW t \in Sagas, Clean(t)' PROVE Single(t)'
      BY <1>1, <1>4, <2>2, <2>4 DEF Clean, Good, Single
    <2> QED
      BY <1>1, <1>4, <2>1, <2>2, <2>3, <2>4, ProcessInv
  <1> QED
    BY <1>3, <1>4 DEF Boot

\* Serving begins when nothing is left to recover.
LEMMA ServeInv == ASSUME Inv, NEW p \in Procs, Serve(p) PROVE Inv'
  <1> USE DEF Inv
  <1>1. /\ up' = [up EXCEPT ![p] = "serving"] /\ up[p] # "down"
        /\ UNCHANGED <<slog, groups, members, nextGid, todo, ctx, answer, faults, crashes, blamed, rerun>>
    BY DEF Serve, dbVars
  <1>2. TypeOK'
    BY <1>1 DEF TypeOK
  <1>3. \A q \in Procs, t \in Sagas : Hand(q, t)' <=> Hand(q, t)
    BY <1>1 DEF Hand
  <1>4. Down'
    BY <1>1, <1>3 DEF Down, TypeOK
  <1>5. ASSUME NEW t \in Sagas, Clean(t)' PROVE Single(t)'
    BY <1>1, <1>3, <1>5 DEF Clean, Good, Single
  <1> QED
    BY <1>1, <1>2, <1>3, <1>4, <1>5, ProcessInv

\* A crash lets go of what the process had in hand.
LEMMA CrashInv == ASSUME Inv, NEW p \in Procs, Crash(p) PROVE Inv'
  <1> USE DEF Inv
  <1>1. /\ up' = [up EXCEPT ![p] = "down"] /\ todo' = [todo EXCEPT ![p] = {}]
        /\ ctx' = [ctx EXCEPT ![p] = [s \in Sagas |-> NoRun]]
        /\ UNCHANGED <<slog, groups, members, nextGid, answer, faults, blamed, rerun>>
    BY DEF Crash, dbVars
  <1>2. ctx' \in [Procs -> [Sagas -> Runs]]
    BY <1>1, Unfold, NoRunType
  <1>3. crashes' \in 0..MaxCrashes
    BY SagaAssumption DEF SagaAssumption, Crash, TypeOK
  <1>4. TypeOK'
    BY <1>1, <1>2, <1>3 DEF TypeOK, Runs, Pcs
  <1>5. \A q \in Procs, t \in Sagas :
          ctx'[q][t] = (IF q = p THEN NoRun ELSE ctx[q][t]) /\ todo'[q] = IF q = p THEN {} ELSE todo[q]
    BY <1>1, Unfold DEF TypeOK
  <1>6. \A q \in Procs, t \in Sagas : Hand(q, t)' => q # p /\ Hand(q, t)
    BY <1>5, NoRunType DEF Hand
  <1>7. Down'
    BY <1>1, <1>6 DEF Down, TypeOK
  <1>8. ASSUME NEW t \in Sagas, Clean(t)' PROVE Single(t)'
    <2>1. Single(t)
      BY <1>1, <1>8 DEF Clean, Good
    <2> QED
      BY <1>1, <1>5, <1>6, <2>1 DEF Single
  <1> QED
    BY <1>1, <1>4, <1>5, <1>6, <1>7, <1>8, ProcessInv

-------------------------------------------------------------------------------
\* At first there is nothing.
LEMMA InitInv == Init => Inv
  <1> SUFFICES ASSUME Init PROVE Inv
    OBVIOUS
  <1>1. TypeOK
    BY SagaAssumption DEF SagaAssumption, Init, TypeOK, NoRun, Steps
  <1>2. \A p \in Procs, s \in Sagas : ctx[p][s] = NoRun /\ ~Hand(p, s) /\ GroupsOf(s) = {}
    BY NoRunType DEF Init, Hand, GroupsOf
  <1>3. \A s \in Sagas : slog[s] = [state |-> "none", step |-> 0, gid |-> 0] /\ GroupsOf(s) = {}
    BY DEF Init, GroupsOf
  <1>4. Down /\ NotStarted /\ Ids
    BY <1>2, <1>3, NoRunType DEF Init, Down, NotStarted, Ids
  <1>5. ASSUME NEW s \in Sagas PROVE Good(s)
    BY <1>2, <1>3, NoRunType DEF Init, Good, Single, Table, Told, Progress
  <1> QED
    BY <1>1, <1>4, <1>5 DEF Inv

\* Nothing happens to the invariant when nothing happens.
LEMMA StutterInv == ASSUME Inv, UNCHANGED vars PROVE Inv'
  <1> USE DEF Inv
  <1>1. UNCHANGED <<slog, groups, members, nextGid, up, todo, ctx, answer, faults, crashes, blamed, rerun>>
    BY DEF vars, dbVars
  <1>2. TypeOK'
    BY <1>1 DEF TypeOK
  <1>3. \A q \in Procs, t \in Sagas : Hand(q, t)' <=> Hand(q, t)
    BY <1>1 DEF Hand
  <1>4. Down'
    BY <1>1, <1>3 DEF Down
  <1>5. ASSUME NEW t \in Sagas, Clean(t)' PROVE Single(t)'
    BY <1>1, <1>3, <1>5 DEF Clean, Good, Single
  <1> QED
    BY <1>1, <1>2, <1>3, <1>4, <1>5, ProcessInv

\* Every step keeps the invariant.
LEMMA NextInv == Inv /\ [Next]_vars => Inv'
  BY StartInv, StartFailsInv, LoadInv, ForwardInv, ForwardFailsInv, MarkInv, CompensateInv,
     RecoverInv, BootInv, ServeInv, CrashInv, StutterInv
  DEF Next, Run

\* The variables keep their types; a member row always has its group.
THEOREM TypeCorrect == Spec => []TypeOK
  BY InitInv, NextInv, PTL DEF Spec, Inv

\* A group is created with its owner or not at all, and the log and the client
\* are told which, wherever the processes crash and however many sagas run: as
\* long as no statement of the coordinator itself fails and recovery does not
\* find a saga that another process has in hand (SagaCoordinator.execute,
\* recoverIncomplete).
THEOREM GroupsAllOrNothing == Spec => []AllOrNothing
  <1>1. ASSUME Inv PROVE AllOrNothing
    <2>1. ASSUME NEW s \in Sagas, Clean(s)
          PROVE  Table(s) /\ Told(s) /\ slog[s].step \in {0, 1, 2}
      BY <1>1, <2>1, Unfold DEF Inv, Good, Entries, Steps
    <2>2. LogIsTrue
      BY <2>1 DEF LogIsTrue, Table
    <2>3. AnswerIsFinal
      BY <2>1 DEF AnswerIsFinal, Table, Told
    <2>4. OneGroupPerSaga
      <3> SUFFICES ASSUME NEW s \in Sagas, Clean(s) PROVE Cardinality(GroupsOf(s)) <= 1
        BY DEF OneGroupPerSaga
      <3>1. GroupsOf(s) = {} \/ GroupsOf(s) = {<<slog[s].gid, s>>}
        BY <2>1 DEF Table
      <3>2. Cardinality({}) = 0 /\ Cardinality({<<slog[s].gid, s>>}) = 1
        BY FS_EmptySet, FS_Singleton
      <3> QED
        BY <3>1, <3>2
    <2> QED
      BY <2>2, <2>3, <2>4 DEF AllOrNothing
  <1> QED
    BY <1>1, InitInv, NextInv, PTL DEF Spec
===============================================================================
