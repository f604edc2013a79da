--------------------------------- MODULE Saga ---------------------------------
(***************************************************************************)
(* SagaCoordinator running the saga group_create of GroupService: step 0   *)
(* inserts the groups row, step 1 the owner's group_members row, each in   *)
(* one transaction with the progress of the saga_log row; a failed step    *)
(* runs the compensations backwards.  A process that starts re-executes    *)
(* every saga that the log shows unfinished.  MySQL survives a crash.      *)
(*                                                                         *)
(* group_members has a foreign key to groups with ON DELETE CASCADE, and   *)
(* (group_id, user_id) is its primary key.                                 *)
(***************************************************************************)
EXTENDS Naturals, FiniteSets

CONSTANTS
  Sagas,        \* runs of createGroup
  Procs,        \* server processes on one database
  MaxFaults,    \* bound: statements and connections that fail
  MaxCrashes    \* bound: crashes

ASSUME SagaAssumption == MaxFaults \in Nat /\ MaxCrashes \in Nat

VARIABLES
  slog,         \* table saga_log: state, current_step, payload.group_id
  groups,       \* table groups: group id and the saga that inserted it
  members,      \* table group_members: groups the owner is a member of
  nextGid,      \* AUTO_INCREMENT of groups
  up,           \* of a process
  todo,         \* recoverIncomplete: sagas still to execute
  ctx,          \* execute(saga) on a process
  answer,       \* what createGroup returned
  faults, crashes,
  blamed,       \* ghost: sagas hit by a fault that execute does not handle
  rerun         \* ghost: sagas that recovery found while another process had
                \* them in hand

dbVars == <<slog, groups, members, nextGid>>
vars == <<dbVars, up, todo, ctx, answer, faults, crashes, blamed, rerun>>

Steps == 0..2
NoRun == [pc |-> "none", step |-> 0, gid |-> 0, by |-> "nobody"]

TypeOK ==
  /\ slog \in [Sagas -> [state : {"none", "running", "compensating", "done", "failed"},
                         step : Steps, gid : Nat]]
  /\ groups \subseteq Nat \X Sagas
  /\ members \subseteq {g[1] : g \in groups}
  /\ nextGid \in Nat
  /\ up \in [Procs -> {"down", "recovering", "serving"}]
  /\ todo \in [Procs -> SUBSET Sagas]
  /\ ctx \in [Procs -> [Sagas ->
       [pc : {"none", "load", "forward", "done", "compensating", "compensate", "failed"},
        step : Steps, gid : Nat, by : {"nobody", "client", "recovery"}]]]
  /\ answer \in [Sagas -> {"none", "ok", "fail"}]
  /\ faults \in 0..MaxFaults
  /\ crashes \in 0..MaxCrashes
  /\ blamed \subseteq Sagas
  /\ rerun \subseteq Sagas

Init ==
  /\ slog = [s \in Sagas |-> [state |-> "none", step |-> 0, gid |-> 0]]
  /\ groups = {} /\ members = {} /\ nextGid = 1
  /\ up = [p \in Procs |-> "down"]
  /\ todo = [p \in Procs |-> {}]
  /\ ctx = [p \in Procs |-> [s \in Sagas |-> NoRun]]
  /\ answer = [s \in Sagas |-> "none"]
  /\ faults = 0 /\ crashes = 0
  /\ blamed = {} /\ rerun = {}

NoFault == UNCHANGED <<faults, blamed>>

\* A step of a saga fails and is rolled back: what compensation is for.
StepFault == faults < MaxFaults /\ faults' = faults + 1 /\ UNCHANGED blamed

\* A statement of the coordinator itself fails, or a commit is in doubt.
Fault(s) == faults < MaxFaults /\ faults' = faults + 1 /\ blamed' = blamed \cup {s}

At(p, s, pc) == ctx[p][s].pc = pc
Active(p) == {s \in Sagas : ctx[p][s].pc # "none"}
Goto(p, s, pc) == ctx' = [ctx EXCEPT ![p][s].pc = pc]

\* Starts execute(s) on p.
Execute(p, s, by) == ctx' = [ctx EXCEPT ![p][s] = [NoRun EXCEPT !.pc = "load", !.by = by]]

\* execute(s) ends; createGroup, if it called it, answers its client.
Return(p, s, result) ==
  /\ ctx' = [ctx EXCEPT ![p][s] = NoRun]
  /\ answer' = IF ctx[p][s].by = "client" THEN [answer EXCEPT ![s] = result] ELSE answer

GroupsOf(s) == {g \in groups : g[2] = s}
SetState(s, state) == slog' = [slog EXCEPT ![s].state = state]

-------------------------------------------------------------------------------
(* createGroupViaSaga: start(), then execute().                            *)

Start(p, s) ==
  /\ up[p] = "serving" /\ slog[s].state = "none" /\ answer[s] = "none"
  /\ SetState(s, "running")
  /\ Execute(p, s, "client")
  /\ NoFault
  /\ UNCHANGED <<groups, members, nextGid, up, todo, answer, crashes, rerun>>

\* No connection, or the INSERT fails; it may have been executed all the same.
StartFails(p, s) ==
  /\ up[p] = "serving" /\ slog[s].state = "none" /\ answer[s] = "none"
  /\ answer' = [answer EXCEPT ![s] = "fail"]
  /\ \/ UNCHANGED slog /\ StepFault
     \/ SetState(s, "running") /\ Fault(s)
  /\ UNCHANGED <<groups, members, nextGid, up, todo, ctx, crashes, rerun>>

-------------------------------------------------------------------------------
(* execute(s).                                                             *)

Load(p, s) ==
  /\ At(p, s, "load")
  /\ \/ /\ ctx' = [ctx EXCEPT ![p][s] = [@ EXCEPT !.pc = "forward",
                                                  !.step = slog[s].step, !.gid = slog[s].gid]]
        /\ NoFault /\ UNCHANGED answer
     \/ Fault(s) /\ Return(p, s, "fail")
  /\ UNCHANGED <<dbVars, up, todo, crashes, rerun>>

\* What step i writes, in one transaction with the progress of the saga.
StepCommits(p, s, gid) ==
  LET i == ctx[p][s].step IN
  /\ slog' = [slog EXCEPT ![s].step = i + 1, ![s].gid = gid]
  /\ IF i = 0
     THEN /\ groups' = groups \cup {<<gid, s>>}
          /\ nextGid' = nextGid + 1
          /\ UNCHANGED members
     ELSE /\ members' = members \cup {gid}
          /\ UNCHANGED <<groups, nextGid>>

\* The foreign key and the primary key that the INSERT of step 1 meets.
StepPossible(p, s) ==
  ctx[p][s].step = 1 => /\ \E g \in groups : g[1] = ctx[p][s].gid
                        /\ ctx[p][s].gid \notin members

Gid(p, s) == IF ctx[p][s].step = 0 THEN nextGid ELSE ctx[p][s].gid

Forward(p, s) ==
  /\ At(p, s, "forward") /\ ctx[p][s].step < 2 /\ StepPossible(p, s)
  /\ StepCommits(p, s, Gid(p, s))
  /\ ctx' = [ctx EXCEPT ![p][s].step = @ + 1, ![p][s].gid = Gid(p, s)]
  /\ NoFault
  /\ UNCHANGED <<up, todo, answer, crashes, rerun>>

\* The step is rejected by a key, fails, or its commit is in doubt.  Only a
\* commit in doubt has an effect, and execute does not know of it.
ForwardFails(p, s) ==
  /\ At(p, s, "forward") /\ ctx[p][s].step < 2
  /\ Goto(p, s, "compensating")
  /\ \/ ~StepPossible(p, s) /\ NoFault /\ UNCHANGED dbVars
     \/ StepPossible(p, s) /\ StepFault /\ UNCHANGED dbVars
     \/ StepPossible(p, s) /\ Fault(s) /\ StepCommits(p, s, Gid(p, s))
  /\ UNCHANGED <<up, todo, answer, crashes, rerun>>

\* markDone; without a connection nothing is marked, and the result is the same.
\* createGroup then reads the group id back from saga_log.
MarkDone(p, s) ==
  /\ At(p, s, "forward") /\ ctx[p][s].step = 2
  /\ \/ SetState(s, "done") /\ NoFault /\ Return(p, s, "ok")
     \/ UNCHANGED slog /\ Fault(s) /\ Return(p, s, "ok")
     \/ SetState(s, "done") /\ Fault(s) /\ Return(p, s, "fail")
  /\ UNCHANGED <<groups, members, nextGid, up, todo, crashes, rerun>>

MarkCompensating(p, s) ==
  /\ At(p, s, "compensating")
  /\ \/ SetState(s, "compensating") /\ NoFault
     \/ UNCHANGED slog /\ Fault(s)
  /\ Goto(p, s, "compensate")
  /\ UNCHANGED <<groups, members, nextGid, up, todo, answer, crashes, rerun>>

\* Mutation: the loop stops before step 0.
CompensateShort(p, s) ==
  /\ At(p, s, "compensate")
  /\ Goto(p, s, "failed")
  /\ NoFault
  /\ UNCHANGED <<dbVars, up, todo, answer, crashes, rerun>>

\* The steps below the failed one, in a two-step saga that is step 0 at most:
\* DELETE the groups row, and with it the membership.  A failure is ignored.
Compensate(p, s) ==
  /\ At(p, s, "compensate")
  /\ Goto(p, s, "failed")
  /\ IF ctx[p][s].step = 0
     THEN NoFault /\ UNCHANGED <<groups, members>>
     ELSE \/ /\ groups' = {g \in groups : g[1] # ctx[p][s].gid}
             /\ members' = members \ {ctx[p][s].gid}
             /\ NoFault
          \/ Fault(s) /\ UNCHANGED <<groups, members>>
  /\ UNCHANGED <<slog, nextGid, up, todo, answer, crashes, rerun>>

MarkFailed(p, s) ==
  /\ At(p, s, "failed")
  /\ \/ SetState(s, "failed") /\ NoFault
     \/ UNCHANGED slog /\ Fault(s)
  /\ Return(p, s, "fail")
  /\ UNCHANGED <<groups, members, nextGid, up, todo, crashes, rerun>>

-------------------------------------------------------------------------------
(* Processes: enableSaga runs recoverIncomplete before start().            *)

Unfinished == {s \in Sagas : slog[s].state \in {"running", "compensating"}}

\* Mutation: only sagas that were still running forward are recovered.
BootRunningOnly(p) ==
  /\ up[p] = "down"
  /\ up' = [up EXCEPT ![p] = "recovering"]
  /\ todo' = [todo EXCEPT ![p] = {s \in Sagas : slog[s].state = "running"}]
  /\ UNCHANGED <<dbVars, ctx, answer, faults, crashes, blamed, rerun>>

\* The SELECT of recoverIncomplete; without a connection it finds nothing.
Boot(p) ==
  /\ up[p] = "down"
  /\ up' = [up EXCEPT ![p] = "recovering"]
  /\ \/ /\ todo' = [todo EXCEPT ![p] = Unfinished]
        /\ rerun' = rerun \cup (Unfinished \cap UNION {Active(q) \cup todo[q] : q \in Procs})
        /\ NoFault
     \/ /\ faults < MaxFaults
        /\ faults' = faults + 1
        /\ blamed' = blamed \cup Unfinished
        /\ UNCHANGED <<todo, rerun>>
  /\ UNCHANGED <<dbVars, ctx, answer, crashes>>

Recover(p, s) ==
  /\ up[p] = "recovering" /\ s \in todo[p] /\ Active(p) = {}
  /\ todo' = [todo EXCEPT ![p] = @ \ {s}]
  /\ Execute(p, s, "recovery")
  /\ NoFault
  /\ UNCHANGED <<dbVars, up, answer, crashes, rerun>>

Serve(p) ==
  /\ up[p] = "recovering" /\ todo[p] = {} /\ Active(p) = {}
  /\ up' = [up EXCEPT ![p] = "serving"]
  /\ UNCHANGED <<dbVars, todo, ctx, answer, faults, crashes, blamed, rerun>>

Crash(p) ==
  /\ up[p] # "down" /\ crashes < MaxCrashes
  /\ crashes' = crashes + 1
  /\ up' = [up EXCEPT ![p] = "down"]
  /\ todo' = [todo EXCEPT ![p] = {}]
  /\ ctx' = [ctx EXCEPT ![p] = [s \in Sagas |-> NoRun]]
  /\ UNCHANGED <<dbVars, answer, faults, blamed, rerun>>

-------------------------------------------------------------------------------
Run(p, s) == \/ Load(p, s) \/ Forward(p, s) \/ ForwardFails(p, s) \/ MarkDone(p, s)
             \/ MarkCompensating(p, s) \/ Compensate(p, s) \/ MarkFailed(p, s)

Next == \E p \in Procs :
          \/ \E s \in Sagas : Start(p, s) \/ StartFails(p, s) \/ Run(p, s) \/ Recover(p, s)
          \/ Boot(p) \/ Serve(p) \/ Crash(p)

Spec == Init /\ [][Next]_vars

\* Threads run on, and a process that is down is started again.
FairSpec ==
  /\ Spec
  /\ \A p \in Procs :
       /\ WF_vars(Boot(p)) /\ WF_vars(Serve(p))
       /\ \A s \in Sagas : WF_vars(Run(p, s)) /\ WF_vars(Recover(p, s))

-------------------------------------------------------------------------------
\* No statement of the coordinator failed, no commit was in doubt, and one
\* process at a time executed s; its steps may have failed and crashes may have
\* hit it anywhere.
Clean(s) == s \notin blamed \cup rerun

LogIsTrue ==
  \A s \in Sagas : Clean(s) =>
    /\ slog[s].state = "done"   => GroupsOf(s) = {<<slog[s].gid, s>>} /\ slog[s].gid \in members
    /\ slog[s].state = "failed" => GroupsOf(s) = {}

AnswerIsFinal ==
  \A s \in Sagas : Clean(s) =>
    /\ answer[s] = "ok"   => slog[s].state = "done"
    /\ answer[s] = "fail" => GroupsOf(s) = {}

OneGroupPerSaga == \A s \in Sagas : Clean(s) => Cardinality(GroupsOf(s)) <= 1

\* All or nothing.  When saga_log calls a clean saga done, its group exists, once
\* and with its owner; when it calls it failed, nothing is left of it.  A client
\* that was told its group failed does not get one, now or after a restart, and one
\* that was told it succeeded has it.  Where the process crashed in between makes
\* no difference, and there is never a second group.
AllOrNothing == LogIsTrue /\ AnswerIsFinal /\ OneGroupPerSaga

\* Every saga that was started comes to an end, through crashes and restarts,
\* unless a fault kept its end from being recorded.
Settles ==
  \A s \in Sagas : s \in Unfinished ~> slog[s].state \in {"done", "failed"} \/ s \in blamed
===============================================================================
