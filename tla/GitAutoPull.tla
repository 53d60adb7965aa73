----------------------------- MODULE GitAutoPull -----------------------------
(***************************************************************************)
(* The menu bar app's Git Auto-Pull (monitor-app/src-tauri/src/git.rs): a  *)
(* loop that polls every five minutes and the commands toggle_git_pull and *)
(* pull_now, each on a thread of its own, all running git in one working   *)
(* tree without a lock between them. The operator works in that tree and   *)
(* other developers push to origin meanwhile.                              *)
(*                                                                         *)
(* One step is one git process or one locked section; a git process may    *)
(* fail. last_checked, last_pull and last_error are left out.              *)
(***************************************************************************)
EXTENDS Naturals, Sequences

CONSTANTS
    Tracked,        \* the branches the loop polls, in its order: dev, main
    Other,          \* the other branches of the repository
    Loop,           \* the poll loop
    Command,        \* the commands that may be under way at once
    Null,
    MaxPushes,      \* bound: pushes to origin
    MaxMoves,       \* bound: edits, commits and switches of the operator
    MaxFailures,    \* bound: git processes that fail
    MaxCommands     \* bound: commands given

Branch == {Tracked[i] : i \in DOMAIN Tracked}

ASSUME ConstantsAssumption ==
    /\ Tracked \in Seq(Branch) /\ Tracked # <<>> /\ Other \cap Branch = {}
    /\ Loop \notin Command
    /\ MaxPushes \in Nat /\ MaxMoves \in Nat
    /\ MaxFailures \in Nat /\ MaxCommands \in Nat

VARIABLES
    origin,         \* the commit of every branch of the remote repository
    tracking,       \* refs/remotes/origin/*
    local,          \* refs/heads/*; Null: the branch does not exist here
    head,           \* the branch checked out
    dirty,          \* what the working tree holds besides its commit
    status,         \* GitStatus, behind its mutex
    card,           \* what the popup shows of it
    run,            \* the local state of the loop and of every command
    asked,          \* history: what each run is about, and what happened since
    level,          \* history: the branches each run has found level with origin
    budget          \* what is left of the bounds

repoVars == <<tracking, local, head, dirty>>
vars == <<origin, repoVars, status, card, run, asked, level, budget>>

Runs == {Loop} \cup Command
Here == Branch \cup Other

(* A commit, told apart by the branch and the repository it was made in.   *)
(* Rewritten history is a new commit too: git.rs compares for equality.     *)
Commit == [on: Here, at: {"origin", "here"}, n: 0..(MaxPushes + MaxMoves)]
First(b) == [on |-> b, at |-> "origin", n |-> 0]

ASSUME NullAssumption == Null \notin Commit

BranchState == {"unknown", "up-to-date", "pulled", "error"}
Status == [enabled: BOOLEAN, state: [Branch -> BranchState]]

(* The orders in which a HashMap gives the branches, and single branches. *)
Orders == {q \in [DOMAIN Tracked -> Branch] :
              \A i, j \in DOMAIN q : q[i] = q[j] => i = j}
Single == {<<b>> : b \in Branch}

Idle == [pc |-> "idle", kind |-> "none", todo |-> <<>>, current |-> Null,
         seenLocal |-> Null, seenRemote |-> Null, outcome |-> "none",
         snapshot |-> Null]

(* A run has begun: which branches it is about, where origin stood, and *)
(* whether the operator has switched branches since.                    *)
AskedFor(bs) == [targets |-> bs, from |-> origin, switched |-> FALSE]
NotAsked == [targets |-> {}, from |-> [b \in Branch |-> First(b)], switched |-> FALSE]

TargetsOf(r) == {run[r].todo[i] : i \in DOMAIN run[r].todo}

(* GitStatus::new(); the app starts the loop in a repository whose branches *)
(* are as they were at the last fetch, or do not exist here yet.            *)
Init ==
    /\ origin = [b \in Branch |-> First(b)] /\ tracking = origin
    /\ local \in {l \in [Here -> {First(b) : b \in Here} \cup {Null}] :
                      /\ \A b \in Branch : l[b] \in {First(b), Null}
                      /\ \A b \in Other : l[b] = First(b)}
    /\ head \in {b \in Here : local[b] # Null} /\ dirty = {}
    /\ status = [enabled |-> TRUE, state |-> [b \in Branch |-> "unknown"]]
    /\ card = status
    /\ run = [r \in Runs |-> IF r = Loop THEN [Idle EXCEPT !.pc = "sleep"] ELSE Idle]
    /\ asked = [r \in Runs |-> NotAsked]
    /\ level = [r \in Runs |-> {}]
    /\ budget = [pushes |-> MaxPushes, moves |-> MaxMoves,
                 failures |-> MaxFailures, commands |-> MaxCommands]

At(r, pc) == run[r].pc = pc
Goto(r, pc) == run' = [run EXCEPT ![r].pc = pc]
Finish(r, outcome) == run' = [run EXCEPT ![r].pc = "show", ![r].outcome = outcome]

-----------------------------------------------------------------------------
(* The beginning and the end of a run *)

(* An iteration of start_git_polling(): dev, then main. *)
Wake ==
    /\ At(Loop, "sleep")
    /\ Goto(Loop, "check")
    /\ UNCHANGED <<origin, repoVars, status, card, asked, budget>>

(* toggle_git_pull(enabled) *)
Toggle(r, enabled) ==
    /\ At(r, "idle") /\ budget.commands > 0
    /\ status' = [status EXCEPT !.enabled = enabled]
    /\ run' = [run EXCEPT ![r].pc = "snapshot",
                          ![r].kind = IF enabled THEN "toggle_on" ELSE "toggle_off"]
    /\ budget' = [budget EXCEPT !.commands = @ - 1]
    /\ UNCHANGED <<origin, repoVars, card, asked>>

(* pull_now(branch), for one branch or for all in the order of a HashMap *)
PullNow(r, order) ==
    /\ At(r, "idle") /\ budget.commands > 0
    /\ order \in Orders \cup Single
    /\ run' = [run EXCEPT ![r].pc = "fetch", ![r].kind = "pull", ![r].todo = order]
    /\ asked' = [asked EXCEPT ![r] = AskedFor({order[i] : i \in DOMAIN order})]
    /\ budget' = [budget EXCEPT !.commands = @ - 1]
    /\ UNCHANGED <<origin, repoVars, status, card>>

(* poll_git() looks at the flag once, before it does anything. *)
CheckEnabled(r, order) ==
    /\ At(r, "check")
    /\ IF r = Loop THEN order = Tracked ELSE order \in Orders
    /\ IF status.enabled
       THEN /\ run' = [run EXCEPT ![r].pc = "fetch", ![r].todo = order]
            /\ asked' = [asked EXCEPT ![r] = AskedFor({order[i] : i \in DOMAIN order})]
       ELSE /\ Goto(r, "snapshot")
            /\ UNCHANGED asked
    /\ UNCHANGED <<origin, repoVars, status, card, budget>>

(* Mutant: the loop emits nothing. *)
MutNoEmit ==
    /\ At(Loop, "snapshot")
    /\ run' = [run EXCEPT ![Loop] = [Idle EXCEPT !.pc = "sleep"]]
    /\ asked' = [asked EXCEPT ![Loop] = NotAsked]
    /\ UNCHANGED <<origin, repoVars, status, card, budget>>

(* The loop emits the status while it holds the mutex; a command takes a *)
(* copy under the mutex and emits that later.                            *)
EmitLocked ==
    /\ At(Loop, "snapshot")
    /\ card' = status
    /\ run' = [run EXCEPT ![Loop] = [Idle EXCEPT !.pc = "sleep"]]
    /\ asked' = [asked EXCEPT ![Loop] = NotAsked]
    /\ UNCHANGED <<origin, repoVars, status, budget>>

TakeSnapshot(r) ==
    /\ r # Loop /\ At(r, "snapshot")
    /\ run' = [run EXCEPT ![r].pc = "emit", ![r].snapshot = status]
    /\ UNCHANGED <<origin, repoVars, status, card, asked, budget>>

(* The first event of a toggle that enables precedes its poll. *)
EmitSnapshot(r) ==
    /\ At(r, "emit")
    /\ card' = run[r].snapshot
    /\ run' = [run EXCEPT ![r] =
                  IF run[r].kind = "toggle_on"
                  THEN [Idle EXCEPT !.pc = "check", !.kind = "poll"] ELSE Idle]
    /\ asked' = [asked EXCEPT ![r] = NotAsked]
    /\ UNCHANGED <<origin, repoVars, status, budget>>

-----------------------------------------------------------------------------
(* poll_git() and do_pull_now(). They differ when the fetch or rev-parse  *)
(* HEAD fails: a poll marks its branches, pull_now keeps what they show.  *)

Fails == budget' = [budget EXCEPT !.failures = @ - 1] /\ budget.failures > 0

GiveUp(r) ==
    /\ IF run[r].kind = "pull"
       THEN UNCHANGED status
       ELSE status' = [status EXCEPT !.state =
                          [b \in Branch |-> IF b \in TargetsOf(r) THEN "error" ELSE @[b]]]
    /\ run' = [run EXCEPT ![r].pc = "snapshot", ![r].todo = <<>>, ![r].current = Null]

(* Mutant: a failed fetch is not looked at. *)
MutFetchIgnored(r) ==
    /\ At(r, "fetch")
    /\ \/ tracking' = [b \in Branch |-> IF b \in TargetsOf(r) THEN origin[b]
                                        ELSE tracking[b]] /\ UNCHANGED budget
       \/ Fails /\ UNCHANGED tracking
    /\ Goto(r, "head")
    /\ UNCHANGED <<origin, local, head, dirty, status, card, asked>>

(* fetch_branches() updates refs/remotes/origin/ of the branches it names. *)
FetchBranches(r) ==
    /\ At(r, "fetch")
    /\ \/ /\ tracking' = [b \in Branch |-> IF b \in TargetsOf(r) THEN origin[b]
                                           ELSE tracking[b]]
          /\ Goto(r, "head")
          /\ UNCHANGED <<status, budget>>
       \/ Fails /\ GiveUp(r) /\ UNCHANGED tracking
    /\ UNCHANGED <<origin, local, head, dirty, card, asked>>

(* rev-parse --abbrev-ref HEAD, once for all branches *)
ReadHead(r) ==
    /\ At(r, "head")
    /\ \/ /\ run' = [run EXCEPT ![r].pc = "local", ![r].current = head]
          /\ UNCHANGED <<status, budget>>
       \/ Fails /\ GiveUp(r)
    /\ UNCHANGED <<origin, repoVars, card, asked>>

(* branch_needs_sync(): three git processes. A branch that does not exist *)
(* here is an error.                                                      *)
ReadLocal(r) ==
    /\ At(r, "local")
    /\ LET b == Head(run[r].todo)
       IN  \/ /\ local[b] # Null
              /\ run' = [run EXCEPT ![r].pc = "remote", ![r].seenLocal = local[b]]
              /\ UNCHANGED budget
           \/ local[b] = Null /\ Finish(r, "error") /\ UNCHANGED budget
           \/ Fails /\ Finish(r, "error")
    /\ UNCHANGED <<origin, repoVars, status, card, asked>>

(* Mutant: every branch is reset through the working tree. *)
MutAlwaysReset(r) == "reset"

SyncStep(r) == IF run[r].current = Head(run[r].todo) THEN "reset" ELSE "fetchInto"

ReadRemote(r) ==
    /\ At(r, "remote")
    /\ LET b == Head(run[r].todo)
       IN  \/ /\ tracking[b] # run[r].seenLocal
              /\ run' = [run EXCEPT ![r].pc = SyncStep(r), ![r].seenRemote = tracking[b]]
              /\ UNCHANGED budget
           \/ /\ tracking[b] = run[r].seenLocal
              /\ IF b = run[r].current
                 THEN run' = [run EXCEPT ![r].pc = "status", ![r].seenRemote = tracking[b]]
                 ELSE Finish(r, "up-to-date")
              /\ UNCHANGED budget
           \/ Fails /\ Finish(r, "error")
    /\ UNCHANGED <<origin, repoVars, status, card, asked>>

ReadStatus(r) ==
    /\ At(r, "status")
    /\ \/ dirty # {} /\ Goto(r, "reset") /\ UNCHANGED budget
       \/ dirty = {} /\ Finish(r, "up-to-date") /\ UNCHANGED budget
       \/ Fails /\ Finish(r, "error")
    /\ UNCHANGED <<origin, repoVars, status, card, asked>>

(* Mutant: the commit that was compared, not the ref. *)
MutRemembered(r) == run[r].seenRemote

(* sync_branch() of the branch that was checked out: git reset --hard     *)
(* origin/<branch>, which moves whatever branch is checked out by now,    *)
(* and git clean -fd.                                                     *)
ResetTo(r) == tracking[Head(run[r].todo)]

ResetHard(r) ==
    /\ At(r, "reset")
    /\ \/ /\ local' = [local EXCEPT ![head] = ResetTo(r)]
          /\ dirty' = dirty \ {"tracked"}
          /\ Goto(r, "clean")
          /\ UNCHANGED budget
       \/ Fails /\ Finish(r, "error") /\ UNCHANGED <<local, dirty>>
    /\ UNCHANGED <<origin, tracking, head, status, card, asked>>

(* Mutant: git clean without -d and -f, which leaves everything. *)
MutNoClean(r) ==
    /\ At(r, "clean")
    /\ Finish(r, "pulled")
    /\ UNCHANGED <<origin, repoVars, status, card, asked, budget>>

Clean(r) ==
    /\ At(r, "clean")
    /\ \/ dirty' = dirty \ {"untracked"} /\ Finish(r, "pulled") /\ UNCHANGED budget
       \/ Fails /\ Finish(r, "error") /\ UNCHANGED dirty
    /\ UNCHANGED <<origin, tracking, local, head, status, card, asked>>

(* sync_branch() of another branch: git fetch origin +b:b, which git    *)
(* refuses for the branch that is checked out by now.                   *)
FetchInto(r) ==
    /\ At(r, "fetchInto")
    /\ LET b == Head(run[r].todo)
       IN  \/ /\ head # b
              /\ local' = [local EXCEPT ![b] = origin[b]]
              /\ tracking' = [tracking EXCEPT ![b] = origin[b]]
              /\ Finish(r, "pulled")
              /\ UNCHANGED budget
           \/ head = b /\ Finish(r, "error") /\ UNCHANGED <<local, tracking, budget>>
           \/ Fails /\ Finish(r, "error") /\ UNCHANGED <<local, tracking>>
    /\ UNCHANGED <<origin, head, dirty, status, card, asked>>

(* The result of one branch is stored; then the next branch. *)
Show(r) ==
    /\ At(r, "show")
    /\ LET rest == Tail(run[r].todo)
       IN  /\ status' = [status EXCEPT !.state[Head(run[r].todo)] = run[r].outcome]
           /\ run' = [run EXCEPT ![r].todo = rest, ![r].outcome = "none",
                         ![r].pc = IF rest = <<>> THEN "snapshot" ELSE "local",
                         ![r].current = IF rest = <<>> THEN Null ELSE @,
                         ![r].seenLocal = Null, ![r].seenRemote = Null]
    /\ UNCHANGED <<origin, repoVars, card, asked, budget>>

(* toggle_popup() of tray.rs sends the popup the status as it is. *)
TogglePopup ==
    /\ card' = status
    /\ UNCHANGED <<origin, repoVars, status, run, asked, budget>>

StepOf(r) ==
    \/ r = Loop /\ (Wake \/ EmitLocked)
    \/ \E order \in Orders : CheckEnabled(r, order)
    \/ TakeSnapshot(r) \/ EmitSnapshot(r)
    \/ FetchBranches(r) \/ ReadHead(r)
    \/ ReadLocal(r) \/ ReadRemote(r) \/ ReadStatus(r)
    \/ ResetHard(r) \/ Clean(r) \/ FetchInto(r) \/ Show(r)

-----------------------------------------------------------------------------
(* The developers and the operator *)

Fresh(b, repository) ==
    [on |-> b, at |-> repository,
     n |-> 1 + MaxPushes - budget.pushes + MaxMoves - budget.moves]

Push(b) ==
    /\ budget.pushes > 0
    /\ origin' = [origin EXCEPT ![b] = Fresh(b, "origin")]
    /\ budget' = [budget EXCEPT !.pushes = @ - 1]
    /\ UNCHANGED <<repoVars, status, card, run, asked>>

Moves == budget.moves > 0 /\ budget' = [budget EXCEPT !.moves = @ - 1]

Edit(file) ==
    /\ Moves /\ file \notin dirty
    /\ dirty' = dirty \cup {file}
    /\ UNCHANGED <<origin, tracking, local, head, status, card, run, asked>>

CommitWork ==
    /\ Moves
    /\ local' = [local EXCEPT ![head] = Fresh(head, "here")]
    /\ dirty' = {}
    /\ UNCHANGED <<origin, tracking, head, status, card, run, asked>>

Switch(b) ==
    /\ Moves /\ b # head /\ local[b] # Null
    /\ head' = b
    /\ asked' = [r \in Runs |-> [asked[r] EXCEPT !.switched = asked[r].targets # {}]]
    /\ UNCHANGED <<origin, tracking, local, dirty, status, card, run>>

People ==
    \/ \E b \in Branch : Push(b)
    \/ \E file \in {"tracked", "untracked"} : Edit(file)
    \/ CommitWork
    \/ \E b \in Here : Switch(b)

Commands ==
    \E r \in Command : \/ \E enabled \in BOOLEAN : Toggle(r, enabled)
                       \/ \E order \in Orders \cup Single : PullNow(r, order)

(* A branch is level with origin when it is at a commit origin has had since *)
(* the run began. *)
IsOrigins(b, c) == c # Null /\ c.on = b /\ c.at = "origin"
Levels(r) ==
    {b \in asked'[r].targets : /\ IsOrigins(b, local'[b])
                              /\ local'[b].n >= asked'[r].from[b].n}
Observe ==
    level' = [r \in Runs |->
                 Levels(r) \cup
                 IF asked[r].targets = {} \/ asked'[r].targets = {} THEN {} ELSE level[r]]

Next ==
    \/ People /\ Observe
    \/ Commands /\ Observe
    \/ TogglePopup /\ Observe
    \/ \E r \in Runs : StepOf(r) /\ Observe

Spec == Init /\ [][Next]_vars

(* The threads run, git ends, and the loop's timer rings. *)
FairSpec == Spec /\ \A r \in Runs : WF_vars(StepOf(r) /\ Observe)

-----------------------------------------------------------------------------
RunState ==
    [pc: {"idle", "sleep", "check", "fetch", "head", "local", "remote", "status", "reset",
          "clean", "fetchInto", "show", "snapshot", "emit"},
     kind: {"none", "toggle_on", "toggle_off", "pull", "poll"}, todo: Seq(Branch),
     current: Here \cup {Null}, seenLocal: Commit \cup {Null}, seenRemote: Commit \cup {Null},
     outcome: {"none", "error", "up-to-date", "pulled"}, snapshot: Status \cup {Null}]
Asked == [targets: SUBSET Branch, from: [Branch -> Commit], switched: BOOLEAN]

(* Every variable keeps its type. *)
TypeOK ==
    /\ origin \in [Branch -> Commit] /\ tracking \in [Branch -> Commit]
    /\ local \in [Here -> Commit \cup {Null}]
    /\ head \in Here /\ dirty \subseteq {"tracked", "untracked"}
    /\ status \in Status /\ card \in Status
    /\ run \in [Runs -> RunState] /\ asked \in [Runs -> Asked]
    /\ level \in [Runs -> SUBSET Branch]
    /\ budget \in [pushes: 0..MaxPushes, moves: 0..MaxMoves,
                   failures: 0..MaxFailures, commands: 0..MaxCommands]

(* What a ref holds is never newer than what it was fetched from.           *)
Spent == MaxPushes - budget.pushes + MaxMoves - budget.moves
RefsInv ==
    \A b \in Branch :
        /\ IsOrigins(b, origin[b]) /\ origin[b].n <= Spent
        /\ IsOrigins(b, tracking[b]) /\ tracking[b].n <= origin[b].n
        /\ IsOrigins(b, local[b]) => local[b].n <= tracking[b].n

(* Where a run is: what it is about, what it has fetched, and that the      *)
(* branch it read from HEAD is the one checked out until someone switches.  *)
Syncing == {"local", "remote", "status", "reset", "clean", "fetchInto", "show"}
Targets(r) ==
    /\ At(r, "idle") \/ At(r, "sleep") \/ At(r, "check") => asked[r].targets = {}
    /\ run[r].pc \in {"fetch", "head"} =>
          run[r].todo # <<>> /\ TargetsOf(r) = asked[r].targets
    /\ run[r].pc \in Syncing => run[r].todo # <<>> /\ TargetsOf(r) \subseteq asked[r].targets
    /\ At(r, "emit") => run[r].snapshot \in Status
    /\ level[r] \subseteq asked[r].targets

Fetched(r) ==
    \A b \in asked[r].targets :
        /\ asked[r].from[b].n <= origin[b].n
        /\ run[r].pc \in {"head"} \cup Syncing => asked[r].from[b].n <= tracking[b].n

CheckedOut(r) ==
    /\ run[r].pc \in Syncing => head = run[r].current \/ asked[r].switched
    /\ run[r].pc \in {"status", "reset", "clean"} => run[r].current = Head(run[r].todo)

(* What was found level when it was looked at.                              *)
WasLevel(r) ==
    LET b == Head(run[r].todo)
    IN  /\ At(r, "remote") /\ IsOrigins(b, run[r].seenLocal)
              /\ asked[r].from[b].n <= run[r].seenLocal.n => b \in level[r]
        /\ At(r, "status") => b \in level[r]
        /\ At(r, "clean") => b \in level[r] \/ asked[r].switched

(* A branch the popup is told is up to date or just pulled was level with   *)
(* origin at some instant of the run that says so, whatever else ran git    *)
(* meanwhile - unless the operator switched branches under it               *)
(* (git.rs:177-212).                                                        *)
ShownWasLevel(r) ==
    At(r, "show") =>
        \/ run[r].outcome = "error"
        \/ /\ run[r].outcome \in {"up-to-date", "pulled"}
           /\ Head(run[r].todo) \in level[r] \/ asked[r].switched

RunOK(r) ==
    Targets(r) /\ Fetched(r) /\ CheckedOut(r) /\ WasLevel(r) /\ ShownWasLevel(r)

(* The types, where the refs and the runs stand, and what a run reports.    *)
PullInv == TypeOK /\ RefsInv /\ \A r \in Runs : RunOK(r)

(* A step of the monitor moves only branches its run is about, and throws   *)
(* away work in the tree only while such a branch is checked out - unless   *)
(* the operator switched branches during the run, after which the reset     *)
(* hits what is checked out by then (git.rs:115-129).                       *)
OnlyItsBranches ==
    [][\A r \in Runs : StepOf(r) /\ ~asked[r].switched =>
          /\ \A b \in Here : local'[b] # local[b] => b \in asked[r].targets
          /\ dirty' # dirty => head \in asked[r].targets]_vars

(* No run takes a branch from one commit of origin back to an older one,    *)
(* although another run may have fetched since it compared.                 *)
NeverGoesBack ==
    [][\A b \in Branch : IsOrigins(b, local[b]) /\ IsOrigins(b, local'[b]) =>
          local'[b].n >= local[b].n]_vars

(* Once nobody pushes, switches or edits any more and git works, every      *)
(* branch that exists here ends level with origin and is shown so, with     *)
(* nothing left in the tree of a branch that is checked out; for good or    *)
(* until auto-pull is switched off.                                         *)
CatchesUp ==
    <>[](status.enabled =>
            /\ \A b \in Branch : local[b] # Null =>
                  local[b] = origin[b] /\ card.state[b] \in {"up-to-date", "pulled"}
            /\ head \in Branch => dirty = {})

(* The popup ends showing the state there is, although a command emits a    *)
(* copy it took before others changed the state (git.rs:238-243, 270-292).  *)
CardSettles == <>[](card.enabled = status.enabled /\ card.state = status.state)
=============================================================================
