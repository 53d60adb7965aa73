-------------------------- MODULE GitAutoPullProofs --------------------------
(***************************************************************************)
(* Proofs about GitAutoPull for any branches, any number of commands under *)
(* way at once and any number of pushes, moves, failures and commands.     *)
(***************************************************************************)
EXTENDS GitAutoPull, SequenceTheorems, TLAPS

(* Of P pushes and M moves, p and m are left. *)
LEMMA Counting ==
    ASSUME NEW P \in Nat, NEW M \in Nat, NEW p \in 0..P, NEW m \in 0..M
    PROVE  /\ P - p + M - m \in Nat
           /\ 1 + P - p + M - m = (P - p + M - m) + 1
           /\ P - (p - 1) + M - m = (P - p + M - m) + 1
           /\ P - p + M - (m - 1) = (P - p + M - m) + 1
  OBVIOUS

LEMMA CountingOne ==
    ASSUME NEW P \in Nat, NEW M \in Nat, NEW p \in 0..P, NEW m \in 0..M, p > 0 \/ m > 0
    PROVE  1 + P - p + M - m \in 0..(P + M)
  OBVIOUS

USE ConstantsAssumption, NullAssumption

-----------------------------------------------------------------------------
(* Sequences of branches. *)

LEMMA Lists ==
    ASSUME NEW todo \in Seq(Branch)
    PROVE  /\ todo # <<>> => /\ Head(todo) \in Branch /\ Tail(todo) \in Seq(Branch)
                             /\ Head(todo) \in {todo[i] : i \in DOMAIN todo}
                             /\ {Tail(todo)[i] : i \in DOMAIN Tail(todo)}
                                  \subseteq {todo[i] : i \in DOMAIN todo}
           /\ {todo[i] : i \in DOMAIN todo} \in SUBSET Branch
<1>1. Len(todo) \in Nat /\ DOMAIN todo = 1..Len(todo) /\ \A i \in 1..Len(todo) : todo[i] \in Branch
  BY LenProperties, ElementOfSeq
<1>2. ASSUME todo # <<>>
      PROVE  /\ Head(todo) = todo[1] /\ 1 \in 1..Len(todo)
             /\ Tail(todo) \in Seq(Branch) /\ Len(Tail(todo)) = Len(todo) - 1
             /\ \A i \in 1..Len(Tail(todo)) : Tail(todo)[i] = todo[i + 1]
  <2>1. Len(todo) # 0
    BY <1>2, EmptySeq
  <2> QED
    BY <1>1, <1>2, <2>1, HeadTailProperties
<1>3. ASSUME todo # <<>>
      PROVE  {Tail(todo)[i] : i \in DOMAIN Tail(todo)} \subseteq {todo[i] : i \in DOMAIN todo}
  <2>1. DOMAIN Tail(todo) = 1..Len(Tail(todo))
    BY <1>2, <1>3, LenProperties
  <2>2. \A i \in 1..Len(Tail(todo)) : i + 1 \in 1..Len(todo)
    BY <1>1, <1>2, <1>3
  <2> QED
    BY <1>1, <1>2, <1>3, <2>1, <2>2
<1> QED
  BY <1>1, <1>2, <1>3

LEMMA OrdersAre ==
    ASSUME NEW order \in Orders \cup Single
    PROVE  /\ order \in Seq(Branch) /\ order # <<>>
           /\ {order[i] : i \in DOMAIN order} # {}
<1>1. CASE order \in Single
  <2>1. PICK b \in Branch : order = <<b>>
    BY <1>1 DEF Single
  <2>2. order \in Seq(Branch) /\ order # <<>> /\ 1 \in DOMAIN order
    BY <2>1
  <2> QED
    BY <2>2
<1>2. CASE order \in Orders
  <2>1. Len(Tracked) \in Nat \ {0} /\ DOMAIN Tracked = 1..Len(Tracked)
    BY LenProperties, EmptySeq
  <2>2. order \in [1..Len(Tracked) -> Branch]
    BY <1>2, <2>1 DEF Orders
  <2>3. order \in Seq(Branch) /\ Len(order) = Len(Tracked)
    BY <2>1, <2>2
  <2>4. 1 \in DOMAIN order
    BY <2>1, <2>2
  <2> QED
    BY <2>1, <2>3, <2>4, EmptySeq
<1> QED
  BY <1>1, <1>2

(* The loop's order is one of them as far as it matters here. *)
LEMMA TrackedIs ==
    /\ Tracked \in Seq(Branch) /\ Tracked # <<>>
    /\ {Tracked[i] : i \in DOMAIN Tracked} = Branch
  BY DEF Branch
-----------------------------------------------------------------------------
(* Steps and what they leave of the invariant. *)

LEMMA RunIs ==
    ASSUME TypeOK, NEW r \in Runs
    PROVE  /\ run[r] \in RunState /\ asked[r] \in Asked /\ level[r] \in SUBSET Branch
           /\ run[r].todo \in Seq(Branch) /\ TargetsOf(r) \in SUBSET Branch
           /\ asked[r].targets \in SUBSET Branch /\ asked[r].from \in [Branch -> Commit]
           /\ asked[r].switched \in BOOLEAN
           /\ \A b \in Branch : origin[b].n \in Nat /\ tracking[b].n \in Nat
                                /\ asked[r].from[b].n \in Nat
<1>1. run[r] \in RunState /\ asked[r] \in Asked /\ level[r] \in SUBSET Branch
  BY DEF TypeOK
<1>2. run[r].todo \in Seq(Branch)
  BY <1>1 DEF RunState
<1>3. TargetsOf(r) \in SUBSET Branch
  BY <1>2, Lists DEF TargetsOf
<1>4. asked[r].targets \in SUBSET Branch /\ asked[r].from \in [Branch -> Commit]
  BY <1>1 DEF Asked
<1>5. asked[r].switched \in BOOLEAN
  BY <1>1 DEF Asked
<1>6. \A c \in Commit : c.n \in Nat
  BY DEF Commit
<1>7. \A b \in Branch : origin[b] \in Commit /\ tracking[b] \in Commit /\ asked[r].from[b] \in Commit
  BY <1>4 DEF TypeOK
<1> QED
  BY <1>1, <1>2, <1>3, <1>4, <1>5, <1>6, <1>7

(* A run that works on a branch is about it. *)
LEMMA WorksOn ==
    ASSUME TypeOK, NEW r \in Runs, Targets(r), run[r].pc \in Syncing
    PROVE  /\ Head(run[r].todo) \in Branch /\ Head(run[r].todo) \in asked[r].targets
           /\ Head(run[r].todo) \in Here /\ run[r].todo # <<>>
  BY RunIs, Lists DEF Targets, TargetsOf, Here

LEMMA LevelStep ==
    ASSUME PullInv, Observe,
           \A r \in Runs : \/ asked[r].targets = {} \/ asked'[r].targets = {}
                           \/ asked'[r].targets = asked[r].targets,
           \A r \in Runs : asked'[r].targets \in SUBSET Branch
    PROVE  /\ level' \in [Runs -> SUBSET Branch]
           /\ \A r \in Runs :
                /\ level'[r] \subseteq asked'[r].targets
                /\ asked'[r].targets = asked[r].targets => level[r] \subseteq level'[r]
                /\ \A b \in asked'[r].targets :
                     IsOrigins(b, local'[b]) /\ asked'[r].from[b].n <= local'[b].n
                       => b \in level'[r]
<1>1. level' = [r \in Runs |->
                  Levels(r) \cup
                  IF asked[r].targets = {} \/ asked'[r].targets = {} THEN {} ELSE level[r]]
  BY DEF Observe
<1>2. ASSUME NEW r \in Runs
      PROVE  /\ level[r] \subseteq asked[r].targets /\ level[r] \in SUBSET Branch
             /\ Levels(r) \subseteq asked'[r].targets
             /\ asked[r].targets = {} \/ asked'[r].targets = {} \/ asked'[r].targets = asked[r].targets
             /\ asked'[r].targets \in SUBSET Branch
    BY <1>2 DEF PullInv, RunOK, Targets, TypeOK, Levels
<1>3. ASSUME NEW r \in Runs
      PROVE  /\ level'[r] \subseteq asked'[r].targets
             /\ asked'[r].targets = asked[r].targets => level[r] \subseteq level'[r]
             /\ Levels(r) \subseteq level'[r]
  <2>1. level'[r] = Levels(r) \cup
                    IF asked[r].targets = {} \/ asked'[r].targets = {} THEN {} ELSE level[r]
    BY <1>1, <1>3
  <2>2. CASE asked[r].targets = {} \/ asked'[r].targets = {}
    <3>1. level'[r] = Levels(r)
      BY <2>1, <2>2
    <3> QED
      BY <1>2, <1>3, <2>2, <3>1
  <2>3. CASE ~(asked[r].targets = {} \/ asked'[r].targets = {})
    <3>1. level'[r] = level[r] \cup Levels(r)
      BY <2>1, <2>3
    <3> QED
      BY <1>2, <1>3, <2>3, <3>1
  <2> QED
    BY <2>2, <2>3
<1>4. ASSUME NEW r \in Runs, NEW b \in asked'[r].targets, IsOrigins(b, local'[b]),
             local'[b].n >= asked'[r].from[b].n
      PROVE  b \in level'[r]
  BY <1>3, <1>4 DEF Levels
<1>5. level' \in [Runs -> SUBSET Branch]
  <2>1. \A r \in Runs : level'[r] \in SUBSET Branch
    BY <1>2, <1>3
  <2> QED
    BY <1>1, <2>1
<1> QED
  BY <1>3, <1>4, <1>5

(* A run that does not move: others fetch, branches are switched under it. *)
LEMMA StandsStill ==
    ASSUME PullInv, NEW r \in Runs, run'[r] = run[r], asked'[r].targets = asked[r].targets,
           asked'[r].from = asked[r].from,
           asked'[r].switched \/ asked[r].targets = {} \/ (asked'[r] = asked[r] /\ head' = head),
           level[r] \subseteq level'[r], level'[r] \subseteq asked'[r].targets,
           \A b \in Branch : origin'[b].n \in Nat /\ origin[b].n <= origin'[b].n,
           \A b \in Branch : tracking'[b].n \in Nat /\ tracking[b].n <= tracking'[b].n
    PROVE  RunOK(r)'
<1>1. TypeOK /\ Targets(r) /\ Fetched(r) /\ CheckedOut(r) /\ WasLevel(r) /\ ShownWasLevel(r)
  BY DEF PullInv, RunOK
<1>2. Targets(r)'
  BY <1>1 DEF Targets, At, TargetsOf
<1>3. Fetched(r)'
  <2>1. SUFFICES ASSUME NEW b \in asked[r].targets
                 PROVE  /\ asked[r].from[b].n <= origin'[b].n
                        /\ run[r].pc \in {"head"} \cup Syncing => asked[r].from[b].n <= tracking'[b].n
    BY DEF Fetched
  <2>2. b \in Branch /\ asked[r].from[b].n \in Nat /\ origin[b].n \in Nat /\ tracking[b].n \in Nat
    BY <1>1, <2>1, RunIs
  <2>3. /\ asked[r].from[b].n <= origin[b].n
        /\ run[r].pc \in {"head"} \cup Syncing => asked[r].from[b].n <= tracking[b].n
    BY <1>1, <2>1 DEF Fetched
  <2> QED
    BY <2>2, <2>3
<1>4. run[r].pc \in Syncing => asked[r].targets # {}
  BY <1>1, WorksOn
<1>5. CheckedOut(r)'
  BY <1>1, <1>4 DEF CheckedOut, Syncing
<1>6. WasLevel(r)'
  BY <1>1, <1>4 DEF WasLevel, At, Syncing
<1>7. ShownWasLevel(r)'
  BY <1>1, <1>4 DEF ShownWasLevel, At, Syncing
<1> QED
  BY <1>2, <1>3, <1>5, <1>6, <1>7 DEF RunOK

(* A step of one run. *)
LEMMA RunStep ==
    ASSUME PullInv, NEW r \in Runs, Observe, UNCHANGED <<origin, head>>,
           run' \in [Runs -> RunState], \A q \in Runs : q # r => run'[q] = run[q],
           asked' \in [Runs -> Asked], \A q \in Runs : q # r => asked'[q] = asked[q],
           \/ asked[r].targets = {} \/ asked'[r].targets = {}
           \/ asked'[r].targets = asked[r].targets,
           tracking' \in [Branch -> Commit], local' \in [Here -> Commit \cup {Null}],
           \A b \in Branch : tracking'[b] \in {tracking[b], origin[b]},
           \A b \in Branch : IsOrigins(b, local'[b]) => local'[b].n <= tracking'[b].n,
           dirty' \subseteq {"tracked", "untracked"}, status' \in Status, card' \in Status,
           budget' \in [pushes: 0..MaxPushes, moves: 0..MaxMoves,
                        failures: 0..MaxFailures, commands: 0..MaxCommands],
           budget'.pushes = budget.pushes, budget'.moves = budget.moves,
           level'[r] \subseteq asked'[r].targets => RunOK(r)'
    PROVE  PullInv'
<1>1. TypeOK /\ RefsInv /\ origin' = origin /\ head' = head
  BY DEF PullInv
<1>2. \A q \in Runs : asked'[q].targets \in SUBSET Branch
  BY DEF Asked
<1>3. /\ level' \in [Runs -> SUBSET Branch]
      /\ \A q \in Runs : /\ level'[q] \subseteq asked'[q].targets
                         /\ asked'[q].targets = asked[q].targets => level[q] \subseteq level'[q]
  BY <1>2, LevelStep
<1>4. TypeOK'
  BY <1>1, <1>3, Zenon DEF TypeOK
<1>5. \A b \in Branch : /\ origin[b].n \in Nat /\ tracking[b].n \in Nat /\ tracking'[b].n \in Nat
                        /\ tracking[b].n <= tracking'[b].n /\ tracking'[b].n <= origin[b].n
                        /\ IsOrigins(b, tracking'[b])
  BY <1>1, RunIs DEF RefsInv
<1>6. RefsInv'
  BY <1>1, <1>5 DEF RefsInv, Spent
<1>7. ASSUME NEW q \in Runs, q # r PROVE RunOK(q)'
  <2>1. /\ run'[q] = run[q] /\ asked'[q] = asked[q] /\ level[q] \subseteq level'[q]
        /\ level'[q] \subseteq asked'[q].targets
    BY <1>3, <1>7
  <2>2. \A b \in Branch : origin'[b].n \in Nat /\ origin[b].n <= origin'[b].n
    BY <1>1, <1>5
  <2> QED
    BY <1>1, <1>5, <2>1, <2>2, StandsStill
<1> QED
  BY <1>3, <1>4, <1>6, <1>7 DEF PullInv
LEMMA LevelIs ==
    ASSUME PullInv, Observe, UNCHANGED asked, NEW r \in Runs
    PROVE  /\ level[r] \subseteq level'[r] /\ level'[r] \subseteq asked[r].targets
           /\ \A b \in asked[r].targets :
                IsOrigins(b, local'[b]) /\ asked[r].from[b].n <= local'[b].n => b \in level'[r]
<1>1. \A q \in Runs : asked'[q] = asked[q] /\ asked[q].targets \in SUBSET Branch
  BY RunIs DEF PullInv
<1> QED
  BY <1>1, LevelStep

LEMMA FailsIs ==
    ASSUME TypeOK, Fails \/ UNCHANGED budget
    PROVE  /\ budget' \in [pushes: 0..MaxPushes, moves: 0..MaxMoves,
                           failures: 0..MaxFailures, commands: 0..MaxCommands]
           /\ budget'.pushes = budget.pushes /\ budget'.moves = budget.moves
<1> DEFINE B == [pushes: 0..MaxPushes, moves: 0..MaxMoves,
                 failures: 0..MaxFailures, commands: 0..MaxCommands]
<1>1. budget \in B
  BY DEF TypeOK
<1>2. CASE Fails
  BY <1>1, <1>2 DEF Fails
<1> QED
  BY <1>1, <1>2

LEMMA CommandIs ==
    ASSUME TypeOK, budget.commands > 0, budget' = [budget EXCEPT !.commands = @ - 1]
    PROVE  /\ budget' \in [pushes: 0..MaxPushes, moves: 0..MaxMoves,
                           failures: 0..MaxFailures, commands: 0..MaxCommands]
           /\ budget'.pushes = budget.pushes /\ budget'.moves = budget.moves
<1>1. budget \in [pushes: 0..MaxPushes, moves: 0..MaxMoves,
                 failures: 0..MaxFailures, commands: 0..MaxCommands]
  BY DEF TypeOK
<1> QED
  BY <1>1

LEMMA SetRun ==
    ASSUME TypeOK, NEW r \in Runs, NEW new \in RunState, run' = [run EXCEPT ![r] = new]
    PROVE  /\ run' \in [Runs -> RunState] /\ run'[r] = new
           /\ \A q \in Runs : q # r => run'[q] = run[q]
  BY DEF TypeOK

LEMMA GotoIs ==
    ASSUME TypeOK, NEW r \in Runs, NEW pc \in {"check", "snapshot", "head", "reset", "clean"},
           Goto(r, pc)
    PROVE  /\ run' \in [Runs -> RunState]
           /\ \A q \in Runs : q # r => run'[q] = run[q]
           /\ run'[r].todo = run[r].todo /\ run'[r].current = run[r].current
           /\ run'[r].pc = pc
<1> DEFINE new == [run[r] EXCEPT !.pc = pc]
<1>1. run[r] \in RunState
  BY DEF TypeOK
<1>2. /\ new \in RunState /\ new.pc = pc
      /\ new.todo = run[r].todo /\ new.current = run[r].current
  BY <1>1 DEF RunState
<1>3. run' = [run EXCEPT ![r] = new]
  BY DEF Goto
<1> HIDE DEF new
<1> QED
  BY <1>2, <1>3, SetRun

LEMMA FinishIs ==
    ASSUME TypeOK, NEW r \in Runs, NEW outcome \in {"error", "up-to-date", "pulled"},
           Finish(r, outcome)
    PROVE  /\ run' \in [Runs -> RunState]
           /\ \A q \in Runs : q # r => run'[q] = run[q]
           /\ run'[r].todo = run[r].todo /\ run'[r].current = run[r].current
           /\ run'[r].pc = "show" /\ run'[r].outcome = outcome
<1> DEFINE m == [run[r] EXCEPT !.pc = "show"]
           new == [m EXCEPT !.outcome = outcome]
<1>1. run \in [Runs -> RunState] /\ run[r] \in RunState
  BY DEF TypeOK
<1>2. run' = [run EXCEPT ![r] = new]
  BY <1>1 DEF Finish
<1>3. m \in RunState /\ m.pc = "show" /\ m.todo = run[r].todo /\ m.current = run[r].current
  BY <1>1 DEF RunState
<1> HIDE DEF m
<1>4. /\ new \in RunState /\ new.pc = "show" /\ new.outcome = outcome
      /\ new.todo = run[r].todo /\ new.current = run[r].current
  BY <1>3 DEF RunState
<1> HIDE DEF new
<1> QED
  BY <1>2, <1>4, SetRun

(* What a look at a ref leaves behind *)
LEMMA SeenIs ==
    ASSUME TypeOK, NEW r \in Runs, NEW pc \in {"remote", "reset", "fetchInto", "status"},
           NEW c \in Commit,
           \/ run' = [run EXCEPT ![r].pc = pc, ![r].seenLocal = c]
           \/ run' = [run EXCEPT ![r].pc = pc, ![r].seenRemote = c]
    PROVE  /\ run' \in [Runs -> RunState]
           /\ \A q \in Runs : q # r => run'[q] = run[q]
           /\ run'[r].todo = run[r].todo /\ run'[r].current = run[r].current
           /\ run'[r].pc = pc
           /\ run' = [run EXCEPT ![r].pc = pc, ![r].seenLocal = c] => run'[r].seenLocal = c
<1> DEFINE m == [run[r] EXCEPT !.pc = pc]
           l == [m EXCEPT !.seenLocal = c]
           n == [m EXCEPT !.seenRemote = c]
<1>1. run \in [Runs -> RunState] /\ run[r] \in RunState
  BY DEF TypeOK
<1>2. CASE run' = [run EXCEPT ![r].pc = pc, ![r].seenLocal = c]
  <2>1. run' = [run EXCEPT ![r] = l]
    BY <1>1, <1>2
  <2>2. m \in RunState /\ m.pc = pc /\ m.todo = run[r].todo /\ m.current = run[r].current
    BY <1>1 DEF RunState
  <2> HIDE DEF m
  <2>3. /\ l \in RunState /\ l.pc = pc /\ l.seenLocal = c
        /\ l.todo = run[r].todo /\ l.current = run[r].current
    BY <2>2 DEF RunState
  <2> HIDE DEF l
  <2> QED
    BY <2>1, <2>3, SetRun
<1>3. CASE /\ run' = [run EXCEPT ![r].pc = pc, ![r].seenRemote = c]
           /\ run' # [run EXCEPT ![r].pc = pc, ![r].seenLocal = c]
  <2>1. run' = [run EXCEPT ![r] = n]
    BY <1>1, <1>3
  <2>2. m \in RunState /\ m.pc = pc /\ m.todo = run[r].todo /\ m.current = run[r].current
    BY <1>1 DEF RunState
  <2> HIDE DEF m
  <2>3. n \in RunState /\ n.pc = pc /\ n.todo = run[r].todo /\ n.current = run[r].current
    BY <2>2 DEF RunState
  <2> HIDE DEF n
  <2> QED
    BY <1>3, <2>1, <2>3, SetRun
<1> QED
  BY <1>2, <1>3

(* One more step with the branch a run is at. *)
LEMMA Advance ==
    ASSUME PullInv, NEW r \in Runs, Observe, run[r].pc \in Syncing,
           run' \in [Runs -> RunState], \A q \in Runs : q # r => run'[q] = run[q],
           run'[r].pc \in Syncing, run'[r].todo = run[r].todo, run'[r].current = run[r].current,
           UNCHANGED <<origin, head, asked, status, card>>,
           tracking' \in [Branch -> Commit], local' \in [Here -> Commit \cup {Null}],
           \A b \in Branch : tracking'[b] \in {tracking[b], origin[b]},
           \A b \in Branch : IsOrigins(b, local'[b]) => local'[b].n <= tracking'[b].n,
           dirty' \subseteq {"tracked", "untracked"}, Fails \/ UNCHANGED budget,
           run'[r].pc \in {"status", "reset", "clean"} => run[r].current = Head(run[r].todo),
           WasLevel(r)', ShownWasLevel(r)'
    PROVE  PullInv'
<1>1. TypeOK /\ RefsInv /\ Targets(r) /\ Fetched(r) /\ CheckedOut(r)
  BY DEF PullInv, RunOK
<1>2. level'[r] \subseteq asked'[r].targets
  BY LevelIs
<1>3. Targets(r)'
  BY <1>1, <1>2 DEF Targets, At, TargetsOf, Syncing
<1>4. Fetched(r)'
  <2>1. SUFFICES ASSUME NEW b \in asked[r].targets
                 PROVE  asked[r].from[b].n <= origin[b].n /\ asked[r].from[b].n <= tracking'[b].n
    BY DEF Fetched
  <2>2. b \in Branch
    BY <1>1, RunIs
  <2> QED
    BY <1>1, <2>2 DEF Fetched
<1>5. CheckedOut(r)'
  BY <1>1 DEF CheckedOut
<1>6. RunOK(r)'
  BY <1>3, <1>4, <1>5 DEF RunOK
<1>7. status' \in Status /\ card' \in Status /\ asked' \in [Runs -> Asked]
  BY <1>1 DEF TypeOK
<1> QED
  BY <1>1, <1>6, <1>7, FailsIs, RunStep

LEMMA RefsStay ==
    ASSUME PullInv, UNCHANGED <<origin, tracking, local, dirty>>
    PROVE  /\ tracking' \in [Branch -> Commit] /\ local' \in [Here -> Commit \cup {Null}]
           /\ \A b \in Branch : tracking'[b] \in {tracking[b], origin[b]}
           /\ \A b \in Branch : IsOrigins(b, local'[b]) => local'[b].n <= tracking'[b].n
           /\ dirty' \subseteq {"tracked", "untracked"}
  BY DEF PullInv, TypeOK, RefsInv

LEMMA ReadLocalStep == ASSUME PullInv, NEW r \in Runs, Observe, ReadLocal(r) PROVE PullInv'
<1> DEFINE b == Head(run[r].todo)
<1>1. /\ TypeOK /\ run[r].pc = "local" /\ UNCHANGED <<origin, tracking, local, head, dirty>>
      /\ UNCHANGED <<status, card, asked>> /\ Targets(r)
  BY DEF PullInv, RunOK, ReadLocal, At, repoVars
<1>2. b \in Here /\ b \in asked[r].targets
  BY <1>1, WorksOn DEF Syncing
<1>3. CASE Finish(r, "error")
  <2>1. WasLevel(r)' /\ ShownWasLevel(r)'
    BY <1>1, <1>3, FinishIs DEF WasLevel, ShownWasLevel, At
  <2> QED
    BY <1>1, <1>3, <2>1, FinishIs, RefsStay, Advance DEF Syncing, ReadLocal
<1>4. CASE /\ local[b] # Null /\ UNCHANGED budget
           /\ run' = [run EXCEPT ![r].pc = "remote", ![r].seenLocal = local[b]]
  <2>1. local[b] \in Commit
    BY <1>1, <1>2, <1>4 DEF TypeOK
  <2> DEFINE c == local[b]
  <2> HIDE DEF c
  <2>2. /\ run' \in [Runs -> RunState] /\ \A q \in Runs : q # r => run'[q] = run[q]
        /\ run'[r].todo = run[r].todo /\ run'[r].current = run[r].current
        /\ run'[r].pc = "remote" /\ run'[r].seenLocal = c
    <3>1. run' = [run EXCEPT ![r].pc = "remote", ![r].seenLocal = c] /\ c \in Commit
      BY <1>4, <2>1 DEF c
    <3> QED
      BY <1>1, <3>1, SeenIs
  <2>3. IsOrigins(b, c) /\ asked[r].from[b].n <= c.n => b \in level'[r]
    BY <1>1, <1>2, LevelIs DEF c
  <2>4. WasLevel(r)' /\ ShownWasLevel(r)'
    BY <1>1, <2>2, <2>3 DEF WasLevel, ShownWasLevel, At
  <2> QED
    BY <1>1, <1>4, <2>2, <2>4, RefsStay, Advance DEF Syncing
<1> QED
  BY <1>3, <1>4 DEF ReadLocal

LEMMA ReadRemoteStep == ASSUME PullInv, NEW r \in Runs, Observe, ReadRemote(r) PROVE PullInv'
<1> DEFINE b == Head(run[r].todo)
<1>1. /\ TypeOK /\ run[r].pc = "remote" /\ UNCHANGED <<origin, tracking, local, head, dirty>>
      /\ UNCHANGED <<status, card, asked>> /\ Targets(r) /\ Fetched(r) /\ WasLevel(r) /\ RefsInv
  BY DEF PullInv, RunOK, ReadRemote, At, repoVars
<1>2. b \in Branch /\ b \in asked[r].targets
  BY <1>1, WorksOn DEF Syncing
<1>3. level[r] \subseteq level'[r]
  BY <1>1, LevelIs
<1>4. CASE Finish(r, "error")
  <2>1. WasLevel(r)' /\ ShownWasLevel(r)'
    BY <1>1, <1>4, FinishIs DEF WasLevel, ShownWasLevel, At
  <2> QED
    BY <1>1, <1>4, <2>1, FinishIs, RefsStay, Advance DEF Syncing, ReadRemote
<1>5. CASE /\ tracking[b] # run[r].seenLocal /\ UNCHANGED budget
           /\ run' = [run EXCEPT ![r].pc = SyncStep(r), ![r].seenRemote = tracking[b]]
  <2>1. tracking[b] \in Commit
    BY <1>1, <1>2 DEF TypeOK
  <2> DEFINE c == tracking[b]
             pc == SyncStep(r)
  <2>2. pc \in {"reset", "fetchInto"} /\ (pc = "reset" => run[r].current = b)
    BY DEF SyncStep
  <2>3. run' = [run EXCEPT ![r].pc = pc, ![r].seenRemote = c]
    BY <1>5
  <2> HIDE DEF c, pc
  <2>4. c \in Commit
    BY <2>1 DEF c
  <2>5. /\ run' \in [Runs -> RunState] /\ \A q \in Runs : q # r => run'[q] = run[q]
        /\ run'[r].todo = run[r].todo /\ run'[r].current = run[r].current
        /\ run'[r].pc = pc
    BY <1>1, <2>2, <2>3, <2>4, SeenIs
  <2>6. WasLevel(r)' /\ ShownWasLevel(r)'
    BY <2>2, <2>5 DEF WasLevel, ShownWasLevel, At
  <2> QED
    BY <1>1, <1>5, <2>2, <2>5, <2>6, RefsStay, Advance DEF Syncing
<1>6. CASE /\ tracking[b] = run[r].seenLocal /\ UNCHANGED budget
           /\ IF b = run[r].current
              THEN run' = [run EXCEPT ![r].pc = "status", ![r].seenRemote = tracking[b]]
              ELSE Finish(r, "up-to-date")
  <2>1. b \in level'[r]
    <3>1. IsOrigins(b, run[r].seenLocal) /\ asked[r].from[b].n <= run[r].seenLocal.n
      BY <1>1, <1>2, <1>6 DEF RefsInv, Fetched, Syncing
    <3> QED
      BY <1>1, <1>3, <3>1 DEF WasLevel, At
  <2>2. CASE b # run[r].current
    <3>1. Finish(r, "up-to-date")
      BY <1>6, <2>2
    <3>2. WasLevel(r)' /\ ShownWasLevel(r)'
      BY <1>1, <2>1, <3>1, FinishIs DEF WasLevel, ShownWasLevel, At
    <3> QED
      BY <1>1, <1>6, <3>1, <3>2, FinishIs, RefsStay, Advance DEF Syncing
  <2>3. CASE b = run[r].current
    <3> DEFINE c == tracking[b]
    <3>1. c \in Commit
      BY <1>1, <1>2 DEF TypeOK
    <3>2. run' = [run EXCEPT ![r].pc = "status", ![r].seenRemote = c]
      BY <1>6, <2>3
    <3> HIDE DEF c
    <3>3. /\ run' \in [Runs -> RunState] /\ \A q \in Runs : q # r => run'[q] = run[q]
          /\ run'[r].todo = run[r].todo /\ run'[r].current = run[r].current
          /\ run'[r].pc = "status"
      <4>1. c \in Commit
        BY <3>1 DEF c
      <4> QED
        BY <1>1, <3>2, <4>1, SeenIs
    <3>4. WasLevel(r)' /\ ShownWasLevel(r)'
      BY <2>1, <3>3 DEF WasLevel, ShownWasLevel, At
    <3> QED
      BY <1>1, <1>6, <2>3, <3>3, <3>4, RefsStay, Advance DEF Syncing
  <2> QED
    BY <2>2, <2>3
<1> QED
  BY <1>4, <1>5, <1>6 DEF ReadRemote

LEMMA ReadStatusStep == ASSUME PullInv, NEW r \in Runs, Observe, ReadStatus(r) PROVE PullInv'
<1> DEFINE b == Head(run[r].todo)
<1>1. /\ TypeOK /\ run[r].pc = "status" /\ UNCHANGED <<origin, tracking, local, head, dirty>>
      /\ UNCHANGED <<status, card, asked>> /\ b \in level[r] /\ run[r].current = b
  BY DEF PullInv, RunOK, WasLevel, CheckedOut, ReadStatus, At, repoVars
<1>2. b \in level'[r]
  BY <1>1, LevelIs
<1>3. CASE Finish(r, "error") \/ Finish(r, "up-to-date")
  <2>1. WasLevel(r)' /\ ShownWasLevel(r)'
    BY <1>1, <1>2, <1>3, FinishIs DEF WasLevel, ShownWasLevel, At
  <2> QED
    BY <1>1, <1>3, <2>1, FinishIs, RefsStay, Advance DEF Syncing, ReadStatus
<1>4. CASE Goto(r, "reset") /\ UNCHANGED budget
  <2>1. /\ run' \in [Runs -> RunState] /\ \A q \in Runs : q # r => run'[q] = run[q]
        /\ run'[r].todo = run[r].todo /\ run'[r].current = run[r].current /\ run'[r].pc = "reset"
    BY <1>1, <1>4, GotoIs
  <2>2. WasLevel(r)' /\ ShownWasLevel(r)'
    BY <2>1 DEF WasLevel, ShownWasLevel, At
  <2> QED
    BY <1>1, <1>4, <2>1, <2>2, RefsStay, Advance DEF Syncing
<1> QED
  BY <1>3, <1>4 DEF ReadStatus
(* git reset moves the branch that is checked out: the one it is meant for, *)
(* or the operator switched.                                                *)
LEMMA ResetHardStep == ASSUME PullInv, NEW r \in Runs, Observe, ResetHard(r) PROVE PullInv'
<1> DEFINE b == Head(run[r].todo)
<1>1. /\ TypeOK /\ RefsInv /\ run[r].pc = "reset" /\ UNCHANGED <<origin, tracking, head>>
      /\ UNCHANGED <<status, card, asked>> /\ Targets(r) /\ Fetched(r)
      /\ head = run[r].current \/ asked[r].switched
      /\ run[r].current = b
  BY DEF PullInv, RunOK, CheckedOut, ResetHard, At, Syncing
<1>2. b \in Branch /\ b \in asked[r].targets
  BY <1>1, WorksOn DEF Syncing
<1>3. CASE Finish(r, "error") /\ UNCHANGED <<local, dirty>>
  <2>1. WasLevel(r)' /\ ShownWasLevel(r)'
    BY <1>1, <1>3, FinishIs DEF WasLevel, ShownWasLevel, At
  <2> QED
    BY <1>1, <1>3, <2>1, FinishIs, RefsStay, Advance DEF Syncing, ResetHard
<1>4. CASE /\ local' = [local EXCEPT ![head] = tracking[b]] /\ Goto(r, "clean")
           /\ dirty' = dirty \ {"tracked"} /\ UNCHANGED budget
  <2>1. tracking[b] \in Commit /\ IsOrigins(b, tracking[b]) /\ head \in Here
    BY <1>1, <1>2 DEF TypeOK, RefsInv
  <2>2. /\ local' \in [Here -> Commit \cup {Null}] /\ local'[head] = tracking[b]
        /\ \A c \in Here : c # head => local'[c] = local[c]
        /\ dirty' \subseteq {"tracked", "untracked"}
    BY <1>1, <1>4, <2>1 DEF TypeOK
  <2>3. \A c \in Branch : IsOrigins(c, local'[c]) => local'[c].n <= tracking'[c].n
    <3>1. SUFFICES ASSUME NEW c \in Branch, IsOrigins(c, local'[c])
                   PROVE  local'[c].n <= tracking[c].n
      BY <1>1
    <3>2. CASE c # head
      BY <1>1, <2>2, <3>1, <3>2 DEF RefsInv, Here
    <3>3. CASE c = head
      <4>1. c = b /\ local'[c] = tracking[c]
        BY <2>1, <2>2, <3>1, <3>3 DEF IsOrigins
      <4>2. tracking[c].n \in Nat
        BY <1>1, RunIs
      <4> QED
        BY <4>1, <4>2
    <3> QED
      BY <3>2, <3>3
  <2>4. b \in level'[r] \/ asked[r].switched
    BY <1>1, <1>2, <2>1, <2>2, LevelIs DEF Fetched, Syncing
  <2>5. /\ run' \in [Runs -> RunState] /\ \A q \in Runs : q # r => run'[q] = run[q]
        /\ run'[r].todo = run[r].todo /\ run'[r].current = run[r].current /\ run'[r].pc = "clean"
    BY <1>1, <1>4, GotoIs
  <2>6. WasLevel(r)' /\ ShownWasLevel(r)'
    BY <1>1, <2>4, <2>5 DEF WasLevel, ShownWasLevel, At
  <2>7. tracking' \in [Branch -> Commit] /\ \A c \in Branch : tracking'[c] \in {tracking[c], origin[c]}
    BY <1>1 DEF TypeOK
  <2> QED
    BY <1>1, <1>4, <2>2, <2>3, <2>5, <2>6, <2>7, Advance DEF Syncing
<1> QED
  BY <1>3, <1>4 DEF ResetHard, ResetTo

LEMMA CleanStep == ASSUME PullInv, NEW r \in Runs, Observe, Clean(r) PROVE PullInv'
<1> DEFINE b == Head(run[r].todo)
<1>1. /\ TypeOK /\ RefsInv /\ run[r].pc = "clean" /\ UNCHANGED <<origin, tracking, local, head>>
      /\ UNCHANGED <<status, card, asked>>
      /\ b \in level[r] \/ asked[r].switched
  BY DEF PullInv, RunOK, WasLevel, Clean, At
<1>2. b \in level'[r] \/ asked[r].switched
  BY <1>1, LevelIs
<1>3. PICK outcome \in {"error", "pulled"} :
        Finish(r, outcome) /\ (Fails \/ UNCHANGED budget)
  BY DEF Clean
<1>4. WasLevel(r)' /\ ShownWasLevel(r)'
  BY <1>1, <1>2, <1>3, FinishIs DEF WasLevel, ShownWasLevel, At
<1>5. dirty' \subseteq {"tracked", "untracked"}
  BY <1>1 DEF Clean, TypeOK
<1>6. /\ tracking' \in [Branch -> Commit] /\ local' \in [Here -> Commit \cup {Null}]
      /\ \A c \in Branch : tracking'[c] \in {tracking[c], origin[c]}
      /\ \A c \in Branch : IsOrigins(c, local'[c]) => local'[c].n <= tracking'[c].n
  BY <1>1 DEF TypeOK, RefsInv
<1> QED
  BY <1>1, <1>3, <1>4, <1>5, <1>6, FinishIs, Advance DEF Syncing

LEMMA FetchIntoStep == ASSUME PullInv, NEW r \in Runs, Observe, FetchInto(r) PROVE PullInv'
<1> DEFINE b == Head(run[r].todo)
<1>1. /\ TypeOK /\ RefsInv /\ run[r].pc = "fetchInto" /\ UNCHANGED <<origin, head, dirty>>
      /\ UNCHANGED <<status, card, asked>> /\ Targets(r) /\ Fetched(r)
  BY DEF PullInv, RunOK, FetchInto, At
<1>2. b \in Branch /\ b \in asked[r].targets /\ b \in Here
  BY <1>1, WorksOn DEF Syncing
<1>3. CASE Finish(r, "error") /\ UNCHANGED <<local, tracking>>
  <2>1. WasLevel(r)' /\ ShownWasLevel(r)'
    BY <1>1, <1>3, FinishIs DEF WasLevel, ShownWasLevel, At
  <2> QED
    BY <1>1, <1>3, <2>1, FinishIs, RefsStay, Advance DEF Syncing, FetchInto
<1>4. CASE /\ local' = [local EXCEPT ![b] = origin[b]] /\ Finish(r, "pulled")
           /\ tracking' = [tracking EXCEPT ![b] = origin[b]] /\ UNCHANGED budget
  <2>1. origin[b] \in Commit /\ IsOrigins(b, origin[b]) /\ origin[b].n \in Nat
    BY <1>1, <1>2, RunIs DEF TypeOK, RefsInv
  <2>2. /\ local' \in [Here -> Commit \cup {Null}] /\ local'[b] = origin[b]
        /\ \A c \in Here : c # b => local'[c] = local[c]
    BY <1>1, <1>2, <1>4, <2>1 DEF TypeOK
  <2>3. /\ tracking' \in [Branch -> Commit] /\ tracking'[b] = origin[b]
        /\ \A c \in Branch : c # b => tracking'[c] = tracking[c]
    BY <1>1, <1>2, <1>4, <2>1 DEF TypeOK
  <2>4. \A c \in Branch : IsOrigins(c, local'[c]) => local'[c].n <= tracking'[c].n
    <3>1. SUFFICES ASSUME NEW c \in Branch, IsOrigins(c, local'[c])
                   PROVE  local'[c].n <= tracking'[c].n
      OBVIOUS
    <3>2. CASE c = b
      BY <2>1, <2>2, <2>3, <3>2
    <3>3. CASE c # b
      BY <1>1, <2>2, <2>3, <3>1, <3>3 DEF RefsInv, Here
    <3> QED
      BY <3>2, <3>3
  <2>5. b \in level'[r]
    BY <1>1, <1>2, <2>1, <2>2, LevelIs DEF Fetched
  <2>6. WasLevel(r)' /\ ShownWasLevel(r)'
    BY <1>1, <1>4, <2>5, FinishIs DEF WasLevel, ShownWasLevel, At
  <2>7. \A c \in Branch : tracking'[c] \in {tracking[c], origin[c]}
    BY <2>3
  <2>8. dirty' \subseteq {"tracked", "untracked"}
    BY <1>1 DEF TypeOK
  <2> QED
    BY <1>1, <1>4, <2>2, <2>3, <2>4, <2>6, <2>7, <2>8, FinishIs, Advance DEF Syncing
<1> QED
  BY <1>3, <1>4 DEF FetchInto

-----------------------------------------------------------------------------
(* The beginning and the end of a run. *)

(* Nothing is under way for a run that only reports. *)
LEMMA Rests ==
    ASSUME PullInv, NEW r \in Runs, Observe,
           run' \in [Runs -> RunState], \A q \in Runs : q # r => run'[q] = run[q],
           run'[r].pc \in {"snapshot", "emit"},
           run'[r].pc = "emit" => run'[r].snapshot \in Status,
           UNCHANGED <<origin, tracking, local, head, dirty, card, asked>>, status' \in Status,
           budget' \in [pushes: 0..MaxPushes, moves: 0..MaxMoves,
                        failures: 0..MaxFailures, commands: 0..MaxCommands],
           budget'.pushes = budget.pushes, budget'.moves = budget.moves
    PROVE  PullInv'
<1>1. TypeOK /\ Fetched(r)
  BY DEF PullInv, RunOK
<1>2. level'[r] \subseteq asked'[r].targets
  BY LevelIs
<1>3. Targets(r)'
  BY <1>2 DEF Targets, At, Syncing
<1>4. Fetched(r)' /\ CheckedOut(r)' /\ WasLevel(r)' /\ ShownWasLevel(r)'
  BY <1>1 DEF Fetched, CheckedOut, WasLevel, ShownWasLevel, At, Syncing
<1>5. card' \in Status /\ asked' \in [Runs -> Asked]
  BY <1>1 DEF TypeOK
<1> QED
  BY <1>3, <1>4, <1>5, RefsStay, RunStep DEF RunOK

LEMMA ToggleStep ==
    ASSUME PullInv, NEW r \in Runs, NEW enabled \in BOOLEAN, Observe, Toggle(r, enabled)
    PROVE  PullInv'
<1>1. TypeOK /\ UNCHANGED <<origin, tracking, local, head, dirty, card, asked>>
  BY DEF PullInv, Toggle, repoVars
<1>2. status' \in Status
  BY <1>1 DEF TypeOK, Toggle, Status
<1> DEFINE kind == IF enabled THEN "toggle_on" ELSE "toggle_off"
           m == [run[r] EXCEPT !.pc = "snapshot"]
           new == [m EXCEPT !.kind = kind]
<1>3. run \in [Runs -> RunState] /\ run[r] \in RunState
  BY <1>1 DEF TypeOK
<1>4. run' = [run EXCEPT ![r] = new]
  BY <1>3 DEF Toggle
<1>5. m \in RunState /\ m.pc = "snapshot"
  BY <1>3 DEF RunState
<1> HIDE DEF m
<1>6. new \in RunState /\ new.pc = "snapshot"
  BY <1>5 DEF RunState
<1> HIDE DEF new
<1>7. /\ budget' \in [pushes: 0..MaxPushes, moves: 0..MaxMoves,
                      failures: 0..MaxFailures, commands: 0..MaxCommands]
      /\ budget'.pushes = budget.pushes /\ budget'.moves = budget.moves
  BY <1>1, CommandIs DEF Toggle
<1> QED
  BY <1>1, <1>2, <1>4, <1>6, <1>7, SetRun, Rests

LEMMA TakeSnapshotStep == ASSUME PullInv, NEW r \in Runs, Observe, TakeSnapshot(r) PROVE PullInv'
<1>1. TypeOK /\ UNCHANGED <<origin, tracking, local, head, dirty, card, asked, budget, status>>
  BY DEF PullInv, TakeSnapshot, repoVars
<1> DEFINE m == [run[r] EXCEPT !.pc = "emit"]
           new == [m EXCEPT !.snapshot = status]
<1>2. run \in [Runs -> RunState] /\ run[r] \in RunState /\ status \in Status
  BY <1>1 DEF TypeOK
<1>3. run' = [run EXCEPT ![r] = new]
  BY <1>2 DEF TakeSnapshot
<1>4. m \in RunState /\ m.pc = "emit"
  BY <1>2 DEF RunState
<1> HIDE DEF m
<1>5. new \in RunState /\ new.pc = "emit" /\ new.snapshot \in Status
  BY <1>2, <1>4 DEF RunState
<1> HIDE DEF new
<1> QED
  BY <1>1, <1>2, <1>3, <1>5, SetRun, FailsIs, Rests

LEMMA GiveUpIs ==
    ASSUME TypeOK, NEW r \in Runs, GiveUp(r)
    PROVE  /\ status' \in Status /\ run' \in [Runs -> RunState]
           /\ \A q \in Runs : q # r => run'[q] = run[q]
           /\ run'[r].pc = "snapshot"
<1> DEFINE m == [run[r] EXCEPT !.pc = "snapshot"]
           l == [m EXCEPT !.todo = <<>>]
           new == [l EXCEPT !.current = Null]
<1>1. run \in [Runs -> RunState] /\ run[r] \in RunState /\ status \in Status
  BY DEF TypeOK
<1>2. run' = [run EXCEPT ![r] = new]
  BY <1>1 DEF GiveUp
<1>3. m \in RunState /\ m.pc = "snapshot"
  BY <1>1 DEF RunState
<1> HIDE DEF m
<1>4. l \in RunState /\ l.pc = "snapshot"
  <2>1. <<>> \in Seq(Branch)
    OBVIOUS
  <2> QED
    BY <1>3, <2>1 DEF RunState
<1> HIDE DEF l
<1>5. new \in RunState /\ new.pc = "snapshot"
  BY <1>4 DEF RunState
<1> HIDE DEF new
<1>6. status' \in Status
  <2> DEFINE state == [b \in Branch |-> IF b \in TargetsOf(r) THEN "error" ELSE status.state[b]]
  <2>1. state \in [Branch -> BranchState]
    BY <1>1 DEF Status, BranchState
  <2>2. status' = status \/ status' = [status EXCEPT !.state = state]
    BY DEF GiveUp
  <2> HIDE DEF state
  <2> QED
    BY <1>1, <2>1, <2>2 DEF Status
<1> QED
  BY <1>2, <1>5, <1>6, SetRun

LEMMA FetchBranchesStep == ASSUME PullInv, NEW r \in Runs, Observe, FetchBranches(r) PROVE PullInv'
<1>1. /\ TypeOK /\ RefsInv /\ Targets(r) /\ Fetched(r) /\ run[r].pc = "fetch"
      /\ UNCHANGED <<origin, local, head, dirty, card, asked>>
  BY DEF PullInv, RunOK, FetchBranches, At
<1>2. CASE Fails /\ GiveUp(r) /\ UNCHANGED tracking
  BY <1>1, <1>2, GiveUpIs, FailsIs, Rests
<1>3. CASE /\ tracking' = [b \in Branch |-> IF b \in TargetsOf(r) THEN origin[b] ELSE tracking[b]]
           /\ Goto(r, "head") /\ UNCHANGED <<status, budget>>
  <2>1. /\ tracking' \in [Branch -> Commit]
        /\ \A b \in Branch : tracking'[b] \in {tracking[b], origin[b]}
        /\ \A b \in TargetsOf(r) : tracking'[b] = origin[b]
    BY <1>1, <1>3, RunIs DEF TypeOK
  <2>2. \A b \in Branch : IsOrigins(b, local'[b]) => local'[b].n <= tracking'[b].n
    <3>1. SUFFICES ASSUME NEW b \in Branch, IsOrigins(b, local[b])
                   PROVE  local[b].n <= tracking'[b].n
      BY <1>1
    <3>2. local[b] \in Commit /\ local[b].n <= tracking[b].n /\ tracking[b].n <= origin[b].n
      BY <1>1, <3>1 DEF RefsInv, TypeOK, Here, IsOrigins
    <3>3. local[b].n \in Nat /\ tracking[b].n \in Nat /\ origin[b].n \in Nat
      BY <1>1, <3>2, RunIs DEF Commit
    <3> QED
      BY <2>1, <3>2, <3>3
  <2>3. /\ run' \in [Runs -> RunState] /\ \A q \in Runs : q # r => run'[q] = run[q]
        /\ run'[r].todo = run[r].todo /\ run'[r].pc = "head"
    BY <1>1, <1>3, GotoIs
  <2>4. level'[r] \subseteq asked'[r].targets
    BY <1>1, LevelIs
  <2>5. Targets(r)'
    BY <1>1, <2>3, <2>4 DEF Targets, TargetsOf, At, Syncing
  <2>6. Fetched(r)'
    BY <1>1, <2>1, <2>3 DEF Fetched, Targets
  <2>7. CheckedOut(r)' /\ WasLevel(r)' /\ ShownWasLevel(r)'
    BY <2>3 DEF CheckedOut, WasLevel, ShownWasLevel, At, Syncing
  <2>8. /\ status' \in Status /\ card' \in Status /\ asked' \in [Runs -> Asked]
        /\ local' \in [Here -> Commit \cup {Null}] /\ dirty' \subseteq {"tracked", "untracked"}
    BY <1>1, <1>3 DEF TypeOK
  <2> QED
    BY <1>1, <1>3, <2>1, <2>2, <2>3, <2>5, <2>6, <2>7, <2>8, FailsIs, RunStep DEF RunOK
<1> QED
  BY <1>2, <1>3 DEF FetchBranches

LEMMA ReadHeadStep == ASSUME PullInv, NEW r \in Runs, Observe, ReadHead(r) PROVE PullInv'
<1>1. /\ TypeOK /\ Targets(r) /\ Fetched(r) /\ run[r].pc = "head"
      /\ UNCHANGED <<origin, tracking, local, head, dirty, card, asked>>
  BY DEF PullInv, RunOK, ReadHead, At, repoVars
<1>2. CASE Fails /\ GiveUp(r)
  BY <1>1, <1>2, GiveUpIs, FailsIs, Rests
<1>3. CASE /\ run' = [run EXCEPT ![r].pc = "local", ![r].current = head]
           /\ UNCHANGED <<status, budget>>
  <2> DEFINE m == [run[r] EXCEPT !.pc = "local"]
             new == [m EXCEPT !.current = head]
  <2>1. run \in [Runs -> RunState] /\ run[r] \in RunState /\ head \in Here
    BY <1>1 DEF TypeOK
  <2>2. run' = [run EXCEPT ![r] = new]
    BY <1>3, <2>1
  <2>3. m \in RunState /\ m.pc = "local" /\ m.todo = run[r].todo
    BY <2>1 DEF RunState
  <2> HIDE DEF m
  <2>4. new \in RunState /\ new.pc = "local" /\ new.todo = run[r].todo /\ new.current = head
    BY <2>1, <2>3 DEF RunState
  <2> HIDE DEF new
  <2>5. /\ run' \in [Runs -> RunState] /\ run'[r] = new
        /\ \A q \in Runs : q # r => run'[q] = run[q]
    BY <1>1, <2>2, <2>4, SetRun
  <2>6. level'[r] \subseteq asked'[r].targets
    BY <1>1, LevelIs
  <2>7. Targets(r)'
    BY <1>1, <2>4, <2>5, <2>6 DEF Targets, TargetsOf, At, Syncing
  <2>8. Fetched(r)' /\ CheckedOut(r)'
    BY <1>1, <2>4, <2>5 DEF Fetched, CheckedOut
  <2>9. WasLevel(r)' /\ ShownWasLevel(r)'
    BY <2>4, <2>5 DEF WasLevel, ShownWasLevel, At
  <2>10. status' \in Status /\ card' \in Status /\ asked' \in [Runs -> Asked]
    BY <1>1, <1>3 DEF TypeOK
  <2> QED
    BY <1>1, <1>3, <2>5, <2>7, <2>8, <2>9, <2>10, FailsIs, RefsStay, RunStep DEF RunOK
<1> QED
  BY <1>2, <1>3 DEF ReadHead
(* The result of one branch is stored, and the next branch is the run's too. *)
LEMMA ShowStep == ASSUME PullInv, NEW r \in Runs, Observe, Show(r) PROVE PullInv'
<1> DEFINE b == Head(run[r].todo)
           rest == Tail(run[r].todo)
           outcome == run[r].outcome
<1>1. /\ TypeOK /\ Targets(r) /\ Fetched(r) /\ CheckedOut(r) /\ ShownWasLevel(r)
      /\ run[r].pc = "show"
      /\ UNCHANGED <<origin, tracking, local, head, dirty, card, asked, budget>>
  BY DEF PullInv, RunOK, Show, At, repoVars
<1>2. b \in Branch /\ run[r].todo # <<>> /\ run[r].todo \in Seq(Branch)
  BY <1>1, WorksOn, RunIs DEF Syncing
<1>3. status' \in Status
  <2>1. outcome \in BranchState
    BY <1>1 DEF ShownWasLevel, At, BranchState
  <2>2. status' = [status EXCEPT !.state[b] = outcome]
    BY DEF Show
  <2> HIDE DEF outcome, b
  <2>3. status \in Status /\ b \in Branch
    BY <1>1, <1>2 DEF TypeOK, b
  <2> QED
    BY <2>1, <2>2, <2>3 DEF Status
<1>4. rest \in Seq(Branch) /\ {rest[i] : i \in DOMAIN rest} \subseteq TargetsOf(r)
  BY <1>2, Lists DEF TargetsOf
<1>5. run \in [Runs -> RunState] /\ run[r] \in RunState
  BY <1>1 DEF TypeOK
<1>6. run' = [run EXCEPT ![r].todo = rest, ![r].outcome = "none",
                         ![r].pc = IF rest = <<>> THEN "snapshot" ELSE "local",
                         ![r].current = IF rest = <<>> THEN Null ELSE @,
                         ![r].seenLocal = Null, ![r].seenRemote = Null]
  BY DEF Show
<1> DEFINE pc == IF rest = <<>> THEN "snapshot" ELSE "local"
           current == IF rest = <<>> THEN Null ELSE run[r].current
           n1 == [run[r] EXCEPT !.todo = rest]
           n2 == [n1 EXCEPT !.outcome = "none"]
           n3 == [n2 EXCEPT !.pc = pc]
           n4 == [n3 EXCEPT !.current = current]
           n5 == [n4 EXCEPT !.seenLocal = Null]
           new == [n5 EXCEPT !.seenRemote = Null]
<1>7. run' = [run EXCEPT ![r] = new]
  BY <1>5, <1>6 DEF RunState
<1>8. /\ rest = <<>> => pc = "snapshot"
      /\ rest # <<>> => pc = "local" /\ current = run[r].current
      /\ pc \in {"snapshot", "local"} /\ current \in Here \cup {Null}
  BY <1>5 DEF RunState
<1> HIDE DEF rest, pc, current
<1>9. n1 \in RunState /\ n1.todo = rest
  BY <1>4, <1>5 DEF RunState
<1> HIDE DEF n1
<1>10. n2 \in RunState /\ n2.todo = rest
  BY <1>9 DEF RunState
<1> HIDE DEF n2
<1>11. n3 \in RunState /\ n3.todo = rest /\ n3.pc = pc
  BY <1>8, <1>10 DEF RunState
<1> HIDE DEF n3
<1>12. n4 \in RunState /\ n4.todo = rest /\ n4.pc = pc /\ n4.current = current
  BY <1>8, <1>11 DEF RunState
<1> HIDE DEF n4
<1>13. n5 \in RunState /\ n5.todo = rest /\ n5.pc = pc /\ n5.current = current
  BY <1>12 DEF RunState
<1> HIDE DEF n5
<1>14. new \in RunState /\ new.todo = rest /\ new.pc = pc /\ new.current = current
  BY <1>13 DEF RunState
<1> HIDE DEF new
<1>15. /\ run' \in [Runs -> RunState] /\ run'[r] = new
       /\ \A q \in Runs : q # r => run'[q] = run[q]
  BY <1>1, <1>7, <1>14, SetRun
<1>16. CASE rest = <<>>
  BY <1>1, <1>3, <1>8, <1>14, <1>15, <1>16, FailsIs, Rests
<1>17. CASE rest # <<>>
  <2>1. level'[r] \subseteq asked'[r].targets
    BY <1>1, LevelIs
  <2>2. Targets(r)'
    <3>1. run'[r].pc = "local" /\ run'[r].todo = rest
      BY <1>8, <1>14, <1>15, <1>17
    <3>2. TargetsOf(r)' \subseteq asked[r].targets
      <4>1. TargetsOf(r)' = {rest[i] : i \in DOMAIN rest}
        BY <3>1 DEF TargetsOf
      <4>2. TargetsOf(r) \subseteq asked[r].targets
        BY <1>1 DEF Targets, Syncing
      <4> QED
        BY <1>4, <4>1, <4>2
    <3> QED
      BY <1>1, <1>17, <2>1, <3>1, <3>2 DEF Targets, At, Syncing
  <2>3. Fetched(r)' /\ CheckedOut(r)'
    BY <1>1, <1>8, <1>14, <1>15, <1>17 DEF Fetched, CheckedOut, Syncing
  <2>4. WasLevel(r)' /\ ShownWasLevel(r)'
    BY <1>8, <1>14, <1>15, <1>17 DEF WasLevel, ShownWasLevel, At
  <2>5. card' \in Status /\ asked' \in [Runs -> Asked]
    BY <1>1 DEF TypeOK
  <2> QED
    BY <1>1, <1>3, <1>15, <2>2, <2>3, <2>4, <2>5, FailsIs, RefsStay, RunStep DEF RunOK
<1> QED
  BY <1>16, <1>17

LEMMA WakeStep == ASSUME PullInv, Observe, Wake PROVE PullInv'
<1>1. /\ TypeOK /\ Loop \in Runs /\ Targets(Loop) /\ run[Loop].pc = "sleep"
      /\ UNCHANGED <<origin, tracking, local, head, dirty, status, card, asked, budget>>
  BY DEF PullInv, RunOK, Wake, At, Runs, repoVars
<1>2. /\ run' \in [Runs -> RunState] /\ \A q \in Runs : q # Loop => run'[q] = run[q]
      /\ run'[Loop].pc = "check"
  BY <1>1, GotoIs DEF Wake
<1>3. asked'[Loop].targets = {} /\ level'[Loop] \subseteq asked'[Loop].targets
  BY <1>1, LevelIs DEF Targets, At
<1>4. RunOK(Loop)'
  BY <1>2, <1>3 DEF RunOK, Targets, Fetched, CheckedOut, WasLevel, ShownWasLevel, At, Syncing
<1>5. status' \in Status /\ card' \in Status /\ asked' \in [Runs -> Asked]
  BY <1>1 DEF TypeOK
<1> QED
  BY <1>1, <1>2, <1>4, <1>5, FailsIs, RefsStay, RunStep

(* A run begins: it is about the branches it has to do. *)
LEMMA Begins ==
    ASSUME PullInv, NEW r \in Runs, Observe, NEW order \in Seq(Branch), order # <<>>,
           asked[r].targets = {},
           run' \in [Runs -> RunState], \A q \in Runs : q # r => run'[q] = run[q],
           run'[r].pc = "fetch", run'[r].todo = order,
           asked' = [asked EXCEPT ![r] = AskedFor({order[i] : i \in DOMAIN order})],
           UNCHANGED <<origin, tracking, local, head, dirty, status, card>>,
           budget' \in [pushes: 0..MaxPushes, moves: 0..MaxMoves,
                        failures: 0..MaxFailures, commands: 0..MaxCommands],
           budget'.pushes = budget.pushes, budget'.moves = budget.moves
    PROVE  PullInv'
<1> DEFINE targets == {order[i] : i \in DOMAIN order}
           a == AskedFor(targets)
<1>1. TypeOK
  BY DEF PullInv
<1>2. targets \in SUBSET Branch
  BY Lists
<1> HIDE DEF targets
<1>3. a \in Asked /\ a.targets = targets /\ a.from = origin
  BY <1>1, <1>2 DEF AskedFor, Asked, TypeOK
<1> HIDE DEF a
<1>4. asked' = [asked EXCEPT ![r] = a]
  BY DEF a, targets
<1>5. /\ asked' \in [Runs -> Asked] /\ asked'[r] = a
      /\ \A q \in Runs : q # r => asked'[q] = asked[q]
  BY <1>1, <1>3, <1>4 DEF TypeOK
<1>6. status' \in Status /\ card' \in Status
  BY <1>1 DEF TypeOK
<1>7. ASSUME level'[r] \subseteq asked'[r].targets PROVE RunOK(r)'
  <2>1. TargetsOf(r)' = targets
    BY DEF TargetsOf, targets
  <2>2. Targets(r)'
    BY <1>3, <1>5, <1>7, <2>1 DEF Targets, At, Syncing
  <2>3. \A b \in Branch : origin[b].n \in Nat
    BY <1>1, RunIs
  <2>4. Fetched(r)'
    BY <1>2, <1>3, <1>5, <2>3 DEF Fetched, Syncing
  <2>5. CheckedOut(r)' /\ WasLevel(r)' /\ ShownWasLevel(r)'
    BY DEF CheckedOut, WasLevel, ShownWasLevel, At, Syncing
  <2> QED
    BY <2>2, <2>4, <2>5 DEF RunOK
<1> QED
  BY <1>5, <1>6, <1>7, RefsStay, RunStep

LEMMA PullNowStep ==
    ASSUME PullInv, NEW r \in Runs, NEW order \in Orders \cup Single, Observe, PullNow(r, order)
    PROVE  PullInv'
<1>1. /\ TypeOK /\ asked[r].targets = {}
      /\ UNCHANGED <<origin, tracking, local, head, dirty, status, card>>
  BY DEF PullInv, RunOK, Targets, PullNow, repoVars
<1>2. order \in Seq(Branch) /\ order # <<>>
  BY OrdersAre
<1> DEFINE n1 == [run[r] EXCEPT !.pc = "fetch"]
           n2 == [n1 EXCEPT !.kind = "pull"]
           new == [n2 EXCEPT !.todo = order]
<1>3. run \in [Runs -> RunState] /\ run[r] \in RunState
  BY <1>1 DEF TypeOK
<1>4. run' = [run EXCEPT ![r] = new]
  BY <1>3 DEF PullNow
<1>5. n1 \in RunState /\ n1.pc = "fetch"
  BY <1>3 DEF RunState
<1> HIDE DEF n1
<1>6. n2 \in RunState /\ n2.pc = "fetch"
  BY <1>5 DEF RunState
<1> HIDE DEF n2
<1>7. new \in RunState /\ new.pc = "fetch" /\ new.todo = order
  BY <1>2, <1>6 DEF RunState
<1> HIDE DEF new
<1>8. /\ budget' \in [pushes: 0..MaxPushes, moves: 0..MaxMoves,
                      failures: 0..MaxFailures, commands: 0..MaxCommands]
      /\ budget'.pushes = budget.pushes /\ budget'.moves = budget.moves
  BY <1>1, CommandIs DEF PullNow
<1>9. /\ run' \in [Runs -> RunState] /\ \A q \in Runs : q # r => run'[q] = run[q]
      /\ run'[r].pc = "fetch" /\ run'[r].todo = order
  BY <1>1, <1>4, <1>7, SetRun
<1>10. asked' = [asked EXCEPT ![r] = AskedFor({order[i] : i \in DOMAIN order})]
  BY DEF PullNow
<1> QED
  BY <1>1, <1>2, <1>8, <1>9, <1>10, Begins

LEMMA CheckEnabledStep ==
    ASSUME PullInv, NEW r \in Runs, NEW order, order \in Orders, Observe,
           CheckEnabled(r, order)
    PROVE  PullInv'
<1>1. /\ TypeOK /\ asked[r].targets = {}
      /\ UNCHANGED <<origin, tracking, local, head, dirty, status, card, budget>>
  BY DEF PullInv, RunOK, Targets, CheckEnabled, repoVars
<1>2. order \in Seq(Branch) /\ order # <<>>
  BY OrdersAre
<1>3. /\ budget' \in [pushes: 0..MaxPushes, moves: 0..MaxMoves,
                      failures: 0..MaxFailures, commands: 0..MaxCommands]
      /\ budget'.pushes = budget.pushes /\ budget'.moves = budget.moves
  BY <1>1, FailsIs
<1>4. CASE status.enabled
  <2>1. /\ run' = [run EXCEPT ![r].pc = "fetch", ![r].todo = order]
        /\ asked' = [asked EXCEPT ![r] = AskedFor({order[i] : i \in DOMAIN order})]
    BY <1>4 DEF CheckEnabled
  <2> DEFINE n1 == [run[r] EXCEPT !.pc = "fetch"]
             new == [n1 EXCEPT !.todo = order]
  <2>2. run \in [Runs -> RunState] /\ run[r] \in RunState
    BY <1>1 DEF TypeOK
  <2>3. run' = [run EXCEPT ![r] = new]
    BY <2>1, <2>2
  <2>4. n1 \in RunState /\ n1.pc = "fetch"
    BY <2>2 DEF RunState
  <2> HIDE DEF n1
  <2>5. new \in RunState /\ new.pc = "fetch" /\ new.todo = order
    BY <1>2, <2>4 DEF RunState
  <2> HIDE DEF new
  <2>6. /\ run' \in [Runs -> RunState] /\ \A q \in Runs : q # r => run'[q] = run[q]
        /\ run'[r].pc = "fetch" /\ run'[r].todo = order
    BY <1>1, <2>3, <2>5, SetRun
  <2> QED
    BY <1>1, <1>2, <1>3, <2>1, <2>6, Begins
<1>5. CASE ~status.enabled
  <2>1. Goto(r, "snapshot") /\ UNCHANGED asked
    BY <1>5 DEF CheckEnabled
  <2>2. status' \in Status
    BY <1>1 DEF TypeOK
  <2> QED
    BY <1>1, <1>3, <2>1, <2>2, GotoIs, Rests
<1> QED
  BY <1>4, <1>5

(* A run has ended and is about nothing any more. *)
LEMMA Ends ==
    ASSUME PullInv, NEW r \in Runs, Observe,
           NEW new \in RunState, new.pc \in {"idle", "sleep", "check"},
           run' = [run EXCEPT ![r] = new], asked' = [asked EXCEPT ![r] = NotAsked],
           UNCHANGED <<origin, tracking, local, head, dirty, status, budget>>, card' \in Status
    PROVE  PullInv'
<1>1. TypeOK /\ run'[r] = new /\ status' \in Status
  BY DEF PullInv, TypeOK
<1>2. NotAsked \in Asked /\ NotAsked.targets = {}
  BY DEF NotAsked, Asked, First, Commit, Here
<1>3. /\ asked' \in [Runs -> Asked] /\ asked'[r].targets = {}
      /\ \A q \in Runs : q # r => asked'[q] = asked[q]
  BY <1>1, <1>2 DEF TypeOK
<1>4. ASSUME level'[r] \subseteq asked'[r].targets PROVE RunOK(r)'
  <2>1. Targets(r)' /\ Fetched(r)'
    BY <1>1, <1>3, <1>4 DEF Targets, Fetched, At, Syncing
  <2>2. CheckedOut(r)' /\ WasLevel(r)' /\ ShownWasLevel(r)'
    BY <1>1 DEF CheckedOut, WasLevel, ShownWasLevel, At, Syncing
  <2> QED
    BY <2>1, <2>2 DEF RunOK
<1>5. /\ run' \in [Runs -> RunState] /\ \A q \in Runs : q # r => run'[q] = run[q]
  BY <1>1, SetRun
<1> QED
  BY <1>1, <1>3, <1>4, <1>5, FailsIs, RefsStay, RunStep

LEMMA IdleIs ==
    /\ Idle \in RunState /\ Idle.pc = "idle"
    /\ \A pc \in {"sleep", "check"} :
          [Idle EXCEPT !.pc = pc] \in RunState /\ [Idle EXCEPT !.pc = pc].pc = pc
    /\ [[Idle EXCEPT !.pc = "check"] EXCEPT !.kind = "poll"] \in RunState
    /\ [[Idle EXCEPT !.pc = "check"] EXCEPT !.kind = "poll"].pc = "check"
<1>1. Idle \in RunState /\ Idle.pc = "idle"
  <2>1. <<>> \in Seq(Branch)
    OBVIOUS
  <2> QED
    BY <2>1 DEF Idle, RunState
<1>2. ASSUME NEW pc \in {"sleep", "check"}
      PROVE  [Idle EXCEPT !.pc = pc] \in RunState /\ [Idle EXCEPT !.pc = pc].pc = pc
  BY <1>1 DEF RunState
<1> DEFINE m == [Idle EXCEPT !.pc = "check"]
<1>3. m \in RunState /\ m.pc = "check"
  BY <1>2
<1> HIDE DEF m
<1>4. [m EXCEPT !.kind = "poll"] \in RunState /\ [m EXCEPT !.kind = "poll"].pc = "check"
  BY <1>3 DEF RunState
<1> QED
  BY <1>1, <1>2, <1>4 DEF m

LEMMA EmitLockedStep == ASSUME PullInv, Observe, EmitLocked PROVE PullInv'
<1>1. card' \in Status /\ Loop \in Runs
  BY DEF PullInv, TypeOK, EmitLocked, Runs
<1> QED
  BY <1>1, IdleIs, Ends DEF EmitLocked, repoVars

LEMMA EmitSnapshotStep == ASSUME PullInv, NEW r \in Runs, Observe, EmitSnapshot(r) PROVE PullInv'
<1>1. card' \in Status
  BY DEF PullInv, RunOK, Targets, EmitSnapshot
<1>2. PICK new \in RunState : new.pc \in {"idle", "check"} /\ run' = [run EXCEPT ![r] = new]
  <2>1. CASE run[r].kind = "toggle_on"
    <3>1. run' = [run EXCEPT ![r] = [[Idle EXCEPT !.pc = "check"] EXCEPT !.kind = "poll"]]
      BY <2>1 DEF EmitSnapshot
    <3> QED
      BY <3>1, IdleIs, Zenon
  <2>2. CASE run[r].kind # "toggle_on"
    BY <2>2, IdleIs DEF EmitSnapshot
  <2> QED
    BY <2>1, <2>2
<1> QED
  BY <1>1, <1>2, Ends DEF EmitSnapshot, repoVars
-----------------------------------------------------------------------------
(* The developers and the operator. *)

LEMMA PeopleStep ==
    ASSUME PullInv, Observe, TypeOK', RefsInv', run' = run,
           \A r \in Runs : /\ asked'[r].targets = asked[r].targets /\ asked'[r].from = asked[r].from
                           /\ \/ asked'[r].switched \/ asked[r].targets = {}
                              \/ asked'[r] = asked[r] /\ head' = head,
           \A b \in Branch : origin'[b].n \in Nat /\ origin[b].n <= origin'[b].n,
           \A b \in Branch : tracking'[b].n \in Nat /\ tracking[b].n <= tracking'[b].n
    PROVE  PullInv'
<1>1. \A r \in Runs : asked'[r].targets \in SUBSET Branch
  BY DEF TypeOK, Asked
<1>2. \A r \in Runs : level'[r] \subseteq asked'[r].targets /\ level[r] \subseteq level'[r]
  BY <1>1, LevelStep
<1>3. ASSUME NEW r \in Runs PROVE RunOK(r)'
  BY <1>2, <1>3, StandsStill
<1> QED
  BY <1>3 DEF PullInv

LEMMA FreshIs ==
    ASSUME TypeOK, NEW b \in Here, NEW at \in {"origin", "here"},
           budget.pushes > 0 \/ budget.moves > 0
    PROVE  /\ Fresh(b, at) \in Commit /\ Fresh(b, at).on = b /\ Fresh(b, at).at = at
           /\ Fresh(b, at).n = Spent + 1 /\ Spent \in Nat
<1>1. budget.pushes \in 0..MaxPushes /\ budget.moves \in 0..MaxMoves
  BY DEF TypeOK
<1> DEFINE n == 1 + MaxPushes - budget.pushes + MaxMoves - budget.moves
<1>2. n \in 0..(MaxPushes + MaxMoves) /\ n = Spent + 1 /\ Spent \in Nat
  <2>1. 1 + MaxPushes - budget.pushes + MaxMoves - budget.moves \in 0..(MaxPushes + MaxMoves)
    BY <1>1, CountingOne
  <2>2. /\ MaxPushes - budget.pushes + MaxMoves - budget.moves \in Nat
        /\ 1 + MaxPushes - budget.pushes + MaxMoves - budget.moves
             = (MaxPushes - budget.pushes + MaxMoves - budget.moves) + 1
    BY <1>1, Counting
  <2> QED
    BY <2>1, <2>2, Zenon DEF Spent
<1>3. Fresh(b, at) = [on |-> b, at |-> at, n |-> n]
  BY DEF Fresh
<1> HIDE DEF n
<1> QED
  BY <1>2, <1>3 DEF Commit

LEMMA Numbers ==
    ASSUME PullInv
    PROVE  /\ TypeOK /\ RefsInv
           /\ \A b \in Branch : /\ b \in Here /\ origin[b] \in Commit /\ tracking[b] \in Commit
                                /\ origin[b].n \in Nat /\ tracking[b].n \in Nat
                                /\ origin[b].n <= origin[b].n /\ tracking[b].n <= tracking[b].n
           /\ \A r \in Runs : asked[r] \in Asked
<1>1. \A c \in Commit : c.n \in Nat
  BY DEF Commit
<1> QED
  BY <1>1 DEF PullInv, TypeOK, Here

LEMMA NullIs == \A c \in Commit : c # Null
  OBVIOUS

LEMMA PushStep == ASSUME PullInv, NEW b \in Branch, Push(b), Observe PROVE PullInv'
<1>1. /\ TypeOK /\ RefsInv /\ budget.pushes > 0
      /\ UNCHANGED <<tracking, local, head, dirty, status, card, run, asked>>
  BY DEF PullInv, Push, repoVars
<1> DEFINE c == Fresh(b, "origin")
<1>2. c \in Commit /\ c.on = b /\ c.at = "origin" /\ c.n = Spent + 1 /\ Spent \in Nat
  BY <1>1, Numbers, FreshIs
<1>3. origin' = [origin EXCEPT ![b] = c]
  BY DEF Push
<1> HIDE DEF c
<1>4. /\ origin' \in [Branch -> Commit] /\ origin'[b] = c
      /\ \A d \in Branch : d # b => origin'[d] = origin[d]
  BY <1>1, <1>2, <1>3 DEF TypeOK
<1>5. /\ budget' \in [pushes: 0..MaxPushes, moves: 0..MaxMoves,
                      failures: 0..MaxFailures, commands: 0..MaxCommands]
      /\ budget'.pushes = budget.pushes - 1 /\ budget'.moves = budget.moves
  <2>1. budget \in [pushes: 0..MaxPushes, moves: 0..MaxMoves,
                    failures: 0..MaxFailures, commands: 0..MaxCommands]
    BY <1>1 DEF TypeOK
  <2> QED
    BY <1>1, <2>1 DEF Push
<1>6. Spent' = Spent + 1
  <2>1. budget.pushes \in 0..MaxPushes /\ budget.moves \in 0..MaxMoves
    BY <1>1 DEF TypeOK
  <2>2. Spent' = MaxPushes - (budget.pushes - 1) + MaxMoves - budget.moves
    BY <1>5 DEF Spent
  <2> QED
    BY <2>1, <2>2, Counting DEF Spent
<1>7. level' \in [Runs -> SUBSET Branch]
  <2>1. \A r \in Runs : asked'[r] = asked[r] /\ asked[r].targets \in SUBSET Branch
    BY <1>1, RunIs
  <2> QED
    BY <2>1, LevelStep
<1>8. TypeOK'
  BY <1>1, <1>4, <1>5, <1>7, Zenon DEF TypeOK
<1>9. \A d \in Branch : /\ origin'[d].n \in Nat /\ origin[d].n <= origin'[d].n
                        /\ origin'[d].n <= Spent' /\ IsOrigins(d, origin'[d])
  <2>1. SUFFICES ASSUME NEW d \in Branch
                 PROVE  /\ origin'[d].n \in Nat /\ origin[d].n <= origin'[d].n
                        /\ origin'[d].n <= Spent' /\ IsOrigins(d, origin'[d])
    OBVIOUS
  <2>2. origin[d].n \in Nat /\ origin[d].n <= Spent /\ IsOrigins(d, origin[d])
    BY <1>1, Numbers DEF RefsInv
  <2>3. CASE d = b
    <3>1. IsOrigins(d, c)
      <4>1. c # Null
        BY <1>2, NullIs
      <4> QED
        BY <1>2, <2>3, <4>1 DEF IsOrigins
    <3> QED
      BY <1>2, <1>4, <1>6, <2>2, <2>3, <3>1
  <2>4. CASE d # b
    BY <1>2, <1>4, <1>6, <2>2, <2>4
  <2> QED
    BY <2>3, <2>4
<1>10. RefsInv'
  <2>1. SUFFICES ASSUME NEW d \in Branch
                 PROVE  /\ IsOrigins(d, origin'[d]) /\ origin'[d].n <= Spent'
                        /\ IsOrigins(d, tracking[d]) /\ tracking[d].n <= origin'[d].n
                        /\ IsOrigins(d, local[d]) => local[d].n <= tracking[d].n
    BY <1>1 DEF RefsInv
  <2>2. tracking[d].n \in Nat /\ origin[d].n \in Nat
    BY Numbers
  <2> QED
    BY <1>1, <1>9, <2>2 DEF RefsInv
<1> QED
  BY <1>1, <1>8, <1>9, <1>10, Numbers, PeopleStep

LEMMA MovesIs ==
    ASSUME TypeOK, Moves
    PROVE  /\ budget' \in [pushes: 0..MaxPushes, moves: 0..MaxMoves,
                           failures: 0..MaxFailures, commands: 0..MaxCommands]
           /\ Spent' = Spent + 1 /\ Spent \in Nat
<1>1. budget \in [pushes: 0..MaxPushes, moves: 0..MaxMoves,
                  failures: 0..MaxFailures, commands: 0..MaxCommands]
  BY DEF TypeOK
<1>2. /\ budget' \in [pushes: 0..MaxPushes, moves: 0..MaxMoves,
                      failures: 0..MaxFailures, commands: 0..MaxCommands]
      /\ budget'.pushes = budget.pushes /\ budget'.moves = budget.moves - 1
  BY <1>1 DEF Moves
<1>3. budget.pushes \in 0..MaxPushes /\ budget.moves \in 0..MaxMoves
  BY <1>1
<1>4. Spent' = MaxPushes - budget.pushes + MaxMoves - (budget.moves - 1)
  BY <1>2 DEF Spent
<1>5. /\ MaxPushes - budget.pushes + MaxMoves - budget.moves \in Nat
      /\ MaxPushes - budget.pushes + MaxMoves - (budget.moves - 1)
           = (MaxPushes - budget.pushes + MaxMoves - budget.moves) + 1
  BY <1>3, Counting
<1> QED
  BY <1>2, <1>4, <1>5, Zenon DEF Spent

(* The operator edits, commits or switches: the monitor's refs stay. *)
LEMMA OperatorStep ==
    ASSUME PullInv, Observe, Moves, UNCHANGED <<origin, tracking, status, card, run>>,
           local' \in [Here -> Commit \cup {Null}],
           \A b \in Branch : IsOrigins(b, local'[b]) => local'[b] = local[b],
           head' \in Here, dirty' \subseteq {"tracked", "untracked"}, asked' \in [Runs -> Asked],
           \A r \in Runs : /\ asked'[r].targets = asked[r].targets /\ asked'[r].from = asked[r].from
                           /\ \/ asked'[r].switched \/ asked[r].targets = {}
                              \/ asked'[r] = asked[r] /\ head' = head
    PROVE  PullInv'
<1>1. TypeOK /\ RefsInv
  BY DEF PullInv
<1>2. level' \in [Runs -> SUBSET Branch]
  <2>1. \A r \in Runs : asked'[r].targets \in SUBSET Branch
    BY DEF Asked
  <2> QED
    BY <2>1, LevelStep
<1>3. TypeOK'
  BY <1>1, <1>2, MovesIs, Zenon DEF TypeOK
<1>4. RefsInv'
  <2>1. SUFFICES ASSUME NEW b \in Branch
                 PROVE  /\ IsOrigins(b, origin[b]) /\ origin[b].n <= Spent'
                        /\ IsOrigins(b, tracking[b]) /\ tracking[b].n <= origin[b].n
                        /\ IsOrigins(b, local'[b]) => local'[b].n <= tracking[b].n
    BY DEF RefsInv
  <2>2. origin[b].n \in Nat /\ Spent' = Spent + 1 /\ Spent \in Nat
    BY <1>1, Numbers, MovesIs
  <2> QED
    BY <1>1, <2>2 DEF RefsInv
<1> QED
  BY <1>3, <1>4, Numbers, PeopleStep

LEMMA EditStep ==
    ASSUME PullInv, NEW file \in {"tracked", "untracked"}, Edit(file), Observe
    PROVE  PullInv'
<1>1. TypeOK
  BY DEF PullInv
<1>2. dirty' \subseteq {"tracked", "untracked"} /\ head' \in Here /\ asked' \in [Runs -> Asked]
      /\ local' \in [Here -> Commit \cup {Null}]
  BY <1>1 DEF Edit, TypeOK
<1> QED
  BY <1>2, OperatorStep DEF Edit

LEMMA CommitWorkStep == ASSUME PullInv, CommitWork, Observe PROVE PullInv'
<1>1. TypeOK /\ head \in Here /\ budget.moves > 0
  BY DEF PullInv, TypeOK, CommitWork, Moves
<1> DEFINE c == Fresh(head, "here")
<1>2. c \in Commit /\ c.at = "here"
  BY <1>1, FreshIs
<1>3. local' = [local EXCEPT ![head] = c]
  BY DEF CommitWork
<1> HIDE DEF c
<1>4. /\ local' \in [Here -> Commit \cup {Null}] /\ local'[head] = c
      /\ \A b \in Here : b # head => local'[b] = local[b]
  BY <1>1, <1>2, <1>3 DEF TypeOK
<1>5. \A b \in Branch : IsOrigins(b, local'[b]) => local'[b] = local[b]
  BY <1>2, <1>4 DEF IsOrigins, Here
<1>6. head' \in Here /\ asked' \in [Runs -> Asked] /\ dirty' = {}
  BY <1>1 DEF CommitWork, TypeOK
<1> QED
  BY <1>4, <1>5, <1>6, OperatorStep DEF CommitWork

LEMMA SwitchStep == ASSUME PullInv, NEW b \in Here, Switch(b), Observe PROVE PullInv'
<1>1. TypeOK /\ asked \in [Runs -> Asked] /\ local' = local
  BY DEF PullInv, TypeOK, Switch
<1>2. ASSUME NEW r \in Runs
      PROVE  /\ asked'[r] \in Asked
             /\ asked'[r].targets = asked[r].targets /\ asked'[r].from = asked[r].from
             /\ asked'[r].switched \/ asked[r].targets = {}
  <2>1. asked'[r] = [asked[r] EXCEPT !.switched = asked[r].targets # {}]
    BY <1>2 DEF Switch
  <2>2. asked[r] \in Asked
    BY <1>1, <1>2
  <2>3. /\ asked'[r].targets = asked[r].targets /\ asked'[r].from = asked[r].from
        /\ asked'[r].switched = (asked[r].targets # {})
    BY <2>1, <2>2 DEF Asked
  <2>4. asked'[r] \in Asked
    BY <2>1, <2>2 DEF Asked
  <2> QED
    BY <2>3, <2>4
<1>3. asked' \in [Runs -> Asked]
  BY <1>2 DEF Switch
<1>4. local' \in [Here -> Commit \cup {Null}] /\ head' \in Here /\ dirty' \subseteq {"tracked", "untracked"}
  BY <1>1 DEF Switch, TypeOK
<1> QED
  BY <1>1, <1>2, <1>3, <1>4, OperatorStep DEF Switch

LEMMA TogglePopupStep == ASSUME PullInv, TogglePopup, Observe PROVE PullInv'
<1>1. /\ TypeOK /\ RefsInv
      /\ UNCHANGED <<origin, tracking, local, head, dirty, status, run, asked, budget>>
      /\ card' \in Status
  BY DEF PullInv, TogglePopup, repoVars, TypeOK
<1>2. level' \in [Runs -> SUBSET Branch]
  <2>1. \A r \in Runs : asked'[r] = asked[r] /\ asked[r].targets \in SUBSET Branch
    BY <1>1, RunIs
  <2> QED
    BY <2>1, LevelStep
<1>3. TypeOK'
  BY <1>1, <1>2, Zenon DEF TypeOK
<1>4. RefsInv'
  BY <1>1 DEF RefsInv, Spent
<1> QED
  BY <1>1, <1>3, <1>4, Numbers, PeopleStep

-----------------------------------------------------------------------------
LEMMA InitPullInv == Init => PullInv
<1> SUFFICES ASSUME Init PROVE PullInv
  OBVIOUS
<1>1. \A b \in Here : /\ First(b) \in Commit /\ First(b).n = 0 /\ First(b).on = b
                      /\ First(b).at = "origin"
  BY DEF First, Commit
<1>2. /\ origin = [b \in Branch |-> First(b)] /\ tracking = origin
      /\ local \in [Here -> {First(b) : b \in Here} \cup {Null}]
      /\ \A b \in Branch : local[b] \in {First(b), Null}
      /\ head \in Here /\ dirty = {}
      /\ status = [enabled |-> TRUE, state |-> [b \in Branch |-> "unknown"]] /\ card = status
      /\ run = [r \in Runs |-> IF r = Loop THEN [Idle EXCEPT !.pc = "sleep"] ELSE Idle]
      /\ asked = [r \in Runs |-> NotAsked] /\ level = [r \in Runs |-> {}]
      /\ budget = [pushes |-> MaxPushes, moves |-> MaxMoves,
                   failures |-> MaxFailures, commands |-> MaxCommands]
  BY DEF Init
<1>3. \A b \in Branch : b \in Here /\ origin[b] = First(b) /\ tracking[b] = First(b)
  BY <1>2 DEF Here
<1>4. /\ origin \in [Branch -> Commit] /\ tracking \in [Branch -> Commit]
      /\ local \in [Here -> Commit \cup {Null}]
  BY <1>1, <1>2, <1>3
<1>5. status \in Status
  BY <1>2 DEF Status, BranchState
<1>6. NotAsked \in Asked /\ NotAsked.targets = {}
  BY <1>1, <1>3 DEF NotAsked, Asked
<1>7. /\ \A r \in Runs : /\ run[r] \in RunState /\ run[r].pc \in {"idle", "sleep"}
                         /\ asked[r] = NotAsked /\ level[r] = {}
      /\ run \in [Runs -> RunState]
  <2>1. [Idle EXCEPT !.pc = "sleep"] \in RunState /\ [Idle EXCEPT !.pc = "sleep"].pc = "sleep"
    BY IdleIs
  <2> DEFINE sleeping == [Idle EXCEPT !.pc = "sleep"]
  <2>2. run = [r \in Runs |-> IF r = Loop THEN sleeping ELSE Idle]
    BY <1>2
  <2>3. sleeping \in RunState /\ sleeping.pc = "sleep"
    BY <2>1
  <2> HIDE DEF sleeping
  <2>4. \A r \in Runs : run[r] \in {sleeping, Idle}
    BY <2>2
  <2>5. \A r \in Runs : run[r] \in RunState /\ run[r].pc \in {"idle", "sleep"}
    BY <2>3, <2>4, IdleIs
  <2> QED
    BY <1>2, <2>2, <2>5
<1>8. budget \in [pushes: 0..MaxPushes, moves: 0..MaxMoves,
                  failures: 0..MaxFailures, commands: 0..MaxCommands] /\ Spent = 0
  BY <1>2 DEF Spent
<1>9. asked \in [Runs -> Asked] /\ level \in [Runs -> SUBSET Branch]
  BY <1>2, <1>6
<1>10. TypeOK
  BY <1>2, <1>4, <1>5, <1>7, <1>8, <1>9 DEF TypeOK
<1>11. RefsInv
  <2>1. SUFFICES ASSUME NEW b \in Branch
                 PROVE  /\ IsOrigins(b, First(b)) /\ First(b).n <= Spent
                        /\ IsOrigins(b, local[b]) => local[b].n <= First(b).n
    BY <1>1, <1>3 DEF RefsInv
  <2>2. First(b) # Null /\ local[b] \in {First(b), Null}
    BY <1>1, <1>2, <1>3, NullIs
  <2> QED
    BY <1>1, <1>3, <1>8, <2>2 DEF IsOrigins
<1>12. ASSUME NEW r \in Runs PROVE RunOK(r)
  BY <1>6, <1>7 DEF RunOK, Targets, Fetched, CheckedOut, WasLevel, ShownWasLevel, At, Syncing
<1> QED
  BY <1>10, <1>11, <1>12 DEF PullInv
LEMMA StepOfStep == ASSUME PullInv, NEW r \in Runs, StepOf(r), Observe PROVE PullInv'
  BY WakeStep, EmitLockedStep, CheckEnabledStep, TakeSnapshotStep, EmitSnapshotStep,
     FetchBranchesStep, ReadHeadStep, ReadLocalStep, ReadRemoteStep, ReadStatusStep,
     ResetHardStep, CleanStep, FetchIntoStep, ShowStep DEF StepOf

LEMMA NextPullInv == PullInv /\ [Next]_vars => PullInv'
<1> SUFFICES ASSUME PullInv, [Next]_vars PROVE PullInv'
  OBVIOUS
<1>1. CASE People /\ Observe
  BY <1>1, PushStep, EditStep, CommitWorkStep, SwitchStep DEF People
<1>2. CASE Commands /\ Observe
  <2>1. PICK r \in Command : \/ \E enabled \in BOOLEAN : Toggle(r, enabled)
                             \/ \E order \in Orders \cup Single : PullNow(r, order)
    BY <1>2 DEF Commands
  <2>2. r \in Runs
    BY DEF Runs
  <2> QED
    BY <1>2, <2>1, <2>2, ToggleStep, PullNowStep
<1>3. CASE TogglePopup /\ Observe
  BY <1>3, TogglePopupStep
<1>4. CASE \E r \in Runs : StepOf(r) /\ Observe
  BY <1>4, StepOfStep
<1>5. CASE UNCHANGED vars
  <2>1. /\ origin' = origin /\ tracking' = tracking /\ local' = local /\ head' = head
        /\ dirty' = dirty /\ status' = status /\ card' = card /\ run' = run /\ asked' = asked
        /\ level' = level /\ budget' = budget
    BY <1>5 DEF vars, repoVars
  <2>2. TypeOK' /\ RefsInv'
    BY <2>1 DEF PullInv, TypeOK, RefsInv, Spent
  <2>3. ASSUME NEW r \in Runs PROVE RunOK(r)'
    BY <2>1, <2>3 DEF PullInv, RunOK, Targets, TargetsOf, Fetched, CheckedOut, WasLevel,
                      ShownWasLevel, At
  <2> QED
    BY <2>2, <2>3 DEF PullInv
<1> QED
  BY <1>1, <1>2, <1>3, <1>4, <1>5 DEF Next

(* Whatever the loop, the commands, the operator and the developers do to    *)
(* one working tree at once: a branch shown as up to date or just pulled was *)
(* level with origin while the run that shows it was under way, or the       *)
(* operator switched branches under that run (git.rs:133-215, 333-430).      *)
THEOREM Invariance == Spec => []PullInv
  BY InitPullInv, NextPullInv, PTL DEF Spec

-----------------------------------------------------------------------------
(* What a step may do. *)

(* Only reset, clean and the fetch into a branch move branches or the tree. *)
LEMMA WhatMoves ==
    ASSUME NEW r \in Runs, StepOf(r)
    PROVE  \/ local' = local /\ dirty' = dirty
           \/ ResetHard(r) \/ Clean(r) \/ FetchInto(r)
  BY DEF StepOf, Wake, EmitLocked, CheckEnabled, TakeSnapshot, EmitSnapshot, FetchBranches,
         ReadHead, ReadLocal, ReadRemote, ReadStatus, Show, repoVars

LEMMA ItsBranchesOnly ==
    ASSUME PullInv, NEW r \in Runs, StepOf(r), ~asked[r].switched
    PROVE  /\ \A b \in Here : local'[b] # local[b] => b \in asked[r].targets
           /\ dirty' # dirty => head \in asked[r].targets
<1> DEFINE t == Head(run[r].todo)
<1>1. TypeOK /\ Targets(r) /\ CheckedOut(r)
  BY DEF PullInv, RunOK
<1>2. run[r].pc \in Syncing => t \in asked[r].targets /\ t \in Here
  BY <1>1, WorksOn
<1>3. CASE ResetHard(r)
  <2>1. run[r].pc = "reset" /\ head = t
    BY <1>1, <1>3 DEF ResetHard, At, CheckedOut, Syncing
  <2>2. local' = local \/ local' = [local EXCEPT ![head] = ResetTo(r)]
    BY <1>3 DEF ResetHard
  <2>3. \A b \in Here : b # head => local'[b] = local[b]
    BY <1>1, <2>2 DEF TypeOK
  <2> QED
    BY <1>2, <2>1, <2>3 DEF Syncing
<1>4. CASE Clean(r)
  <2>1. run[r].pc = "clean" /\ head = t /\ local' = local
    BY <1>1, <1>4 DEF Clean, At, CheckedOut, Syncing
  <2> QED
    BY <1>2, <2>1 DEF Syncing
<1>5. CASE FetchInto(r)
  <2>1. run[r].pc = "fetchInto" /\ dirty' = dirty
    BY <1>5 DEF FetchInto, At
  <2>2. local' = local \/ local' = [local EXCEPT ![t] = origin[t]]
    BY <1>5 DEF FetchInto
  <2>3. \A b \in Here : b # t => local'[b] = local[b]
    BY <1>1, <2>2 DEF TypeOK
  <2> QED
    BY <1>2, <2>1, <2>3 DEF Syncing
<1> QED
  BY <1>3, <1>4, <1>5, WhatMoves

(* A step of the monitor moves only branches its run is about, and cleans    *)
(* the tree only while such a branch is checked out, unless the operator     *)
(* switched branches during the run (git.rs:115-129).                        *)
THEOREM KeepsToItsBranches == Spec => OnlyItsBranches
<1>1. PullInv /\ [Next]_vars =>
        [\A r \in Runs : StepOf(r) /\ ~asked[r].switched =>
            /\ \A b \in Here : local'[b] # local[b] => b \in asked[r].targets
            /\ dirty' # dirty => head \in asked[r].targets]_vars
  BY ItsBranchesOnly
<1> QED
  BY <1>1, Invariance, PTL DEF Spec, OnlyItsBranches

LEMMA NoneGoesBack ==
    ASSUME PullInv, [Next]_vars, NEW b \in Branch, IsOrigins(b, local[b]), IsOrigins(b, local'[b])
    PROVE  local'[b].n >= local[b].n
<1>1. /\ TypeOK /\ RefsInv /\ local[b].n <= tracking[b].n /\ tracking[b].n <= origin[b].n
      /\ b \in Here /\ tracking[b].n \in Nat /\ origin[b].n \in Nat
  BY Numbers DEF RefsInv
<1>2. local[b] \in Commit /\ local[b].n \in Nat
  <2>1. local[b] \in Commit
    BY <1>1 DEF TypeOK, IsOrigins
  <2> QED
    BY <2>1 DEF Commit
<1>3. CASE local'[b] = local[b]
  BY <1>2, <1>3
<1>4. ASSUME NEW r \in Runs, StepOf(r) PROVE local'[b].n >= local[b].n
  <2> DEFINE t == Head(run[r].todo)
  <2>1. Targets(r)
    BY <1>4 DEF PullInv, RunOK
  <2>2. CASE ResetHard(r)
    <3>1. t \in Branch /\ IsOrigins(t, tracking[t])
      BY <1>1, <2>1, <2>2, WorksOn DEF ResetHard, At, Syncing, RefsInv
    <3>2. local' = local \/ local' = [local EXCEPT ![head] = tracking[t]]
      BY <2>2 DEF ResetHard, ResetTo
    <3>3. local'[b] = local[b] \/ (b = head /\ local'[b] = tracking[t])
      BY <1>1, <3>2 DEF TypeOK
    <3>4. CASE local'[b] = tracking[t]
      <4>1. t = b
        BY <3>1, <3>4 DEF IsOrigins
      <4> QED
        BY <1>1, <1>2, <3>4, <4>1
    <3> QED
      BY <1>3, <3>3, <3>4
  <2>3. CASE FetchInto(r)
    <3>1. local' = local \/ local' = [local EXCEPT ![t] = origin[t]]
      BY <2>3 DEF FetchInto
    <3>2. local'[b] = local[b] \/ local'[b] = origin[b]
      BY <1>1, <3>1 DEF TypeOK
    <3> QED
      BY <1>1, <1>2, <1>3, <3>2
  <2>4. Clean(r) => local' = local
    BY DEF Clean
  <2> QED
    BY <1>3, <1>4, <2>2, <2>3, <2>4, WhatMoves
<1>5. CASE CommitWork
  <2>1. local'[b] = local[b] \/ local'[b] = Fresh(head, "here")
    BY <1>1, <1>5 DEF CommitWork, TypeOK
  <2>2. Fresh(head, "here").at = "here"
    BY DEF Fresh
  <2> QED
    BY <1>3, <2>1, <2>2 DEF IsOrigins
<1>6. \/ local' = local \/ CommitWork \/ \E r \in Runs : StepOf(r)
  BY DEF Next, People, Push, Edit, Switch, Commands, Toggle, PullNow, TogglePopup, repoVars, vars
<1> QED
  BY <1>3, <1>4, <1>5, <1>6

(* No run takes a branch back to an older commit of origin, although others  *)
(* fetch between its comparison and its reset (git.rs:115-129, 177-212).     *)
THEOREM OnlyForward == Spec => NeverGoesBack
<1>1. PullInv /\ [Next]_vars =>
        [\A b \in Branch : IsOrigins(b, local[b]) /\ IsOrigins(b, local'[b]) =>
            local'[b].n >= local[b].n]_vars
  BY NoneGoesBack
<1> QED
  BY <1>1, Invariance, PTL DEF Spec, NeverGoesBack
=============================================================================
