---------------------------- MODULE Swarm_proofs ----------------------------
(***************************************************************************)
(* Proofs about the two swarm runners, for any depth, any number of agents *)
(* and children, and any number of faults.                                 *)
(***************************************************************************)
EXTENDS Swarm, DurableSwarm, SequenceTheorems, TLAPS

-----------------------------------------------------------------------------
(* The in-process tree.                                                     *)
(*                                                                         *)
(* A frame's depth is its place on the stack, and only a node that may      *)
(* delegate (below the depth limit) has a frame above it: so the path is    *)
(* never longer than the depth limit allows.  An agent that has not exited  *)
(* is on the path, and one that exited badly is counted: so a run without a *)
(* count against it, whose path is empty, lost nobody.                      *)

NodeRows ==
    [state : {"running", "exited"},
     exit : {"none", "success", "partial", "failed", "timeout", "skipped"}]
Frames ==
    [agent : Nat, depth : Nat, step : {"plan", "answer", "children"}, left : Nat,
     failed : BOOLEAN, partial : BOOLEAN]
Tallies == [success : Nat, partial : Nat, failed : Nat, timeout : Nat, skipped : Nat]
Against(counts) == counts.failed + counts.timeout + counts.partial + counts.skipped

FrameSound(k) ==
    /\ stack[k].depth = k - 1 /\ k <= MaxDepth + 1
    /\ stack[k].step = "children" => k <= MaxDepth
    /\ k < Len(stack) => stack[k].step = "children"
    /\ stack[k].agent \in DOMAIN nodes
    /\ nodes[stack[k].agent].exit = "none"
    /\ mirror[stack[k].agent] \in {"none", "claimed"}
    /\ \A l \in 1 .. k - 1 : stack[l].agent < stack[k].agent

NodeSound(i) ==
    /\ mirror[i] = "committed" => nodes[i].exit \in {"success", "partial", "skipped"}
    /\ mirror[i] = "failed" => nodes[i].exit \in {"failed", "timeout"}
    /\ Against(tally) = 0 => nodes[i].exit \in {"none", "success"}
    /\ tree = "running" /\ nodes[i].exit = "none" =>
          \E k \in DOMAIN stack : stack[k].agent = i

TreeShape ==
    /\ stack \in Seq(Frames) /\ nodes \in Seq(NodeRows)
    /\ mirror \in Seq({"none", "claimed", "committed", "failed"})
    /\ Len(mirror) = Len(nodes) /\ agents = Len(nodes) /\ tally \in Tallies
    /\ tree \in {"idle", "declined", "running", "completed", "partial", "failed"}
    /\ stack # <<>> <=> tree = "running"
    /\ tree = "idle" => nodes = <<>>

TreeInvariant ==
    /\ TreeShape
    /\ \A k \in DOMAIN stack : FrameSound(k)
    /\ \A i \in DOMAIN nodes : NodeSound(i)
    /\ tree = "completed" => \A i \in DOMAIN nodes : nodes[i].exit = "success"

\* Writing one element of a sequence.
LEMMA OneWrite ==
    ASSUME NEW S, NEW s \in Seq(S), NEW i \in 1 .. Len(s), NEW x \in S
    PROVE  /\ [s EXCEPT ![i] = x] \in Seq(S)
           /\ Len([s EXCEPT ![i] = x]) = Len(s)
           /\ [s EXCEPT ![i] = x][i] = x
           /\ \A k \in 1 .. Len(s) : k # i => [s EXCEPT ![i] = x][k] = s[k]
OBVIOUS

\* The innermost frame, and a stack whose innermost frame is rewritten.
LEMMA TopOf ==
    ASSUME TreeInvariant, stack # <<>>
    PROVE  /\ Len(stack) \in Nat \ {0} /\ DOMAIN stack = 1 .. Len(stack)
           /\ Top \in Frames /\ FrameSound(Len(stack)) /\ tree = "running"
           /\ \A f \in Frames :
                 /\ WithTop(f) \in Seq(Frames) /\ Len(WithTop(f)) = Len(stack)
                 /\ WithTop(f)[Len(stack)] = f
                 /\ \A k \in 1 .. Len(stack) - 1 : WithTop(f)[k] = stack[k]
<1>1. stack \in Seq(Frames) /\ tree = "running"
  BY DEF TreeInvariant, TreeShape
<1>2. Len(stack) \in Nat \ {0} /\ DOMAIN stack = 1 .. Len(stack)
  BY <1>1
<1>3. Len(stack) \in DOMAIN stack
  BY <1>2
<1>4. ASSUME NEW f \in Frames
      PROVE  /\ WithTop(f) \in Seq(Frames) /\ Len(WithTop(f)) = Len(stack)
             /\ WithTop(f)[Len(stack)] = f
             /\ \A k \in 1 .. Len(stack) - 1 : WithTop(f)[k] = stack[k]
  <2> DEFINE n == Len(stack)
  <2>1. n \in 1 .. n /\ \A k \in 1 .. n - 1 : k \in 1 .. n /\ k # n
    <3>1. n \in Nat \ {0}
      BY <1>2
    <3> HIDE DEF n
    <3> QED BY <3>1
  <2> QED BY <1>1, <2>1, OneWrite DEF WithTop
<1>5. Top \in Frames /\ FrameSound(Len(stack))
  BY <1>1, <1>3 DEF Top, TreeInvariant
<1> QED BY <1>1, <1>2, <1>4, <1>5

\* The frame of the same node, after its planner was asked.
LEMMA TopMoves ==
    ASSUME TreeInvariant, stack # <<>>, NEW f \in Frames,
           f.agent = Top.agent, f.depth = Top.depth,
           f.step = "children" => Len(stack) <= MaxDepth,
           stack' = WithTop(f), UNCHANGED <<agents, nodes, mirror, tally, tree>>
    PROVE  TreeInvariant'
<1> DEFINE n == Len(stack)
<1>1. /\ n \in Nat \ {0} /\ DOMAIN stack = 1 .. n /\ Top \in Frames /\ Top = stack[n]
      /\ tree = "running"
      /\ stack' \in Seq(Frames) /\ Len(stack') = n /\ stack'[n] = f
      /\ \A k \in 1 .. n - 1 : stack'[k] = stack[k]
  BY TopOf DEF Top
<1>2. DOMAIN stack' = 1 .. n /\ stack' # <<>>
  BY <1>1
<1> HIDE DEF n
<1>3. \A k \in 1 .. n : stack'[k].agent = stack[k].agent /\ stack'[k].depth = stack[k].depth
  BY <1>1
<1>4. TreeShape'
  BY <1>1, <1>2 DEF TreeInvariant, TreeShape
<1>5. ASSUME NEW k \in DOMAIN stack' PROVE FrameSound(k)'
  <2>1. FrameSound(k) /\ k \in 1 .. n
    BY <1>1, <1>2 DEF TreeInvariant
  <2>2. \A l \in 1 .. k - 1 : stack'[l].agent < stack'[k].agent
    BY <1>1, <1>3, <2>1 DEF FrameSound
  <2>3. /\ k < Len(stack') => stack'[k].step = "children"
        /\ stack'[k].step = "children" => k <= MaxDepth
    BY <1>1, <2>1 DEF FrameSound, n
  <2> QED BY <1>3, <2>1, <2>2, <2>3 DEF FrameSound
<1>6. ASSUME NEW i \in DOMAIN nodes PROVE NodeSound(i)'
  <2>1. NodeSound(i)
    BY DEF TreeInvariant
  <2> QED BY <1>1, <1>2, <1>3, <2>1 DEF NodeSound, Against
<1> QED BY <1>1, <1>4, <1>5, <1>6 DEF TreeInvariant

\* What a node returns, and what is counted for it.
Outcome(exit, failed, counts) ==
    /\ counts \in Tallies /\ failed \in BOOLEAN
    /\ exit \in {"success", "partial", "failed", "timeout"}
    /\ Against(counts) = 0 => Against(tally) = 0 /\ exit = "success"
    /\ failed = TRUE <=> exit \in {"failed", "timeout"}

LEMMA ReturnKept ==
    ASSUME TreeInvariant, stack # <<>>, NEW exit, NEW failed, NEW partial \in BOOLEAN, NEW counts,
           Outcome(exit, failed, counts), Return(Top, exit, failed, partial, counts)
    PROVE  TreeInvariant'
<1> DEFINE n == Len(stack)
           a == Top.agent
           row == [state |-> "exited", exit |-> exit]
<1>1. /\ n \in Nat \ {0} /\ DOMAIN stack = 1 .. n /\ Top \in Frames /\ Top = stack[n]
      /\ FrameSound(n) /\ tree = "running" /\ stack \in Seq(Frames)
  BY TopOf DEF Top, TreeInvariant, TreeShape
<1>2. /\ nodes \in Seq(NodeRows) /\ mirror \in Seq({"none", "claimed", "committed", "failed"})
      /\ Len(mirror) = Len(nodes) /\ DOMAIN nodes = DOMAIN mirror
      /\ a \in DOMAIN nodes /\ mirror[a] \in {"none", "claimed"}
  BY <1>1 DEF TreeInvariant, TreeShape, FrameSound
<1>3. row \in NodeRows /\ row.exit = exit
  BY DEF NodeRows, Outcome
<1>4. /\ nodes' = [nodes EXCEPT ![a] = row] /\ tally' = counts /\ agents' = agents
  BY DEF Return
<1> HIDE DEF row
<1>5. /\ nodes' \in Seq(NodeRows) /\ Len(nodes') = Len(nodes) /\ DOMAIN nodes' = DOMAIN nodes
      /\ nodes'[a] = row /\ \A i \in DOMAIN nodes \ {a} : nodes'[i] = nodes[i]
  BY <1>2, <1>3, <1>4
<1>6. /\ mirror' \in Seq({"none", "claimed", "committed", "failed"}) /\ Len(mirror') = Len(mirror)
      /\ \A i \in DOMAIN nodes \ {a} : mirror'[i] = mirror[i]
      /\ mirror'[a] \in {"none", "claimed", IF failed THEN "failed" ELSE "committed"}
  <2>1. mirror' = mirror \/ mirror' = [mirror EXCEPT ![a] = IF failed THEN "failed" ELSE "committed"]
    BY DEF Return, Mirrored
  <2> QED BY <1>2, <2>1
<1>7. \A k \in 1 .. n - 1 : stack[k].agent # a /\ stack[k].agent \in DOMAIN nodes /\ stack[k] \in Frames
  <2> TAKE k \in 1 .. n - 1
  <2>1. k \in DOMAIN stack
    BY <1>1
  <2>2. stack[k].agent < stack[n].agent /\ stack[k] \in Frames /\ FrameSound(k)
    BY <1>1, <2>1 DEF FrameSound, TreeInvariant
  <2> QED BY <1>1, <2>2 DEF FrameSound, Frames
<1>8. ASSUME NEW i \in DOMAIN nodes
      PROVE  /\ mirror'[i] = "committed" => nodes'[i].exit \in {"success", "partial", "skipped"}
             /\ mirror'[i] = "failed" => nodes'[i].exit \in {"failed", "timeout"}
             /\ Against(tally') = 0 => nodes'[i].exit \in {"none", "success"}
  <2>1. NodeSound(i)
    BY DEF TreeInvariant
  <2>2. CASE i # a
    BY <1>4, <1>5, <1>6, <2>1, <2>2 DEF NodeSound, Outcome
  <2>3. CASE i = a
    <3>1. nodes'[i].exit = exit
      BY <1>3, <1>5, <2>3
    <3> QED BY <1>4, <1>6, <2>3, <3>1 DEF Outcome
  <2> QED BY <2>2, <2>3
<1>9. CASE n = 1 /\ stack' = <<>> /\ \E blank \in BOOLEAN : tree' = RunStatus(failed \/ blank, partial, counts)
  <2>1. tree' \in {"failed", "partial", "completed"} /\ (tree' = "completed" => Against(counts) <= 0)
    BY <1>9 DEF RunStatus, Against, Outcome, Tallies
  <2>2. Against(counts) \in Nat
    BY DEF Outcome, Against, Tallies
  <2>3. TreeShape'
    BY <1>2, <1>4, <1>5, <1>6, <1>9, <2>1 DEF TreeInvariant, TreeShape, Outcome
  <2>4. ASSUME tree' = "completed", NEW i \in DOMAIN nodes PROVE nodes'[i].exit = "success"
    <3>1. Against(counts) = 0 /\ Against(tally) = 0 /\ exit = "success"
      BY <2>1, <2>2, <2>4 DEF Outcome
    <3>2. CASE i = a
      BY <1>3, <1>5, <3>1, <3>2
    <3>3. CASE i # a
      <4>1. NodeSound(i)
        BY DEF TreeInvariant
      <4>2. \A k \in DOMAIN stack : stack[k].agent = a
        BY <1>1, <1>9
      <4>3. nodes[i].exit = "success"
        BY <1>1, <3>1, <3>3, <4>1, <4>2 DEF NodeSound
      <4> QED BY <1>5, <3>3, <4>3
    <3> QED BY <3>2, <3>3
  <2>5. \A i \in DOMAIN nodes' : NodeSound(i)'
    BY <1>5, <1>8, <2>1 DEF NodeSound, Against
  <2> QED BY <1>5, <1>9, <2>3, <2>4, <2>5 DEF TreeInvariant
<1>10. CASE /\ n > 1 /\ UNCHANGED tree
            /\ LET parent == Below[Len(Below)]
               IN stack' = [Below EXCEPT ![Len(Below)] =
                    [parent EXCEPT !.failed = @ \/ failed, !.partial = @ \/ partial]]
  <2> DEFINE parent == stack[n - 1]
             f == [parent EXCEPT !.failed = @ \/ failed, !.partial = @ \/ partial]
  <2>1. Below \in Seq(Frames) /\ Len(Below) = n - 1 /\ \A k \in 1 .. n - 1 : Below[k] = stack[k]
    BY <1>1, <1>10 DEF Below
  <2>2. n - 1 \in 1 .. n - 1 /\ Below[n - 1] = parent /\ parent \in Frames
    BY <1>1, <1>7, <1>10, <2>1
  <2>3. stack' = [Below EXCEPT ![n - 1] = f]
    BY <1>10, <2>1, <2>2
  <2>4. f \in Frames /\ f.agent = parent.agent /\ f.depth = parent.depth /\ f.step = parent.step
    BY <2>2 DEF Frames, Outcome
  <2> HIDE DEF f
  <2>5. /\ stack' \in Seq(Frames) /\ Len(stack') = n - 1 /\ DOMAIN stack' = 1 .. n - 1
        /\ stack'[n - 1] = f /\ \A k \in 1 .. n - 2 : stack'[k] = stack[k]
    <3> HIDE DEF n, parent
    <3>1. \A k \in 1 .. n - 2 : k \in 1 .. n - 1 /\ k # n - 1
      BY <1>1
    <3>2. n - 1 \in 1 .. Len(Below)
      BY <2>1, <2>2
    <3>3. /\ stack' \in Seq(Frames) /\ Len(stack') = Len(Below) /\ stack'[n - 1] = f
          /\ \A k \in 1 .. Len(Below) : k # n - 1 => stack'[k] = Below[k]
      BY <2>1, <2>3, <2>4, <3>2, OneWrite
    <3>4. DOMAIN stack' = 1 .. Len(stack')
      BY <3>3
    <3> QED BY <2>1, <3>1, <3>3, <3>4
  <2>6. \A k \in 1 .. n - 1 : /\ stack'[k].agent = stack[k].agent /\ stack'[k].depth = stack[k].depth
                              /\ stack'[k].step = stack[k].step
    <3> TAKE k \in 1 .. n - 1
    <3>1. k \in 1 .. n - 2 \/ k = n - 1
      <4> HIDE DEF n
      <4> QED BY <1>1
    <3> QED BY <2>4, <2>5, <3>1
  <2>7. TreeShape'
    <3>1. stack' # <<>>
      BY <1>1, <1>10, <2>5
    <3> QED BY <1>1, <1>2, <1>4, <1>5, <1>6, <1>10, <2>5, <3>1 DEF TreeInvariant, TreeShape, Outcome
  <2>8. ASSUME NEW k \in DOMAIN stack' PROVE FrameSound(k)'
    <3>1. k \in 1 .. n - 1 /\ k \in DOMAIN stack /\ k < n
      BY <1>1, <2>5
    <3>2. FrameSound(k)
      BY <3>1 DEF TreeInvariant
    <3>3. \A l \in 1 .. k - 1 : stack'[l].agent < stack'[k].agent
      BY <1>1, <2>6, <3>1, <3>2 DEF FrameSound
    <3>4. stack[k].agent \in DOMAIN nodes /\ stack[k].agent # a
      BY <1>7, <3>1
    <3> QED BY <1>5, <1>6, <2>6, <3>1, <3>2, <3>3, <3>4 DEF FrameSound, n
  <2>9. ASSUME NEW i \in DOMAIN nodes PROVE NodeSound(i)'
    <3>1. tree' = "running" /\ nodes'[i].exit = "none" => \E k \in DOMAIN stack' : stack'[k].agent = i
      <4> SUFFICES ASSUME nodes'[i].exit = "none" PROVE \E k \in DOMAIN stack' : stack'[k].agent = i
        OBVIOUS
      <4>1. i # a
        BY <1>3, <1>5 DEF Outcome
      <4>2. PICK k \in DOMAIN stack : stack[k].agent = i
        BY <1>1, <1>5, <4>1 DEF TreeInvariant, NodeSound
      <4>3. k \in 1 .. n - 1
        BY <1>1, <4>1, <4>2
      <4> QED BY <2>5, <2>6, <4>2, <4>3
    <3> QED BY <1>8, <3>1 DEF NodeSound, Against
  <2> QED BY <1>1, <1>5, <1>10, <2>7, <2>8, <2>9 DEF TreeInvariant
<1> QED BY <1>9, <1>10 DEF Return

\* The counts.
LEMMA CountsUp ==
    ASSUME TreeInvariant
    PROVE  /\ Against(tally) \in Nat
           /\ TimedOut \in Tallies /\ Against(TimedOut) # 0
           /\ \A field \in DOMAIN NoTally :
                 /\ Counted1(field) \in Tallies
                 /\ Against(Counted1(field)) = 0 => Against(tally) = 0
                 /\ field # "success" => Against(Counted1(field)) # 0
<1>1. tally \in Tallies
  BY DEF TreeInvariant, TreeShape
<1>2. TimedOut \in Tallies /\ Against(TimedOut) # 0 /\ Against(tally) \in Nat
  <2>1. Against(tally) \in Nat
    BY <1>1 DEF Against, Tallies
  <2> DEFINE out == TimedOut
  <2>2. /\ out \in Tallies /\ out.failed = tally.failed + 1 /\ out.timeout = tally.timeout + 1
    <3> DEFINE a == tally.timeout + 1
               b == tally.failed + 1
    <3>1. a \in Nat /\ b \in Nat
      BY <1>1 DEF Tallies
    <3>2. out = [tally EXCEPT !.timeout = a, !.failed = b]
      BY <1>1 DEF TimedOut, Tallies
    <3> HIDE DEF a, b, out
    <3>3. out \in Tallies /\ out.failed = b /\ out.timeout = a
      BY <1>1, <3>1, <3>2 DEF Tallies
    <3> QED BY <3>3 DEF a, b
  <2> HIDE DEF out
  <2>3. Against(out) # 0
    BY <1>1, <2>2 DEF Against, Tallies
  <2> QED BY <2>1, <2>2, <2>3 DEF out
<1>3. ASSUME NEW field \in {"success", "partial", "failed", "timeout", "skipped"}
      PROVE  /\ Counted1(field) \in Tallies
             /\ Against(Counted1(field)) = 0 => Against(tally) = 0
             /\ field # "success" => Against(Counted1(field)) # 0
  <2>1. CASE field = "success"
    BY <1>1, <2>1 DEF Counted1, Against, Tallies
  <2>2. CASE field = "partial"
    BY <1>1, <2>2 DEF Counted1, Against, Tallies
  <2>3. CASE field = "failed"
    BY <1>1, <2>3 DEF Counted1, Against, Tallies
  <2>4. CASE field = "timeout"
    BY <1>1, <2>4 DEF Counted1, Against, Tallies
  <2>5. CASE field = "skipped"
    BY <1>1, <2>5 DEF Counted1, Against, Tallies
  <2> QED BY <2>1, <2>2, <2>3, <2>4, <2>5
<1> QED BY <1>2, <1>3 DEF NoTally

LEMMA PlanKept == TreeInvariant /\ PlanNode => TreeInvariant'
<1> SUFFICES ASSUME TreeInvariant, PlanNode PROVE TreeInvariant'
  OBVIOUS
<1>1. stack # <<>> /\ Top.step = "plan"
  BY DEF PlanNode
<1>2. Top \in Frames /\ Len(stack) \in Nat /\ Top.depth = Len(stack) - 1
  BY <1>1, TopOf DEF FrameSound, Top
<1>3. CASE /\ stack' = WithTop([Top EXCEPT !.step = "answer"])
           /\ UNCHANGED <<agents, nodes, mirror, tally, tree>>
  <2> DEFINE f == [Top EXCEPT !.step = "answer"]
  <2>1. f \in Frames /\ f.agent = Top.agent /\ f.depth = Top.depth /\ f.step = "answer"
    BY <1>2 DEF Frames
  <2> HIDE DEF f
  <2> QED BY <1>1, <1>3, <2>1, TopMoves DEF f
<1>4. CASE /\ ~ForceAnswer(Top.depth)
           /\ \E n \in 1 .. MaxChildren :
                 stack' = WithTop([Top EXCEPT !.step = "children", !.left = n])
           /\ UNCHANGED <<agents, nodes, mirror, tally, tree>>
  <2>1. PICK n \in 1 .. MaxChildren : stack' = WithTop([Top EXCEPT !.step = "children", !.left = n])
    BY <1>4
  <2> DEFINE f == [Top EXCEPT !.step = "children", !.left = n]
  <2>2. n \in Nat
    BY <2>1, SwarmAssumption
  <2>3. f \in Frames /\ f.agent = Top.agent /\ f.depth = Top.depth
    BY <1>2, <2>2 DEF Frames
  <2>4. Len(stack) <= MaxDepth
    BY <1>2, <1>4, SwarmAssumption DEF ForceAnswer
  <2> HIDE DEF f
  <2> QED BY <1>1, <1>4, <2>1, <2>3, <2>4, TopMoves DEF f
<1>5. CASE Return(Top, "timeout", TRUE, FALSE, TimedOut)
  <2>1. Outcome("timeout", TRUE, TimedOut)
    BY CountsUp DEF Outcome
  <2> QED BY <1>1, <1>5, <2>1, ReturnKept
<1> QED BY <1>3, <1>4, <1>5 DEF PlanNode

LEMMA AnswerKept == TreeInvariant /\ AnswerNode => TreeInvariant'
<1> SUFFICES ASSUME TreeInvariant, AnswerNode PROVE TreeInvariant'
  OBVIOUS
<1>1. /\ Outcome("timeout", TRUE, TimedOut)
      /\ Outcome("success", FALSE, Counted1("success"))
      /\ Outcome("failed", TRUE, Counted1("failed"))
  BY CountsUp DEF Outcome, NoTally
<1> QED BY <1>1, ReturnKept DEF AnswerNode

LEMMA MergeKept == TreeInvariant /\ MergeChildren => TreeInvariant'
<1> SUFFICES ASSUME TreeInvariant, MergeChildren PROVE TreeInvariant'
  OBVIOUS
<1> DEFINE exit == IF Top.failed THEN "partial" ELSE "success"
           whole == ~Top.failed /\ ~Top.partial
           counts == Counted1(IF whole THEN "success" ELSE "partial")
<1>1. stack # <<>> /\ Return(Top, exit, FALSE, ~whole, counts)
  BY DEF MergeChildren
<1>2. Top.failed \in BOOLEAN /\ Top.partial \in BOOLEAN
  BY <1>1, TopOf DEF Frames
<1>3. CASE whole
  <2>1. exit = "success" /\ counts = Counted1("success")
    BY <1>3
  <2>2. Outcome(exit, FALSE, counts)
    BY <2>1, CountsUp DEF Outcome, NoTally
  <2> QED BY <1>1, <2>2, ReturnKept
<1>4. CASE ~whole
  <2>1. exit \in {"success", "partial"} /\ counts = Counted1("partial")
    BY <1>4
  <2>2. Outcome(exit, FALSE, counts)
    BY <2>1, CountsUp DEF Outcome, NoTally
  <2> QED BY <1>1, <2>2, ReturnKept
<1> QED BY <1>3, <1>4

\* A child: it runs above its parent, or is recorded as skipped.
LEMMA ChildKept == TreeInvariant /\ StartChild => TreeInvariant'
<1> SUFFICES ASSUME TreeInvariant, StartChild PROVE TreeInvariant'
  OBVIOUS
<1> DEFINE n == Len(stack)
           m == Len(nodes) + 1
           parent == [Top EXCEPT !.left = @ - 1]
<1>1. stack # <<>> /\ Top.step = "children" /\ Top.left > 0 /\ UNCHANGED tree /\ agents' = agents + 1
  BY DEF StartChild
<1>2. /\ n \in Nat \ {0} /\ DOMAIN stack = 1 .. n /\ Top \in Frames /\ Top = stack[n]
      /\ FrameSound(n) /\ tree = "running" /\ stack \in Seq(Frames)
  BY <1>1, TopOf DEF Top, TreeInvariant, TreeShape
<1>3. /\ nodes \in Seq(NodeRows) /\ mirror \in Seq({"none", "claimed", "committed", "failed"})
      /\ Len(mirror) = Len(nodes) /\ Len(nodes) \in Nat /\ agents = Len(nodes) /\ tally \in Tallies
      /\ DOMAIN nodes = 1 .. Len(nodes) /\ DOMAIN mirror = DOMAIN nodes
  BY DEF TreeInvariant, TreeShape
<1>4. n <= MaxDepth /\ Top.depth = n - 1
  BY <1>1, <1>2 DEF FrameSound
<1>5. Top.left - 1 \in Nat
  BY <1>1, <1>2 DEF Frames
\* The new row, and what it does to the old ones.
<1>6. ASSUME NEW row \in NodeRows, NEW mark \in {"none", "claimed", "committed"},
             nodes' = Append(nodes, row), mirror' = Append(mirror, mark)
      PROVE  /\ nodes' \in Seq(NodeRows) /\ Len(nodes') = m
             /\ mirror' \in Seq({"none", "claimed", "committed", "failed"}) /\ Len(mirror') = m
             /\ DOMAIN nodes' = DOMAIN nodes \cup {m} /\ m \notin DOMAIN nodes
             /\ nodes'[m] = row /\ mirror'[m] = mark
             /\ \A i \in DOMAIN nodes : nodes'[i] = nodes[i] /\ mirror'[i] = mirror[i] /\ i < m
  BY <1>3, <1>6
<1>7. CASE /\ nodes' = Append(nodes, [state |-> "exited", exit |-> "skipped"])
           /\ tally' = Counted1("skipped")
           /\ \E mark \in {"none", "committed"} : mirror' = Append(mirror, mark)
           /\ stack' = WithTop([parent EXCEPT !.partial = TRUE])
  <2> DEFINE row == [state |-> "exited", exit |-> "skipped"]
             f == [parent EXCEPT !.partial = TRUE]
  <2>1. row \in NodeRows /\ row.exit = "skipped"
    BY DEF NodeRows
  <2>2. PICK mark \in {"none", "committed"} : mirror' = Append(mirror, mark)
    BY <1>7
  <2>3. parent \in Frames /\ parent.agent = Top.agent /\ parent.depth = Top.depth /\ parent.step = Top.step
    BY <1>2, <1>5 DEF Frames
  <2> HIDE DEF parent
  <2>4. f \in Frames /\ f.agent = Top.agent /\ f.depth = Top.depth /\ f.step = Top.step
    BY <2>3 DEF Frames
  <2>5. nodes' = Append(nodes, row) /\ stack' = WithTop(f)
    BY <1>7
  <2> HIDE DEF row, f
  <2>6. /\ nodes' \in Seq(NodeRows) /\ Len(nodes') = m
        /\ mirror' \in Seq({"none", "claimed", "committed", "failed"}) /\ Len(mirror') = m
        /\ DOMAIN nodes' = DOMAIN nodes \cup {m} /\ m \notin DOMAIN nodes
        /\ nodes'[m] = row /\ mirror'[m] = mark
        /\ \A i \in DOMAIN nodes : nodes'[i] = nodes[i] /\ mirror'[i] = mirror[i] /\ i < m
    BY <1>6, <2>1, <2>2, <2>5
  <2>7. /\ stack' \in Seq(Frames) /\ Len(stack') = n /\ stack'[n] = f
        /\ \A k \in 1 .. n - 1 : stack'[k] = stack[k]
    BY <1>1, <2>4, <2>5, TopOf
  <2> HIDE DEF n, m
  <2>8. DOMAIN stack' = 1 .. n /\ stack' # <<>>
    BY <1>2, <2>7
  <2>9. \A k \in 1 .. n : /\ stack'[k].agent = stack[k].agent /\ stack'[k].depth = stack[k].depth
                          /\ stack'[k].step = stack[k].step
    <3> TAKE k \in 1 .. n
    <3>1. k \in 1 .. n - 1 \/ k = n
      BY <1>2
    <3> QED BY <1>2, <2>4, <2>7, <3>1
  <2>10. tally' \in Tallies /\ Against(tally') # 0
    BY <1>7, CountsUp DEF NoTally
  <2>11. TreeShape'
    BY <1>1, <1>2, <1>3, <2>6, <2>7, <2>8, <2>10 DEF TreeInvariant, TreeShape, m
  <2>12. ASSUME NEW k \in DOMAIN stack' PROVE FrameSound(k)'
    <3>1. FrameSound(k) /\ k \in 1 .. n
      BY <1>2, <2>8 DEF TreeInvariant
    <3>2. \A l \in 1 .. k - 1 : stack'[l].agent < stack'[k].agent
      BY <1>2, <2>9, <3>1 DEF FrameSound
    <3> QED BY <2>6, <2>7, <2>9, <3>1, <3>2 DEF FrameSound, n
  <2>13. ASSUME NEW i \in DOMAIN nodes' PROVE NodeSound(i)'
    <3>1. CASE i = m
      BY <2>1, <2>2, <2>6, <2>10, <3>1 DEF NodeSound, Against
    <3>2. CASE i \in DOMAIN nodes
      <4>1. NodeSound(i)
        BY <3>2 DEF TreeInvariant
      <4>2. (\E k \in DOMAIN stack : stack[k].agent = i) => \E k \in DOMAIN stack' : stack'[k].agent = i
        BY <1>2, <2>8, <2>9
      <4> QED BY <1>1, <2>6, <2>10, <3>2, <4>1, <4>2 DEF NodeSound, Against
    <3> QED BY <2>6, <3>1, <3>2
  <2> QED BY <1>1, <1>2, <2>11, <2>12, <2>13 DEF TreeInvariant
<1>8. CASE /\ nodes' = Append(nodes, Running) /\ Claims /\ UNCHANGED tally
           /\ stack' = Append(WithTop(parent), Frame(agents + 1, Top.depth + 1))
  <2> DEFINE child == Frame(agents + 1, Top.depth + 1)
  <2>1. Running \in NodeRows /\ Running.exit = "none"
    BY DEF NodeRows, Running
  <2>2. PICK mark \in {"none", "claimed"} : mirror' = Append(mirror, mark)
    BY <1>8 DEF Claims
  <2>3. parent \in Frames /\ parent.agent = Top.agent /\ parent.depth = Top.depth /\ parent.step = Top.step
    BY <1>2, <1>5 DEF Frames
  <2>4. child \in Frames /\ child.agent = m /\ child.depth = n /\ child.step = "plan"
    BY <1>2, <1>3, <1>4 DEF Frame, Frames
  <2>5. stack' = Append(WithTop(parent), child)
    BY <1>8
  <2> HIDE DEF parent, child
  <2>6. /\ nodes' \in Seq(NodeRows) /\ Len(nodes') = m
        /\ mirror' \in Seq({"none", "claimed", "committed", "failed"}) /\ Len(mirror') = m
        /\ DOMAIN nodes' = DOMAIN nodes \cup {m} /\ m \notin DOMAIN nodes
        /\ nodes'[m] = Running /\ mirror'[m] = mark
        /\ \A i \in DOMAIN nodes : nodes'[i] = nodes[i] /\ mirror'[i] = mirror[i] /\ i < m
    BY <1>6, <1>8, <2>1, <2>2
  <2>7. /\ WithTop(parent) \in Seq(Frames) /\ Len(WithTop(parent)) = n /\ WithTop(parent)[n] = parent
        /\ \A k \in 1 .. n - 1 : WithTop(parent)[k] = stack[k]
    BY <1>1, <2>3, TopOf
  <2> HIDE DEF n, m
  <2>8. /\ stack' \in Seq(Frames) /\ Len(stack') = n + 1 /\ stack'[n + 1] = child
        /\ \A k \in 1 .. n : stack'[k] = WithTop(parent)[k]
    BY <1>2, <2>4, <2>5, <2>7
  <2>9. DOMAIN stack' = 1 .. n + 1 /\ stack' # <<>>
    BY <1>2, <2>8
  <2>10. \A k \in 1 .. n : /\ stack'[k].agent = stack[k].agent /\ stack'[k].depth = stack[k].depth
                           /\ stack'[k].step = stack[k].step
    <3> TAKE k \in 1 .. n
    <3>1. k \in 1 .. n - 1 \/ k = n
      BY <1>2
    <3> QED BY <1>2, <2>3, <2>7, <2>8, <3>1
  <2>11. TreeShape'
    BY <1>1, <1>2, <1>3, <1>8, <2>6, <2>8, <2>9 DEF TreeInvariant, TreeShape, m
  <2>12. ASSUME NEW k \in DOMAIN stack' PROVE FrameSound(k)'
    <3>1. CASE k \in 1 .. n
      <4>1. FrameSound(k)
        BY <1>2, <3>1 DEF TreeInvariant
      <4>2. \A l \in 1 .. k - 1 : stack'[l].agent < stack'[k].agent
        BY <1>2, <2>10, <3>1, <4>1 DEF FrameSound
      <4>3. stack[k].step = "children"
        <5>1. k < n \/ k = n
          BY <1>2, <3>1
        <5>2. k < n => stack[k].step = "children"
          BY <4>1 DEF FrameSound, n
        <5> QED BY <1>1, <1>2, <5>1, <5>2
      <4> QED BY <2>6, <2>10, <3>1, <4>1, <4>2, <4>3 DEF FrameSound
    <3>2. CASE k = n + 1
      <4>1. \A l \in 1 .. n : stack'[l].agent < m
        <5> TAKE l \in 1 .. n
        <5>1. stack[l].agent \in DOMAIN nodes
          BY <1>2 DEF TreeInvariant, FrameSound
        <5> QED BY <2>6, <2>10, <5>1
      <4>2. k - 1 = n /\ k <= MaxDepth + 1 /\ ~(k < Len(stack'))
        BY <1>2, <1>4, <2>8, <3>2, SwarmAssumption
      <4>3. stack'[k] = child
        BY <2>8, <3>2
      <4> QED BY <2>1, <2>2, <2>4, <2>6, <4>1, <4>2, <4>3 DEF FrameSound
    <3> QED BY <1>2, <2>9, <3>1, <3>2
  <2>13. ASSUME NEW i \in DOMAIN nodes' PROVE NodeSound(i)'
    <3>1. CASE i = m
      <4>1. n + 1 \in DOMAIN stack' /\ stack'[n + 1].agent = m
        BY <1>2, <2>4, <2>8, <2>9
      <4> QED BY <2>1, <2>2, <2>6, <3>1, <4>1 DEF NodeSound
    <3>2. CASE i \in DOMAIN nodes
      <4>1. NodeSound(i)
        BY <3>2 DEF TreeInvariant
      <4>2. \A k \in 1 .. n : k \in 1 .. n + 1
        BY <1>2
      <4>3. (\E k \in DOMAIN stack : stack[k].agent = i) => \E k \in DOMAIN stack' : stack'[k].agent = i
        BY <1>2, <2>9, <2>10, <4>2
      <4> QED BY <1>1, <1>8, <2>6, <3>2, <4>1, <4>3 DEF NodeSound, Against
    <3> QED BY <2>6, <3>1, <3>2
  <2> QED BY <1>1, <1>2, <2>11, <2>12, <2>13 DEF TreeInvariant
<1> QED BY <1>7, <1>8 DEF StartChild

\* The root.
LEMMA RootKept == TreeInvariant /\ StartRun => TreeInvariant'
<1> SUFFICES ASSUME TreeInvariant, StartRun PROVE TreeInvariant'
  OBVIOUS
<1>1. tree = "idle" /\ stack = <<>> /\ nodes = <<>> /\ UNCHANGED tally /\ tally \in Tallies
      /\ mirror \in Seq({"none", "claimed", "committed", "failed"}) /\ Len(mirror) = 0
  BY DEF StartRun, TreeInvariant, TreeShape
<1>2. CASE tree' = "declined" /\ UNCHANGED <<stack, agents, nodes, mirror>>
  BY <1>1, <1>2 DEF TreeInvariant, TreeShape, FrameSound, NodeSound, Against
<1>3. CASE /\ tree' = "running" /\ agents' = 1 /\ stack' = <<Frame(1, 0)>>
           /\ nodes' = Append(nodes, Running) /\ Claims
  <2>1. Running \in NodeRows /\ Running.exit = "none"
    BY DEF NodeRows, Running
  <2>2. PICK mark \in {"none", "claimed"} : mirror' = Append(mirror, mark)
    BY <1>3 DEF Claims
  <2> DEFINE root == Frame(1, 0)
  <2>3. root \in Frames /\ root.agent = 1 /\ root.depth = 0 /\ root.step = "plan"
    BY DEF Frame, Frames
  <2>4. stack' = <<root>>
    BY <1>3
  <2> HIDE DEF root
  <2>5. /\ stack' \in Seq(Frames) /\ DOMAIN stack' = {1} /\ stack'[1] = root /\ stack' # <<>> /\ Len(stack') = 1
    BY <2>3, <2>4
  <2>6. /\ nodes' \in Seq(NodeRows) /\ DOMAIN nodes' = {1} /\ nodes'[1] = Running /\ Len(nodes') = 1
    BY <1>1, <1>3, <2>1
  <2>7. /\ mirror' \in Seq({"none", "claimed", "committed", "failed"}) /\ mirror'[1] = mark /\ Len(mirror') = 1
    BY <1>1, <2>2
  <2>8. TreeShape'
    BY <1>1, <1>3, <2>5, <2>6, <2>7 DEF TreeShape
  <2>9. FrameSound(1)'
    BY <2>1, <2>2, <2>3, <2>5, <2>6, <2>7, SwarmAssumption DEF FrameSound
  <2>10. NodeSound(1)'
    BY <2>1, <2>2, <2>3, <2>5, <2>6, <2>7 DEF NodeSound
  <2> QED BY <1>3, <2>5, <2>6, <2>8, <2>9, <2>10 DEF TreeInvariant
<1> QED BY <1>2, <1>3 DEF StartRun

\* Every step keeps the invariant.
LEMMA TreeKept == TreeInvariant /\ [TreeNext]_treeVars => TreeInvariant'
<1> SUFFICES ASSUME TreeInvariant, [TreeNext]_treeVars PROVE TreeInvariant'
  OBVIOUS
<1>1. CASE UNCHANGED treeVars
  BY <1>1 DEF treeVars, TreeInvariant, TreeShape, FrameSound, NodeSound, Against
<1>2. CASE RunTimesOut
  <2>1. stack' = <<>> /\ tree' = "failed" /\ UNCHANGED <<agents, nodes, mirror, tally>>
    BY <1>2 DEF RunTimesOut
  <2> QED BY <2>1 DEF TreeInvariant, TreeShape, FrameSound, NodeSound, Against
<1> QED BY <1>1, <1>2, RootKept, PlanKept, AnswerKept, ChildKept, MergeKept DEF TreeNext

LEMMA TreeStarts == TreeInit => TreeInvariant
<1> SUFFICES ASSUME TreeInit PROVE TreeInvariant
  OBVIOUS
<1>1. tally \in Tallies
  BY DEF TreeInit, NoTally, Tallies
<1> QED BY <1>1 DEF TreeInit, TreeInvariant, TreeShape

\* The invariant of the in-process runner, of every behaviour.
THEOREM TreeHolds == TreeSpec => []TreeInvariant
BY TreeStarts, TreeKept, PTL DEF TreeSpec

\* With more permits than levels, no path of nodes holds them all: the run never
\* waits for itself, whatever its planners delegate.
THEOREM PermitsHold == TreeSpec => []NoSelfDeadlock
<1>1. TreeInvariant => NoSelfDeadlock
  <2> SUFFICES ASSUME TreeInvariant, stack # <<>> PROVE PermitsHeld < MaxParallel
    BY DEF NoSelfDeadlock
  <2>1. Len(stack) \in Nat /\ Len(stack) <= MaxDepth + 1
    BY TopOf DEF FrameSound
  <2> QED BY <2>1, SwarmAssumption DEF PermitsHeld
<1> QED BY <1>1, TreeHolds, PTL

\* A run that reports "completed" lost no agent, and the mirrored goal and the
\* agents' rows never contradict each other.
THEOREM TruthHolds == TreeSpec => []RunTellsTheTruth
<1>1. TreeInvariant => RunTellsTheTruth
  BY DEF TreeInvariant, TreeShape, NodeSound, RunTellsTheTruth
<1> QED BY <1>1, TreeHolds, PTL

-----------------------------------------------------------------------------
(* The durable runner keeps its promise, step by step.                      *)
(*                                                                         *)
(* Nothing is promised or sent while the caller still waits, so a settled   *)
(* request never becomes open again; the flag is only cleared after a send; *)
(* and while it is set, every send but the one that was just made has a     *)
(* fault of its own: that is what excuses a second delivery.                *)

Replies == {"answer", "blank", "empty", "delegated", "none", "nothing"}

PromiseInvariant ==
    /\ sent \in Seq(Replies) /\ faults \in Nat
    /\ caller.step \in {"waiting", "read", "replied", "acked", "dead"}
    /\ DOMAIN caller = {"step", "text", "deferred", "degraded"}
    /\ DOMAIN run = {"status", "awaiting"} /\ run.awaiting \in BOOLEAN
    /\ caller.step \in {"waiting", "read"} => run.awaiting = FALSE /\ sent = <<>>
    /\ janitor \in {"idle", "sent"}
    /\ janitor = "sent" => sent # <<>> /\ run.awaiting = TRUE
    /\ run.awaiting = TRUE => Len(sent) <= faults + (IF janitor = "sent" THEN 1 ELSE 0)

LEMMA PromiseStarts == DurableInit => PromiseInvariant /\ Promise!Init
<1> SUFFICES ASSUME DurableInit PROVE PromiseInvariant /\ Promise!Init
  OBVIOUS
<1>1. /\ caller.step = "waiting" /\ DOMAIN caller = {"step", "text", "deferred", "degraded"}
      /\ DOMAIN run = {"status", "awaiting"} /\ run.awaiting = FALSE
      /\ sent = <<>> /\ janitor = "idle" /\ faults = 0
  BY DEF DurableInit, Call
<1>2. Owed = "open" /\ Len(sent) = 0
  BY <1>1 DEF Owed
<1>3. sent \in Seq(Replies) /\ faults \in Nat
  BY <1>1
<1>4. PromiseInvariant
  BY <1>1, <1>3 DEF PromiseInvariant
<1> QED BY <1>1, <1>2, <1>4 DEF Promise!Init

\* A step that leaves the request alone, or only fails.
LEMMA Aside ==
    ASSUME PromiseInvariant, UNCHANGED <<caller, run, janitor, sent>>,
           UNCHANGED faults \/ Fault
    PROVE  PromiseInvariant' /\ (Promise!Next \/ UNCHANGED Promise!promiseVars)
<1>1. Owed' = Owed /\ Len(sent)' = Len(sent)
  BY DEF Owed
<1>2. faults' = faults \/ faults' = faults + 1
  BY DEF Fault
<1>3. PromiseInvariant'
  BY <1>2 DEF PromiseInvariant
<1>4. faults' = faults + 1 => Promise!Fault
  BY <1>1 DEF Promise!Fault
<1> QED BY <1>1, <1>2, <1>3, <1>4 DEF Promise!promiseVars, Promise!Next

LEMMA PromiseKept ==
    PromiseInvariant /\ [DurableNext]_durableVars
    => PromiseInvariant' /\ [Promise!Next]_(Promise!promiseVars)
<1> SUFFICES ASSUME PromiseInvariant, [DurableNext]_durableVars
             PROVE  PromiseInvariant' /\ (Promise!Next \/ UNCHANGED Promise!promiseVars)
  OBVIOUS
<1>1. CASE UNCHANGED durableVars
  BY <1>1, Aside DEF durableVars
<1>2. ASSUME NEW items, NEW s, Finish(items, s)
      PROVE  PromiseInvariant' /\ (Promise!Next \/ UNCHANGED Promise!promiseVars)
  BY <1>2, Aside DEF Finish
<1>3. CASE ExecuteRoot \/ ExecuteChild \/ ExecuteAggregate
  BY <1>2, <1>3 DEF ExecuteRoot, ExecuteChild, ExecuteAggregate
<1>4. CASE AttemptsExhausted \/ VerifyGoal \/ DeadlinePasses \/ ExpireOverdueGoal
  BY <1>4, Aside DEF AttemptsExhausted, VerifyGoal, DeadlinePasses, ExpireOverdueGoal
<1>5. CASE ReadReport
  <2>1. /\ caller.step = "waiting" /\ UNCHANGED <<run, janitor, sent, faults>>
        /\ caller'.step = "read" /\ DOMAIN caller' = {"step", "text", "deferred", "degraded"}
    BY <1>5 DEF ReadReport, Call
  <2>2. Owed' = Owed
    BY <2>1 DEF Owed
  <2> QED BY <2>1, <2>2 DEF PromiseInvariant, Promise!promiseVars
<1>6. CASE Defer
  <2>1. /\ caller.step = "read" /\ sent = <<>> /\ run.awaiting = FALSE /\ UNCHANGED <<janitor, sent>>
        /\ caller' = [caller EXCEPT !.step = "acked"] /\ janitor = "idle"
    BY <1>6 DEF Defer, PromiseInvariant
  <2>2. caller'.step = "acked" /\ DOMAIN caller' = {"step", "text", "deferred", "degraded"}
    BY <2>1 DEF PromiseInvariant
  <2>3. Owed = "open" /\ Len(sent) = 0
    BY <2>1 DEF Owed
  <2>4. CASE run' = [run EXCEPT !.awaiting = TRUE] /\ UNCHANGED faults
    <3>1. run'.awaiting = TRUE /\ DOMAIN run' = DOMAIN run
      BY <2>4 DEF PromiseInvariant
    <3>2. Owed' = "promised"
      BY <2>1, <3>1 DEF Owed
    <3>3. Promise!Settle
      BY <2>1, <2>3, <2>4, <3>2 DEF Promise!Settle
    <3> QED BY <2>1, <2>2, <2>3, <2>4, <3>1, <3>3 DEF PromiseInvariant, Promise!Next
  <2>5. CASE Fault /\ UNCHANGED run
    <3>1. Owed' = "dropped"
      BY <2>1, <2>2, <2>5 DEF Owed
    <3>2. Promise!Fault
      BY <2>1, <2>3, <2>5, <3>1 DEF Promise!Fault, Fault
    <3> QED BY <2>1, <2>2, <2>5, <3>2 DEF PromiseInvariant, Promise!Next, Fault
  <2> QED BY <1>6, <2>4, <2>5 DEF Defer
<1>7. CASE Reply \/ CallerTimesOut
  <2>1. /\ caller.step \in {"waiting", "read"} /\ sent = <<>> /\ run.awaiting = FALSE
        /\ UNCHANGED <<janitor, sent, faults>>
    BY <1>7 DEF Reply, CallerTimesOut, PromiseInvariant
  <2>2. caller'.step = "replied" /\ DOMAIN caller' = {"step", "text", "deferred", "degraded"}
    BY <1>7 DEF PromiseInvariant, Reply, CallerTimesOut, Call
  <2>3. run'.awaiting = FALSE /\ DOMAIN run' = DOMAIN run
    BY <1>7, <2>1 DEF PromiseInvariant, Reply, CallerTimesOut
  <2>4. Owed = "open" /\ Owed' = "answered"
    BY <2>1, <2>2, <2>3 DEF Owed
  <2>5. Promise!Settle
    BY <2>1, <2>4 DEF Promise!Settle
  <2> QED BY <2>1, <2>2, <2>3, <2>5 DEF PromiseInvariant, Promise!Next
<1>8. CASE ProcessDies
  <2>1. /\ faults' = faults + 1 /\ janitor' = "idle" /\ UNCHANGED <<run, sent>>
        /\ caller' = IF caller.step \in {"waiting", "read"} THEN [caller EXCEPT !.step = "dead"] ELSE caller
    BY <1>8 DEF ProcessDies, Fault
  <2>2. /\ DOMAIN caller' = {"step", "text", "deferred", "degraded"}
        /\ caller.step \in {"waiting", "read"} => caller'.step = "dead"
        /\ caller.step \notin {"waiting", "read"} => caller' = caller
    BY <2>1 DEF PromiseInvariant
  <2>3. Owed' = Owed \/ (Owed = "open" /\ Owed' = "dropped")
    BY <2>1, <2>2 DEF Owed, PromiseInvariant
  <2>4. Promise!Fault
    BY <2>1, <2>3 DEF Promise!Fault
  <2>5. Len(sent) \in Nat
    BY DEF PromiseInvariant
  <2>6. PromiseInvariant'
    BY <2>1, <2>2, <2>5 DEF PromiseInvariant
  <2> QED BY <2>4, <2>6 DEF Promise!Next
<1>9. CASE ReapOrphan
  <2>1. /\ UNCHANGED <<caller, janitor, sent, faults>> /\ \E st : run' = [run EXCEPT !.status = st]
    BY <1>9 DEF ReapOrphan
  <2>2. run'.awaiting = run.awaiting /\ DOMAIN run' = DOMAIN run
    BY <2>1 DEF PromiseInvariant
  <2>3. Owed' = Owed
    BY <2>1, <2>2 DEF Owed
  <2> QED BY <2>1, <2>2, <2>3 DEF PromiseInvariant, Promise!promiseVars
<1>10. CASE DeliverDeferred
  <2>1. /\ janitor = "idle" /\ run.awaiting = TRUE /\ UNCHANGED <<run, caller>>
        /\ caller.step \notin {"waiting", "read"} /\ Len(sent) \in Nat /\ Len(sent) <= faults
    BY <1>10 DEF DeliverDeferred, PromiseInvariant
  <2>2. CASE /\ sent' = Append(sent, IF goal = "achieved" THEN AnswerText ELSE "nothing")
             /\ janitor' = "sent" /\ UNCHANGED faults
    <3> DEFINE text == IF goal = "achieved" THEN AnswerText ELSE "nothing"
    <3>1. text \in Replies
      BY DEF AnswerText, Done, Replies
    <3>2. sent' = Append(sent, text)
      BY <2>2
    <3> HIDE DEF text
    <3>3. sent' \in Seq(Replies) /\ Len(sent') = Len(sent) + 1 /\ sent' # <<>>
      BY <3>1, <3>2 DEF PromiseInvariant
    <3>4. PromiseInvariant'
      BY <2>1, <2>2, <3>3 DEF PromiseInvariant
    <3>5. Owed' = "delivered"
      BY <3>3 DEF Owed
    <3>6. CASE sent = <<>>
      <4>1. Owed = "promised"
        BY <2>1, <3>6 DEF Owed
      <4> QED BY <2>2, <3>3, <3>4, <3>5, <4>1 DEF Promise!Next, Promise!Deliver
    <3>7. CASE sent # <<>>
      <4>1. Owed = "delivered"
        BY <3>7 DEF Owed
      <4> QED BY <2>1, <2>2, <3>3, <3>4, <3>5, <4>1 DEF Promise!Next, Promise!Redeliver
    <3> QED BY <3>6, <3>7
  <2>3. CASE Fault /\ UNCHANGED <<sent, janitor>>
    BY <2>1, <2>3, Aside
  <2> QED BY <1>10, <2>2, <2>3 DEF DeliverDeferred
<1>11. CASE ClearAwaiting
  <2>1. /\ janitor = "sent" /\ janitor' = "idle" /\ UNCHANGED <<caller, sent>>
        /\ sent # <<>> /\ run.awaiting = TRUE /\ Len(sent) \in Nat /\ Len(sent) <= faults + 1
        /\ caller.step \notin {"waiting", "read"}
    BY <1>11 DEF ClearAwaiting, PromiseInvariant
  <2>2. Owed = "delivered" /\ Owed' = "delivered"
    BY <2>1 DEF Owed
  <2>3. CASE run' = [run EXCEPT !.awaiting = FALSE] /\ UNCHANGED faults
    <3>1. run'.awaiting = FALSE /\ DOMAIN run' = DOMAIN run
      BY <2>3 DEF PromiseInvariant
    <3> QED BY <2>1, <2>2, <2>3, <3>1 DEF PromiseInvariant, Promise!promiseVars
  <2>4. CASE Fault /\ UNCHANGED run
    <3>1. faults' = faults + 1
      BY <2>4 DEF Fault
    <3>2. Promise!Fault
      BY <2>1, <2>2, <3>1 DEF Promise!Fault
    <3>3. PromiseInvariant'
      BY <2>1, <2>4, <3>1 DEF PromiseInvariant
    <3> QED BY <3>2, <3>3 DEF Promise!Next
  <2> QED BY <1>11, <2>3, <2>4 DEF ClearAwaiting
<1> QED BY <1>1, <1>3, <1>4, <1>5, <1>6, <1>7, <1>8, <1>9, <1>10, <1>11 DEF DurableNext

\* The durable runner implements the promise, its fairness aside: nothing is
\* sent that was not promised, a request once settled stays settled, a promise
\* is given up for a delivery only, and every second delivery has its fault.
THEOREM PromiseSteps == DurableSpec => Promise!Init /\ [][Promise!Next]_(Promise!promiseVars)
<1>1. PromiseInvariant /\ [DurableNext]_durableVars => [Promise!Next]_(Promise!promiseVars)
  BY PromiseKept
<1>2. PromiseInvariant /\ [DurableNext]_durableVars => PromiseInvariant'
  BY PromiseKept
<1>3. DurableInit => PromiseInvariant /\ Promise!Init
  BY PromiseStarts
<1> QED BY <1>1, <1>2, <1>3, PTL DEF DurableSpec
=============================================================================
