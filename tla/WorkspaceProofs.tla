--------------------------- MODULE WorkspaceProofs ---------------------------
(***************************************************************************)
(* Theorems of Workspace, for any retries and any depth of drills.         *)
(***************************************************************************)
EXTENDS Workspace, SequenceTheorems, FiniteSetTheorems, TLAPS

(***************************************************************************)
(* The inductive invariant: what the properties say outside a critical     *)
(* section, and what each section owes them until it ends.                 *)
(***************************************************************************)
Parents == DOMAIN DrillChild
Moves   == {"navigate", "goto", "drill", "pop"}     \* the operations that change a pane's view

\* The flow that is moving pane `i` under the lock.
Moving(f)   == flow[f].at \in {"entered", "stopping"} /\ flow[f].op \in Moves
Waits(f)    == flow[f].at \in {"prewarm", "queued"}
Old(f)      == panes[flow[f].pane].view
Warms(f, v) == Leased(f) /\ flow[f].to = v

\* The transaction past its refusals, and past the point where the panes are one.
Switches == switch.at \notin {"idle", "probe"}
Bare     == switch.at \in {"stop", "load", "restore", "loaded", "resume"}

Tasks == [at : {"idle", "prewarm", "queued", "entered", "stopping", "release"},
          op : {"none", "split", "close"} \union Moves, pane : Nat,
          from : Views, to : Views, late : BOOLEAN, overtaken : BOOLEAN]

PanesOK ==
    /\ panes \in Seq([view : Views, strayed : BOOLEAN, drill : Seq(Parents)])
    /\ Len(panes) \in {1, 2} /\ focus \in DOMAIN panes
    /\ \A i \in DOMAIN panes : Len(panes[i].drill) <= MaxDepth

StreamsOK ==
    /\ watch \in [Views -> [at : {"off", "wait", "open"}, failures : 0 .. MaxRetries - 1]]
    /\ stale \subseteq Views /\ dead \subseteq Views
    /\ rows \in [Views -> {"empty", "here", "foreign"}]

Types ==
    /\ PanesOK
    /\ StreamsOK
    /\ lock \in Flows \union {"free", "switch"}
    /\ lease \in [Views -> Nat]
    /\ polling \in BOOLEAN
    /\ flow \in [Flows -> Tasks]
    /\ switch \in [at : {"idle", "probe", "quiesce", "stop", "load", "restore", "loaded", "resume"},
                   left : SUBSET Views]

\* _nav_lock is the flow's in a critical section, and the switch's from its quiesce on; a
\* switch leaves no drill, pop or navigation of another task under way.
LockInv ==
    /\ \A f \in Flows : lock = f <=> flow[f].at \in {"entered", "stopping"}
    /\ lock = "switch" <=> Switches
    /\ Switches => flow["other"].op \in {"none", "goto"}

\* Who runs which operation, at which awaits, on which pane.
OpInv == \A f \in Flows :
    /\ flow[f].at = "idle" => flow[f].op = "none"
    /\ flow[f].op = "none" => flow[f].at = "idle"
    /\ flow[f].at \in {"prewarm", "release"} => Leased(f)
    /\ flow[f].at = "stopping" => flow[f].op \in Moves
    /\ flow[f].op \in {"split", "close", "pop"} => f = "user"
    /\ flow[f].op = "goto" => f = "other"
    /\ flow[f].op = "split" /\ flow[f].at = "queued" => Len(panes) = 1
    /\ flow[f].pane <= Len(panes)
    /\ f = "user" /\ flow[f].at # "release" /\ flow[f].op \in Moves => flow[f].pane \in {0, focus}

\* A drill goes to the child of the view it was started from.
DrillInv == \A f \in Flows : flow[f].op = "drill" =>
    /\ MaxDepth > 0
    /\ flow[f].at # "release" => flow[f].from \in Parents /\ flow[f].to = DrillChild[flow[f].from]
    /\ Waits(f) /\ ~flow[f].late /\ flow[f].pane # 0 => Len(panes[flow[f].pane].drill) < MaxDepth

\* What a flow found when it got the lock: a pane to move, which has not changed since.
MovingInv == \A f \in Flows : Moving(f) =>
    /\ flow[f].pane # 0 /\ flow[f].to # Old(f)
    /\ flow[f].op = "drill" => LET stack == panes[flow[f].pane].drill
                               IN  stack # <<>> /\ Last(stack) = Old(f) /\ flow[f].from = Old(f)
    /\ flow[f].op \in {"navigate", "goto"} =>
          panes[flow[f].pane].drill = <<>> \/ panes[flow[f].pane].strayed

\* A lease is held by a drill or a pop on its way, or by one about to release it.
LeaseInv == \A v \in Views :
    lease[v] = (IF Warms("user", v) THEN 1 ELSE 0) + (IF Warms("other", v) THEN 1 ELSE 0)

\* A pane is fed, unless its watch was stopped to move it or the switch owes it one.
ShownInv == \A i \in DOMAIN panes :
    \/ panes[i].view \in Active \union dead
    \/ Bare
    \/ \E f \in Flows : flow[f].at = "stopping" /\ flow[f].pane = i

\* A watch feeds a pane, warms a drill, or is about to be stopped by a close or a switch.
ActiveInv == \A v \in Active :
    \/ v \in Shown
    \/ \E f \in Flows : Warms(f, v)
    \/ \E f \in Flows : flow[f].at = "entered" /\ flow[f].op = "close" /\ flow[f].to = v
    \/ v \in switch.left

\* The old view of a pane on the move belongs to no other pane, and its watch is stopped,
\* unless a drill of the user, which waits for the lock, started it anew.
StoppingInv == \A f \in Flows : flow[f].at = "stopping" =>
    /\ \A i \in DOMAIN panes : panes[i].view = Old(f) => i = flow[f].pane
    /\ \A g \in Flows : Warms(g, Old(f)) => g = "user" /\ Waits(g)
    /\ Old(f) \in Active => \E g \in Flows : Warms(g, Old(f))

\* A split shows what it clones.
SplitInv == \A f \in Flows : flow[f].at = "entered" /\ flow[f].op = "split" => flow[f].to \in Shown

\* From the quiesce to its end a switch has one pane and no poller; what it did not stop was
\* started since by the user, whose drill waits for the lock.
BareInv ==
    /\ switch.at # "stop" => switch.left = {}
    /\ Bare => /\ Len(panes) = 1 /\ panes[1].drill = <<>> /\ ~polling
               /\ \A v \in Active \ switch.left : Warms("user", v) /\ Waits("user")
    /\ switch.at = "resume" => panes[1].view = Home

\* The poller runs while pods show, or until a closing pane's section ends.
PollInv == polling => Home \in Shown \/ \E f \in Flows : flow[f].at = "entered" /\ flow[f].op = "close"

\* The trail of a pane leads to what it shows, or is about to show.
Trails(stack, view) ==
    \A n \in 1 .. Len(stack) :
        DrillChild[stack[n]] = IF n < Len(stack) THEN stack[n + 1] ELSE view
TrailInv ==
    /\ \A i \in DOMAIN panes :
          \/ panes[i].strayed
          \/ \E f \in Flows : Moving(f) /\ flow[f].pane = i
          \/ Trails(panes[i].drill, panes[i].view)
    /\ \A f \in Flows : Moving(f) =>
          panes[flow[f].pane].strayed \/ Trails(panes[flow[f].pane].drill, flow[f].to)

\* Whoever was overtaken is late, and whoever is late is turned away at the lock.
LateInv == \A f \in Flows : Captured(f) =>
    /\ flow[f].overtaken => flow[f].late
    /\ flow[f].at \in {"entered", "stopping"} => ~flow[f].late

\* An open stream into a bucket of the former client is a closed one.
ForeignInv == \A v \in Views : rows[v] = "foreign" /\ watch[v].at = "open" => v \in stale

Inv == /\ Types /\ LockInv /\ OpInv /\ DrillInv /\ MovingInv /\ LeaseInv /\ ShownInv /\ ActiveInv
       /\ StoppingInv /\ SplitInv /\ BareInv /\ PollInv /\ TrailInv /\ LateInv /\ ForeignInv

-----------------------------------------------------------------------------
(* The views and the drill stacks.                                         *)

\* The bounds are numbers; the child of a parent kind is another view.
LEMMA Bounds ==
  /\ MaxDepth \in Nat /\ MaxRetries \in Nat /\ MaxRetries > 0
  /\ Home \in Views /\ Parents = Views \ {Home}
  /\ \A v \in Parents : DrillChild[v] \in Views /\ DrillChild[v] # v
  <1>1. /\ MaxDepth \in Nat /\ MaxRetries \in Nat /\ MaxRetries > 0
        /\ Home \in Views /\ Views \subseteq {"deployments", "replicasets", "pods"}
    BY WorkspaceAssumption DEF Home
  <1>2. Parents = Views \ {Home}
    BY DEF Parents, DrillChild
  <1>3. ASSUME NEW v \in Parents
        PROVE  DrillChild[v] \in Views /\ DrillChild[v] # v
    <2>1. DrillChild[v] = IF v = "deployments" /\ "replicasets" \in Views THEN "replicasets" ELSE Home
      BY <1>2 DEF DrillChild
    <2>2. QED
      BY <1>1, <1>2, <2>1
  <1>4. QED
    BY <1>1, <1>2, <1>3

\* The panes and what is in them.
LEMMA PaneFacts ==
  ASSUME PanesOK
  PROVE  /\ DOMAIN panes = 1 .. Len(panes) /\ Len(panes) \in {1, 2} /\ focus \in DOMAIN panes
         /\ \A i \in DOMAIN panes :
               /\ panes[i] \in [view : Views, strayed : BOOLEAN, drill : Seq(Parents)]
               /\ Len(panes[i].drill) \in Nat /\ Len(panes[i].drill) <= MaxDepth
         /\ Shown \subseteq Views
  <1>1. DOMAIN panes = 1 .. Len(panes)
    BY LenProperties DEF PanesOK
  <1>2. \A i \in DOMAIN panes : panes[i] \in [view : Views, strayed : BOOLEAN, drill : Seq(Parents)]
    BY <1>1, ElementOfSeq DEF PanesOK
  <1>3. \A i \in DOMAIN panes : Len(panes[i].drill) \in Nat /\ Len(panes[i].drill) <= MaxDepth
    BY <1>2, LenProperties DEF PanesOK
  <1>4. QED
    BY <1>1, <1>2, <1>3 DEF PanesOK, Shown

\* A level more on a drill stack.
LEMMA Pushing ==
  ASSUME NEW s \in Seq(Parents), NEW v \in Parents
  PROVE  /\ Append(s, v) \in Seq(Parents) /\ Len(Append(s, v)) = Len(s) + 1 /\ Len(s) \in Nat
         /\ Append(s, v) # <<>> /\ Last(Append(s, v)) = v /\ Front(Append(s, v)) = s
         /\ Trails(s, v) => Trails(Append(s, v), DrillChild[v])
  <1> DEFINE t == Append(s, v)
  <1>1. /\ t \in Seq(Parents) /\ Len(t) = Len(s) + 1 /\ Len(s) \in Nat
        /\ \A n \in 1 .. Len(s) : t[n] = s[n]
        /\ t[Len(s) + 1] = v
    BY AppendProperties, LenProperties
  <1>2. t # <<>> /\ Last(t) = v
    BY <1>1 DEF Last
  <1>3. Front(t) = s
    BY HeadTailAppend, <1>1, SubSeqProperties, SeqEqual DEF Front
  <1>4. Trails(s, v) => Trails(t, DrillChild[v])
    <2> HIDE DEF t
    <2> SUFFICES ASSUME Trails(s, v), NEW n \in 1 .. Len(t)
                 PROVE  DrillChild[t[n]] = IF n < Len(t) THEN t[n + 1] ELSE DrillChild[v]
      BY DEF Trails
    <2>1. CASE n = Len(t)
      BY <1>1, <2>1
    <2>2. CASE n = Len(s)
      BY <1>1, <2>2 DEF Trails
    <2>3. CASE n < Len(s)
      <3>1. n + 1 \in 1 .. Len(s) /\ n \in 1 .. Len(s)
        BY <1>1, <2>3
      <3>2. DrillChild[s[n]] = s[n + 1]
        BY <2>3, <3>1 DEF Trails
      <3>3. QED
        BY <1>1, <2>3, <3>1, <3>2
    <2>4. QED
      BY <1>1, <2>1, <2>2, <2>3
  <1>5. QED
    BY <1>1, <1>2, <1>3, <1>4

\* A level less.
LEMMA Popping ==
  ASSUME NEW s \in Seq(Parents), s # <<>>, NEW v
  PROVE  /\ Front(s) \in Seq(Parents) /\ Len(Front(s)) = Len(s) - 1 /\ Len(s) \in Nat
         /\ Last(s) \in Parents
         /\ Trails(s, v) => Trails(Front(s), Last(s))
  <1>1. Len(s) \in Nat /\ Len(s) > 0
    BY LenProperties, EmptySeq
  <1> DEFINE t == SubSeq(s, 1, Len(s) - 1)
  <1>2. /\ t \in Seq(Parents) /\ Len(t) = Len(s) - 1
        /\ \A n \in 1 .. Len(s) - 1 : t[n] = s[n]
    <2>1. PICK m \in 0 .. Len(s) : m = Len(s) - 1
      <3>1. Len(s) - 1 \in 0 .. Len(s)
        BY <1>1
      <3>2. QED
        BY <3>1, Zenon
    <2>2. /\ SubSeq(s, 1, m) \in Seq(Parents)
          /\ Len(SubSeq(s, 1, m)) = IF 1 <= m THEN m - 1 + 1 ELSE 0
          /\ \A n \in 1 .. m - 1 + 1 : SubSeq(s, 1, m)[n] = s[1 + n - 1]
      BY <1>1, SubSeqProperties
    <2>3. Len(SubSeq(s, 1, m)) = m /\ \A n \in 1 .. m : SubSeq(s, 1, m)[n] = s[n]
      BY <1>1, <2>2
    <2>4. QED
      BY <2>1, <2>2, <2>3
  <1>3. Last(s) \in Parents
    BY <1>1, ElementOfSeq DEF Last
  <1>4. Trails(s, v) => Trails(t, s[Len(s)])
    <2> HIDE DEF t
    <2> SUFFICES ASSUME Trails(s, v), NEW n \in 1 .. Len(t)
                 PROVE  DrillChild[t[n]] = IF n < Len(t) THEN t[n + 1] ELSE s[Len(s)]
      BY DEF Trails
    <2>1. n \in 1 .. Len(s) /\ n < Len(s) /\ t[n] = s[n]
      BY <1>1, <1>2
    <2>2. DrillChild[s[n]] = s[n + 1]
      BY <2>1 DEF Trails
    <2>3. CASE n < Len(t)
      <3>1. n + 1 \in 1 .. Len(s) - 1
        BY <1>1, <1>2, <2>3
      <3>2. QED
        BY <1>2, <2>1, <2>2, <2>3, <3>1
    <2>4. CASE n = Len(t)
      BY <1>1, <1>2, <2>1, <2>2, <2>4
    <2>5. QED
      BY <1>1, <1>2, <2>3, <2>4
  <1>5. QED
    BY <1>1, <1>2, <1>3, <1>4 DEF Front, Last

\* No level at all.
LEMMA Rooted ==
  /\ <<>> \in Seq(Parents) /\ Len(<<>>) = 0 /\ \A v : Trails(<<>>, v)
  BY EmptySeq DEF Trails

-----------------------------------------------------------------------------
(* The streams.                                                            *)

\* start() has the key watched, and the other keys as they were.
LEMMA Starting ==
  ASSUME StreamsOK, ForeignInv, NEW v \in Views, Start(v)
  PROVE  /\ StreamsOK' /\ ForeignInv'
         /\ Active' = Active \union {v} /\ Active \union dead \subseteq (Active \union dead)'
  <1>1. CASE v \in Active
    BY <1>1 DEF Start, streams, StreamsOK, ForeignInv, Active
  <1>2. CASE v \notin Active
    <2>1. /\ watch' = [watch EXCEPT ![v] = [at |-> "wait", failures |-> 0]]
          /\ rows' = [rows EXCEPT ![v] = "empty"]
          /\ stale' = stale \ {v} /\ dead' = dead \ {v}
      BY <1>2 DEF Start
    <2>2. StreamsOK'
      BY <2>1, Bounds DEF StreamsOK
    <2>3. \A u \in Views : watch'[u].at = IF u = v THEN "wait" ELSE watch[u].at
      BY <2>1 DEF StreamsOK
    <2>4. Active' = Active \union {v}
      BY <2>3 DEF Active
    <2>5. ForeignInv'
      BY <2>1, <2>3 DEF ForeignInv, StreamsOK
    <2>6. QED
      BY <2>1, <2>2, <2>4, <2>5
  <1>3. QED
    BY <1>1, <1>2

\* stop() ends the watches of its keys.
LEMMA Stopped ==
  ASSUME StreamsOK, ForeignInv, NEW keys, Stop(keys)
  PROVE  StreamsOK' /\ ForeignInv' /\ Active' = Active \ keys /\ dead' = dead
  <1>1. /\ watch' = [v \in Views |-> IF v \in keys THEN [at |-> "off", failures |-> 0] ELSE watch[v]]
        /\ stale' = stale \ keys /\ rows' = rows /\ dead' = dead
    BY DEF Stop
  <1>2. \A v \in Views : watch'[v].at = IF v \in keys THEN "off" ELSE watch[v].at
    BY <1>1
  <1>3. StreamsOK'
    BY <1>1, Bounds DEF StreamsOK
  <1>4. QED
    BY <1>1, <1>2, <1>3 DEF ForeignInv, Active

\* What the server and the connection may do to the watch of `v`.
Streaming(v) == Connect(v) \/ Deliver(v) \/ Fail(v) \/ Expire(v) \/ Forbid(v)

\* It ends the watch with a notice, if at all.
LEMMA Streamed ==
  ASSUME StreamsOK, ForeignInv, NEW v \in Views, Streaming(v)
  PROVE  /\ StreamsOK' /\ ForeignInv'
         /\ Active' \subseteq Active /\ Active \union dead \subseteq (Active \union dead)'
         /\ UNCHANGED <<panes, focus, lock, lease, polling, flow, switch>>
  <1>0. UNCHANGED <<panes, focus, lock, lease, polling, flow, switch>>
    BY DEF Streaming, Connect, Deliver, Fail, Expire, Forbid, screen
  <1>1. CASE Connect(v)
    <2>1. /\ watch' = [watch EXCEPT ![v].at = "open"] /\ rows' = [rows EXCEPT ![v] = "empty"]
          /\ stale' = stale \ {v} /\ dead' = dead /\ watch[v].at = "wait"
      BY <1>1 DEF Connect
    <2>2. \A u \in Views : watch'[u].at = IF u = v THEN "open" ELSE watch[u].at
      BY <2>1 DEF StreamsOK
    <2>3. StreamsOK'
      BY <2>1 DEF StreamsOK
    <2>4. ForeignInv'
      BY <2>1, <2>2 DEF ForeignInv, StreamsOK
    <2>5. QED
      BY <1>0, <2>1, <2>2, <2>3, <2>4 DEF Active
  <1>2. CASE Deliver(v)
    <2>1. /\ watch' = [watch EXCEPT ![v].failures = 0] \/ watch' = watch
          /\ rows' = [rows EXCEPT ![v] = IF v \in stale THEN "foreign" ELSE "here"]
          /\ stale' = stale /\ dead' = dead /\ watch[v].at = "open"
      BY <1>2 DEF Deliver
    <2>2. \A u \in Views : watch'[u].at = watch[u].at
      BY <2>1 DEF StreamsOK
    <2>3. StreamsOK'
      BY <2>1, Bounds DEF StreamsOK
    <2>4. ForeignInv'
      BY <2>1, <2>2 DEF ForeignInv, StreamsOK
    <2>5. QED
      BY <1>0, <2>1, <2>2, <2>3, <2>4 DEF Active
  <1>3. CASE Fail(v) \/ Expire(v) \/ Forbid(v)
    <2>1. /\ watch[v].at = "open"
          /\ (rows' = [rows EXCEPT ![v] = "empty"] \/ rows' = rows)
          /\ \/ /\ \E n \in 0 .. MaxRetries - 1 :
                        watch' = [watch EXCEPT ![v] = [at |-> "wait", failures |-> n]]
                /\ stale' = stale /\ dead' = dead
             \/ /\ watch' = [watch EXCEPT ![v] = [at |-> "off", failures |-> 0]]
                /\ stale' = stale \ {v} /\ dead' = dead \union {v}
      <3>1. watch[v].failures \in Nat /\ watch[v].failures + 1 \in Nat
        BY DEF StreamsOK
      <3>2. CASE Fail(v)
        <4>1. CASE watch[v].failures + 1 < MaxRetries
          <5>1. watch[v].failures + 1 \in 0 .. MaxRetries - 1
            BY <3>1, <4>1, Bounds
          <5>2. watch' = [watch EXCEPT ![v] = [at |-> "wait", failures |-> watch[v].failures + 1]]
            BY <3>2, <4>1 DEF Fail, StreamsOK
          <5>3. QED
            BY <3>2, <4>1, <5>1, <5>2 DEF Fail
        <4>2. QED
          BY <3>2, <4>1 DEF Fail
      <3>3. QED
        BY <1>3, <3>2, Bounds DEF Expire, Forbid
    <2>2. \A u \in Views \ {v} : watch'[u] = watch[u]
      BY <2>1 DEF StreamsOK
    <2>3. watch'[v].at # "open" /\ (watch'[v].at = "off" => v \in dead') /\ dead \subseteq dead'
      BY <2>1 DEF StreamsOK
    <2>4. StreamsOK'
      BY <2>1, Bounds DEF StreamsOK
    <2>5. ForeignInv'
      BY <2>1, <2>2, <2>3 DEF ForeignInv, StreamsOK
    <2>6. QED
      BY <1>0, <2>1, <2>2, <2>3, <2>4, <2>5 DEF Active
  <1>4. QED
    BY <1>1, <1>2, <1>3 DEF Streaming

-----------------------------------------------------------------------------
(* The tasks.                                                              *)

\* What an operation starts with.
LEMMA Beginning ==
  ASSUME Types, NEW f \in Flows, NEW op \in {"split", "close"} \union Moves,
         NEW at \in {"prewarm", "queued"}, NEW to \in Views, Begin(f, op, at, to)
  PROVE  /\ flow' \in [Flows -> Tasks] /\ \A g \in Flows \ {f} : flow'[g] = flow[g]
         /\ flow'[f].at = at /\ flow'[f].op = op /\ flow'[f].pane = focus /\ flow'[f].to = to
         /\ flow'[f].late = FALSE /\ flow'[f].overtaken = FALSE
         /\ Leases(op) => flow'[f].from = panes[focus].view
  <1> DEFINE view == panes[focus].view
             next == [Resting EXCEPT !.op = op, !.at = at, !.pane = focus, !.to = to,
                                     !.from = IF Leases(op) THEN Here.view ELSE @]
  <1>1. view \in Views /\ focus \in Nat /\ Home \in Views
    BY PaneFacts, Bounds DEF Types
  <1>2. /\ next.at = at /\ next.op = op /\ next.pane = focus /\ next.to = to
        /\ next.late = FALSE /\ next.overtaken = FALSE
        /\ Leases(op) => next.from = view
    BY DEF Resting, Here
  <1> HIDE DEF view
  <1>3. next \in Tasks
    <2>1. Resting \in Tasks
      BY <1>1 DEF Tasks, Resting
    <2>2. (IF Leases(op) THEN Here.view ELSE Resting.from) \in Views
      BY <1>1 DEF Here, view, Resting
    <2>3. QED
      BY <1>1, <2>1, <2>2 DEF Tasks
  <1>4. flow' = [flow EXCEPT ![f] = next]
    BY DEF Begin
  <1>5. flow'[f] = next /\ flow' \in [Flows -> Tasks] /\ \A g \in Flows \ {f} : flow'[g] = flow[g]
    <2> HIDE DEF next
    <2>1. QED
      BY <1>3, <1>4 DEF Types
  <1>6. QED
    BY <1>2, <1>5 DEF view

\* What an operation ends with.
LEMMA Finishing ==
  ASSUME Types, NEW f \in Flows
  PROVE  /\ Finish(f) \in Tasks /\ Finish(f).pane = 0
         /\ Finish(f).late = FALSE /\ Finish(f).overtaken = FALSE
         /\ Leased(f) => Finish(f).at = "release" /\ Finish(f).op = flow[f].op /\ Finish(f).to = flow[f].to
         /\ ~Leased(f) => Finish(f).at = "idle" /\ Finish(f).op = "none"
  <1>1. flow[f].op \in {"none", "split", "close"} \union Moves /\ flow[f].to \in Views /\ Home \in Views
    BY Bounds DEF Types, Tasks
  <1>2. Resting \in Tasks
    BY <1>1 DEF Tasks, Resting
  <1>3. /\ Resting.at = "idle" /\ Resting.op = "none" /\ Resting.pane = 0
        /\ Resting.late = FALSE /\ Resting.overtaken = FALSE
    BY DEF Resting
  <1>4. CASE Leased(f)
    <2>1. flow[f].op \in {"drill", "pop"}
      BY <1>4 DEF Leased, Leases
    <2>2. Finish(f) = [Resting EXCEPT !.at = "release", !.op = flow[f].op, !.to = flow[f].to]
      BY <1>4 DEF Finish
    <2>3. QED
      BY <1>1, <1>2, <1>3, <1>4, <2>1, <2>2 DEF Tasks
  <1>5. CASE ~Leased(f)
    BY <1>2, <1>3, <1>5 DEF Finish
  <1>6. QED
    BY <1>4, <1>5

\* One task changes.
LEMMA Changing ==
  ASSUME Types, NEW f \in Flows, NEW next \in Tasks, flow' = [flow EXCEPT ![f] = next]
  PROVE  flow' \in [Flows -> Tasks] /\ flow'[f] = next /\ \A g \in Flows \ {f} : flow'[g] = flow[g]
  BY DEF Types

\* A task that does not have the lock, and does not get it, disturbs no critical section.
LEMMA Aside ==
  ASSUME Inv, NEW f \in Flows, \A g \in Flows \ {f} : flow'[g] = flow[g],
         flow[f].at \notin {"entered", "stopping"}, flow'[f].at \notin {"entered", "stopping"},
         f = "other" /\ Switches => flow'[f].op \in {"none", "goto"},
         UNCHANGED <<panes, lock, switch, polling>>
  PROVE  LockInv' /\ MovingInv' /\ SplitInv' /\ TrailInv' /\ PollInv'
  <1>1. \A g \in Flows : flow'[g].at \in {"entered", "stopping"} \/ flow[g].at \in {"entered", "stopping"} =>
                           g # f /\ flow'[g] = flow[g]
    OBVIOUS
  <1>2. LockInv'
    BY <1>1 DEF Inv, LockInv, Switches, Flows
  <1>3. MovingInv'
    BY <1>1 DEF Inv, MovingInv, Moving, Old
  <1>4. SplitInv' /\ PollInv'
    BY <1>1 DEF Inv, SplitInv, PollInv, Shown
  <1>5. TrailInv'
    BY <1>1 DEF Inv, TrailInv, Moving
  <1>6. QED
    BY <1>2, <1>3, <1>4, <1>5

\* A task outside the critical sections keeps what it warms: no watch is missed for it.
LEMMA Unmoved ==
  ASSUME Inv, NEW f \in Flows, \A g \in Flows \ {f} : flow'[g] = flow[g],
         flow[f].at \notin {"entered", "stopping"}, flow'[f].at \notin {"entered", "stopping"},
         Leased(f)' <=> Leased(f), Leased(f) => flow'[f].to = flow[f].to,
         lock = "free" \/ f = "other" \/ (Leased(f) /\ Waits(f) => Waits(f)'),
         UNCHANGED <<panes, lock, lease, watch, dead, switch>>, polling' => polling
  PROVE  LeaseInv' /\ ShownInv' /\ ActiveInv' /\ StoppingInv' /\ BareInv'
  <1>1. /\ \A g \in Flows : \A v : Warms(g, v)' <=> Warms(g, v)
        /\ Active' = Active /\ Shown' = Shown
    BY DEF Warms, Leased, Active, Shown
  <1>2. \A g \in Flows : flow'[g].at \in {"entered", "stopping"} \/ flow[g].at \in {"entered", "stopping"} =>
                           flow'[g] = flow[g] /\ Old(g)' = Old(g)
    BY DEF Old
  <1>3. lock = "free" \/ \A v : Warms("user", v) /\ Waits("user") => Waits("user")'
    BY DEF Warms, Waits, Leased, Flows
  <1>4. LeaseInv'
    BY <1>1 DEF Inv, LeaseInv, Flows
  <1>5. ShownInv'
    BY <1>1, <1>2 DEF Inv, ShownInv, Bare
  <1>6. ActiveInv'
    <2> SUFFICES ASSUME NEW v \in Active'
                 PROVE  \/ v \in Shown'
                        \/ \E g \in Flows : Warms(g, v)'
                        \/ \E g \in Flows : flow'[g].at = "entered" /\ flow'[g].op = "close" /\ flow'[g].to = v
                        \/ v \in switch'.left
      BY DEF ActiveInv
    <2>1. \/ v \in Shown
          \/ \E g \in Flows : Warms(g, v)
          \/ \E g \in Flows : flow[g].at = "entered" /\ flow[g].op = "close" /\ flow[g].to = v
          \/ v \in switch.left
      BY <1>1 DEF Inv, ActiveInv
    <2>2. QED
      BY <1>1, <1>2, <2>1
  <1>7. StoppingInv'
    <2> SUFFICES ASSUME NEW g \in Flows, flow'[g].at = "stopping"
                 PROVE  /\ \A i \in DOMAIN panes' : panes'[i].view = Old(g)' => i = flow'[g].pane
                        /\ \A h \in Flows : Warms(h, Old(g))' => h = "user" /\ Waits(h)'
                        /\ Old(g)' \in Active' => \E h \in Flows : Warms(h, Old(g))'
      BY DEF StoppingInv
    <2>1. flow[g].at = "stopping" /\ lock # "free" /\ flow'[g] = flow[g] /\ Old(g)' = Old(g)
      BY <1>2 DEF Inv, LockInv, Types, Flows
    <2>2. \A h \in Flows : Warms(h, Old(g))' <=> Warms(h, Old(g))
      BY <2>1 DEF Warms, Leased
    <2>3. QED
      BY <1>1, <1>3, <2>1, <2>2 DEF Inv, StoppingInv
  <1>8. BareInv'
    BY <1>1, <1>3 DEF Inv, BareInv, Bare, LockInv, Switches, Flows
  <1>9. QED
    BY <1>4, <1>5, <1>6, <1>7, <1>8

-----------------------------------------------------------------------------
(* Steps outside the critical sections.                                    *)

\* Streams come and go.
LEMMA StreamStep ==
  ASSUME Inv, NEW v \in Views, Streaming(v)
  PROVE  Inv'
  <1>1. /\ StreamsOK' /\ ForeignInv'
        /\ Active' \subseteq Active /\ Active \union dead \subseteq (Active \union dead)'
        /\ panes' = panes /\ focus' = focus /\ lock' = lock /\ lease' = lease /\ polling' = polling
        /\ flow' = flow /\ switch' = switch
    BY Streamed DEF Inv, Types
  <1>2. Types'
    BY <1>1 DEF Inv, Types, PanesOK
  <1>3. LockInv' /\ MovingInv' /\ SplitInv' /\ TrailInv' /\ PollInv'
    <2>1. LockInv' /\ SplitInv' /\ PollInv'
      BY <1>1 DEF Inv, LockInv, SplitInv, PollInv, Switches, Shown
    <2>2. MovingInv'
      BY <1>1 DEF Inv, MovingInv, Moving, Old
    <2>3. TrailInv'
      BY <1>1 DEF Inv, TrailInv, Moving
    <2>4. QED
      BY <2>1, <2>2, <2>3
  <1>4. OpInv' /\ DrillInv' /\ LeaseInv' /\ LateInv'
    BY <1>1 DEF Inv, OpInv, DrillInv, LeaseInv, LateInv, Leased, Warms, Waits, Captured
  <1>5. ShownInv'
    BY <1>1 DEF Inv, ShownInv, Bare
  <1>6. ActiveInv'
    BY <1>1 DEF Inv, ActiveInv, Shown, Warms, Leased
  <1>7. StoppingInv'
    BY <1>1 DEF Inv, StoppingInv, Old, Warms, Leased, Waits
  <1>8. BareInv'
    BY <1>1 DEF Inv, BareInv, Bare, Warms, Leased, Waits
  <1>9. QED
    BY <1>1, <1>2, <1>3, <1>4, <1>5, <1>6, <1>7, <1>8 DEF Inv

\* An operation that needs no pre-warm is asked for.
LEMMA LaunchStep ==
  ASSUME Inv, NEW f \in Flows, \/ \E v \in Views : Navigate(f, v) \/ Jump(f, v)
                               \/ \E op \in {"split", "close"} : SplitOrClose(f, op)
  PROVE  Inv'
  <1>1. PICK op \in {"navigate", "goto", "split", "close"}, to \in Views : Begin(f, op, "queued", to)
    BY Bounds DEF Navigate, Jump, SplitOrClose
  <1>2. /\ flow[f].at = "idle" /\ (f = "other" => ~Switching)
        /\ panes' = panes /\ focus' = focus /\ lock' = lock /\ lease' = lease /\ polling' = polling
        /\ switch' = switch /\ UNCHANGED <<watch, stale, rows, dead>>
    BY DEF Navigate, Jump, SplitOrClose, MayStart, TurnRefused, screen, streams
  <1>3. /\ op = "goto" => f = "other"
        /\ op \in {"split", "close"} => f = "user"
        /\ op = "split" => Len(panes) = 1
    <2>1. op = flow'[f].op
      BY <1>1, Beginning DEF Inv, Moves
    <2>2. CASE \E v \in Views : Navigate(f, v)
      <3>1. flow'[f].op = "navigate"
        BY <2>2, Beginning DEF Inv, Moves, Navigate
      <3>2. QED
        BY <2>1, <3>1
    <2>3. CASE \E v \in Views : Jump(f, v)
      <3>1. flow'[f].op = "goto" /\ f = "other"
        BY <2>3, Beginning DEF Inv, Moves, Jump
      <3>2. QED
        BY <2>1, <3>1
    <2>4. CASE \E o \in {"split", "close"} : SplitOrClose(f, o)
      <3>1. PICK o \in {"split", "close"} : SplitOrClose(f, o)
        BY <2>4
      <3>2. flow'[f].op = o
        BY <3>1, Beginning, Bounds DEF Inv, Moves, SplitOrClose
      <3>3. QED
        BY <2>1, <3>1, <3>2 DEF SplitOrClose
    <2>5. QED
      BY <2>2, <2>3, <2>4
  <1>4. /\ flow' \in [Flows -> Tasks] /\ \A g \in Flows \ {f} : flow'[g] = flow[g]
        /\ flow'[f].at = "queued" /\ flow'[f].op = op /\ flow'[f].pane = focus
        /\ flow'[f].late = FALSE /\ flow'[f].overtaken = FALSE
    BY <1>1, Beginning DEF Inv, Moves
  <1>5. flow[f].op = "none" /\ ~Leased(f) /\ ~Leased(f)'
    BY <1>2, <1>4 DEF Inv, OpInv, Leased, Leases
  <1>6. focus \in DOMAIN panes /\ DOMAIN panes = 1 .. Len(panes) /\ Len(panes) \in {1, 2}
    BY PaneFacts DEF Inv, Types
  <1>7. Types'
    BY <1>2, <1>4 DEF Inv, Types, PanesOK, StreamsOK
  <1>8. LockInv' /\ MovingInv' /\ SplitInv' /\ TrailInv' /\ PollInv'
    <2>1. f = "other" => ~Switches
      BY <1>2 DEF Switches, Switching
    <2>2. QED
      BY <1>2, <1>4, <2>1, Aside
  <1>9. OpInv'
    BY <1>2, <1>3, <1>4, <1>6 DEF Inv, OpInv, Leased
  <1>10. DrillInv'
    BY <1>2, <1>4 DEF Inv, DrillInv, Waits
  <1>11. LeaseInv' /\ ShownInv' /\ ActiveInv' /\ StoppingInv' /\ BareInv'
    BY <1>2, <1>4, <1>5, Unmoved DEF Inv, OpInv
  <1>12. LateInv'
    BY <1>4 DEF Inv, LateInv, Captured
  <1>13. ForeignInv'
    BY <1>2 DEF Inv, ForeignInv
  <1>14. QED
    BY <1>7, <1>8, <1>9, <1>10, <1>11, <1>12, <1>13 DEF Inv

\* The focus moves.
LEMMA FocusStep ==
  ASSUME Inv, FocusOther("user")
  PROVE  Inv'
  <1>1. /\ flow["user"].at = "idle" /\ Len(panes) = 2 /\ focus' = 3 - focus
        /\ panes' = panes /\ lock' = lock /\ lease' = lease /\ polling' = polling /\ flow' = flow
        /\ switch' = switch /\ UNCHANGED <<watch, stale, rows, dead>>
    BY DEF FocusOther, MayStart, streams
  <1>2. focus \in 1 .. 2 /\ DOMAIN panes = 1 .. 2 /\ focus' \in 1 .. 2
    BY <1>1, PaneFacts DEF Inv, Types
  <1>3. Types'
    BY <1>1, <1>2 DEF Inv, Types, PanesOK, StreamsOK
  <1>4. LockInv' /\ MovingInv' /\ SplitInv' /\ TrailInv' /\ PollInv'
    BY <1>1, Aside DEF Flows
  <1>5. OpInv'
    <2>1. flow["user"].op = "none"
      BY <1>1 DEF Inv, OpInv, Flows
    <2>2. QED
      BY <1>1, <2>1 DEF Inv, OpInv, Leased, Moves
  <1>6. LeaseInv' /\ ShownInv' /\ ActiveInv' /\ StoppingInv' /\ BareInv'
    <2>1. Leased("user")' <=> Leased("user")
      BY <1>1 DEF Leased
    <2>2. Waits("user") => Waits("user")'
      BY <1>1 DEF Waits
    <2>3. QED
      BY <1>1, <2>1, <2>2, Unmoved DEF Flows
  <1>7. DrillInv' /\ LateInv' /\ ForeignInv'
    BY <1>1 DEF Inv, DrillInv, LateInv, ForeignInv, Waits, Captured
  <1>8. QED
    BY <1>3, <1>4, <1>5, <1>6, <1>7 DEF Inv

\* A pre-warm has its rows, or waited long enough.
LEMMA WarmedStep ==
  ASSUME Inv, NEW f \in Flows, Warmed(f)
  PROVE  Inv'
  <1>1. /\ flow[f].at = "prewarm" /\ flow' = [flow EXCEPT ![f].at = "queued"]
        /\ panes' = panes /\ focus' = focus /\ lock' = lock /\ lease' = lease /\ polling' = polling
        /\ switch' = switch /\ UNCHANGED <<watch, stale, rows, dead>>
    BY DEF Warmed, screen, streams
  <1>2. /\ flow' \in [Flows -> Tasks] /\ \A g \in Flows \ {f} : flow'[g] = flow[g]
        /\ flow'[f] = [flow[f] EXCEPT !.at = "queued"]
    BY <1>1 DEF Inv, Types, Tasks
  <1>3. /\ flow'[f].at = "queued" /\ flow'[f].op = flow[f].op /\ flow'[f].pane = flow[f].pane
        /\ flow'[f].from = flow[f].from /\ flow'[f].to = flow[f].to
        /\ flow'[f].late = flow[f].late /\ flow'[f].overtaken = flow[f].overtaken
    BY <1>2 DEF Inv, Types, Tasks
  <1>4. Types'
    BY <1>1, <1>2 DEF Inv, Types, PanesOK, StreamsOK
  <1>5. LockInv' /\ MovingInv' /\ SplitInv' /\ TrailInv' /\ PollInv'
    <2>1. f = "other" /\ Switches => flow'[f].op \in {"none", "goto"}
      BY <1>3 DEF Inv, LockInv
    <2>2. QED
      BY <1>1, <1>2, <1>3, <2>1, Aside
  <1>6. OpInv'
    <2>1. flow[f].op # "none" /\ flow[f].op \notin {"split", "close"}
      BY <1>1 DEF Inv, OpInv, Leased, Leases
    <2>2. QED
      BY <1>1, <1>2, <1>3, <2>1 DEF Inv, OpInv, Leased
  <1>7. LeaseInv' /\ ShownInv' /\ ActiveInv' /\ StoppingInv' /\ BareInv'
    <2>1. (Leased(f)' <=> Leased(f)) /\ Waits(f)'
      BY <1>3 DEF Leased, Waits
    <2>2. QED
      BY <1>1, <1>2, <1>3, <2>1, Unmoved
  <1>8. DrillInv'
    BY <1>1, <1>2, <1>3 DEF Inv, DrillInv, Waits
  <1>9. LateInv'
    BY <1>1, <1>2, <1>3 DEF Inv, LateInv, Captured
  <1>10. ForeignInv'
    BY <1>1 DEF Inv, ForeignInv
  <1>11. QED
    BY <1>4, <1>5, <1>6, <1>7, <1>8, <1>9, <1>10 DEF Inv

\* A drill or a pop is asked for, and its destination warmed.
LEMMA PrewarmStep ==
  ASSUME Inv, NEW f \in Flows, Drill(f) \/ Pop(f)
  PROVE  Inv'
  <1>1. /\ DOMAIN panes = 1 .. Len(panes) /\ Len(panes) \in {1, 2} /\ focus \in DOMAIN panes
        /\ Here \in [view : Views, strayed : BOOLEAN, drill : Seq(Parents)]
        /\ Len(Here.drill) \in Nat /\ Len(Here.drill) <= MaxDepth
    BY PaneFacts DEF Inv, Types, Here
  <1>2. PICK op \in {"drill", "pop"}, to \in Views :
          /\ Prewarm(f, op, to)
          /\ op = "drill" => /\ Here.view \in Parents /\ to = DrillChild[Here.view]
                             /\ Len(Here.drill) < MaxDepth
          /\ op = "pop" => f = "user"
    <2>1. CASE Drill(f)
      BY <1>1, <2>1, Bounds DEF Drill, Parents
    <2>2. CASE Pop(f)
      <3>1. Last(Here.drill) \in Views /\ f = "user" /\ Prewarm(f, "pop", Last(Here.drill))
        BY <1>1, <2>2, Popping, Bounds DEF Pop
      <3>2. QED
        BY <3>1
    <2>3. QED
      BY <2>1, <2>2
  <1>3. /\ flow[f].at = "idle" /\ (f = "other" => ~Switching)
        /\ panes' = panes /\ focus' = focus /\ lock' = lock /\ polling' = polling /\ switch' = switch
    BY DEF Drill, Pop, MayStart, TurnRefused, screen
  <1>4. /\ lease' = [lease EXCEPT ![to] = lease[to] + 1]
        /\ \E at \in {"prewarm", "queued"} : Begin(f, op, at, to)
        /\ (to \in Active /\ UNCHANGED streams) \/ Start(to)
    BY <1>2 DEF Prewarm
  <1>5. /\ flow' \in [Flows -> Tasks] /\ \A g \in Flows \ {f} : flow'[g] = flow[g]
        /\ flow'[f].at \in {"prewarm", "queued"} /\ flow'[f].op = op /\ flow'[f].pane = focus
        /\ flow'[f].to = to /\ flow'[f].from = Here.view
        /\ flow'[f].late = FALSE /\ flow'[f].overtaken = FALSE
    <2>1. PICK at \in {"prewarm", "queued"} : Begin(f, op, at, to)
      BY <1>4
    <2>2. op \in {"split", "close"} \union Moves /\ Leases(op)
      BY DEF Moves, Leases
    <2>3. Types
      BY DEF Inv
    <2>4. /\ flow' \in [Flows -> Tasks] /\ \A g \in Flows \ {f} : flow'[g] = flow[g]
          /\ flow'[f].at = at /\ flow'[f].op = op /\ flow'[f].pane = focus /\ flow'[f].to = to
          /\ flow'[f].late = FALSE /\ flow'[f].overtaken = FALSE
          /\ Leases(op) => flow'[f].from = panes[focus].view
      BY <2>1, <2>2, <2>3, Beginning
    <2>5. QED
      BY <2>1, <2>2, <2>4 DEF Here
  <1>6. /\ StreamsOK' /\ ForeignInv'
        /\ Active' = Active \union {to} /\ Active \union dead \subseteq (Active \union dead)'
    <2>1. CASE Start(to)
      BY <2>1, Starting DEF Inv, Types
    <2>2. CASE to \in Active /\ UNCHANGED streams
      BY <2>2 DEF Inv, Types, StreamsOK, ForeignInv, Active, streams
    <2>3. QED
      BY <1>4, <2>1, <2>2
  <1>7. flow[f].op = "none" /\ Leased(f)' /\ Waits(f)' /\ ~Moving(f)' /\ ~Moving(f)
        /\ (\A v : ~Warms(f, v)) /\ (\A g \in Flows \ {f} : Old(g)' = Old(g))
    BY <1>3, <1>5 DEF Inv, OpInv, Leased, Leases, Waits, Moving, Warms, Old
  <1>8. Types'
    <2>1. lease' \in [Views -> Nat]
      BY <1>4 DEF Inv, Types
    <2>2. QED
      BY <1>3, <1>5, <1>6, <2>1 DEF Inv, Types, PanesOK
  <1>9. LockInv' /\ MovingInv' /\ SplitInv' /\ TrailInv' /\ PollInv'
    <2>1. f = "other" => ~Switches
      BY <1>3 DEF Switches, Switching
    <2>2. QED
      BY <1>3, <1>5, <2>1, Aside
  <1>10. OpInv'
    BY <1>1, <1>2, <1>3, <1>5, <1>7 DEF Inv, OpInv, Leased
  <1>11. DrillInv'
    <2>1. op = "drill" => MaxDepth > 0
      BY <1>1, <1>2, Bounds
    <2>2. QED
      BY <1>2, <1>3, <1>5, <2>1 DEF Inv, DrillInv, Waits, Here
  <1>12. LeaseInv'
    <2> SUFFICES ASSUME NEW v \in Views
                 PROVE  lease'[v] = (IF Warms("user", v)' THEN 1 ELSE 0) + (IF Warms("other", v)' THEN 1 ELSE 0)
      BY DEF LeaseInv
    <2>1. lease[v] = (IF Warms("user", v) THEN 1 ELSE 0) + (IF Warms("other", v) THEN 1 ELSE 0)
      BY DEF Inv, LeaseInv
    <2>2. lease'[v] = IF v = to THEN lease[v] + 1 ELSE lease[v]
      BY <1>4 DEF Inv, Types
    <2>3. (Warms(f, v)' <=> v = to) /\ ~Warms(f, v)
      BY <1>5, <1>7 DEF Warms
    <2>4. \A g \in Flows \ {f} : Warms(g, v)' <=> Warms(g, v)
      BY <1>5 DEF Warms, Leased
    <2>5. CASE f = "user"
      BY <2>1, <2>2, <2>3, <2>4, <2>5 DEF Flows
    <2>6. CASE f = "other"
      BY <2>1, <2>2, <2>3, <2>4, <2>6 DEF Flows
    <2>7. QED
      BY <2>5, <2>6 DEF Flows
  <1>13. ShownInv'
    BY <1>3, <1>5, <1>6 DEF Inv, ShownInv, Bare
  <1>14. ActiveInv'
    <2> SUFFICES ASSUME NEW v \in Active'
                 PROVE  \/ v \in Shown'
                        \/ \E g \in Flows : Warms(g, v)'
                        \/ \E g \in Flows : flow'[g].at = "entered" /\ flow'[g].op = "close" /\ flow'[g].to = v
                        \/ v \in switch'.left
      BY DEF ActiveInv
    <2>1. CASE v = to
      <3>1. Warms(f, v)'
        BY <1>5, <1>7, <2>1 DEF Warms
      <3>2. QED
        BY <3>1
    <2>2. CASE v # to
      <3>1. \/ v \in Shown
            \/ \E g \in Flows : Warms(g, v)
            \/ \E g \in Flows : flow[g].at = "entered" /\ flow[g].op = "close" /\ flow[g].to = v
            \/ v \in switch.left
        BY <1>6, <2>2 DEF Inv, ActiveInv
      <3>2. CASE \E g \in Flows : Warms(g, v)
        <4>1. PICK g \in Flows \ {f} : Warms(g, v)
          BY <1>7, <3>2
        <4>2. Warms(g, v)'
          BY <1>5, <4>1 DEF Warms, Leased
        <4>3. QED
          BY <4>2
      <3>3. QED
        BY <1>3, <1>5, <3>1, <3>2 DEF Shown
    <2>3. QED
      BY <2>1, <2>2
  <1>15. StoppingInv'
    <2> SUFFICES ASSUME NEW g \in Flows, flow'[g].at = "stopping"
                 PROVE  /\ \A i \in DOMAIN panes' : panes'[i].view = Old(g)' => i = flow'[g].pane
                        /\ \A h \in Flows : Warms(h, Old(g))' => h = "user" /\ Waits(h)'
                        /\ Old(g)' \in Active' => \E h \in Flows : Warms(h, Old(g))'
      BY DEF StoppingInv
    <2>1. g # f /\ flow[g].at = "stopping" /\ flow'[g] = flow[g] /\ Old(g)' = Old(g)
      BY <1>5, <1>7
    <2>2. /\ \A i \in DOMAIN panes : panes[i].view = Old(g) => i = flow[g].pane
          /\ \A h \in Flows : Warms(h, Old(g)) => h = "user" /\ Waits(h)
          /\ Old(g) \in Active => \E h \in Flows : Warms(h, Old(g))
      BY <2>1 DEF Inv, StoppingInv
    <2>3. \A h \in Flows \ {f} : (Warms(h, Old(g))' <=> Warms(h, Old(g))) /\ (Waits(h)' <=> Waits(h))
      BY <1>5, <2>1 DEF Warms, Leased, Waits
    <2>4. Warms(f, Old(g))' <=> to = Old(g)
      BY <1>5, <1>7, <2>1 DEF Warms
    <2>5. ~Warms(f, Old(g))
      BY <1>7
    <2>6. f = "other" => to # Old(g)
      <3> SUFFICES ASSUME f = "other"
                   PROVE  to # Old(g)
        OBVIOUS
      <3>1. g = "user" /\ op = "drill"
        BY <1>2, <2>1 DEF Flows
      <3>2. flow[g].op \in Moves /\ flow[g].pane # 0
        BY <2>1 DEF Inv, OpInv, MovingInv, Moving
      <3>3. flow[g].pane = focus
        BY <2>1, <3>1, <3>2 DEF Inv, OpInv
      <3>4. Old(g) = Here.view
        BY <3>3 DEF Old, Here
      <3>5. QED
        BY <1>2, <3>1, <3>4, Bounds
    <2>7. \A h \in Flows : Warms(h, Old(g))' => h = "user" /\ Waits(h)'
      BY <1>7, <2>2, <2>3, <2>4, <2>6 DEF Flows
    <2>8. Old(g) \in Active' => \E h \in Flows : Warms(h, Old(g))'
      BY <1>6, <2>2, <2>3, <2>4, <2>5
    <2>9. QED
      BY <1>3, <2>1, <2>2, <2>7, <2>8
  <1>16. BareInv'
    <2>1. Bare => f = "user"
      BY <1>3 DEF Bare, Switching, Flows
    <2>2. Bare => \A v \in Active \ switch.left : FALSE
      BY <1>7, <2>1 DEF Inv, BareInv
    <2>3. Bare => \A v \in Active' \ switch.left : Warms("user", v)' /\ Waits("user")'
      BY <1>5, <1>6, <1>7, <2>1, <2>2 DEF Warms
    <2>4. QED
      BY <1>3, <2>3 DEF Inv, BareInv, Bare
  <1>17. LateInv'
    BY <1>3, <1>5, <1>7 DEF Inv, LateInv, Captured, Waits
  <1>18. QED
    BY <1>6, <1>8, <1>9, <1>10, <1>11, <1>12, <1>13, <1>14, <1>15, <1>16, <1>17 DEF Inv

\* A lease is released, and the watch that nobody needs any more stopped.
LEMMA ReleaseStep ==
  ASSUME Inv, NEW f \in Flows, Release(f)
  PROVE  Inv'
  <1> DEFINE v == flow[f].to
  <1>1. /\ flow[f].at = "release" /\ Leased(f) /\ v \in Views
        /\ lease' = [lease EXCEPT ![v] = lease[v] - 1]
        /\ flow' = [flow EXCEPT ![f] = Resting]
        /\ panes' = panes /\ focus' = focus /\ lock' = lock /\ polling' = polling /\ switch' = switch
    BY DEF Release, screen, Inv, OpInv, Types, Tasks
  <1>2. (lease[v] = 1 /\ v \notin Shown /\ Stop({v})) \/ (~(lease[v] = 1 /\ v \notin Shown) /\ UNCHANGED streams)
    BY DEF Release
  <1>3. \A u \in Views : /\ lease[u] \in Nat /\ (u # v => lease'[u] = lease[u]) /\ lease'[v] = lease[v] - 1
                         /\ lease[u] = (IF Warms("user", u) THEN 1 ELSE 0) + (IF Warms("other", u) THEN 1 ELSE 0)
    BY <1>1 DEF Inv, Types, LeaseInv
  <1>4. /\ flow' \in [Flows -> Tasks] /\ \A g \in Flows \ {f} : flow'[g] = flow[g]
        /\ flow'[f].at = "idle" /\ flow'[f].op = "none" /\ flow'[f].pane = 0
    <2>1. Resting \in Tasks /\ Resting.at = "idle" /\ Resting.op = "none" /\ Resting.pane = 0
      BY Bounds DEF Resting, Tasks
    <2>2. QED
      BY <1>1, <2>1 DEF Inv, Types
  <1> HIDE DEF v
  <1>5. /\ \A u : Warms(f, u) <=> u = v
        /\ \A u : ~Warms(f, u)'
        /\ \A g \in Flows \ {f} : \A u : Warms(g, u)' <=> Warms(g, u)
    BY <1>1, <1>4 DEF Warms, Leased, Leases, v
  <1>6. /\ StreamsOK' /\ ForeignInv' /\ dead' = dead
        /\ Active' = IF lease[v] = 1 /\ v \notin Shown THEN Active \ {v} ELSE Active
    <2>1. CASE lease[v] = 1 /\ v \notin Shown
      BY <1>2, <2>1, Stopped DEF Inv, Types
    <2>2. CASE ~(lease[v] = 1 /\ v \notin Shown)
      <3>1. UNCHANGED streams
        BY <1>2, <2>2
      <3>2. QED
        BY <2>2, <3>1 DEF Inv, Types, StreamsOK, ForeignInv, Active, streams
    <2>3. QED
      BY <2>1, <2>2
  <1>7. Types'
    <2>1. lease[v] - 1 \in Nat
      BY <1>1, <1>3, <1>5 DEF Flows
    <2>2. lease' \in [Views -> Nat]
      BY <1>1, <2>1 DEF Inv, Types
    <2>3. QED
      BY <1>1, <1>4, <1>6, <2>2 DEF Inv, Types, PanesOK
  <1>8. LockInv' /\ MovingInv' /\ SplitInv' /\ TrailInv' /\ PollInv'
    BY <1>1, <1>4, Aside
  <1>9. OpInv'
    BY <1>1, <1>4 DEF Inv, OpInv, Leased, Moves
  <1>10. DrillInv' /\ LateInv'
    BY <1>1, <1>4 DEF Inv, DrillInv, LateInv, Captured, Captures, Waits
  <1>11. LeaseInv'
    <2> SUFFICES ASSUME NEW u \in Views
                 PROVE  lease'[u] = (IF Warms("user", u)' THEN 1 ELSE 0) + (IF Warms("other", u)' THEN 1 ELSE 0)
      BY DEF LeaseInv
    <2>1. CASE f = "user"
      BY <1>3, <1>5, <2>1 DEF Flows
    <2>2. CASE f = "other"
      BY <1>3, <1>5, <2>2 DEF Flows
    <2>3. QED
      BY <2>1, <2>2 DEF Flows
  <1>12. Shown' = Shown
    BY <1>1 DEF Shown
  <1>13. ShownInv'
    <2> SUFFICES ASSUME NEW i \in DOMAIN panes
                 PROVE  \/ panes[i].view \in Active' \union dead
                        \/ Bare
                        \/ \E g \in Flows : flow'[g].at = "stopping" /\ flow'[g].pane = i
      BY <1>1, <1>6 DEF ShownInv, Bare
    <2>1. panes[i].view \in Shown
      BY DEF Shown
    <2>2. \/ panes[i].view \in Active \union dead
          \/ Bare
          \/ \E g \in Flows : flow[g].at = "stopping" /\ flow[g].pane = i
      BY DEF Inv, ShownInv
    <2>3. QED
      BY <1>1, <1>4, <1>6, <2>1, <2>2
  <1>14. ActiveInv'
    <2> SUFFICES ASSUME NEW u \in Active'
                 PROVE  \/ u \in Shown'
                        \/ \E g \in Flows : Warms(g, u)'
                        \/ \E g \in Flows : flow'[g].at = "entered" /\ flow'[g].op = "close" /\ flow'[g].to = u
                        \/ u \in switch'.left
      BY DEF ActiveInv
    <2>1. \/ u \in Shown
          \/ \E g \in Flows : Warms(g, u)
          \/ \E g \in Flows : flow[g].at = "entered" /\ flow[g].op = "close" /\ flow[g].to = u
          \/ u \in switch.left
      BY <1>6 DEF Inv, ActiveInv
    <2>2. CASE Warms(f, u) /\ u \notin Shown
      <3>1. u = v /\ lease[v] # 1
        BY <1>5, <1>6, <2>2
      <3>2. \E g \in Flows \ {f} : Warms(g, u)
        BY <1>1, <1>3, <1>5, <3>1 DEF Flows
      <3>3. QED
        BY <1>5, <3>2
    <2>3. QED
      BY <1>1, <1>4, <1>5, <1>12, <2>1, <2>2
  <1>15. StoppingInv'
    <2> SUFFICES ASSUME NEW g \in Flows, flow'[g].at = "stopping"
                 PROVE  /\ \A i \in DOMAIN panes' : panes'[i].view = Old(g)' => i = flow'[g].pane
                        /\ \A h \in Flows : Warms(h, Old(g))' => h = "user" /\ Waits(h)'
                        /\ Old(g)' \in Active' => \E h \in Flows : Warms(h, Old(g))'
      BY DEF StoppingInv
    <2>1. g # f /\ flow[g].at = "stopping" /\ flow'[g] = flow[g] /\ Old(g)' = Old(g)
      BY <1>1, <1>4 DEF Old
    <2>2. /\ \A i \in DOMAIN panes : panes[i].view = Old(g) => i = flow[g].pane
          /\ \A h \in Flows : Warms(h, Old(g)) => h = "user" /\ Waits(h)
          /\ Old(g) \in Active => \E h \in Flows : Warms(h, Old(g))
      BY <2>1 DEF Inv, StoppingInv
    <2>3. ~Warms(f, Old(g))
      BY <1>1, <2>2 DEF Waits
    <2>4. \A h \in Flows \ {f} : (Warms(h, Old(g))' <=> Warms(h, Old(g))) /\ (Waits(h)' <=> Waits(h))
      BY <1>4, <2>1 DEF Warms, Leased, Waits
    <2>5. ~Warms(f, Old(g))'
      BY <1>4 DEF Warms, Leased, Leases
    <2>6. QED
      BY <1>1, <1>6, <2>1, <2>2, <2>3, <2>4, <2>5
  <1>16. BareInv'
    <2>1. Bare => \A u \in Active \ switch.left : Warms("user", u)' /\ Waits("user")'
      <3> SUFFICES ASSUME Bare, NEW u \in Active \ switch.left
                   PROVE  Warms("user", u)' /\ Waits("user")'
        OBVIOUS
      <3>1. Warms("user", u) /\ Waits("user")
        BY DEF Inv, BareInv
      <3>2. f # "user"
        BY <1>1, <3>1 DEF Waits
      <3>3. QED
        BY <1>4, <1>5, <3>1, <3>2 DEF Waits, Flows
    <2>2. QED
      BY <1>1, <1>6, <2>1 DEF Inv, BareInv, Bare
  <1>17. QED
    BY <1>6, <1>7, <1>8, <1>9, <1>10, <1>11, <1>13, <1>14, <1>15, <1>16 DEF Inv

-----------------------------------------------------------------------------
(* Into the critical sections.                                             *)

\* While the lock is free nobody moves a pane and no switch is past its refusals.
LEMMA FreeLock ==
  ASSUME Inv, lock = "free"
  PROVE  /\ \A g \in Flows : flow[g].at \notin {"entered", "stopping"} /\ ~Moving(g)
         /\ ~Switches /\ ~Bare /\ switch.left = {}
         /\ \A i \in DOMAIN panes : panes[i].view \in Active \union dead
         /\ \A v \in Active : v \in Shown \/ \E g \in Flows : Warms(g, v)
         /\ \A i \in DOMAIN panes : panes[i].strayed \/ Trails(panes[i].drill, panes[i].view)
         /\ polling => Home \in Shown
  <1>1. \A g \in Flows : flow[g].at \notin {"entered", "stopping"}
    BY DEF Inv, LockInv, Flows
  <1>2. ~Switches /\ ~Bare
    BY DEF Inv, LockInv, Switches, Bare
  <1>3. switch.left = {}
    BY <1>2 DEF Inv, BareInv, Switches
  <1>4. \A g \in Flows : ~Moving(g)
    BY <1>1 DEF Moving
  <1>5. QED
    BY <1>1, <1>2, <1>3, <1>4 DEF Inv, ShownInv, ActiveInv, TrailInv, PollInv

\* Who goes through a pane makes the others late that captured it.
LEMMA Overtaking ==
  ASSUME Types, NEW f \in Flows, NEW next \in Tasks, flow' = Overtake(f, next, Advance(f))
  PROVE  /\ flow' \in [Flows -> Tasks] /\ flow'[f] = next
         /\ \A g \in Flows \ {f} :
               /\ flow'[g].at = flow[g].at /\ flow'[g].op = flow[g].op /\ flow'[g].pane = flow[g].pane
               /\ flow'[g].from = flow[g].from /\ flow'[g].to = flow[g].to
               /\ Captured(g) => /\ flow'[g].late <=> flow[g].late \/ flow[g].pane = flow[f].pane
                                 /\ flow'[g].overtaken <=> flow[g].overtaken \/ flow[g].pane = flow[f].pane
               /\ ~Captured(g) => flow'[g] = flow[g]
  <1>1. Advance(f) = [g \in Flows |-> flow[g].pane = flow[f].pane]
    BY DEF Advance
  <1>2. \A g \in Flows : flow[g] \in Tasks
    BY DEF Types
  <1>3. flow'[f] = next
    BY DEF Overtake
  <1>4. \A g \in Flows \ {f} : ~Captured(g) => flow'[g] = flow[g]
    BY DEF Overtake
  <1>5. ASSUME NEW g \in Flows \ {f}, Captured(g)
        PROVE  /\ flow'[g] \in Tasks
               /\ flow'[g].at = flow[g].at /\ flow'[g].op = flow[g].op /\ flow'[g].pane = flow[g].pane
               /\ flow'[g].from = flow[g].from /\ flow'[g].to = flow[g].to
               /\ flow'[g].late <=> flow[g].late \/ flow[g].pane = flow[f].pane
               /\ flow'[g].overtaken <=> flow[g].overtaken \/ flow[g].pane = flow[f].pane
    <2> DEFINE late == flow[g].late \/ flow[g].pane = flow[f].pane
               over == flow[g].overtaken \/ flow[g].pane = flow[f].pane
    <2>1. flow'[g] = [flow[g] EXCEPT !.late = late, !.overtaken = over]
      BY <1>1, <1>5 DEF Overtake
    <2>2. late \in BOOLEAN /\ over \in BOOLEAN
      BY <1>2 DEF Tasks
    <2> HIDE DEF late, over
    <2>3. /\ flow'[g] \in Tasks
          /\ flow'[g].at = flow[g].at /\ flow'[g].op = flow[g].op /\ flow'[g].pane = flow[g].pane
          /\ flow'[g].from = flow[g].from /\ flow'[g].to = flow[g].to
          /\ flow'[g].late = late /\ flow'[g].overtaken = over
      BY <1>2, <2>1, <2>2 DEF Tasks
    <2>4. QED
      BY <2>3 DEF late, over
  <1>6. flow' \in [Flows -> Tasks]
    <2>1. \A g \in Flows : flow'[g] \in Tasks
      BY <1>2, <1>3, <1>4, <1>5
    <2>2. flow' = [g \in Flows |-> flow'[g]]
      BY DEF Overtake
    <2>3. QED
      BY <2>1, <2>2
  <1>7. QED
    BY <1>3, <1>4, <1>5, <1>6

\* What each move makes of the drill stack: a trail to where it leads.
LEMMA Stacking ==
  ASSUME NEW pane \in [view : Views, strayed : BOOLEAN, drill : Seq(Parents)],
         NEW op \in Moves, NEW to \in Views, Len(pane.drill) <= MaxDepth,
         op = "drill" => pane.view \in Parents /\ to = DrillChild[pane.view] /\ Len(pane.drill) < MaxDepth,
         op = "pop" => pane.drill # <<>> /\ Last(pane.drill) = to,
         pane.strayed \/ Trails(pane.drill, pane.view)
  PROVE  /\ Stacked(op, pane) \in [view : Views, strayed : BOOLEAN, drill : Seq(Parents)]
         /\ Stacked(op, pane).view = pane.view
         /\ Len(Stacked(op, pane).drill) <= MaxDepth
         /\ op = "drill" => /\ Stacked(op, pane).drill # <<>>
                            /\ Last(Stacked(op, pane).drill) = pane.view
         /\ op \in {"navigate", "goto"} => Stacked(op, pane).drill = <<>> \/ Stacked(op, pane).strayed
         /\ Stacked(op, pane).strayed \/ Trails(Stacked(op, pane).drill, to)
  <1>1. pane.drill \in Seq(Parents) /\ pane.strayed \in BOOLEAN /\ pane.view \in Views
    OBVIOUS
  <1>2. MaxDepth \in Nat /\ <<>> \in Seq(Parents) /\ Len(<<>>) = 0 /\ \A v : Trails(<<>>, v)
    BY Bounds, Rooted
  <1>3. CASE op = "navigate"
    <2> DEFINE stack == <<>>
               off   == FALSE /\ stack # <<>>
    <2>1. Stacked(op, pane) = [pane EXCEPT !.drill = stack, !.strayed = off]
      BY <1>3 DEF Stacked, OnTrail
    <2>2. off \in BOOLEAN /\ (off <=> FALSE /\ stack # <<>>)
      BY <1>1
    <2>3. stack = <<>> /\ stack \in Seq(Parents) /\ Len(stack) <= MaxDepth /\ Trails(stack, to)
      BY <1>2
    <2> HIDE DEF stack, off
    <2>4. /\ Stacked(op, pane) \in [view : Views, strayed : BOOLEAN, drill : Seq(Parents)]
          /\ Stacked(op, pane).view = pane.view /\ Stacked(op, pane).drill = stack
          /\ Stacked(op, pane).strayed = off
      BY <1>1, <2>1, <2>2, <2>3
    <2>5. Stacked(op, pane).strayed \/ Trails(Stacked(op, pane).drill, to)
      BY <1>1, <2>2, <2>3, <2>4, Zenon
    <2>6. op \in {"navigate", "goto"} => Stacked(op, pane).drill = <<>> \/ Stacked(op, pane).strayed
      BY <1>3, <2>2, <2>3, <2>4
    <2>7. QED
      BY <1>3, <2>3, <2>4, <2>5, <2>6
  <1>4. CASE op = "goto"
    <2> DEFINE stack == pane.drill
               off   == TRUE /\ stack # <<>>
    <2>1. Stacked(op, pane) = [pane EXCEPT !.drill = stack, !.strayed = off]
      BY <1>4 DEF Stacked, OnTrail
    <2>2. off \in BOOLEAN /\ (off <=> TRUE /\ stack # <<>>)
      BY <1>1
    <2>3. stack \in Seq(Parents) /\ Len(stack) <= MaxDepth /\ (stack = <<>> => Trails(stack, to))
      BY <1>1, <1>2
    <2> HIDE DEF stack, off
    <2>4. /\ Stacked(op, pane) \in [view : Views, strayed : BOOLEAN, drill : Seq(Parents)]
          /\ Stacked(op, pane).view = pane.view /\ Stacked(op, pane).drill = stack
          /\ Stacked(op, pane).strayed = off
      BY <1>1, <2>1, <2>2, <2>3
    <2>5. Stacked(op, pane).strayed \/ Trails(Stacked(op, pane).drill, to)
      BY <1>1, <2>2, <2>3, <2>4, Zenon
    <2>6. op \in {"navigate", "goto"} => Stacked(op, pane).drill = <<>> \/ Stacked(op, pane).strayed
      BY <1>4, <2>2, <2>3, <2>4
    <2>7. QED
      BY <1>4, <2>3, <2>4, <2>5, <2>6
  <1>5. CASE op = "drill"
    <2> DEFINE stack == Append(pane.drill, pane.view)
               off   == pane.strayed /\ stack # <<>>
    <2>1. Stacked(op, pane) = [pane EXCEPT !.drill = stack, !.strayed = off]
      BY <1>5 DEF Stacked, OnTrail
    <2>2. off \in BOOLEAN /\ (off <=> pane.strayed /\ stack # <<>>)
      BY <1>1
    <2>3. /\ stack \in Seq(Parents) /\ stack # <<>> /\ Last(stack) = pane.view
          /\ Len(stack) <= MaxDepth
          /\ Trails(pane.drill, pane.view) => Trails(stack, to)
      <3>1. /\ stack \in Seq(Parents) /\ stack # <<>> /\ Last(stack) = pane.view
            /\ Len(stack) = Len(pane.drill) + 1 /\ Len(pane.drill) \in Nat
            /\ Trails(pane.drill, pane.view) => Trails(stack, to)
        BY <1>1, <1>5, Pushing
      <3>2. Len(stack) <= MaxDepth
        BY <1>2, <1>5, <3>1
      <3>3. QED
        BY <3>1, <3>2
    <2> HIDE DEF stack, off
    <2>4. /\ Stacked(op, pane) \in [view : Views, strayed : BOOLEAN, drill : Seq(Parents)]
          /\ Stacked(op, pane).view = pane.view /\ Stacked(op, pane).drill = stack
          /\ Stacked(op, pane).strayed = off
      BY <1>1, <2>1, <2>2, <2>3
    <2>5. Stacked(op, pane).strayed \/ Trails(Stacked(op, pane).drill, to)
      BY <1>1, <2>2, <2>3, <2>4, Zenon
    <2>6. op \in {"navigate", "goto"} => Stacked(op, pane).drill = <<>> \/ Stacked(op, pane).strayed
      BY <1>5, <2>2, <2>3, <2>4
    <2>7. QED
      BY <1>5, <2>3, <2>4, <2>5, <2>6
  <1>6. CASE op = "pop"
    <2> DEFINE stack == Front(pane.drill)
               off   == pane.strayed /\ stack # <<>>
    <2>1. Stacked(op, pane) = [pane EXCEPT !.drill = stack, !.strayed = off]
      BY <1>6 DEF Stacked, OnTrail
    <2>2. off \in BOOLEAN /\ (off <=> pane.strayed /\ stack # <<>>)
      BY <1>1
    <2>3. /\ stack \in Seq(Parents) /\ Len(stack) <= MaxDepth /\ (stack = <<>> => Trails(stack, to))
          /\ Trails(pane.drill, pane.view) => Trails(stack, to)
      <3>1. /\ stack \in Seq(Parents) /\ Len(stack) = Len(pane.drill) - 1 /\ Len(pane.drill) \in Nat
            /\ Trails(pane.drill, pane.view) => Trails(stack, to)
        BY <1>1, <1>6, Popping
      <3>2. Len(stack) <= MaxDepth
        BY <1>2, <3>1
      <3>3. QED
        BY <1>2, <3>1, <3>2
    <2> HIDE DEF stack, off
    <2>4. /\ Stacked(op, pane) \in [view : Views, strayed : BOOLEAN, drill : Seq(Parents)]
          /\ Stacked(op, pane).view = pane.view /\ Stacked(op, pane).drill = stack
          /\ Stacked(op, pane).strayed = off
      BY <1>1, <2>1, <2>2, <2>3
    <2>5. Stacked(op, pane).strayed \/ Trails(Stacked(op, pane).drill, to)
      BY <1>1, <2>2, <2>3, <2>4, Zenon
    <2>6. op \in {"navigate", "goto"} => Stacked(op, pane).drill = <<>> \/ Stacked(op, pane).strayed
      BY <1>6, <2>2, <2>3, <2>4
    <2>7. QED
      BY <1>6, <2>3, <2>4, <2>5, <2>6
  <1>7. QED
    BY <1>3, <1>4, <1>5, <1>6 DEF Moves

\* A pane changes in place.
LEMMA Replacing ==
  ASSUME PanesOK, NEW p \in DOMAIN panes, focus' = focus,
         NEW pane \in [view : Views, strayed : BOOLEAN, drill : Seq(Parents)],
         Len(pane.drill) <= MaxDepth, panes' = [panes EXCEPT ![p] = pane]
  PROVE  /\ PanesOK' /\ DOMAIN panes' = DOMAIN panes /\ Len(panes') = Len(panes)
         /\ panes'[p] = pane /\ \A i \in DOMAIN panes \ {p} : panes'[i] = panes[i]
  <1>1. DOMAIN panes = 1 .. Len(panes) /\ Len(panes) \in {1, 2}
    BY PaneFacts
  <1>2. panes'[p] = pane /\ DOMAIN panes' = DOMAIN panes /\ \A i \in DOMAIN panes \ {p} : panes'[i] = panes[i]
    OBVIOUS
  <1>3. panes' \in Seq([view : Views, strayed : BOOLEAN, drill : Seq(Parents)]) /\ Len(panes') = Len(panes)
    BY <1>1, ExceptSeq DEF PanesOK
  <1>4. QED
    BY <1>1, <1>2, <1>3 DEF PanesOK

\* A task finds its capture out of date, or is cancelled before it has the lock.
LEMMA TurnedAwayStep ==
  ASSUME Inv, NEW f \in Flows, Waits(f), lock = "free" \/ f = "other",
         flow' = [flow EXCEPT ![f] = Finish(f)],
         UNCHANGED <<panes, focus, lock, lease, watch, stale, rows, dead, polling, switch>>
  PROVE  Inv'
  <1>1. /\ Finish(f) \in Tasks /\ Finish(f).pane = 0
        /\ Finish(f).late = FALSE /\ Finish(f).overtaken = FALSE
        /\ Leased(f) => Finish(f).at = "release" /\ Finish(f).op = flow[f].op /\ Finish(f).to = flow[f].to
        /\ ~Leased(f) => Finish(f).at = "idle" /\ Finish(f).op = "none"
    BY Finishing DEF Inv
  <1>2. flow' \in [Flows -> Tasks] /\ flow'[f] = Finish(f) /\ \A g \in Flows \ {f} : flow'[g] = flow[g]
    BY <1>1, Changing DEF Inv
  <1>3. /\ panes' = panes /\ focus' = focus /\ lock' = lock /\ lease' = lease /\ polling' = polling
        /\ switch' = switch /\ UNCHANGED <<watch, stale, rows, dead>>
    OBVIOUS
  <1>4. flow'[f].at \in {"release", "idle"} /\ (Leased(f)' <=> Leased(f)) /\ ~Captured(f)' /\ ~Waits(f)'
    BY <1>1, <1>2 DEF Leased, Captured, Waits, Leases, Captures
  <1>5. Types'
    BY <1>2, <1>3 DEF Inv, Types, PanesOK, StreamsOK
  <1>6. LockInv' /\ MovingInv' /\ SplitInv' /\ TrailInv' /\ PollInv'
    <2>1. flow[f].at \notin {"entered", "stopping"}
      BY DEF Waits
    <2>2. f = "other" /\ Switches => flow'[f].op \in {"none", "goto"}
      BY <1>1, <1>2 DEF Inv, LockInv, Leased, Leases
    <2>3. QED
      BY <1>2, <1>3, <1>4, <2>1, <2>2, Aside
  <1>7. OpInv'
    <2>1. f = "user" /\ flow'[f].at # "release" => flow'[f].op = "none"
      BY <1>1, <1>2
    <2>2. flow'[f].pane = 0 /\ (flow'[f].op = "none" \/ (flow'[f].op = flow[f].op /\ flow'[f].at = "release"))
      BY <1>1, <1>2
    <2>3. Len(panes) \in {1, 2}
      BY PaneFacts DEF Inv, Types
    <2>4. flow'[f].op = "none" <=> flow'[f].at = "idle"
      BY <1>1, <1>2, <1>4 DEF Leased, Leases
    <2>5. QED
      BY <1>1, <1>2, <1>3, <1>4, <2>1, <2>2, <2>3, <2>4 DEF Inv, OpInv, Leased, Leases
  <1>8. LeaseInv' /\ ShownInv' /\ ActiveInv' /\ StoppingInv' /\ BareInv'
    <2>1. flow[f].at \notin {"entered", "stopping"}
      BY DEF Waits
    <2>2. QED
      BY <1>1, <1>2, <1>3, <1>4, <2>1, Unmoved
  <1>9. DrillInv'
    BY <1>1, <1>2, <1>3, <1>4 DEF Inv, DrillInv, Waits, Leased, Leases
  <1>10. LateInv' /\ ForeignInv'
    BY <1>2, <1>3, <1>4 DEF Inv, LateInv, ForeignInv, Captured
  <1>11. QED
    BY <1>5, <1>6, <1>7, <1>8, <1>9, <1>10 DEF Inv

\* A task goes through the pane it captured: it stacks the level, and either leaves the old
\* view or is there already.
LEMMA ThroughStep ==
  ASSUME Inv, NEW f \in Flows, flow[f].at = "queued", flow[f].op \notin {"split", "close"},
         lock = "free", Valid(f),
         panes' = [panes EXCEPT ![flow[f].pane] = Stacked(flow[f].op, panes[flow[f].pane])],
         \/ /\ flow[f].to = panes[flow[f].pane].view
            /\ flow' = Overtake(f, Finish(f), Advance(f)) /\ lock' = lock
         \/ /\ flow[f].to # panes[flow[f].pane].view
            /\ flow' = Overtake(f, [flow[f] EXCEPT !.at = "entered"], Advance(f)) /\ lock' = f,
         UNCHANGED <<focus, lease, watch, stale, rows, dead, polling, switch>>
  PROVE  Inv'
  <1> DEFINE p    == flow[f].pane
             old  == panes[p]
             next == IF flow[f].to = old.view THEN Finish(f) ELSE [flow[f] EXCEPT !.at = "entered"]
  <1>1. /\ flow[f].op \in Moves /\ p \in DOMAIN panes /\ flow[f].to \in Views /\ flow[f] \in Tasks
        /\ old \in [view : Views, strayed : BOOLEAN, drill : Seq(Parents)]
        /\ Len(old.drill) <= MaxDepth /\ (old.strayed \/ Trails(old.drill, old.view))
    <2>1. flow[f].op # "none" /\ flow[f] \in Tasks
      BY DEF Inv, OpInv, Types
    <2>2. p \in Nat /\ p # 0 /\ p <= Len(panes) /\ DOMAIN panes = 1 .. Len(panes) /\ Len(panes) \in {1, 2}
      BY <2>1, PaneFacts DEF Inv, OpInv, Types, Tasks, Valid
    <2>3. p \in DOMAIN panes
      BY <2>2
    <2>4. QED
      BY <2>1, <2>3, PaneFacts, FreeLock DEF Inv, Types, Tasks
  <1>2. /\ Leased(f) => old.view = flow[f].from
        /\ flow[f].op = "drill" => old.view \in Parents /\ flow[f].to = DrillChild[old.view]
                                   /\ Len(old.drill) < MaxDepth
        /\ flow[f].op = "pop" => old.drill # <<>> /\ Last(old.drill) = flow[f].to
        /\ Captured(f) => ~flow[f].late
    <2>1. /\ Leased(f) => old.view = flow[f].from
          /\ flow[f].op = "pop" => old.drill # <<>> /\ Last(old.drill) = flow[f].to
          /\ Captures(flow[f].op) => ~flow[f].late
      BY DEF Valid
    <2>2. flow[f].op = "drill" => Leased(f) /\ Captures(flow[f].op)
      BY DEF Leased, Leases, Captures
    <2>3. p # 0
      BY DEF Valid
    <2>4. flow[f].op = "drill" => old.view \in Parents /\ flow[f].to = DrillChild[old.view]
                                  /\ Len(old.drill) < MaxDepth
      BY <2>1, <2>2, <2>3 DEF Inv, DrillInv, Waits
    <2>5. QED
      BY <2>1, <2>4 DEF Captured
  <1> DEFINE new == Stacked(flow[f].op, old)
  <1>3. /\ new \in [view : Views, strayed : BOOLEAN, drill : Seq(Parents)]
        /\ new.view = old.view /\ Len(new.drill) <= MaxDepth
        /\ flow[f].op = "drill" => new.drill # <<>> /\ Last(new.drill) = old.view
        /\ flow[f].op \in {"navigate", "goto"} => new.drill = <<>> \/ new.strayed
        /\ new.strayed \/ Trails(new.drill, flow[f].to)
    <2> DEFINE op == flow[f].op
               to == flow[f].to
    <2>1. /\ old \in [view : Views, strayed : BOOLEAN, drill : Seq(Parents)] /\ op \in Moves /\ to \in Views
          /\ Len(old.drill) <= MaxDepth /\ (old.strayed \/ Trails(old.drill, old.view))
          /\ op = "drill" => old.view \in Parents /\ to = DrillChild[old.view] /\ Len(old.drill) < MaxDepth
          /\ op = "pop" => old.drill # <<>> /\ Last(old.drill) = to
      BY <1>1, <1>2
    <2> HIDE DEF old, op, to
    <2>2. /\ Stacked(op, old) \in [view : Views, strayed : BOOLEAN, drill : Seq(Parents)]
          /\ Stacked(op, old).view = old.view /\ Len(Stacked(op, old).drill) <= MaxDepth
          /\ op = "drill" => Stacked(op, old).drill # <<>> /\ Last(Stacked(op, old).drill) = old.view
          /\ op \in {"navigate", "goto"} => Stacked(op, old).drill = <<>> \/ Stacked(op, old).strayed
          /\ Stacked(op, old).strayed \/ Trails(Stacked(op, old).drill, to)
      BY <2>1, Stacking
    <2>3. QED
      BY <2>2 DEF op, to
  <1> HIDE DEF new
  <1>4. /\ PanesOK' /\ DOMAIN panes' = DOMAIN panes /\ Len(panes') = Len(panes)
        /\ panes'[p] = new /\ \A i \in DOMAIN panes \ {p} : panes'[i] = panes[i]
    BY <1>1, <1>3, Replacing DEF Inv, Types, new
  <1>5. /\ flow[f].to = old.view => next = Finish(f) /\ lock' = lock
        /\ flow[f].to # old.view => next = [flow[f] EXCEPT !.at = "entered"] /\ lock' = f
        /\ flow' = Overtake(f, next, Advance(f)) /\ focus' = focus /\ lease' = lease
        /\ polling' = polling /\ switch' = switch /\ UNCHANGED <<watch, stale, rows, dead>>
    OBVIOUS
  <1>6. /\ next \in Tasks
        /\ flow[f].to = old.view =>
             /\ next.pane = 0
             /\ Leased(f) => next.at = "release" /\ next.op = flow[f].op /\ next.to = flow[f].to
             /\ ~Leased(f) => next.at = "idle" /\ next.op = "none"
        /\ flow[f].to # old.view =>
             /\ next.at = "entered" /\ next.op = flow[f].op /\ next.pane = p
             /\ next.from = flow[f].from /\ next.to = flow[f].to
             /\ next.late = flow[f].late /\ next.overtaken = flow[f].overtaken
    <2>1. CASE flow[f].to = old.view
      BY <2>1, Finishing DEF Inv
    <2>2. CASE flow[f].to # old.view
      BY <1>1, <2>2 DEF Tasks
    <2>3. QED
      BY <2>1, <2>2
  <1> HIDE DEF next
  <1>7. /\ flow' \in [Flows -> Tasks] /\ flow'[f] = next
        /\ \A g \in Flows \ {f} :
              /\ flow'[g].at = flow[g].at /\ flow'[g].op = flow[g].op /\ flow'[g].pane = flow[g].pane
              /\ flow'[g].from = flow[g].from /\ flow'[g].to = flow[g].to
              /\ Captured(g) => /\ flow'[g].late <=> flow[g].late \/ flow[g].pane = p
                                /\ flow'[g].overtaken <=> flow[g].overtaken \/ flow[g].pane = p
              /\ ~Captured(g) => flow'[g] = flow[g]
    BY <1>5, <1>6, Overtaking DEF Inv
  <1>8. /\ \A g \in Flows : flow[g].at \notin {"entered", "stopping"}
        /\ ~Switches /\ ~Bare /\ switch.left = {}
        /\ \A i \in DOMAIN panes : panes[i].view \in Active \union dead
        /\ \A v \in Active : v \in Shown \/ \E g \in Flows : Warms(g, v)
        /\ \A i \in DOMAIN panes : panes[i].strayed \/ Trails(panes[i].drill, panes[i].view)
        /\ polling => Home \in Shown
    BY FreeLock
  <1> HIDE DEF old
  <1>9. /\ \A i \in DOMAIN panes : panes'[i].view = panes[i].view
        /\ Shown' = Shown /\ Active' = Active
    <2>1. \A i \in DOMAIN panes : panes'[i].view = panes[i].view
      BY <1>3, <1>4 DEF old
    <2>2. QED
      BY <1>4, <1>5, <2>1 DEF Shown, Active
  <1>10. /\ \A g \in Flows \ {f} : flow'[g].at \notin {"entered", "stopping"} /\ ~Moving(g)'
         /\ flow'[f].at # "stopping"
         /\ Leased(f) <=> Leased(f)'
         /\ Leased(f) => flow'[f].to = flow[f].to
         /\ ~Waits(f)'
    BY <1>6, <1>7, <1>8 DEF Moving, Leased, Leases, Waits
  <1>11. \A g \in Flows : \A v : Warms(g, v)' <=> Warms(g, v)
    BY <1>7, <1>10 DEF Warms, Leased
  <1>12. Types'
    <2>1. lock' \in Flows \union {"free", "switch"}
      BY <1>5
    <2>2. QED
      BY <1>4, <1>5, <1>7, <2>1 DEF Inv, Types, StreamsOK
  <1>13. LockInv'
    <2>1. Switches' = Switches /\ lock' # "switch"
      BY <1>5 DEF Switches, Flows
    <2>2. flow[f].to = old.view => next.at \notin {"entered", "stopping"} /\ lock' = "free"
      BY <1>5, <1>6
    <2>3. flow[f].to # old.view => next.at = "entered" /\ lock' = f
      BY <1>5, <1>6
    <2>4. \A g \in Flows : lock' = g <=> flow'[g].at \in {"entered", "stopping"}
      BY <1>7, <1>8, <2>2, <2>3 DEF Flows
    <2>5. QED
      BY <1>8, <2>1, <2>4 DEF LockInv
  <1>14. OpInv'
    <2>1. \A g \in Flows \ {f} :
            /\ flow'[g].at = "idle" => flow'[g].op = "none"
            /\ flow'[g].op = "none" => flow'[g].at = "idle"
            /\ flow'[g].at \in {"prewarm", "release"} => Leased(g)'
            /\ flow'[g].at = "stopping" => flow'[g].op \in Moves
            /\ flow'[g].op \in {"split", "close", "pop"} => g = "user"
            /\ flow'[g].op = "goto" => g = "other"
            /\ flow'[g].op = "split" /\ flow'[g].at = "queued" => Len(panes') = 1
            /\ flow'[g].pane <= Len(panes')
            /\ g = "user" /\ flow'[g].at # "release" /\ flow'[g].op \in Moves => flow'[g].pane \in {0, focus'}
      <3> SUFFICES ASSUME NEW g \in Flows \ {f}
                   PROVE  /\ flow'[g].at = "idle" => flow'[g].op = "none"
                          /\ flow'[g].op = "none" => flow'[g].at = "idle"
                          /\ flow'[g].at \in {"prewarm", "release"} => Leased(g)'
                          /\ flow'[g].at = "stopping" => flow'[g].op \in Moves
                          /\ flow'[g].op \in {"split", "close", "pop"} => g = "user"
                          /\ flow'[g].op = "goto" => g = "other"
                          /\ flow'[g].op = "split" /\ flow'[g].at = "queued" => Len(panes') = 1
                          /\ flow'[g].pane <= Len(panes')
                          /\ g = "user" /\ flow'[g].at # "release" /\ flow'[g].op \in Moves => flow'[g].pane \in {0, focus'}
        OBVIOUS
      <3>1. /\ flow'[g].at = flow[g].at /\ flow'[g].op = flow[g].op /\ flow'[g].pane = flow[g].pane
            /\ Len(panes') = Len(panes) /\ focus' = focus /\ (Leased(g)' <=> Leased(g))
        BY <1>4, <1>5, <1>7 DEF Leased
      <3>2. QED
        BY <3>1 DEF Inv, OpInv
    <2>2. CASE flow[f].to = old.view
      <3>1. Len(panes) \in {1, 2}
        BY PaneFacts DEF Inv, Types
      <3>2. /\ flow'[f].pane = 0 /\ flow'[f].at \in {"idle", "release"}
            /\ flow'[f].at = "release" => Leased(f)' /\ flow'[f].op = flow[f].op
            /\ flow'[f].at = "idle" <=> flow'[f].op = "none"
        BY <1>6, <1>7, <1>10, <2>2 DEF Leased, Leases
      <3>3. flow[f].op = "pop" => f = "user"
        BY DEF Inv, OpInv
      <3>4. flow'[f].op = "none" \/ (flow'[f].op \in {"drill", "pop"} /\ flow'[f].op = flow[f].op)
        BY <1>6, <1>7, <2>2 DEF Leased, Leases
      <3>5. QED
        BY <1>4, <2>1, <3>1, <3>2, <3>3, <3>4 DEF OpInv
    <2>3. CASE flow[f].to # old.view
      <3>1. flow'[f].pane = p /\ flow'[f].at = "entered" /\ flow'[f].op = flow[f].op
        BY <1>6, <1>7, <2>3
      <3>2. /\ flow[f].op \in {"split", "close", "pop"} => f = "user"
            /\ flow[f].op = "goto" => f = "other"
            /\ p <= Len(panes) /\ flow[f].op # "none"
            /\ f = "user" => p \in {0, focus}
        BY <1>1 DEF Inv, OpInv
      <3>3. QED
        BY <1>4, <1>5, <2>1, <3>1, <3>2 DEF OpInv
    <2>4. QED
      BY <2>2, <2>3
  <1>15. DrillInv'
    <2> SUFFICES ASSUME NEW g \in Flows, flow'[g].op = "drill"
                 PROVE  /\ MaxDepth > 0
                        /\ flow'[g].at # "release" => flow'[g].from \in Parents /\ flow'[g].to = DrillChild[flow'[g].from]
                        /\ Waits(g)' /\ ~flow'[g].late /\ flow'[g].pane # 0 => Len(panes'[flow'[g].pane].drill) < MaxDepth
      BY DEF DrillInv
    <2>1. CASE g = f
      <3>1. /\ flow[f].op = "drill" /\ (flow'[f].at # "release" => flow'[f].from = flow[f].from /\ flow'[f].to = flow[f].to)
            /\ flow[f].at # "release"
        BY <1>6, <1>7, <2>1
      <3>2. QED
        BY <1>10, <2>1, <3>1 DEF Inv, DrillInv
    <2>2. CASE g # f
      <3>1. /\ flow[g].op = "drill" /\ flow'[g].at = flow[g].at /\ flow'[g].pane = flow[g].pane
            /\ flow'[g].from = flow[g].from /\ flow'[g].to = flow[g].to
            /\ Captured(g) => (flow'[g].late <=> flow[g].late \/ flow[g].pane = p)
        BY <1>7, <2>2
      <3>2. Waits(g)' => Waits(g) /\ Captured(g)
        BY <3>1 DEF Waits, Captured, Captures
      <3>3. ASSUME Waits(g)', ~flow'[g].late, flow'[g].pane # 0
            PROVE  Len(panes'[flow'[g].pane].drill) < MaxDepth
        <4>1. ~flow[g].late /\ flow[g].pane # p /\ Waits(g)
          BY <3>1, <3>2, <3>3
        <4>2. flow[g].pane \in DOMAIN panes
          <5>1. flow[g].pane \in Nat /\ flow[g].pane <= Len(panes) /\ DOMAIN panes = 1 .. Len(panes)
                /\ Len(panes) \in {1, 2}
            BY PaneFacts DEF Inv, OpInv, Types, Tasks
          <5>2. QED
            BY <3>1, <3>3, <5>1
        <4>3. panes'[flow[g].pane] = panes[flow[g].pane]
          BY <1>4, <4>1, <4>2
        <4>4. Len(panes[flow[g].pane].drill) < MaxDepth
          BY <3>1, <3>3, <4>1 DEF Inv, DrillInv
        <4>5. QED
          BY <3>1, <4>3, <4>4
      <3>4. QED
        BY <3>1, <3>3 DEF Inv, DrillInv
    <2>3. QED
      BY <2>1, <2>2
  <1>16. Moving(f)' => flow[f].to # old.view /\ flow'[f].pane = p /\ flow'[f].to = flow[f].to
                       /\ flow'[f].op = flow[f].op /\ flow'[f].from = flow[f].from /\ Old(f)' = old.view
    BY <1>3, <1>4, <1>6, <1>7 DEF Moving, Old, Leased
  <1>17. MovingInv'
    <2> SUFFICES ASSUME NEW g \in Flows, Moving(g)'
                 PROVE  /\ flow'[g].pane # 0 /\ flow'[g].to # Old(g)'
                        /\ flow'[g].op = "drill" => /\ panes'[flow'[g].pane].drill # <<>>
                                                    /\ Last(panes'[flow'[g].pane].drill) = Old(g)'
                                                    /\ flow'[g].from = Old(g)'
                        /\ flow'[g].op \in {"navigate", "goto"} =>
                              panes'[flow'[g].pane].drill = <<>> \/ panes'[flow'[g].pane].strayed
      BY DEF MovingInv
    <2>1. g = f
      BY <1>10
    <2>2. flow[f].op = "drill" => flow[f].from = old.view
      BY <1>2 DEF Leased, Leases
    <2>3. p # 0
      BY DEF Valid
    <2>4. QED
      BY <1>3, <1>4, <1>16, <2>1, <2>2, <2>3
  <1>18. LeaseInv'
    BY <1>5, <1>11 DEF Inv, LeaseInv, Flows
  <1>19. ShownInv'
    BY <1>4, <1>5, <1>8, <1>9 DEF ShownInv
  <1>20. ActiveInv'
    <2>1. \A v \in Active' : v \in Shown' \/ \E g \in Flows : Warms(g, v)'
      BY <1>8, <1>9, <1>11
    <2>2. QED
      BY <2>1 DEF ActiveInv
  <1>21. StoppingInv' /\ BareInv'
    <2>1. \A g \in Flows : flow'[g].at # "stopping"
      BY <1>10
    <2>2. ~Bare' /\ switch'.at # "resume" /\ switch'.left = {}
      BY <1>5, <1>8 DEF Bare
    <2>3. QED
      BY <2>1, <2>2 DEF StoppingInv, BareInv
  <1>22. SplitInv' /\ PollInv'
    <2>1. \A g \in Flows : flow'[g].at = "entered" => flow'[g].op \in Moves
      BY <1>1, <1>6, <1>7, <1>8
    <2>2. QED
      BY <1>5, <1>8, <1>9, <2>1 DEF SplitInv, PollInv, Moves
  <1>23. TrailInv'
    <2>1. \A i \in DOMAIN panes' :
             \/ panes'[i].strayed
             \/ \E g \in Flows : Moving(g)' /\ flow'[g].pane = i
             \/ Trails(panes'[i].drill, panes'[i].view)
      <3> SUFFICES ASSUME NEW i \in DOMAIN panes
                   PROVE  \/ panes'[i].strayed
                          \/ \E g \in Flows : Moving(g)' /\ flow'[g].pane = i
                          \/ Trails(panes'[i].drill, panes'[i].view)
        BY <1>4
      <3>1. CASE i # p
        BY <1>4, <1>8, <3>1
      <3>2. CASE i = p /\ flow[f].to = old.view
        BY <1>3, <1>4, <3>2
      <3>3. CASE i = p /\ flow[f].to # old.view
        <4>1. Moving(f)' /\ flow'[f].pane = p
          BY <1>1, <1>6, <1>7, <3>3 DEF Moving
        <4>2. QED
          BY <3>3, <4>1
      <3>4. QED
        BY <3>1, <3>2, <3>3
    <2>2. \A g \in Flows : Moving(g)' =>
             panes'[flow'[g].pane].strayed \/ Trails(panes'[flow'[g].pane].drill, flow'[g].to)
      BY <1>3, <1>4, <1>10, <1>16
    <2>3. QED
      BY <2>1, <2>2 DEF TrailInv
  <1>24. LateInv'
    <2> SUFFICES ASSUME NEW g \in Flows, Captured(g)'
                 PROVE  /\ flow'[g].overtaken => flow'[g].late
                        /\ flow'[g].at \in {"entered", "stopping"} => ~flow'[g].late
      BY DEF LateInv
    <2>1. CASE g = f
      <3>1. flow'[f].at # "release" /\ flow'[f].op \in {"drill", "pop", "goto"}
        BY <2>1 DEF Captured, Captures
      <3>2. flow[f].to # old.view
        BY <1>6, <1>7, <3>1
      <3>3. flow'[f].late = flow[f].late /\ flow'[f].overtaken = flow[f].overtaken /\ Captured(f)
        BY <1>6, <1>7, <3>1, <3>2 DEF Captured, Captures
      <3>4. QED
        BY <1>2, <2>1, <3>3 DEF Inv, LateInv
    <2>2. CASE g # f
      <3>1. Captured(g)
        BY <1>7, <2>2 DEF Captured
      <3>2. QED
        BY <1>7, <1>10, <2>2, <3>1 DEF Inv, LateInv
    <2>3. QED
      BY <2>1, <2>2
  <1>25. ForeignInv'
    BY <1>5 DEF Inv, ForeignInv
  <1>26. QED
    BY <1>12, <1>13, <1>14, <1>15, <1>17, <1>18, <1>19, <1>20, <1>21, <1>22, <1>23, <1>24, <1>25 DEF Inv

\* The second pane clones the first.
LEMMA SplitStep ==
  ASSUME Inv, NEW f \in Flows, Split(f)
  PROVE  Inv'
  <1>1. /\ flow[f].at = "queued" /\ flow[f].op = "split" /\ lock = "free"
        /\ panes' = Append(panes, Here) /\ focus' = 2 /\ lock' = f
        /\ flow' = [flow EXCEPT ![f].at = "entered", ![f].to = Here.view]
        /\ lease' = lease /\ polling' = polling /\ switch' = switch
        /\ UNCHANGED <<watch, stale, rows, dead>>
    BY DEF Split, streams
  <1>2. /\ f = "user" /\ Len(panes) = 1 /\ focus = 1 /\ DOMAIN panes = 1 .. 1 /\ Here = panes[1]
        /\ Here \in [view : Views, strayed : BOOLEAN, drill : Seq(Parents)] /\ Len(Here.drill) <= MaxDepth
    <2>1. f = "user" /\ Len(panes) = 1
      BY <1>1 DEF Inv, OpInv
    <2>2. focus = 1 /\ DOMAIN panes = 1 .. 1
      BY <2>1, PaneFacts DEF Inv, Types
    <2>3. QED
      BY <2>1, <2>2, PaneFacts DEF Inv, Types, Here
  <1>3. /\ panes' \in Seq([view : Views, strayed : BOOLEAN, drill : Seq(Parents)])
        /\ Len(panes') = 2 /\ DOMAIN panes' = 1 .. 2 /\ panes'[1] = panes[1] /\ panes'[2] = panes[1]
    <2>1. /\ panes' \in Seq([view : Views, strayed : BOOLEAN, drill : Seq(Parents)])
          /\ Len(panes') = 2 /\ panes'[1] = panes[1] /\ panes'[2] = panes[1]
      <3> DEFINE T == [view : Views, strayed : BOOLEAN, drill : Seq(Parents)]
      <3>1. panes \in Seq(T) /\ Here \in T
        BY <1>2 DEF Inv, Types, PanesOK
      <3> HIDE DEF T
      <3>2. /\ Append(panes, Here) \in Seq(T) /\ Len(Append(panes, Here)) = Len(panes) + 1
            /\ \A n \in 1 .. Len(panes) : Append(panes, Here)[n] = panes[n]
            /\ Append(panes, Here)[Len(panes) + 1] = Here
        BY <3>1, AppendProperties
      <3>3. QED
        BY <1>1, <1>2, <3>2 DEF T
    <2>2. QED
      BY <2>1, LenProperties
  <1>4. flow[f] \in Tasks
    BY DEF Inv, Types
  <1>5. /\ flow' \in [Flows -> Tasks] /\ \A g \in Flows \ {f} : flow'[g] = flow[g]
        /\ flow'[f].at = "entered" /\ flow'[f].op = "split" /\ flow'[f].to = panes[1].view
        /\ flow'[f].pane = flow[f].pane
    <2>1. [flow[f] EXCEPT !.at = "entered", !.to = Here.view] \in Tasks
      BY <1>2, <1>4 DEF Tasks
    <2>2. flow' = [flow EXCEPT ![f] = [flow[f] EXCEPT !.at = "entered", !.to = Here.view]]
      BY <1>1, <1>4 DEF Inv, Types
    <2>3. QED
      BY <1>1, <1>2, <1>4, <2>1, <2>2 DEF Inv, Types, Tasks
  <1>6. /\ \A g \in Flows : flow[g].at \notin {"entered", "stopping"} /\ ~Moving(g)
        /\ ~Switches /\ ~Bare /\ switch.left = {}
        /\ \A i \in DOMAIN panes : panes[i].view \in Active \union dead
        /\ \A v \in Active : v \in Shown \/ \E g \in Flows : Warms(g, v)
        /\ \A i \in DOMAIN panes : panes[i].strayed \/ Trails(panes[i].drill, panes[i].view)
        /\ polling => Home \in Shown
    BY <1>1, FreeLock
  <1>7. Shown' = Shown /\ Active' = Active /\ panes[1].view \in Shown
    BY <1>1, <1>2, <1>3 DEF Shown, Active
  <1>8. /\ ~Leased(f) /\ ~Leased(f)' /\ \A g \in Flows : \A v : Warms(g, v)' <=> Warms(g, v)
    BY <1>1, <1>5 DEF Warms, Leased, Leases
  <1>9. \A g \in Flows : ~Moving(g)' /\ flow'[g].at # "stopping"
    BY <1>5, <1>6 DEF Moving, Moves
  <1>10. \A g \in Flows : flow[g].pane \in {0, 1}
    <2> SUFFICES ASSUME NEW g \in Flows
                 PROVE  flow[g].pane \in {0, 1}
      OBVIOUS
    <2>1. flow[g].pane \in Nat
      BY DEF Inv, Types, Tasks
    <2>2. flow[g].pane <= 1
      BY <1>2 DEF Inv, OpInv
    <2>3. QED
      BY <2>1, <2>2
  <1>11. Types'
    <2>1. PanesOK'
      BY <1>1, <1>2, <1>3 DEF PanesOK
    <2>2. QED
      BY <1>1, <1>5, <2>1 DEF Inv, Types, StreamsOK
  <1>12. LockInv'
    <2>1. \A g \in Flows : lock' = g <=> flow'[g].at \in {"entered", "stopping"}
      BY <1>1, <1>5, <1>6
    <2>2. ~Switches' /\ lock' # "switch"
      BY <1>1, <1>6 DEF Switches, Flows
    <2>3. QED
      BY <2>1, <2>2 DEF LockInv
  <1>13. OpInv'
    <2>1. \A g \in Flows : flow'[g].pane <= Len(panes')
      <3>1. \A g \in Flows : flow'[g].pane = flow[g].pane
        BY <1>5
      <3>2. QED
        BY <1>3, <1>10, <3>1
    <2>2. \A g \in Flows \ {f} : g # "user" /\ flow[g].op # "split"
      BY <1>2 DEF Inv, OpInv, Flows
    <2>3. QED
      BY <1>2, <1>3, <1>5, <2>1, <2>2 DEF Inv, OpInv, Leased, Moves
  <1>14. DrillInv'
    <2>1. \A g \in Flows : flow[g].pane # 0 => panes'[flow[g].pane] = panes[flow[g].pane]
      BY <1>3, <1>10
    <2>2. QED
      BY <1>5, <2>1 DEF Inv, DrillInv, Waits
  <1>15. LeaseInv'
    BY <1>1, <1>8 DEF Inv, LeaseInv, Flows
  <1>16. MovingInv' /\ StoppingInv'
    BY <1>9 DEF MovingInv, StoppingInv
  <1>17. ShownInv'
    BY <1>1, <1>2, <1>3, <1>6, <1>7 DEF ShownInv
  <1>18. ActiveInv'
    BY <1>6, <1>7, <1>8 DEF ActiveInv
  <1>19. SplitInv' /\ PollInv'
    BY <1>1, <1>5, <1>6, <1>7 DEF SplitInv, PollInv
  <1>20. BareInv'
    BY <1>1, <1>6 DEF BareInv, Bare
  <1>21. TrailInv'
    <2>1. panes[1].strayed \/ Trails(panes[1].drill, panes[1].view)
      BY <1>2, <1>6
    <2>2. \A i \in DOMAIN panes' : panes'[i] = panes[1]
      BY <1>3
    <2>3. \A i \in DOMAIN panes' : panes'[i].strayed \/ Trails(panes'[i].drill, panes'[i].view)
      BY <2>1, <2>2, Zenon
    <2>4. QED
      BY <1>9, <2>3 DEF TrailInv
  <1>22. LateInv'
    BY <1>5, <1>6 DEF Inv, LateInv, Captured, Captures
  <1>23. ForeignInv'
    BY <1>1 DEF Inv, ForeignInv
  <1>24. QED
    BY <1>11, <1>12, <1>13, <1>14, <1>15, <1>16, <1>17, <1>18, <1>19, <1>20, <1>21, <1>22, <1>23 DEF Inv

\* A pane leaves the screen: who captured it holds nothing, the others hold the same pane.
LEMMA Withdrawn ==
  ASSUME Types, NEW i \in Nat, NEW f \in Flows
  PROVE  /\ Without(i)[f] \in Tasks
         /\ Without(i)[f].at = flow[f].at /\ Without(i)[f].op = flow[f].op
         /\ Without(i)[f].from = flow[f].from /\ Without(i)[f].to = flow[f].to
         /\ Without(i)[f].late = flow[f].late /\ Without(i)[f].overtaken = flow[f].overtaken
         /\ flow[f].pane \in Nat
         /\ flow[f].pane < i => Without(i)[f].pane = flow[f].pane
         /\ flow[f].pane = i => Without(i)[f].pane = 0
         /\ flow[f].pane > i => Without(i)[f].pane = flow[f].pane - 1
  <1> DEFINE at == flow[f].pane
             to == CASE at < i -> at [] at = i -> 0 [] at > i -> at - 1
  <1>1. flow[f] \in Tasks /\ at \in Nat
    BY DEF Types, Tasks
  <1>2. to \in Nat /\ (at < i => to = at) /\ (at = i => to = 0) /\ (at > i => to = at - 1)
    <2> HIDE DEF at
    <2>1. at < i \/ at = i \/ at > i
      BY <1>1
    <2>2. QED
      BY <1>1, <2>1
  <1>3. Without(i)[f] = [flow[f] EXCEPT !.pane = to]
    BY DEF Without
  <1> HIDE DEF to
  <1>4. QED
    BY <1>1, <1>2, <1>3 DEF Tasks

\* One of two panes leaves the screen.
LEMMA Removing ==
  ASSUME PanesOK, Len(panes) = 2, NEW i \in {1, 2}, panes' = RemoveAt(panes, i), focus' = 1
  PROVE  PanesOK' /\ Len(panes') = 1 /\ DOMAIN panes' = 1 .. 1 /\ panes'[1] = panes[3 - i]
  <1> DEFINE T == [view : Views, strayed : BOOLEAN, drill : Seq(Parents)]
             a == SubSeq(panes, 1, i - 1)
             b == SubSeq(panes, i + 1, 2)
  <1>1. panes \in Seq(T) /\ \A n \in 1 .. 2 : panes[n] \in T
    BY PaneFacts DEF PanesOK
  <1>2. panes' = a \o b
    BY DEF RemoveAt
  <1> HIDE DEF T
  <1>3. a \in Seq(T) /\ Len(a) = i - 1 /\ \A n \in 1 .. i - 1 : a[n] = panes[n]
    <2>1. PICK m \in 0 .. 1 : m = i - 1
      <3>1. i - 1 \in 0 .. 1
        OBVIOUS
      <3>2. QED
        BY <3>1, Zenon
    <2>2. 1 \in Int /\ m \in Int /\ \A n \in 1 .. m : panes[n] \in T
      BY <1>1
    <2>3. /\ SubSeq(panes, 1, m) \in Seq(T)
          /\ Len(SubSeq(panes, 1, m)) = IF 1 <= m THEN m - 1 + 1 ELSE 0
          /\ \A n \in 1 .. m - 1 + 1 : SubSeq(panes, 1, m)[n] = panes[1 + n - 1]
      BY <2>2, SubSeqProperties
    <2>4. Len(SubSeq(panes, 1, m)) = m /\ \A n \in 1 .. m : SubSeq(panes, 1, m)[n] = panes[n]
      BY <2>3
    <2>5. QED
      BY <2>1, <2>3, <2>4
  <1>4. b \in Seq(T) /\ Len(b) = 2 - i /\ \A n \in 1 .. 2 - i : b[n] = panes[i + n]
    <2>1. PICK m \in 2 .. 3 : m = i + 1
      <3>1. i + 1 \in 2 .. 3
        OBVIOUS
      <3>2. QED
        BY <3>1, Zenon
    <2>2. 2 \in Int /\ m \in Int /\ \A n \in m .. 2 : panes[n] \in T
      BY <1>1
    <2>3. /\ SubSeq(panes, m, 2) \in Seq(T)
          /\ Len(SubSeq(panes, m, 2)) = IF m <= 2 THEN 2 - m + 1 ELSE 0
          /\ \A n \in 1 .. 2 - m + 1 : SubSeq(panes, m, 2)[n] = panes[m + n - 1]
      BY <2>2, SubSeqProperties
    <2>4. QED
      BY <2>1, <2>3
  <1> HIDE DEF a, b
  <1>5. /\ panes' \in Seq(T) /\ Len(panes') = 1
        /\ panes'[1] = IF 1 <= Len(a) THEN a[1] ELSE b[1 - Len(a)]
    <2>1. /\ a \o b \in Seq(T) /\ Len(a \o b) = Len(a) + Len(b)
          /\ \A n \in 1 .. Len(a) + Len(b) : (a \o b)[n] = IF n <= Len(a) THEN a[n] ELSE b[n - Len(a)]
      BY <1>3, <1>4, ConcatProperties
    <2>2. QED
      BY <1>2, <1>3, <1>4, <2>1
  <1>6. panes'[1] = panes[3 - i]
    <2>1. CASE i = 1
      BY <1>3, <1>4, <1>5, <2>1
    <2>2. CASE i = 2
      BY <1>3, <1>4, <1>5, <2>2
    <2>3. QED
      BY <2>1, <2>2
  <1>7. DOMAIN panes' = 1 .. 1
    BY <1>5, LenProperties
  <1>8. Len(panes'[1].drill) <= MaxDepth
    BY <1>6, PaneFacts
  <1>9. QED
    BY <1>5, <1>6, <1>7, <1>8 DEF PanesOK, T

\* The last pane stays; of two the focused one goes.
LEMMA CloseStep ==
  ASSUME Inv, NEW f \in Flows, Close(f)
  PROVE  Inv'
  <1>1. /\ flow[f].at = "queued" /\ flow[f].op = "close" /\ lock = "free" /\ f = "user"
        /\ lease' = lease /\ polling' = polling /\ switch' = switch
        /\ UNCHANGED <<watch, stale, rows, dead>>
    BY DEF Close, streams, Inv, OpInv
  <1>2. CASE Len(panes) = 1
    <2>1. flow' = [flow EXCEPT ![f] = Resting] /\ UNCHANGED <<panes, focus, lock>>
      BY <1>2 DEF Close, screen
    <2>2. Finish(f) = Resting
      BY <1>1 DEF Finish, Leased, Leases
    <2>3. QED
      BY <1>1, <2>1, <2>2, TurnedAwayStep DEF Waits
  <1>3. CASE Len(panes) # 1
    <2>1. /\ panes' = RemoveAt(panes, focus) /\ focus' = 1 /\ lock' = f
          /\ flow' = [Without(focus) EXCEPT ![f].at = "entered", ![f].to = Here.view]
      BY <1>3 DEF Close, Dismiss
    <2>2. /\ Len(panes) = 2 /\ DOMAIN panes = 1 .. 2 /\ focus \in {1, 2} /\ 3 - focus \in 1 .. 2
          /\ Here.view \in Views /\ Here = panes[focus]
      BY <1>3, PaneFacts DEF Inv, Types, Here
    <2>3. PanesOK' /\ Len(panes') = 1 /\ DOMAIN panes' = 1 .. 1 /\ panes'[1] = panes[3 - focus]
      BY <2>1, <2>2, Removing DEF Inv, Types
    <2>4. \A g \in Flows :
            /\ Without(focus)[g] \in Tasks
            /\ Without(focus)[g].at = flow[g].at /\ Without(focus)[g].op = flow[g].op
            /\ Without(focus)[g].from = flow[g].from /\ Without(focus)[g].to = flow[g].to
            /\ Without(focus)[g].late = flow[g].late /\ Without(focus)[g].overtaken = flow[g].overtaken
            /\ \/ Without(focus)[g].pane = 0
               \/ Without(focus)[g].pane = 1 /\ flow[g].pane = 3 - focus
      <3> SUFFICES ASSUME NEW g \in Flows
                   PROVE  /\ Without(focus)[g] \in Tasks
                          /\ Without(focus)[g].at = flow[g].at /\ Without(focus)[g].op = flow[g].op
                          /\ Without(focus)[g].from = flow[g].from /\ Without(focus)[g].to = flow[g].to
                          /\ Without(focus)[g].late = flow[g].late /\ Without(focus)[g].overtaken = flow[g].overtaken
                          /\ \/ Without(focus)[g].pane = 0
                             \/ Without(focus)[g].pane = 1 /\ flow[g].pane = 3 - focus
        OBVIOUS
      <3>1. Types /\ focus \in Nat
        BY <2>2 DEF Inv
      <3>2. flow[g].pane <= 2
        BY <2>2 DEF Inv, OpInv
      <3>3. /\ Without(focus)[g] \in Tasks
            /\ Without(focus)[g].at = flow[g].at /\ Without(focus)[g].op = flow[g].op
            /\ Without(focus)[g].from = flow[g].from /\ Without(focus)[g].to = flow[g].to
            /\ Without(focus)[g].late = flow[g].late /\ Without(focus)[g].overtaken = flow[g].overtaken
            /\ flow[g].pane \in Nat
            /\ flow[g].pane < focus => Without(focus)[g].pane = flow[g].pane
            /\ flow[g].pane = focus => Without(focus)[g].pane = 0
            /\ flow[g].pane > focus => Without(focus)[g].pane = flow[g].pane - 1
        BY <3>1, Withdrawn
      <3>4. Without(focus)[g].pane = 0 \/ (Without(focus)[g].pane = 1 /\ flow[g].pane = 3 - focus)
        BY <2>2, <3>2, <3>3
      <3>5. QED
        BY <3>3, <3>4
    <2>5. /\ flow' \in [Flows -> Tasks]
          /\ \A g \in Flows \ {f} : flow'[g] = Without(focus)[g]
          /\ flow'[f].at = "entered" /\ flow'[f].op = "close" /\ flow'[f].to = Here.view
          /\ flow'[f].pane = Without(focus)[f].pane
      <3> DEFINE w == Without(focus)
                 next == [w[f] EXCEPT !.at = "entered", !.to = Here.view]
      <3>1. w \in [Flows -> Tasks]
        <4>1. w = [g \in Flows |-> w[g]]
          <5> DEFINE to(h) == CASE flow[h].pane < focus -> flow[h].pane
                                [] flow[h].pane = focus -> 0
                                [] flow[h].pane > focus -> flow[h].pane - 1
          <5>1. w = [h \in Flows |-> [flow[h] EXCEPT !.pane = to(h)]]
            BY DEF Without
          <5> HIDE DEF to, w
          <5>2. QED
            BY <5>1
        <4>2. \A g \in Flows : w[g] \in Tasks
          BY <2>4
        <4>3. QED
          BY <4>1, <4>2
      <3>2. w[f] \in Tasks /\ w[f].op = "close" /\ flow' = [w EXCEPT ![f].at = "entered", ![f].to = Here.view]
        BY <1>1, <2>1, <2>4
      <3> HIDE DEF w
      <3>3. /\ next \in Tasks /\ next.at = "entered" /\ next.op = "close" /\ next.to = Here.view
            /\ next.pane = w[f].pane
        BY <2>2, <3>2 DEF Tasks
      <3>4. flow' = [w EXCEPT ![f] = next]
        BY <3>1, <3>2
      <3> HIDE DEF next
      <3>5. flow' \in [Flows -> Tasks] /\ flow'[f] = next /\ \A g \in Flows \ {f} : flow'[g] = w[g]
        BY <3>1, <3>3, <3>4
      <3>6. QED
        BY <3>3, <3>5 DEF w
    <2>6. /\ \A g \in Flows \ {f} :
                /\ flow'[g].at = flow[g].at /\ flow'[g].op = flow[g].op
                /\ flow'[g].from = flow[g].from /\ flow'[g].to = flow[g].to
                /\ flow'[g].late = flow[g].late /\ flow'[g].overtaken = flow[g].overtaken
          /\ \A g \in Flows : flow'[g].pane = 0 \/ (flow'[g].pane = 1 /\ flow[g].pane = 3 - focus)
      BY <2>4, <2>5
    <2>7. /\ \A g \in Flows : flow[g].at \notin {"entered", "stopping"} /\ ~Moving(g)
          /\ ~Switches /\ ~Bare /\ switch.left = {}
          /\ \A i \in DOMAIN panes : panes[i].view \in Active \union dead
          /\ \A v \in Active : v \in Shown \/ \E g \in Flows : Warms(g, v)
          /\ \A i \in DOMAIN panes : panes[i].strayed \/ Trails(panes[i].drill, panes[i].view)
      BY <1>1, FreeLock
    <2>8. Shown = Shown' \union {Here.view} /\ Active' = Active
      <3>1. \A i \in 1 .. 2 : i = focus \/ i = 3 - focus
        BY <2>2
      <3>2. Shown = {panes[focus].view, panes[3 - focus].view}
        BY <2>2, <3>1 DEF Shown
      <3>3. Shown' = {panes[3 - focus].view}
        BY <2>3 DEF Shown
      <3>4. QED
        BY <1>1, <2>2, <3>2, <3>3 DEF Active
    <2>9. /\ ~Leased(f) /\ ~Leased(f)' /\ \A g \in Flows : \A v : Warms(g, v)' <=> Warms(g, v)
      BY <1>1, <2>5, <2>6 DEF Warms, Leased, Leases
    <2>10. \A g \in Flows : ~Moving(g)' /\ flow'[g].at # "stopping"
      BY <2>5, <2>6, <2>7 DEF Moving, Moves
    <2>11. Types'
      BY <1>1, <2>1, <2>3, <2>5 DEF Inv, Types, StreamsOK
    <2>12. LockInv'
      <3>1. \A g \in Flows : lock' = g <=> flow'[g].at \in {"entered", "stopping"}
        BY <2>1, <2>5, <2>6, <2>7
      <3>2. ~Switches' /\ lock' # "switch"
        BY <1>1, <2>1, <2>7 DEF Switches, Flows
      <3>3. QED
        BY <3>1, <3>2 DEF LockInv
    <2>13. OpInv'
      <3>1. \A g \in Flows : flow'[g].pane <= Len(panes')
        BY <2>3, <2>6
      <3>2. \A g \in Flows \ {f} : g # "user" /\ flow[g].op # "split" /\ (Leased(g)' <=> Leased(g))
        BY <1>1, <2>6 DEF Inv, OpInv, Flows, Leased
      <3>3. QED
        BY <1>1, <2>5, <2>6, <3>1, <3>2 DEF Inv, OpInv, Leased, Moves
    <2>14. DrillInv'
      <3>1. \A g \in Flows : flow'[g].pane # 0 => flow[g].pane # 0 /\ panes'[flow'[g].pane] = panes[flow[g].pane]
        BY <2>2, <2>3, <2>6
      <3>2. QED
        BY <2>5, <2>6, <3>1 DEF Inv, DrillInv, Waits
    <2>15. LeaseInv'
      BY <1>1, <2>9 DEF Inv, LeaseInv, Flows
    <2>16. MovingInv' /\ StoppingInv'
      BY <2>10 DEF MovingInv, StoppingInv
    <2>17. ShownInv'
      BY <1>1, <2>2, <2>3, <2>7, <2>8 DEF ShownInv
    <2>18. ActiveInv'
      BY <2>5, <2>7, <2>8, <2>9 DEF ActiveInv
    <2>19. SplitInv' /\ PollInv'
      BY <1>1, <2>5, <2>6, <2>7 DEF SplitInv, PollInv
    <2>20. BareInv'
      BY <1>1, <2>7 DEF BareInv, Bare
    <2>21. TrailInv'
      BY <2>2, <2>3, <2>7, <2>10 DEF TrailInv
    <2>22. LateInv'
      BY <1>1, <2>5, <2>6, <2>7 DEF Inv, LateInv, Captured, Captures
    <2>23. ForeignInv'
      BY <1>1 DEF Inv, ForeignInv
    <2>24. QED
      BY <2>11, <2>12, <2>13, <2>14, <2>15, <2>16, <2>17, <2>18, <2>19, <2>20, <2>21, <2>22, <2>23 DEF Inv
  <1>4. QED
    BY <1>2, <1>3

-----------------------------------------------------------------------------
(* Inside, and out of the critical sections.                               *)

\* Who is inside is alone, and no switch is past its refusals.
LEMMA Holding ==
  ASSUME Inv, NEW f \in Flows, flow[f].at \in {"entered", "stopping"}
  PROVE  /\ lock = f /\ ~Switches /\ ~Bare /\ switch.left = {} /\ flow[f].op # "none"
         /\ \A g \in Flows \ {f} : flow[g].at \notin {"entered", "stopping"} /\ ~Moving(g)
         /\ flow[f].pane \in Nat
         /\ Moving(f) => flow[f].pane \in DOMAIN panes
  <1>1. lock = f /\ \A g \in Flows \ {f} : flow[g].at \notin {"entered", "stopping"} /\ ~Moving(g)
    BY DEF Inv, LockInv, Moving
  <1>2. lock # "switch"
    BY <1>1 DEF Flows
  <1>3. ~Switches /\ ~Bare
    BY <1>2 DEF Inv, LockInv, Switches, Bare
  <1>4. switch.left = {}
    BY <1>3 DEF Inv, BareInv, Switches
  <1>5. flow[f].pane \in Nat /\ flow[f].pane <= Len(panes) /\ flow[f].op # "none"
        /\ DOMAIN panes = 1 .. Len(panes) /\ Len(panes) \in {1, 2}
    BY PaneFacts DEF Inv, Types, Tasks, OpInv
  <1>6. Moving(f) => flow[f].pane # 0
    BY DEF Inv, MovingInv
  <1>7. QED
    BY <1>1, <1>3, <1>4, <1>5, <1>6

\* The watch that only this pane needed is stopped.
LEMMA LeaveStep ==
  ASSUME Inv, NEW f \in Flows, Leave(f)
  PROVE  Inv'
  <1> DEFINE p == flow[f].pane
             v == Old(f)
  <1>1. /\ flow[f].at = "entered" /\ flow[f].op \notin {"split", "close"} /\ ~Keeps(f) /\ Stop({v})
        /\ flow' = [flow EXCEPT ![f].at = "stopping"]
        /\ panes' = panes /\ focus' = focus /\ lock' = lock /\ lease' = lease /\ polling' = polling
        /\ switch' = switch
    BY DEF Leave, screen, Old
  <1>2. /\ lock = f /\ ~Switches /\ ~Bare /\ switch.left = {} /\ flow[f].op \in Moves /\ Moving(f)
        /\ \A g \in Flows \ {f} : flow[g].at \notin {"entered", "stopping"} /\ ~Moving(g)
        /\ p \in DOMAIN panes /\ v \in Views
    <2>1. flow[f].op \in Moves
      BY <1>1, Holding DEF Inv, Types, Tasks
    <2>2. Moving(f)
      BY <1>1, <2>1 DEF Moving
    <2>3. p \in DOMAIN panes
      BY <1>1, <2>2, Holding
    <2>4. QED
      BY <1>1, <2>1, <2>2, <2>3, Holding, PaneFacts DEF Old, Inv, Types
  <1>3. /\ flow' \in [Flows -> Tasks] /\ \A g \in Flows \ {f} : flow'[g] = flow[g]
        /\ flow'[f].at = "stopping" /\ flow'[f].op = flow[f].op /\ flow'[f].pane = p
        /\ flow'[f].from = flow[f].from /\ flow'[f].to = flow[f].to
        /\ flow'[f].late = flow[f].late /\ flow'[f].overtaken = flow[f].overtaken
    <2>1. flow[f] \in Tasks /\ flow' = [flow EXCEPT ![f] = [flow[f] EXCEPT !.at = "stopping"]]
      BY <1>1 DEF Inv, Types
    <2>2. QED
      BY <2>1 DEF Inv, Types, Tasks
  <1>4. /\ \A i \in DOMAIN panes \ {p} : panes[i].view # v
        /\ lease[v] = 0 /\ v \in Active
    <2>1. lease[v] \in Nat
      BY <1>2 DEF Inv, Types
    <2>2. QED
      BY <1>1, <2>1 DEF Keeps, Old
  <1>5. \A g \in Flows : ~Warms(g, v)
    BY <1>2, <1>4 DEF Inv, LeaseInv, Flows
  <1>6. StreamsOK' /\ ForeignInv' /\ Active' = Active \ {v} /\ dead' = dead
    BY <1>1, Stopped DEF Inv, Types
  <1>7. (\A g \in Flows : \A u : Warms(g, u)' <=> Warms(g, u)) /\ Old(f)' = v /\ Shown' = Shown
    BY <1>1, <1>3 DEF Warms, Leased, Old, Shown
  <1>8. \A g \in Flows : Moving(g)' <=> Moving(g)
    BY <1>1, <1>2, <1>3 DEF Moving
  <1>9. Types'
    BY <1>1, <1>3, <1>6 DEF Inv, Types, PanesOK
  <1>10. LockInv'
    BY <1>1, <1>2, <1>3 DEF Inv, LockInv, Switches, Flows
  <1>11. OpInv'
    BY <1>1, <1>2, <1>3 DEF Inv, OpInv, Leased
  <1>12. DrillInv' /\ LateInv'
    BY <1>1, <1>3 DEF Inv, DrillInv, LateInv, Waits, Captured
  <1>13. MovingInv'
    BY <1>1, <1>2, <1>3, <1>8 DEF Inv, MovingInv, Old
  <1>14. LeaseInv'
    BY <1>1, <1>7 DEF Inv, LeaseInv, Flows
  <1>15. ShownInv'
    <2> SUFFICES ASSUME NEW i \in DOMAIN panes
                 PROVE  panes[i].view \in Active' \union dead \/ i = p
      BY <1>1, <1>3, <1>6 DEF ShownInv
    <2>1. i # p => panes[i].view \in Active \union dead
      BY <1>2 DEF Inv, ShownInv
    <2>2. QED
      BY <1>4, <1>6, <2>1
  <1>16. ActiveInv'
    <2>1. \A u \in Active : u \in Shown \/ \E g \in Flows : Warms(g, u)
      BY <1>2 DEF Inv, ActiveInv, Moves
    <2>2. QED
      BY <1>6, <1>7, <2>1 DEF ActiveInv
  <1>17. StoppingInv'
    <2>1. \A g \in Flows : flow'[g].at = "stopping" => g = f
      BY <1>2, <1>3
    <2>2. \A g \in Flows : ~Warms(g, v)'
      BY <1>5, <1>7
    <2>3. \A g \in Flows : ~Warms(g, Old(f))'
      BY <1>7, <2>2 DEF Warms, Leased
    <2>4. QED
      BY <1>1, <1>3, <1>4, <1>6, <1>7, <2>1, <2>3 DEF StoppingInv
  <1>18. SplitInv' /\ PollInv'
    BY <1>1, <1>2, <1>3, <1>7 DEF Inv, SplitInv, PollInv, Moves
  <1>19. BareInv'
    BY <1>1, <1>2 DEF BareInv, Bare
  <1>20. TrailInv'
    BY <1>1, <1>3, <1>8 DEF Inv, TrailInv
  <1>21. QED
    BY <1>6, <1>9, <1>10, <1>11, <1>12, <1>13, <1>14, <1>15, <1>16, <1>17, <1>18, <1>19, <1>20 DEF Inv

\* Who goes out leaves every pane fed and on its trail, and no watch for nobody.
LEMMA Unlocking ==
  ASSUME Inv, NEW f \in Flows, flow[f].at \in {"entered", "stopping"},
         flow' = [flow EXCEPT ![f] = Finish(f)], lock' = "free",
         UNCHANGED <<focus, lease, switch>>,
         PanesOK', StreamsOK', ForeignInv', polling' \in BOOLEAN,
         DOMAIN panes' = DOMAIN panes, Len(panes') = Len(panes),
         \A i \in DOMAIN panes :
            /\ Len(panes'[i].drill) <= Len(panes[i].drill)
            /\ panes'[i].view \in (Active \union dead)'
            /\ panes'[i].strayed \/ Trails(panes'[i].drill, panes'[i].view),
         \A v \in Active' : v \in Shown' \/ \E g \in Flows : Warms(g, v),
         polling' => Home \in Shown'
  PROVE  Inv'
  <1>1. /\ Finish(f) \in Tasks /\ Finish(f).pane = 0
        /\ Leased(f) => Finish(f).at = "release" /\ Finish(f).op = flow[f].op /\ Finish(f).to = flow[f].to
        /\ ~Leased(f) => Finish(f).at = "idle" /\ Finish(f).op = "none"
    BY Finishing DEF Inv
  <1>2. flow' \in [Flows -> Tasks] /\ flow'[f] = Finish(f) /\ \A g \in Flows \ {f} : flow'[g] = flow[g]
    BY <1>1, Changing DEF Inv
  <1>3. flow'[f].at \in {"release", "idle"} /\ (Leased(f)' <=> Leased(f)) /\ ~Captured(f)' /\ ~Waits(f)'
    BY <1>1, <1>2 DEF Leased, Captured, Waits, Leases, Captures
  <1>4. /\ ~Switches /\ ~Bare /\ switch.left = {}
        /\ \A g \in Flows : flow'[g].at \notin {"entered", "stopping"}
    BY <1>2, <1>3, Holding
  <1>5. focus' = focus /\ lease' = lease /\ switch' = switch
    OBVIOUS
  <1>6. \A g \in Flows : \A v : Warms(g, v)' <=> Warms(g, v)
    BY <1>1, <1>2, <1>3 DEF Warms, Leased
  <1>7. \A g \in Flows : ~Moving(g)'
    BY <1>4 DEF Moving
  <1>8. Types'
    BY <1>2, <1>5 DEF Inv, Types
  <1>9. LockInv'
    BY <1>4, <1>5 DEF LockInv, Switches, Flows
  <1>10. OpInv'
    <2>1. flow'[f].pane = 0 /\ (flow'[f].op = "none" \/ (flow'[f].op = flow[f].op /\ flow'[f].at = "release"))
      BY <1>1, <1>2
    <2>2. flow'[f].op = "none" <=> flow'[f].at = "idle"
      BY <1>1, <1>2, <1>3 DEF Leased, Leases
    <2>3. Len(panes) \in {1, 2}
      BY PaneFacts DEF Inv, Types
    <2>4. \A g \in Flows \ {f} : Leased(g)' <=> Leased(g)
      BY <1>2 DEF Leased
    <2>5. flow'[f].op \in {"none", "drill", "pop"} /\ (flow'[f].at = "release" => Leased(f)')
      BY <1>1, <1>2, <1>3 DEF Leased, Leases
    <2>6. QED
      BY <1>2, <1>3, <1>5, <2>1, <2>2, <2>3, <2>4, <2>5 DEF Inv, OpInv
  <1>11. DrillInv'
    <2> SUFFICES ASSUME NEW g \in Flows, flow'[g].op = "drill"
                 PROVE  /\ MaxDepth > 0
                        /\ flow'[g].at # "release" => flow'[g].from \in Parents /\ flow'[g].to = DrillChild[flow'[g].from]
                        /\ Waits(g)' /\ ~flow'[g].late /\ flow'[g].pane # 0 => Len(panes'[flow'[g].pane].drill) < MaxDepth
      BY DEF DrillInv
    <2>1. CASE g = f
      <3>1. flow[f].op = "drill" /\ flow'[f].at = "release"
        BY <1>1, <1>2, <2>1 DEF Leased, Leases
      <3>2. QED
        BY <1>3, <2>1, <3>1 DEF Inv, DrillInv
    <2>2. CASE g # f
      <3>1. flow'[g] = flow[g] /\ (Waits(g)' <=> Waits(g))
        BY <1>2, <2>2 DEF Waits
      <3>2. ASSUME Waits(g), ~flow[g].late, flow[g].pane # 0
            PROVE  Len(panes'[flow[g].pane].drill) < MaxDepth
        <4> DEFINE i == flow[g].pane
        <4>1. i \in Nat /\ i <= Len(panes) /\ DOMAIN panes = 1 .. Len(panes) /\ Len(panes) \in {1, 2}
          BY PaneFacts DEF Inv, OpInv, Types, Tasks
        <4>2. i \in DOMAIN panes
          BY <3>2, <4>1
        <4>3. Len(panes[i].drill) < MaxDepth
          BY <3>1, <3>2 DEF Inv, DrillInv
        <4>4. Len(panes'[i].drill) \in Nat /\ Len(panes[i].drill) \in Nat /\ MaxDepth \in Nat
          <5>1. panes'[i] \in [view : Views, strayed : BOOLEAN, drill : Seq(Parents)]
            BY <4>1, <4>2, ElementOfSeq DEF PanesOK
          <5>2. QED
            BY <4>2, <5>1, PaneFacts, Bounds, LenProperties DEF Inv, Types
        <4>5. QED
          BY <4>2, <4>3, <4>4
      <3>3. QED
        BY <3>1, <3>2 DEF Inv, DrillInv
    <2>3. QED
      BY <2>1, <2>2
  <1>12. MovingInv' /\ StoppingInv' /\ SplitInv'
    BY <1>4, <1>7 DEF MovingInv, StoppingInv, SplitInv
  <1>13. LeaseInv'
    BY <1>5, <1>6 DEF Inv, LeaseInv, Flows
  <1>14. ShownInv'
    BY DEF ShownInv
  <1>15. ActiveInv' /\ PollInv'
    BY <1>6 DEF ActiveInv, PollInv
  <1>16. BareInv'
    BY <1>4, <1>5 DEF BareInv, Bare
  <1>17. TrailInv'
    BY <1>7 DEF TrailInv
  <1>18. LateInv'
    BY <1>2, <1>3 DEF Inv, LateInv, Captured
  <1>19. QED
    BY <1>8, <1>9, <1>10, <1>11, <1>12, <1>13, <1>14, <1>15, <1>16, <1>17, <1>18 DEF Inv

\* The new view is watched and shown.
LEMMA ArriveStep ==
  ASSUME Inv, NEW f \in Flows, Arrive(f)
  PROVE  Inv'
  <1> DEFINE p  == flow[f].pane
             to == flow[f].to
  <1>1. /\ (flow[f].at = "entered" /\ flow[f].op \notin {"split", "close"} /\ Keeps(f)) \/ flow[f].at = "stopping"
        /\ Start(to) /\ panes' = [panes EXCEPT ![p].view = to] /\ Polls(panes')
        /\ lock' = "free" /\ flow' = [flow EXCEPT ![f] = Finish(f)]
        /\ focus' = focus /\ lease' = lease /\ switch' = switch
    BY DEF Arrive, Commit
  <1>2. /\ flow[f].at \in {"entered", "stopping"} /\ flow[f].op \in Moves /\ Moving(f)
        /\ p \in DOMAIN panes /\ to \in Views /\ ~Bare /\ switch.left = {}
        /\ \A g \in Flows \ {f} : flow[g].at \notin {"entered", "stopping"} /\ ~Moving(g)
    <2>1. flow[f].at \in {"entered", "stopping"}
      BY <1>1
    <2>2. flow[f].op \in Moves
      BY <1>1, <2>1, Holding DEF Inv, Types, Tasks, OpInv
    <2>3. Moving(f)
      BY <2>1, <2>2 DEF Moving
    <2>4. QED
      BY <2>1, <2>2, <2>3, Holding DEF Inv, Types, Tasks
  <1> DEFINE new == [panes[p] EXCEPT !.view = to]
  <1>3. /\ new \in [view : Views, strayed : BOOLEAN, drill : Seq(Parents)] /\ Len(new.drill) <= MaxDepth
        /\ new.view = to /\ new.drill = panes[p].drill /\ new.strayed = panes[p].strayed
        /\ panes' = [panes EXCEPT ![p] = new]
    <2>1. panes[p] \in [view : Views, strayed : BOOLEAN, drill : Seq(Parents)] /\ Len(panes[p].drill) <= MaxDepth
      BY <1>2, PaneFacts DEF Inv, Types
    <2>2. QED
      BY <1>1, <1>2, <2>1
  <1> HIDE DEF new
  <1>4. /\ PanesOK' /\ DOMAIN panes' = DOMAIN panes /\ Len(panes') = Len(panes)
        /\ panes'[p] = new /\ \A i \in DOMAIN panes \ {p} : panes'[i] = panes[i]
    BY <1>1, <1>2, <1>3, Replacing DEF Inv, Types
  <1>5. /\ StreamsOK' /\ ForeignInv'
        /\ Active' = Active \union {to} /\ Active \union dead \subseteq (Active \union dead)'
    BY <1>1, <1>2, Starting DEF Inv, Types
  <1>6. polling' \in BOOLEAN /\ (polling' => Home \in Shown')
    BY <1>1 DEF Polls, Shown
  <1>7. \A i \in DOMAIN panes :
           /\ Len(panes'[i].drill) <= Len(panes[i].drill)
           /\ panes'[i].view \in (Active \union dead)'
           /\ panes'[i].strayed \/ Trails(panes'[i].drill, panes'[i].view)
    <2> SUFFICES ASSUME NEW i \in DOMAIN panes
                 PROVE  /\ Len(panes'[i].drill) <= Len(panes[i].drill)
                        /\ panes'[i].view \in (Active \union dead)'
                        /\ panes'[i].strayed \/ Trails(panes'[i].drill, panes'[i].view)
      OBVIOUS
    <2>0. Len(panes[i].drill) \in Nat
      BY PaneFacts DEF Inv, Types
    <2>1. CASE i = p
      <3>1. panes[p].strayed \/ Trails(panes[p].drill, to)
        BY <1>2 DEF Inv, TrailInv
      <3>2. QED
        BY <1>3, <1>4, <1>5, <2>0, <2>1, <3>1
    <2>2. CASE i # p
      <3>1. panes'[i] = panes[i]
        BY <1>4, <2>2
      <3>2. panes[i].view \in Active \union dead
        BY <1>2, <2>2 DEF Inv, ShownInv
      <3>3. panes[i].strayed \/ Trails(panes[i].drill, panes[i].view)
        BY <1>2, <2>2 DEF Inv, TrailInv
      <3>4. QED
        BY <1>5, <2>0, <3>1, <3>2, <3>3
    <2>3. QED
      BY <2>1, <2>2
  <1>8. \A v \in Active' : v \in Shown' \/ \E g \in Flows : Warms(g, v)
    <2> SUFFICES ASSUME NEW v \in Active'
                 PROVE  v \in Shown' \/ \E g \in Flows : Warms(g, v)
      OBVIOUS
    <2>1. CASE v = to
      BY <1>2, <1>3, <1>4, <2>1 DEF Shown
    <2>2. CASE v # to
      <3>1. v \in Active
        BY <1>5, <2>2
      <3>2. v \in Shown \/ \E g \in Flows : Warms(g, v)
        BY <1>2, <3>1 DEF Inv, ActiveInv, Moves
      <3>3. ASSUME NEW i \in DOMAIN panes, v = panes[i].view, i # p
            PROVE  v \in Shown'
        BY <1>4, <3>3 DEF Shown
      <3>4. CASE v = Old(f)
        <4>1. CASE flow[f].at = "stopping"
          BY <3>1, <3>4, <4>1 DEF Inv, StoppingInv
        <4>2. CASE flow[f].at # "stopping"
          <5>1. Keeps(f)
            BY <1>1, <4>2
          <5>2. (\E i \in DOMAIN panes \ {p} : panes[i].view = v) \/ lease[v] > 0
            BY <3>1, <3>4, <5>1 DEF Keeps, Old
          <5>3. lease[v] > 0 => \E g \in Flows : Warms(g, v)
            <6>1. v \in Views
              BY <3>1 DEF Active
            <6>2. lease[v] = (IF Warms("user", v) THEN 1 ELSE 0) + (IF Warms("other", v) THEN 1 ELSE 0)
              BY <6>1 DEF Inv, LeaseInv
            <6>3. QED
              BY <6>2 DEF Flows
          <5>4. QED
            BY <3>3, <5>2, <5>3
        <4>3. QED
          BY <4>1, <4>2
      <3>5. CASE v # Old(f)
        BY <3>2, <3>3, <3>5 DEF Shown, Old
      <3>6. QED
        BY <3>4, <3>5
    <2>3. QED
      BY <2>1, <2>2
  <1>9. QED
    BY <1>1, <1>2, <1>4, <1>5, <1>6, <1>7, <1>8, Unlocking

\* The cloned view is watched.
LEMMA MountedStep ==
  ASSUME Inv, NEW f \in Flows, Mounted(f)
  PROVE  Inv'
  <1> DEFINE to == flow[f].to
  <1>1. /\ flow[f].at = "entered" /\ flow[f].op = "split" /\ Start(to) /\ lock' = "free"
        /\ flow' = [flow EXCEPT ![f] = Resting] /\ panes' = panes /\ focus' = focus
        /\ lease' = lease /\ polling' = polling /\ switch' = switch
    BY DEF Mounted, screen
  <1>2. Finish(f) = Resting
    BY <1>1 DEF Finish, Leased, Leases
  <1>3. /\ to \in Views /\ to \in Shown /\ ~Bare /\ switch.left = {} /\ polling \in BOOLEAN
        /\ \A g \in Flows : flow[g].at # "stopping" /\ ~Moving(g)
        /\ \A g \in Flows : ~(flow[g].at = "entered" /\ flow[g].op = "close")
    <2>1. ~Moving(f) /\ flow[f].at # "stopping"
      BY <1>1 DEF Moving, Moves
    <2>2. QED
      BY <1>1, <2>1, Holding DEF Inv, SplitInv, Types, Tasks
  <1>4. /\ StreamsOK' /\ ForeignInv'
        /\ Active' = Active \union {to} /\ Active \union dead \subseteq (Active \union dead)'
    BY <1>1, <1>3, Starting DEF Inv, Types
  <1>5. \A i \in DOMAIN panes :
           /\ Len(panes'[i].drill) <= Len(panes[i].drill)
           /\ panes'[i].view \in (Active \union dead)'
           /\ panes'[i].strayed \/ Trails(panes'[i].drill, panes'[i].view)
    <2>1. \A i \in DOMAIN panes : Len(panes[i].drill) \in Nat
      BY PaneFacts DEF Inv, Types
    <2>2. \A i \in DOMAIN panes : panes[i].view \in Active \union dead
      BY <1>3 DEF Inv, ShownInv
    <2>3. \A i \in DOMAIN panes : panes[i].strayed \/ Trails(panes[i].drill, panes[i].view)
      BY <1>3 DEF Inv, TrailInv
    <2>4. QED
      BY <1>1, <1>4, <2>1, <2>2, <2>3
  <1>6. \A v \in Active' : v \in Shown' \/ \E g \in Flows : Warms(g, v)
    BY <1>1, <1>3, <1>4 DEF Inv, ActiveInv, Shown
  <1>7. polling' => Home \in Shown'
    BY <1>1, <1>3 DEF Inv, PollInv, Shown
  <1>8. PanesOK'
    BY <1>1 DEF Inv, Types, PanesOK
  <1>9. QED
    BY <1>1, <1>2, <1>3, <1>4, <1>5, <1>6, <1>7, <1>8, Unlocking

\* The watch that only the closed pane had is stopped.
LEMMA ClosedStep ==
  ASSUME Inv, NEW f \in Flows, Closed(f)
  PROVE  Inv'
  <1> DEFINE v == flow[f].to
  <1>1. /\ flow[f].at = "entered" /\ flow[f].op = "close" /\ Polls(panes) /\ lock' = "free"
        /\ (v \notin Shown /\ Stop({v})) \/ (v \in Shown /\ UNCHANGED streams)
        /\ flow' = [flow EXCEPT ![f] = Resting] /\ panes' = panes /\ focus' = focus
        /\ lease' = lease /\ switch' = switch
    BY DEF Closed, screen
  <1>2. Finish(f) = Resting
    BY <1>1 DEF Finish, Leased, Leases
  <1>3. /\ ~Bare /\ switch.left = {}
        /\ \A g \in Flows : flow[g].at # "stopping" /\ ~Moving(g)
        /\ \A g \in Flows \ {f} : flow[g].at # "entered"
    <2>1. ~Moving(f) /\ flow[f].at # "stopping"
      BY <1>1 DEF Moving, Moves
    <2>2. QED
      BY <1>1, <2>1, Holding
  <1>4. /\ StreamsOK' /\ ForeignInv' /\ dead' = dead
        /\ Active' = IF v \in Shown THEN Active ELSE Active \ {v}
    <2>1. CASE v \notin Shown
      BY <1>1, <2>1, Stopped DEF Inv, Types
    <2>2. CASE v \in Shown
      <3>1. UNCHANGED streams
        BY <1>1, <2>2
      <3>2. QED
        BY <2>2, <3>1 DEF Inv, Types, StreamsOK, ForeignInv, Active, streams
    <2>3. QED
      BY <2>1, <2>2
  <1>5. Shown' = Shown
    BY <1>1 DEF Shown
  <1>6. \A i \in DOMAIN panes :
           /\ Len(panes'[i].drill) <= Len(panes[i].drill)
           /\ panes'[i].view \in (Active \union dead)'
           /\ panes'[i].strayed \/ Trails(panes'[i].drill, panes'[i].view)
    <2>1. \A i \in DOMAIN panes : Len(panes[i].drill) \in Nat
      BY PaneFacts DEF Inv, Types
    <2>2. \A i \in DOMAIN panes : panes[i].view \in Active \union dead /\ panes[i].view \in Shown
      BY <1>3 DEF Inv, ShownInv, Shown
    <2>3. \A i \in DOMAIN panes : panes[i].strayed \/ Trails(panes[i].drill, panes[i].view)
      BY <1>3 DEF Inv, TrailInv
    <2>4. QED
      BY <1>1, <1>4, <2>1, <2>2, <2>3
  <1>7. \A u \in Active' : u \in Shown' \/ \E g \in Flows : Warms(g, u)
    <2>1. \A u \in Active : u \in Shown \/ u = v \/ \E g \in Flows : Warms(g, u)
      BY <1>3 DEF Inv, ActiveInv
    <2>2. QED
      BY <1>4, <1>5, <2>1
  <1>8. polling' \in BOOLEAN /\ (polling' => Home \in Shown')
    BY <1>1, <1>5 DEF Polls, Shown
  <1>9. PanesOK'
    BY <1>1 DEF Inv, Types, PanesOK
  <1>10. QED
    BY <1>1, <1>2, <1>4, <1>6, <1>7, <1>8, <1>9, Unlocking

\* A cancelled drill takes its level back.
LEMMA CancelStep ==
  ASSUME Inv, NEW f \in Flows, Cancel(f)
  PROVE  Inv'
  <1> DEFINE p == flow[f].pane
  <1>1. /\ f = "other" /\ flow[f].at \in {"prewarm", "queued", "entered"}
        /\ flow' = [flow EXCEPT ![f] = Finish(f)]
        /\ lock' = IF lock = f THEN "free" ELSE lock
        /\ focus' = focus /\ lease' = lease /\ polling' = polling /\ switch' = switch
        /\ UNCHANGED <<watch, stale, rows, dead>>
    BY DEF Cancel, Abandons, streams, Flows
  <1>2. CASE flow[f].at # "entered"
    <2>1. lock # f
      BY <1>1, <1>2 DEF Inv, LockInv
    <2>2. panes' = panes /\ lock' = lock
      BY <1>1, <2>1 DEF Cancel
    <2>3. Waits(f)
      BY <1>1, <1>2 DEF Waits
    <2>4. QED
      BY <1>1, <2>2, <2>3, TurnedAwayStep
  <1>3. CASE flow[f].at = "entered"
    <2>1. /\ lock = f /\ lock' = "free" /\ flow[f].op \in Moves /\ Moving(f)
          /\ p \in DOMAIN panes /\ ~Bare /\ switch.left = {} /\ flow[f].op # "pop"
          /\ \A g \in Flows \ {f} : flow[g].at \notin {"entered", "stopping"} /\ ~Moving(g)
      <3>1. flow[f].op \in Moves /\ flow[f].op # "pop"
        BY <1>1, <1>3, Holding DEF Inv, Types, Tasks, OpInv
      <3>2. Moving(f)
        BY <1>3, <3>1 DEF Moving
      <3>3. QED
        BY <1>1, <1>3, <3>1, <3>2, Holding
    <2>2. /\ panes[p] \in [view : Views, strayed : BOOLEAN, drill : Seq(Parents)]
          /\ Len(panes[p].drill) \in Nat /\ Len(panes[p].drill) <= MaxDepth
          /\ panes[p].strayed \/ Trails(panes[p].drill, flow[f].to)
          /\ flow[f].op = "drill" =>
                panes[p].drill # <<>> /\ Last(panes[p].drill) = panes[p].view /\ flow[f].from = panes[p].view
          /\ flow[f].op # "drill" => panes[p].drill = <<>> \/ panes[p].strayed
      <3>1. /\ flow[f].op = "drill" =>
                 panes[p].drill # <<>> /\ Last(panes[p].drill) = panes[p].view /\ flow[f].from = panes[p].view
            /\ flow[f].op # "drill" => panes[p].drill = <<>> \/ panes[p].strayed
        BY <2>1 DEF Inv, MovingInv, Old, Moves
      <3>2. QED
        BY <2>1, <3>1, PaneFacts DEF Inv, TrailInv, Types
    <2> DEFINE stack == Front(panes[p].drill)
               off   == panes[p].strayed /\ stack # <<>>
               new   == IF flow[f].op = "drill" THEN [panes[p] EXCEPT !.drill = stack, !.strayed = off]
                        ELSE panes[p]
    <2>3. /\ new \in [view : Views, strayed : BOOLEAN, drill : Seq(Parents)]
          /\ new.view = panes[p].view /\ Len(new.drill) <= Len(panes[p].drill) /\ Len(new.drill) <= MaxDepth
          /\ new.strayed \/ Trails(new.drill, new.view)
      <3>1. CASE flow[f].op = "drill"
        <4>1. /\ stack \in Seq(Parents) /\ Len(stack) = Len(panes[p].drill) - 1
              /\ Trails(panes[p].drill, flow[f].to) => Trails(stack, panes[p].view)
          BY <2>2, <3>1, Popping
        <4>2. off \in BOOLEAN /\ (off <=> panes[p].strayed /\ stack # <<>>)
          BY <2>2
        <4>3. (stack = <<>> => Trails(stack, panes[p].view)) /\ MaxDepth \in Nat
          BY Rooted, Bounds
        <4>4. off \/ Trails(stack, panes[p].view)
          BY <2>2, <4>1, <4>2, <4>3
        <4>5. Len(stack) <= Len(panes[p].drill) /\ Len(stack) <= MaxDepth
          BY <2>2, <4>1, <4>3
        <4> HIDE DEF stack, off
        <4>6. /\ new \in [view : Views, strayed : BOOLEAN, drill : Seq(Parents)]
              /\ new.view = panes[p].view /\ new.drill = stack /\ new.strayed = off
          BY <2>2, <3>1, <4>1, <4>2
        <4> HIDE DEF new
        <4>7. new.strayed \/ Trails(new.drill, new.view)
          BY <4>4, <4>6, Zenon
        <4>8. QED
          BY <4>5, <4>6, <4>7
      <3>2. CASE flow[f].op # "drill"
        <4>1. new = panes[p]
          BY <3>2
        <4>2. ASSUME panes[p].drill = <<>>
              PROVE  Trails(panes[p].drill, panes[p].view)
          BY <4>2, Rooted DEF Trails
        <4>3. panes[p].strayed \/ Trails(panes[p].drill, panes[p].view)
          <5>1. panes[p].drill = <<>> \/ panes[p].strayed
            BY <2>2, <3>2
          <5>2. QED
            BY <4>2, <5>1, Zenon
        <4> HIDE DEF new
        <4>4. new.strayed \/ Trails(new.drill, new.view)
          BY <4>1, <4>3, Zenon
        <4>5. QED
          BY <2>2, <4>1, <4>4
      <3>3. QED
        BY <3>1, <3>2
    <2>4. panes' = [panes EXCEPT ![p] = new]
      <3>1. CASE flow[f].op = "drill"
        BY <2>1, <2>2, <3>1 DEF Cancel, OnTrail
      <3>2. CASE flow[f].op # "drill"
        <4>1. panes' = panes
          BY <2>1, <3>2 DEF Cancel
        <4>2. QED
          BY <3>2, <4>1 DEF Inv, Types, PanesOK
      <3>3. QED
        BY <3>1, <3>2
    <2> HIDE DEF new
    <2>5. /\ PanesOK' /\ DOMAIN panes' = DOMAIN panes /\ Len(panes') = Len(panes)
          /\ panes'[p] = new /\ \A i \in DOMAIN panes \ {p} : panes'[i] = panes[i]
      BY <1>1, <2>1, <2>3, <2>4, Replacing DEF Inv, Types
    <2>6. \A i \in DOMAIN panes : panes'[i].view = panes[i].view
      BY <2>3, <2>5
    <2>7. Shown' = Shown /\ Active' = Active /\ dead' = dead
      BY <1>1, <2>5, <2>6 DEF Shown, Active
    <2>8. \A i \in DOMAIN panes :
             /\ Len(panes'[i].drill) <= Len(panes[i].drill)
             /\ panes'[i].view \in (Active \union dead)'
             /\ panes'[i].strayed \/ Trails(panes'[i].drill, panes'[i].view)
      <3> SUFFICES ASSUME NEW i \in DOMAIN panes
                   PROVE  /\ Len(panes'[i].drill) <= Len(panes[i].drill)
                          /\ panes'[i].view \in (Active \union dead)'
                          /\ panes'[i].strayed \/ Trails(panes'[i].drill, panes'[i].view)
        OBVIOUS
      <3>1. Len(panes[i].drill) \in Nat
        BY PaneFacts DEF Inv, Types
      <3>2. panes[i].view \in Active \union dead
        BY <1>3, <2>1 DEF Inv, ShownInv
      <3>3. CASE i = p
        BY <2>3, <2>5, <2>6, <2>7, <3>1, <3>2, <3>3
      <3>4. CASE i # p
        <4>1. panes[i].strayed \/ Trails(panes[i].drill, panes[i].view)
          BY <2>1, <3>4 DEF Inv, TrailInv
        <4>2. QED
          BY <2>5, <2>7, <3>1, <3>2, <3>4, <4>1
      <3>5. QED
        BY <3>3, <3>4
    <2>9. \A v \in Active' : v \in Shown' \/ \E g \in Flows : Warms(g, v)
      BY <2>1, <2>7 DEF Inv, ActiveInv, Moves
    <2>10. polling' \in BOOLEAN /\ (polling' => Home \in Shown')
      BY <1>1, <2>1, <2>7 DEF Inv, PollInv, Types, Moves
    <2>11. StreamsOK' /\ ForeignInv'
      BY <1>1 DEF Inv, Types, StreamsOK, ForeignInv
    <2>12. QED
      BY <1>1, <1>3, <2>1, <2>5, <2>8, <2>9, <2>10, <2>11, Unlocking
  <1>4. QED
    BY <1>2, <1>3

-----------------------------------------------------------------------------
(* The context switch.                                                     *)

\* What the switch does beside the tasks leaves their captures and leases alone.
LEMMA Flowing ==
  ASSUME Inv, UNCHANGED <<panes, focus, flow, lease>>, polling' => polling \/ Home \in Shown
  PROVE  /\ PanesOK' /\ OpInv' /\ DrillInv' /\ MovingInv' /\ LeaseInv'
         /\ SplitInv' /\ PollInv' /\ TrailInv' /\ LateInv'
         /\ \A g \in Flows : \A v : Warms(g, v)' <=> Warms(g, v)
         /\ Shown' = Shown /\ Here' = Here
  <1>1. panes' = panes /\ focus' = focus /\ flow' = flow /\ lease' = lease
    OBVIOUS
  <1>2. PanesOK'
    BY <1>1 DEF Inv, Types, PanesOK
  <1>3. OpInv' /\ DrillInv' /\ LeaseInv' /\ LateInv' /\ \A g \in Flows : \A v : Warms(g, v)' <=> Warms(g, v)
    BY <1>1 DEF Inv, OpInv, DrillInv, LeaseInv, LateInv, Leased, Warms, Waits, Captured
  <1>4. MovingInv' /\ TrailInv'
    BY <1>1 DEF Inv, MovingInv, TrailInv, Moving, Old
  <1>5. SplitInv' /\ PollInv' /\ Shown' = Shown /\ Here' = Here
    BY <1>1 DEF Inv, SplitInv, PollInv, Shown, Here
  <1>6. QED
    BY <1>2, <1>3, <1>4, <1>5

\* While the switch holds the lock nobody is inside.
LEMMA SwitchHolds ==
  ASSUME Inv, Switches
  PROVE  /\ lock = "switch" /\ switch.left \subseteq Views
         /\ \A g \in Flows : flow[g].at \notin {"entered", "stopping"} /\ ~Moving(g)
  BY DEF Inv, LockInv, Moving, Flows, Types

\* A switch is asked for, refused, or past its refusals.
LEMMA ClaimStep ==
  ASSUME Inv, Claim \/ Refused \/ LockSwitch
  PROVE  Inv'
  <1>1. /\ switch.at \in {"idle", "probe"} /\ switch'.at \in {"idle", "probe", "quiesce"}
        /\ switch'.left = switch.left /\ switch.left \subseteq Views
        /\ switch' = [at |-> switch'.at, left |-> switch'.left]
        /\ panes' = panes /\ focus' = focus /\ flow' = flow /\ lease' = lease /\ polling' = polling
        /\ UNCHANGED <<watch, stale, rows, dead>>
    <2>1. switch \in [at : {"idle", "probe", "quiesce", "stop", "load", "restore", "loaded", "resume"},
                      left : SUBSET Views]
      BY DEF Inv, Types
    <2>2. switch.at \in {"idle", "probe"} /\ \E at \in {"idle", "probe", "quiesce"} : Goes(at)
      BY DEF Claim, Refused, LockSwitch, Switching
    <2>3. QED
      BY <2>1, <2>2 DEF Claim, Refused, LockSwitch, Goes, screen, streams
  <1>2. \/ switch'.at \in {"idle", "probe"} /\ lock' = lock
        \/ switch'.at = "quiesce" /\ lock' = "switch" /\ lock = "free" /\ ~Blocked
    <2>1. switch \in [at : {"idle", "probe", "quiesce", "stop", "load", "restore", "loaded", "resume"},
                      left : SUBSET Views]
      BY DEF Inv, Types
    <2>2. QED
      BY <2>1 DEF Claim, Refused, LockSwitch, Goes
  <1>3. ~Switches /\ ~Bare /\ ~Bare' /\ switch.left = {}
    <2>1. ~Switches /\ ~Bare /\ ~Bare'
      BY <1>1 DEF Switches, Bare
    <2>2. QED
      BY <2>1 DEF Inv, BareInv, Bare
  <1>4. /\ PanesOK' /\ OpInv' /\ DrillInv' /\ MovingInv' /\ LeaseInv'
        /\ SplitInv' /\ PollInv' /\ TrailInv' /\ LateInv'
        /\ \A g \in Flows : \A v : Warms(g, v)' <=> Warms(g, v)
        /\ Shown' = Shown
    BY <1>1, Flowing
  <1>5. Active' = Active /\ dead' = dead
    BY <1>1 DEF Active
  <1>6. Types'
    <2>1. lock' \in Flows \union {"free", "switch"}
      BY <1>2 DEF Inv, Types
    <2>2. switch' \in [at : {"idle", "probe", "quiesce", "stop", "load", "restore", "loaded", "resume"},
                       left : SUBSET Views]
      BY <1>1
    <2>3. QED
      BY <1>1, <1>4, <2>1, <2>2 DEF Inv, Types, StreamsOK
  <1>7. LockInv'
    <2>1. CASE switch'.at \in {"idle", "probe"} /\ lock' = lock
      BY <1>1, <1>3, <2>1 DEF Inv, LockInv, Switches
    <2>2. CASE switch'.at = "quiesce" /\ lock' = "switch" /\ lock = "free" /\ ~Blocked
      <3>1. \A g \in Flows : flow[g].at \notin {"entered", "stopping"}
        BY <2>2, FreeLock
      <3>2. flow["other"].op \in {"none", "goto"}
        BY <2>2 DEF Blocked, Inv, OpInv, Flows
      <3>3. QED
        BY <1>1, <2>2, <3>1, <3>2 DEF LockInv, Switches, Flows
    <2>3. QED
      BY <1>2, <2>1, <2>2
  <1>8. ShownInv'
    BY <1>1, <1>3, <1>5 DEF Inv, ShownInv
  <1>9. ActiveInv'
    BY <1>1, <1>4, <1>5 DEF Inv, ActiveInv
  <1>10. StoppingInv'
    BY <1>1, <1>5 DEF Inv, StoppingInv, Old, Warms, Leased, Waits
  <1>11. BareInv'
    BY <1>1, <1>3 DEF BareInv, Bare
  <1>12. ForeignInv'
    BY <1>1 DEF Inv, ForeignInv
  <1>13. QED
    BY <1>4, <1>6, <1>7, <1>8, <1>9, <1>10, <1>11, <1>12 DEF Inv

\* The workspace is brought to one pane on no trail.
LEMMA QuiesceStep ==
  ASSUME Inv, Quiesce
  PROVE  Inv'
  <1>1. /\ switch.at = "quiesce" /\ focus' = 1 /\ flow' = Without(2) /\ polling' = FALSE
        /\ panes' = <<OnTrail(Head(panes), <<>>, FALSE)>>
        /\ switch' = [at |-> "stop", left |-> Active]
        /\ lock' = lock /\ lease' = lease /\ UNCHANGED <<watch, stale, rows, dead>>
    BY DEF Quiesce, streams
  <1> DEFINE pane == OnTrail(Head(panes), <<>>, FALSE)
  <1>2. /\ pane \in [view : Views, strayed : BOOLEAN, drill : Seq(Parents)]
        /\ pane.drill = <<>>
    <2>1. Head(panes) \in [view : Views, strayed : BOOLEAN, drill : Seq(Parents)]
      <3>1. Len(panes) >= 1 /\ panes[1] \in [view : Views, strayed : BOOLEAN, drill : Seq(Parents)]
        BY PaneFacts DEF Inv, Types
      <3>2. Head(panes) = panes[1]
        OBVIOUS
      <3>3. QED
        BY <3>1, <3>2
    <2>2. <<>> \in Seq(Parents)
      BY Rooted
    <2>3. pane = [Head(panes) EXCEPT !.drill = <<>>, !.strayed = FALSE]
      BY DEF OnTrail
    <2>4. QED
      BY <2>1, <2>2, <2>3
  <1>3. /\ PanesOK' /\ Len(panes') = 1 /\ DOMAIN panes' = 1 .. 1 /\ panes'[1].drill = <<>>
        /\ Trails(panes'[1].drill, panes'[1].view)
    <2>1. panes' = <<pane>>
      BY <1>1
    <2>2. <<>> \in Seq(Parents) /\ Len(<<>>) = 0 /\ \A v : Trails(<<>>, v)
      BY Rooted
    <2> DEFINE T == [view : Views, strayed : BOOLEAN, drill : Seq(Parents)]
    <2> HIDE DEF pane, T
    <2>3. pane \in T
      BY <1>2 DEF T
    <2>4. /\ panes' \in Seq(T) /\ Len(panes') = 1 /\ DOMAIN panes' = 1 .. 1 /\ panes'[1] = pane
      BY <2>1, <2>3
    <2>5. Trails(panes'[1].drill, panes'[1].view)
      BY <1>2, <2>2, <2>4, Zenon
    <2>6. Len(panes'[1].drill) <= MaxDepth
      BY <1>2, <2>2, <2>4, Bounds
    <2>7. PanesOK'
      <3>1. focus' = 1 /\ \A i \in 1 .. 1 : i = 1
        BY <1>1
      <3>2. focus' \in DOMAIN panes' /\ Len(panes') \in {1, 2} /\ \A i \in DOMAIN panes' : Len(panes'[i].drill) <= MaxDepth
        BY <2>4, <2>6, <3>1
      <3>3. QED
        BY <2>4, <3>2 DEF PanesOK, T
    <2>8. QED
      BY <1>2, <2>4, <2>5, <2>7
  <1>4. /\ lock = "switch" /\ Switches /\ switch.left \subseteq Views
        /\ \A g \in Flows : flow[g].at \notin {"entered", "stopping"} /\ ~Moving(g)
    BY <1>1, SwitchHolds DEF Switches
  <1>5. \A g \in Flows :
          /\ flow'[g] \in Tasks
          /\ flow'[g].at = flow[g].at /\ flow'[g].op = flow[g].op
          /\ flow'[g].from = flow[g].from /\ flow'[g].to = flow[g].to
          /\ flow'[g].late = flow[g].late /\ flow'[g].overtaken = flow[g].overtaken
          /\ flow'[g].pane \in {0, 1}
          /\ flow'[g].pane # 0 => flow[g].pane # 0
    <2> SUFFICES ASSUME NEW g \in Flows
                 PROVE  /\ flow'[g] \in Tasks
                        /\ flow'[g].at = flow[g].at /\ flow'[g].op = flow[g].op
                        /\ flow'[g].from = flow[g].from /\ flow'[g].to = flow[g].to
                        /\ flow'[g].late = flow[g].late /\ flow'[g].overtaken = flow[g].overtaken
                        /\ flow'[g].pane \in {0, 1}
                        /\ flow'[g].pane # 0 => flow[g].pane # 0
      OBVIOUS
    <2>1. /\ Without(2)[g] \in Tasks
          /\ Without(2)[g].at = flow[g].at /\ Without(2)[g].op = flow[g].op
          /\ Without(2)[g].from = flow[g].from /\ Without(2)[g].to = flow[g].to
          /\ Without(2)[g].late = flow[g].late /\ Without(2)[g].overtaken = flow[g].overtaken
          /\ flow[g].pane \in Nat
          /\ flow[g].pane < 2 => Without(2)[g].pane = flow[g].pane
          /\ flow[g].pane = 2 => Without(2)[g].pane = 0
      BY Withdrawn DEF Inv
    <2>2. flow[g].pane <= Len(panes) /\ Len(panes) \in {1, 2}
      BY PaneFacts DEF Inv, OpInv, Types
    <2>3. flow[g].pane = 0 \/ flow[g].pane = 1 \/ flow[g].pane = 2
      <3>1. flow[g].pane \in Nat
        BY <2>1
      <3>2. \A m, n \in Nat : n \in {1, 2} /\ m <= n => m = 0 \/ m = 1 \/ m = 2
        OBVIOUS
      <3>3. Len(panes) \in Nat
        BY <2>2
      <3>4. QED
        BY <2>2, <3>1, <3>2, <3>3, Zenon
    <2>4. QED
      BY <1>1, <2>1, <2>3
  <1>6. flow' \in [Flows -> Tasks]
    <2> DEFINE to(h) == CASE flow[h].pane < 2 -> flow[h].pane
                          [] flow[h].pane = 2 -> 0
                          [] flow[h].pane > 2 -> flow[h].pane - 1
    <2>1. flow' = [h \in Flows |-> [flow[h] EXCEPT !.pane = to(h)]]
      BY <1>1 DEF Without
    <2> HIDE DEF to
    <2>2. QED
      BY <1>5, <2>1
  <1>7. Active' = Active /\ Active \subseteq Views
    BY <1>1 DEF Active
  <1>8. \A g \in Flows : ~Moving(g)' /\ flow'[g].at \notin {"entered", "stopping"} /\ (Leased(g)' <=> Leased(g))
    BY <1>4, <1>5 DEF Moving, Leased
  <1>9. \A g \in Flows : \A v : Warms(g, v)' <=> Warms(g, v)
    BY <1>5, <1>8 DEF Warms
  <1>10. Types'
    BY <1>1, <1>3, <1>6, <1>7 DEF Inv, Types, StreamsOK
  <1>11. LockInv'
    BY <1>1, <1>4, <1>5, <1>8 DEF Inv, LockInv, Switches, Flows
  <1>12. OpInv'
    <2>1. \A g \in Flows : flow'[g].pane \in {0, focus'} /\ flow'[g].pane <= Len(panes') /\ Len(panes') = 1
      BY <1>1, <1>3, <1>5
    <2>2. QED
      BY <1>5, <1>8, <2>1 DEF Inv, OpInv
  <1>13. DrillInv'
    <2>1. MaxDepth > 0 => \A g \in Flows : flow'[g].pane # 0 => Len(panes'[flow'[g].pane].drill) < MaxDepth
      BY <1>3, <1>5, Rooted, Bounds
    <2>2. QED
      BY <1>5, <2>1 DEF Inv, DrillInv, Waits
  <1>14. MovingInv' /\ StoppingInv' /\ SplitInv'
    BY <1>8 DEF MovingInv, StoppingInv, SplitInv
  <1>15. LeaseInv'
    BY <1>1, <1>9 DEF Inv, LeaseInv, Flows
  <1>16. ShownInv' /\ ActiveInv' /\ PollInv'
    BY <1>1, <1>7 DEF ShownInv, Bare, ActiveInv, PollInv
  <1>17. BareInv'
    BY <1>1, <1>3, <1>7 DEF BareInv
  <1>18. TrailInv'
    BY <1>3, <1>8 DEF TrailInv
  <1>19. LateInv' /\ ForeignInv'
    BY <1>1, <1>5 DEF Inv, LateInv, ForeignInv, Captured
  <1>20. QED
    BY <1>10, <1>11, <1>12, <1>13, <1>14, <1>15, <1>16, <1>17, <1>18, <1>19 DEF Inv

\* The watches are stopped, the store emptied, and a client loaded, under the lock.
LEMMA TeardownStep ==
  ASSUME Inv, ClearAll \/ Load \/ LoadFails \/ \E v \in Views : StopNext(v)
  PROVE  Inv'
  <1>1. /\ switch.at \in {"stop", "load", "restore"} /\ panes' = panes /\ focus' = focus
        /\ flow' = flow /\ lease' = lease /\ polling' = polling
    BY DEF ClearAll, Load, LoadFails, StopNext, screen
  <1>2. Switches /\ Bare /\ lock = "switch" /\ (\A g \in Flows : flow[g].at \notin {"entered", "stopping"})
        /\ switch \in [at : {"idle", "probe", "quiesce", "stop", "load", "restore", "loaded", "resume"},
                       left : SUBSET Views]
    BY <1>1, SwitchHolds DEF Switches, Bare, Inv, Types
  <1>3. /\ PanesOK' /\ OpInv' /\ DrillInv' /\ MovingInv' /\ LeaseInv'
        /\ SplitInv' /\ PollInv' /\ TrailInv' /\ LateInv'
        /\ \A g \in Flows : \A v : Warms(g, v)' <=> Warms(g, v)
        /\ Shown' = Shown
    BY <1>1, Flowing
  <1>4. StoppingInv'
    BY <1>1, <1>2 DEF StoppingInv
  <1>5. \A v \in Active : v \in Shown \/ (\E g \in Flows : Warms(g, v)) \/ v \in switch.left
    BY <1>2 DEF Inv, ActiveInv
  <1>6. /\ Len(panes) = 1 /\ panes[1].drill = <<>> /\ ~polling
        /\ \A v \in Active \ switch.left : Warms("user", v) /\ Waits("user")
        /\ switch.at # "stop" => switch.left = {}
    BY <1>2 DEF Inv, BareInv
  <1>7. (Waits("user") => Waits("user")') /\ ~polling'
    BY <1>1, <1>6 DEF Waits
  <1>8. CASE \E v \in Views : StopNext(v)
    <2>1. PICK v \in Views : StopNext(v)
      BY <1>8
    <2>2. switch.at = "stop" /\ Stop({v}) /\ lock' = lock /\ switch'.at = "stop"
          /\ switch'.left = switch.left \ {v}
          /\ switch' \in [at : {"idle", "probe", "quiesce", "stop", "load", "restore", "loaded", "resume"},
                          left : SUBSET Views]
      BY <1>2, <2>1 DEF StopNext
    <2>3. StreamsOK' /\ ForeignInv' /\ Active' = Active \ {v} /\ dead' = dead
      BY <2>2, Stopped DEF Inv, Types
    <2>4. Types' /\ LockInv'
      BY <1>1, <1>2, <1>3, <2>2, <2>3 DEF Inv, Types, LockInv, Switches
    <2>5. ShownInv'
      BY <2>2 DEF ShownInv, Bare
    <2>6. ActiveInv'
      BY <1>3, <1>5, <2>2, <2>3 DEF ActiveInv
    <2>7. BareInv'
      BY <1>1, <1>3, <1>6, <1>7, <2>2, <2>3 DEF BareInv, Flows
    <2>8. QED
      BY <1>3, <1>4, <2>3, <2>4, <2>5, <2>6, <2>7 DEF Inv
  <1>9. CASE ClearAll \/ Load \/ LoadFails
    <2>1. /\ switch.left = {} /\ switch'.left = {} /\ watch' = watch /\ Active' = Active
          /\ switch' \in [at : {"idle", "probe", "quiesce", "stop", "load", "restore", "loaded", "resume"},
                          left : SUBSET Views]
      <3>1. switch.left = {} /\ watch' = watch
        BY <1>6, <1>9 DEF ClearAll, Load, LoadFails
      <3>2. \E at \in {"load", "loaded", "restore", "idle"} : switch' = [switch EXCEPT !.at = at]
        BY <1>9 DEF ClearAll, Load, LoadFails, Goes
      <3>3. QED
        BY <1>2, <3>1, <3>2 DEF Active
    <2>2. StreamsOK' /\ ForeignInv'
      <3>1. CASE rows' = [v \in Views |-> "empty"] /\ stale' = stale /\ dead' = dead
        BY <2>1, <3>1 DEF Inv, Types, StreamsOK, ForeignInv
      <3>2. CASE Swap /\ dead' \subseteq Views
        <4>1. stale' = {v \in Views : watch[v].at = "open"}
              /\ rows' = [v \in Views |-> IF rows[v] = "empty" THEN rows[v] ELSE "foreign"]
          BY <3>2 DEF Swap
        <4>2. QED
          BY <2>1, <3>2, <4>1 DEF Inv, Types, StreamsOK, ForeignInv
      <3>3. CASE stale' = stale /\ rows' = rows /\ dead' \subseteq Views
        BY <2>1, <3>3 DEF Inv, Types, StreamsOK, ForeignInv
      <3>4. dead \subseteq Views /\ Views \ Active \subseteq Views
        BY DEF Inv, Types, StreamsOK
      <3>5. QED
        BY <1>9, <3>1, <3>2, <3>3, <3>4 DEF ClearAll, Load, LoadFails
    <2>3. ActiveInv'
      BY <1>3, <1>5, <2>1 DEF ActiveInv
    <2>4. CASE switch'.at \in {"load", "loaded", "restore"} /\ lock' = lock
      <3>1. Types' /\ LockInv'
        BY <1>1, <1>2, <1>3, <2>1, <2>2, <2>4 DEF Inv, Types, LockInv, Switches
      <3>2. ShownInv'
        BY <2>4 DEF ShownInv, Bare
      <3>3. BareInv'
        BY <1>1, <1>3, <1>6, <1>7, <2>1, <2>4 DEF BareInv, Flows
      <3>4. QED
        BY <1>3, <1>4, <2>2, <2>3, <3>1, <3>2, <3>3 DEF Inv
    <2>5. CASE switch'.at = "idle" /\ lock' = "free" /\ dead' = Views \ Active
      <3>1. Types' /\ LockInv'
        BY <1>1, <1>2, <1>3, <2>1, <2>2, <2>5 DEF Inv, Types, LockInv, Switches, Flows
      <3>2. \A i \in DOMAIN panes : panes[i].view \in Views
        BY PaneFacts DEF Inv, Types
      <3>3. ShownInv'
        BY <1>1, <2>1, <2>5, <3>2 DEF ShownInv
      <3>4. BareInv'
        BY <2>1, <2>5 DEF BareInv, Bare
      <3>5. QED
        BY <1>3, <1>4, <2>2, <2>3, <3>1, <3>3, <3>4 DEF Inv
    <2>6. QED
      BY <1>2, <1>9, <2>4, <2>5 DEF ClearAll, Load, LoadFails, Goes
  <1>10. QED
    BY <1>8, <1>9

\* The new context is applied: who captured the old one is late.
LEMMA ApplyStep ==
  ASSUME Inv, Apply
  PROVE  Inv'
  <1>1. /\ switch.at = "loaded" /\ switch' = [switch EXCEPT !.at = "resume"]
        /\ panes' = [panes EXCEPT ![focus].view = Home]
        /\ flow' = [f \in Flows |-> [flow[f] EXCEPT !.late = @ \/ Captured(f),
                                                    !.overtaken = @ \/ Captured(f)]]
        /\ focus' = focus /\ lock' = lock /\ lease' = lease /\ polling' = polling
        /\ UNCHANGED <<watch, stale, rows, dead>>
    BY DEF Apply, Goes, streams
  <1>2. /\ Switches /\ Bare /\ lock = "switch"
        /\ \A g \in Flows : flow[g].at \notin {"entered", "stopping"}
    BY <1>1, SwitchHolds DEF Switches, Bare
  <1>3. /\ Len(panes) = 1 /\ panes[1].drill = <<>> /\ ~polling /\ switch.left = {}
        /\ \A v \in Active : Warms("user", v) /\ Waits("user")
        /\ DOMAIN panes = 1 .. 1 /\ focus = 1
        /\ panes[1] \in [view : Views, strayed : BOOLEAN, drill : Seq(Parents)] /\ Len(panes[1].drill) <= MaxDepth
    <2>1. Len(panes) = 1 /\ panes[1].drill = <<>> /\ ~polling /\ switch.left = {}
          /\ \A v \in Active : Warms("user", v) /\ Waits("user")
      BY <1>1, <1>2 DEF Inv, BareInv
    <2>2. DOMAIN panes = 1 .. 1 /\ focus = 1
      BY <2>1, PaneFacts DEF Inv, Types
    <2>3. QED
      BY <2>1, <2>2, PaneFacts DEF Inv, Types
  <1> DEFINE new == [panes[1] EXCEPT !.view = Home]
  <1>4. /\ new \in [view : Views, strayed : BOOLEAN, drill : Seq(Parents)] /\ Len(new.drill) <= MaxDepth
        /\ new.view = Home /\ new.drill = <<>> /\ panes' = [panes EXCEPT ![1] = new]
    BY <1>1, <1>3, Bounds
  <1> HIDE DEF new
  <1>5. /\ PanesOK' /\ DOMAIN panes' = 1 .. 1 /\ Len(panes') = 1 /\ panes'[1] = new
    <2>1. PanesOK /\ focus' = focus /\ panes' = [panes EXCEPT ![1] = new]
      BY <1>1, <1>4 DEF Inv, Types
    <2>2. 1 \in DOMAIN panes
      BY <1>3
    <2>3. PanesOK' /\ DOMAIN panes' = DOMAIN panes /\ Len(panes') = Len(panes) /\ panes'[1] = new
      BY <1>4, <2>1, <2>2, Replacing
    <2>4. QED
      BY <1>3, <2>3
  <1>6. /\ switch'.at = "resume" /\ switch'.left = {}
        /\ switch' \in [at : {"idle", "probe", "quiesce", "stop", "load", "restore", "loaded", "resume"},
                        left : SUBSET Views]
    BY <1>1, <1>3 DEF Inv, Types
  <1>7. \A g \in Flows :
          /\ flow'[g] \in Tasks
          /\ flow'[g].at = flow[g].at /\ flow'[g].op = flow[g].op /\ flow'[g].pane = flow[g].pane
          /\ flow'[g].from = flow[g].from /\ flow'[g].to = flow[g].to
          /\ Captured(g) => flow'[g].late = TRUE
    <2> SUFFICES ASSUME NEW g \in Flows
                 PROVE  /\ flow'[g] \in Tasks
                        /\ flow'[g].at = flow[g].at /\ flow'[g].op = flow[g].op /\ flow'[g].pane = flow[g].pane
                        /\ flow'[g].from = flow[g].from /\ flow'[g].to = flow[g].to
                        /\ Captured(g) => flow'[g].late = TRUE
      OBVIOUS
    <2> DEFINE late == flow[g].late \/ Captured(g)
               over == flow[g].overtaken \/ Captured(g)
    <2>1. flow'[g] = [flow[g] EXCEPT !.late = late, !.overtaken = over]
      BY <1>1
    <2>2. late \in BOOLEAN /\ over \in BOOLEAN /\ (Captured(g) => late = TRUE)
      OBVIOUS
    <2>3. flow[g] \in Tasks
      BY DEF Inv, Types
    <2> HIDE DEF late, over
    <2>4. QED
      BY <2>1, <2>2, <2>3 DEF Tasks
  <1>8. flow' \in [Flows -> Tasks]
    BY <1>1, <1>7
  <1>9. \A g \in Flows : /\ ~Moving(g)' /\ flow'[g].at \notin {"entered", "stopping"}
                         /\ (Leased(g)' <=> Leased(g)) /\ (Waits(g)' <=> Waits(g))
                         /\ (Captured(g)' <=> Captured(g))
    BY <1>2, <1>7 DEF Moving, Leased, Waits, Captured
  <1>10. \A g \in Flows : \A v : Warms(g, v)' <=> Warms(g, v)
    BY <1>7, <1>9 DEF Warms
  <1>11. Active' = Active
    BY <1>1 DEF Active
  <1>12. Types'
    BY <1>1, <1>5, <1>6, <1>8 DEF Inv, Types, StreamsOK
  <1>13. LockInv'
    BY <1>1, <1>2, <1>6, <1>7, <1>9 DEF Inv, LockInv, Switches, Flows
  <1>14. OpInv'
    <2>1. Len(panes') = Len(panes) /\ focus' = focus
      BY <1>1, <1>3, <1>5
    <2>2. QED
      BY <1>7, <1>9, <2>1 DEF Inv, OpInv
  <1>15. DrillInv'
    <2>1. \A g \in Flows : flow'[g].op = "drill" /\ Waits(g)' => flow'[g].late
      BY <1>7, <1>9 DEF Captured, Captures, Waits
    <2>2. QED
      BY <1>7, <2>1 DEF Inv, DrillInv
  <1>16. MovingInv' /\ StoppingInv' /\ SplitInv'
    BY <1>9 DEF MovingInv, StoppingInv, SplitInv
  <1>17. LeaseInv'
    BY <1>1, <1>10 DEF Inv, LeaseInv, Flows
  <1>18. ShownInv' /\ PollInv'
    BY <1>1, <1>3, <1>6 DEF ShownInv, Bare, PollInv
  <1>19. ActiveInv'
    BY <1>3, <1>10, <1>11 DEF ActiveInv, Flows
  <1>20. BareInv'
    <2>1. \A v \in Active' \ switch'.left : Warms("user", v)' /\ Waits("user")'
      BY <1>3, <1>9, <1>10, <1>11 DEF Flows
    <2>2. QED
      BY <1>1, <1>3, <1>4, <1>5, <1>6, <2>1 DEF BareInv
  <1>21. TrailInv'
    <2>1. Trails(panes'[1].drill, panes'[1].view)
      BY <1>4, <1>5, Rooted, Zenon
    <2>2. QED
      BY <1>5, <1>9, <2>1 DEF TrailInv
  <1>22. LateInv'
    BY <1>7, <1>9 DEF LateInv
  <1>23. ForeignInv'
    BY <1>1 DEF Inv, ForeignInv
  <1>24. QED
    BY <1>12, <1>13, <1>14, <1>15, <1>16, <1>17, <1>18, <1>19, <1>20, <1>21, <1>22, <1>23 DEF Inv

\* The pane is watched, and the transaction ends.
LEMMA ResumeStep ==
  ASSUME Inv, Resume
  PROVE  Inv'
  <1>1. /\ switch.at = "resume" /\ Start(Here.view) /\ Polls(panes) /\ lock' = "free"
        /\ switch' = [switch EXCEPT !.at = "idle"]
        /\ panes' = panes /\ focus' = focus /\ flow' = flow /\ lease' = lease
    BY DEF Resume, Goes, screen
  <1>2. Switches /\ Bare /\ \A g \in Flows : flow[g].at \notin {"entered", "stopping"}
    BY <1>1, SwitchHolds DEF Switches, Bare
  <1>3. /\ Len(panes) = 1 /\ switch.left = {} /\ panes[1].view = Home
        /\ \A v \in Active : Warms("user", v)
        /\ DOMAIN panes = 1 .. 1 /\ focus = 1
    <2>1. Len(panes) = 1 /\ switch.left = {} /\ panes[1].view = Home /\ \A v \in Active : Warms("user", v)
      BY <1>1, <1>2 DEF Inv, BareInv
    <2>2. QED
      BY <2>1, PaneFacts DEF Inv, Types
  <1>4. Home \in Views /\ Here.view = Home /\ Shown = {Home}
    BY <1>3, Bounds DEF Here, Shown
  <1>5. /\ StreamsOK' /\ ForeignInv' /\ Active' = Active \union {Home}
    BY <1>1, <1>4, Starting DEF Inv, Types
  <1>6. /\ PanesOK' /\ OpInv' /\ DrillInv' /\ MovingInv' /\ LeaseInv'
        /\ SplitInv' /\ PollInv' /\ TrailInv' /\ LateInv'
        /\ \A g \in Flows : \A v : Warms(g, v)' <=> Warms(g, v)
        /\ Shown' = Shown
    BY <1>1, <1>4, Flowing
  <1>7. switch'.at = "idle" /\ switch'.left = {} /\ polling' \in BOOLEAN
        /\ switch' \in [at : {"idle", "probe", "quiesce", "stop", "load", "restore", "loaded", "resume"},
                        left : SUBSET Views]
    BY <1>1, <1>3 DEF Inv, Types, Polls
  <1>8. Types' /\ LockInv'
    BY <1>1, <1>2, <1>5, <1>6, <1>7 DEF Inv, Types, LockInv, Switches, Flows
  <1>9. ShownInv'
    BY <1>1, <1>3, <1>5 DEF ShownInv
  <1>10. ActiveInv'
    BY <1>3, <1>4, <1>5, <1>6 DEF ActiveInv, Flows
  <1>11. StoppingInv'
    BY <1>1, <1>2 DEF StoppingInv
  <1>12. BareInv'
    BY <1>7 DEF BareInv, Bare
  <1>13. QED
    BY <1>5, <1>6, <1>8, <1>9, <1>10, <1>11, <1>12 DEF Inv

-----------------------------------------------------------------------------
(* The invariant holds.                                                    *)

\* The app starts with one pane on the default view, its watch started.
LEMMA InvInit == Init => Inv
  <1> SUFFICES ASSUME Init
               PROVE  Inv
    OBVIOUS
  <1>1. /\ panes = <<[view |-> Home, drill |-> <<>>, strayed |-> FALSE]>> /\ focus = 1
        /\ lock = "free" /\ lease = [v \in Views |-> 0] /\ polling = TRUE
        /\ watch = [v \in Views |-> [at |-> IF v = Home THEN "wait" ELSE "off", failures |-> 0]]
        /\ stale = {} /\ dead = {} /\ rows = [v \in Views |-> "empty"]
        /\ flow = [f \in Flows |-> Resting] /\ switch = [at |-> "idle", left |-> {}]
    BY DEF Init
  <1>2. /\ Home \in Views /\ <<>> \in Seq(Parents) /\ Len(<<>>) = 0 /\ MaxDepth \in Nat
        /\ MaxRetries \in Nat /\ MaxRetries > 0 /\ \A v : Trails(<<>>, v)
    BY Bounds, Rooted
  <1> DEFINE pane == [view |-> Home, drill |-> <<>>, strayed |-> FALSE]
             T    == [view : Views, strayed : BOOLEAN, drill : Seq(Parents)]
  <1>3. pane \in T /\ pane.view = Home /\ pane.drill = <<>>
    BY <1>2
  <1>4. /\ panes \in Seq(T) /\ Len(panes) = 1 /\ DOMAIN panes = 1 .. 1 /\ panes[1] = pane /\ focus = 1
    <2>1. panes = <<pane>>
      BY <1>1
    <2> HIDE DEF pane, T
    <2>2. focus = 1 /\ pane \in T
      BY <1>1, <1>3 DEF pane, T
    <2>3. QED
      BY <2>1, <2>2
  <1> HIDE DEF pane
  <1>5. PanesOK
    <2>1. \A i \in 1 .. 1 : i = 1
      OBVIOUS
    <2>2. focus \in DOMAIN panes /\ Len(panes) \in {1, 2} /\ \A i \in DOMAIN panes : Len(panes[i].drill) <= MaxDepth
      BY <1>2, <1>3, <1>4, <2>1
    <2>3. QED
      BY <1>4, <2>2 DEF PanesOK
  <1>6. StreamsOK /\ (\A v \in Active : v = Home) /\ Home \in Active
    BY <1>1, <1>2 DEF StreamsOK, Active
  <1>7. /\ flow \in [Flows -> Tasks]
        /\ \A f \in Flows : flow[f].at = "idle" /\ flow[f].op = "none" /\ flow[f].pane = 0
    BY <1>1, <1>2 DEF Resting, Tasks
  <1>8. Types
    BY <1>1, <1>5, <1>6, <1>7 DEF Types
  <1>9. \A f \in Flows : ~Moving(f) /\ ~Leased(f) /\ ~Captured(f)
    BY <1>7 DEF Moving, Leased, Leases, Captured, Captures
  <1>10. LockInv /\ DrillInv /\ MovingInv
    BY <1>1, <1>7, <1>9 DEF LockInv, Switches, DrillInv, MovingInv, Flows
  <1>11. OpInv
    BY <1>4, <1>7 DEF OpInv, Moves
  <1>12. LeaseInv /\ LateInv
    BY <1>1, <1>9 DEF LeaseInv, LateInv, Warms, Flows
  <1>13. Home \in Shown
    BY <1>3, <1>4 DEF Shown
  <1>14. ShownInv
    BY <1>3, <1>4, <1>6 DEF ShownInv
  <1>15. ActiveInv /\ PollInv
    BY <1>6, <1>13 DEF ActiveInv, PollInv
  <1>16. StoppingInv /\ SplitInv
    BY <1>7 DEF StoppingInv, SplitInv
  <1>17. BareInv
    BY <1>1 DEF BareInv, Bare
  <1>18. TrailInv
    <2>1. Trails(panes[1].drill, panes[1].view)
      BY <1>2, <1>3, <1>4, Zenon
    <2>2. QED
      BY <1>4, <1>9, <2>1 DEF TrailInv
  <1>19. ForeignInv
    BY <1>1 DEF ForeignInv
  <1>20. QED
    BY <1>8, <1>10, <1>11, <1>12, <1>14, <1>15, <1>16, <1>17, <1>18, <1>19 DEF Inv

\* No step of a task, of the switch or of a stream breaks it.
LEMMA InvNext == Inv /\ [Next]_vars => Inv'
  <1> SUFFICES ASSUME Inv, [Next]_vars
               PROVE  Inv'
    OBVIOUS
  <1>1. CASE UNCHANGED vars
    <2>1. panes' = panes /\ focus' = focus /\ lock' = lock /\ lease' = lease /\ polling' = polling
          /\ flow' = flow /\ switch' = switch /\ UNCHANGED <<watch, stale, rows, dead>>
      BY <1>1 DEF vars, screen, streams
    <2>2. /\ PanesOK' /\ OpInv' /\ DrillInv' /\ MovingInv' /\ LeaseInv'
          /\ SplitInv' /\ PollInv' /\ TrailInv' /\ LateInv'
      BY <2>1, Flowing
    <2>3. Types' /\ LockInv' /\ ForeignInv' /\ Active' = Active
      BY <2>1, <2>2 DEF Inv, Types, StreamsOK, LockInv, Switches, ForeignInv, Active
    <2>4. ShownInv'
      BY <2>1, <2>3 DEF Inv, ShownInv, Bare
    <2>5. ActiveInv' /\ StoppingInv'
      BY <2>1, <2>3 DEF Inv, ActiveInv, StoppingInv, Shown, Warms, Leased, Waits, Old
    <2>6. BareInv'
      BY <2>1, <2>3 DEF Inv, BareInv, Bare, Warms, Leased, Waits
    <2>7. QED
      BY <2>2, <2>3, <2>4, <2>5, <2>6 DEF Inv
  <1>2. ASSUME NEW f \in Flows, Starts(f)
        PROVE  Inv'
    <2>1. CASE Drill(f) \/ Pop(f)
      BY <2>1, PrewarmStep
    <2>2. CASE FocusOther(f)
      <3>1. f = "user"
        BY <2>2 DEF FocusOther
      <3>2. QED
        BY <2>2, <3>1, FocusStep
    <2>3. CASE \/ \E v \in Views : Navigate(f, v) \/ Jump(f, v)
               \/ \E op \in {"split", "close"} : SplitOrClose(f, op)
      BY <2>3, LaunchStep
    <2>4. QED
      BY <1>2, <2>1, <2>2, <2>3 DEF Starts
  <1>3. ASSUME NEW f \in Flows, Steps(f)
        PROVE  Inv'
    BY <1>3, WarmedStep, LeaveStep, ArriveStep, ReleaseStep, MountedStep, ClosedStep DEF Steps
  <1>4. ASSUME NEW f \in Flows, Locks(f)
        PROVE  Inv'
    <2>1. CASE Enter(f)
      <3>1. /\ flow[f].at = "queued" /\ flow[f].op \notin {"split", "close"} /\ lock = "free"
            /\ UNCHANGED <<focus, lease, watch, stale, rows, dead, polling, switch>>
        BY <2>1 DEF Enter, streams
      <3>2. CASE ~Valid(f)
        <4>1. flow' = [flow EXCEPT ![f] = Finish(f)] /\ UNCHANGED <<panes, lock>>
          BY <2>1, <3>2 DEF Enter
        <4>2. QED
          BY <3>1, <4>1, TurnedAwayStep DEF Waits
      <3>3. CASE Valid(f)
        <4>1. /\ panes' = [panes EXCEPT ![flow[f].pane] = Stacked(flow[f].op, panes[flow[f].pane])]
              /\ \/ /\ flow[f].to = panes[flow[f].pane].view
                    /\ flow' = Overtake(f, Finish(f), Advance(f)) /\ lock' = lock
                 \/ /\ flow[f].to # panes[flow[f].pane].view
                    /\ flow' = Overtake(f, [flow[f] EXCEPT !.at = "entered"], Advance(f)) /\ lock' = f
          BY <2>1, <3>3 DEF Enter
        <4>2. QED
          BY <3>1, <3>3, <4>1, ThroughStep
      <3>4. QED
        BY <3>2, <3>3
    <2>2. QED
      BY <1>4, <2>1, SplitStep, CloseStep DEF Locks
  <1>5. ASSUME NEW f \in Flows, Cancel(f)
        PROVE  Inv'
    BY <1>5, CancelStep
  <1>6. CASE Claim \/ LockSwitch \/ Switch
    BY <1>6, ClaimStep, QuiesceStep, TeardownStep, ApplyStep, ResumeStep DEF Switch
  <1>7. ASSUME NEW v \in Views, Connect(v) \/ Deliver(v) \/ Fail(v) \/ Expire(v) \/ Forbid(v)
        PROVE  Inv'
    BY <1>7, StreamStep DEF Streaming
  <1>8. QED
    BY <1>1, <1>2, <1>3, <1>4, <1>5, <1>6, <1>7 DEF Next

\* The invariant of every behaviour of the workspace.
THEOREM Invariance == Spec => []Inv
  BY InvInit, InvNext, PTL DEF Spec

-----------------------------------------------------------------------------
(* The properties.                                                         *)

\* Every variable keeps to its type, in particular no lease counter leaves 0 .. 2 and no
\* drill stack outgrows its bound.
THEOREM TypeCorrect == Spec => []TypeOK
  <1>1. Inv => TypeOK
    <2> SUFFICES ASSUME Inv
                 PROVE  TypeOK
      OBVIOUS
    <2>1. \A S : \A n \in Nat : \A s \in Seq(S) : Len(s) <= n => s \in BoundedSeq(S, n)
      <3> SUFFICES ASSUME NEW S, NEW n \in Nat, NEW s \in Seq(S), Len(s) <= n
                   PROVE  s \in BoundedSeq(S, n)
        OBVIOUS
      <3>1. Len(s) \in 0 .. n /\ s \in [1 .. Len(s) -> S]
        BY LenProperties
      <3>2. QED
        BY <3>1 DEF BoundedSeq, SeqOf
    <2>2. MaxDepth \in Nat /\ Len(panes) \in {1, 2} /\ DOMAIN panes = 1 .. Len(panes) /\ focus \in DOMAIN panes
      BY Bounds, PaneFacts DEF Inv, Types
    <2> DEFINE T == [view : Views, strayed : BOOLEAN, drill : BoundedSeq(Parents, MaxDepth)]
    <2>3. panes \in BoundedSeq(T, 2)
      <3>1. \A i \in 1 .. Len(panes) : panes[i] \in T
        <4> SUFFICES ASSUME NEW i \in 1 .. Len(panes)
                     PROVE  panes[i] \in T
          OBVIOUS
        <4>1. /\ panes[i] \in [view : Views, strayed : BOOLEAN, drill : Seq(Parents)]
              /\ Len(panes[i].drill) <= MaxDepth
          BY <2>2, PaneFacts DEF Inv, Types
        <4>2. panes[i].drill \in BoundedSeq(Parents, MaxDepth)
          BY <2>1, <2>2, <4>1
        <4>3. QED
          BY <4>1, <4>2
      <3>2. panes \in [1 .. Len(panes) -> T] /\ Len(panes) \in 0 .. 2
        <4> HIDE DEF T
        <4>1. panes \in [1 .. Len(panes) -> [view : Views, strayed : BOOLEAN, drill : Seq(Parents)]]
          BY LenProperties DEF Inv, Types, PanesOK
        <4>2. QED
          BY <2>2, <3>1, <4>1
      <3> HIDE DEF T
      <3>3. QED
        BY <3>2 DEF BoundedSeq, SeqOf
    <2>4. lease \in [Views -> 0 .. Cardinality(Flows)]
      <3>1. Cardinality(Flows) = 2
        <4>1. /\ IsFiniteSet({}) /\ Cardinality({}) = 0
          BY FS_EmptySet
        <4>2. IsFiniteSet({"other"}) /\ Cardinality({"other"}) = 1
          BY FS_Singleton
        <4>3. Flows = {"other"} \union {"user"} /\ "user" \notin {"other"}
          BY DEF Flows
        <4>4. QED
          BY <4>2, <4>3, FS_AddElement
      <3>2. \A v \in Views : lease[v] \in 0 .. 2
        BY DEF Inv, LeaseInv
      <3>3. QED
        BY <3>1, <3>2 DEF Inv, Types
    <2>5. \A f \in Flows : flow[f].pane \in 0 .. 2
      <3> SUFFICES ASSUME NEW f \in Flows
                   PROVE  flow[f].pane \in 0 .. 2
        OBVIOUS
      <3>1. flow[f].pane \in Nat /\ flow[f].pane <= Len(panes)
        BY DEF Inv, OpInv, Types, Tasks
      <3>2. QED
        BY <2>2, <3>1
    <2> DEFINE tasks == [at : {"idle", "prewarm", "queued", "entered", "stopping", "release"},
                         op : {"none", "navigate", "goto", "drill", "pop", "split", "close"},
                         pane : 0 .. 2, from : Views, to : Views, late : BOOLEAN, overtaken : BOOLEAN]
    <2>6. flow \in [Flows -> tasks]
      <3>1. \A f \in Flows : flow[f] \in tasks
        BY <2>5 DEF Inv, Types, Tasks, Moves
      <3> HIDE DEF tasks
      <3>2. QED
        BY <3>1 DEF Inv, Types
    <2>7. switch.at \in {"idle", "probe", "quiesce", "stop", "load", "restore", "loaded", "resume"}
          /\ switch.left \subseteq Views
      BY DEF Inv, Types
    <2>8. QED
      BY <2>2, <2>3, <2>4, <2>6, <2>7 DEF Inv, Types, StreamsOK, TypeOK, Parents
  <1>2. QED
    BY <1>1, Invariance, PTL

\* Outside a critical section no pane is left unfed and no watch runs for nobody.
THEOREM EveryPaneIsFed == Spec => []PanesAreFed
  <1>1. Inv => PanesAreFed
    <2> SUFFICES ASSUME Inv, Calm
                 PROVE  /\ Shown \subseteq Active \union dead
                        /\ Active \subseteq Shown \union {v \in Views : lease[v] > 0}
                        /\ polling => Home \in Shown
      BY DEF PanesAreFed
    <2>1. lock = "free"
      BY DEF Calm
    <2>2. /\ \A i \in DOMAIN panes : panes[i].view \in Active \union dead
          /\ \A v \in Active : v \in Shown \/ \E g \in Flows : Warms(g, v)
          /\ polling => Home \in Shown
      BY <2>1, FreeLock
    <2>3. ASSUME NEW v \in Active, NEW g \in Flows, Warms(g, v)
          PROVE  v \in Views /\ lease[v] > 0
      <3>1. v \in Views
        BY DEF Active
      <3>2. lease[v] = (IF Warms("user", v) THEN 1 ELSE 0) + (IF Warms("other", v) THEN 1 ELSE 0)
        BY <3>1 DEF Inv, LeaseInv
      <3>3. QED
        BY <2>3, <3>1, <3>2 DEF Flows
    <2>4. QED
      BY <2>2, <2>3 DEF Shown
  <1>2. QED
    BY <1>1, Invariance, PTL

\* Outside a critical section every breadcrumb leads to the table under it.
THEOREM EveryTrailLeadsHere == Spec => []BreadcrumbAgrees
  <1>1. Inv => BreadcrumbAgrees
    <2> SUFFICES ASSUME Inv, Calm, NEW p \in ToSet(panes), ~p.strayed, NEW i \in DOMAIN p.drill
                 PROVE  DrillChild[Append(p.drill, p.view)[i]] = Append(p.drill, p.view)[i + 1]
      BY DEF BreadcrumbAgrees
    <2>1. lock = "free"
      BY DEF Calm
    <2>2. PICK n \in DOMAIN panes : p = panes[n]
      BY DEF ToSet
    <2>3. Trails(p.drill, p.view)
      BY <2>1, <2>2, FreeLock
    <2>4. p.drill \in Seq(Parents) /\ p.view \in Views /\ Parents \subseteq Views
      BY <2>2, PaneFacts, Bounds DEF Inv, Types
    <2> DEFINE s == p.drill
               v == p.view
    <2>5. s \in Seq(Views) /\ v \in Views /\ Len(s) \in Nat /\ DOMAIN s = 1 .. Len(s)
      BY <2>4, LenProperties
    <2>6. DrillChild[s[i]] = IF i < Len(s) THEN s[i + 1] ELSE v
      BY <2>3, <2>5 DEF Trails
    <2>7. i \in 1 .. Len(s)
      BY <2>5
    <2> HIDE DEF s, v
    <2>8. /\ \A k \in 1 .. Len(s) : Append(s, v)[k] = s[k]
          /\ Append(s, v)[Len(s) + 1] = v
      BY <2>5, AppendProperties
    <2>9. DrillChild[Append(s, v)[i]] = Append(s, v)[i + 1]
      <3>1. CASE i < Len(s)
        <4>1. i + 1 \in 1 .. Len(s)
          BY <2>5, <2>7, <3>1
        <4>2. QED
          BY <2>6, <2>7, <2>8, <3>1, <4>1
      <3>2. CASE i = Len(s)
        BY <2>5, <2>6, <2>7, <2>8, <3>2
      <3>3. QED
        BY <2>5, <2>7, <3>1, <3>2
    <2>10. QED
      BY <2>9 DEF s, v
  <1>2. QED
    BY <1>1, Invariance, PTL

\* No task moves a pane that another went through since it captured it.
THEOREM TheNewerWins == Spec => []NewerWins
  <1>1. Inv => NewerWins
    BY DEF Inv, LateInv, NewerWins, Captured, Captures
  <1>2. QED
    BY <1>1, Invariance, PTL

\* Rows of the former cluster are never left on an open stream of the new one.
THEOREM NoForeignRowStays == Spec => []ForeignRowsPass
  <1>1. Inv => ForeignRowsPass
    <2> SUFFICES ASSUME Inv, Calm, NEW v \in Shown, rows[v] = "foreign"
                 PROVE  v \in stale \/ watch[v].at = "wait" \/ v \in dead
      BY DEF ForeignRowsPass
    <2>1. v \in Active \union dead
      BY FreeLock DEF Calm, Shown
    <2>2. CASE v \in Active
      <3>1. v \in Views /\ watch[v].at \in {"wait", "open"}
        BY <2>2 DEF Active, Inv, Types, StreamsOK
      <3>2. QED
        BY <3>1 DEF Inv, ForeignInv
    <2>3. QED
      BY <2>1, <2>2
  <1>2. QED
    BY <1>1, Invariance, PTL

==============================================================================
