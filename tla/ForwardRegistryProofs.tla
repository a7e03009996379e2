------------------------ MODULE ForwardRegistryProofs ------------------------
(***************************************************************************)
(* Theorems of ForwardRegistry, for any threads, ports and contexts and    *)
(* any number of children and teardowns; and, at the end, of what is said  *)
(* of a write (DeploymentOutcome), for any number of generations.          *)
(***************************************************************************)
EXTENDS MCForwardRegistry, Sequences, FiniteSetTheorems, TLAPS

Born == {p \in Children : child[p] # "unborn"}

\* The children that were spawned and not yet adopted.
Spawned == {op[w].child : w \in {v \in Workers : op[v].at = "adopt"}}

\* The children that somebody is putting down.
Marked == reaping \union closer.victims \union {loop.victim} \union UNION {op[w].holders : w \in Workers}

\* A record, or a version of one, is made of a child of its own.
CountInv ==
    /\ count + Cardinality(Spawned) <= Cardinality(Born)
    /\ \A r \in Ids : version[r] + Cardinality(Spawned) <= Cardinality(Born)

\* What an operation has in its hands.
OpInv == \A w \in Workers :
    /\ op[w].at # "reclaim" => op[w].holders = {}
    /\ op[w].at \in {"adopt", "discard"} <=> op[w].child # 0
    /\ op[w].at = "adopt" => where[op[w].child].port = op[w].port
    /\ op[w].record <= count
    /\ op[w].record \in listed => where[proc[op[w].record]].port = op[w].port

\* Nobody has a child before it is born.
UnbornInv == \A p \in Children \ Born :
    /\ p \notin Marked /\ signal[p] = "none"
    /\ \A r \in listed : proc[r] # p
    /\ \A w \in Workers : op[w].child # p

\* A spawned child belongs to its operation alone.
SpawnedInv == \A w \in Workers : op[w].child # 0 =>
    /\ op[w].child \in Born \ Marked /\ signal[op[w].child] = "none"
    /\ \A r \in listed : proc[r] # op[w].child
    /\ \A v \in Workers : op[v].child = op[w].child => v = w

\* A listed child belongs to its record alone, unless the record is broken.
ListedInv == \A r \in listed :
    /\ proc[r] \in Born
    /\ \A q \in listed : proc[q] = proc[r] => q = r
    /\ status[r] # "broken" => proc[r] \notin Marked

\* A claim on a port is one operation's, which holds whoever still runs there.
ClaimInv == \A w \in Workers : op[w].at \in {"reclaim", "adopt"} =>
    /\ op[w].port \in claimed
    /\ \A v \in Workers : op[v].at \in {"reclaim", "adopt"} /\ op[v].port = op[w].port => v = w
    /\ \A r \in OnPort(op[w].port) :
         status[r] = "broken" /\ (Running(proc[r]) => proc[r] \in op[w].holders)

\* What a start or a re-attach may still adopt was spawned for the current context.
ContextInv ==
    /\ closer.at # "idle" => closed
    /\ \A w \in Workers :
         /\ op[w].at \in {"reclaim", "adopt"} /\ op[w].record = 0 /\ op[w].generation = generation =>
              ~closed /\ (op[w].at = "adopt" => where[op[w].child].context = context)
         /\ op[w].at = "adopt" /\ op[w].record \in listed => where[op[w].child].context = context

\* What the event loop and the teardown have in their hands.
HandsInv ==
    /\ loop.at = "idle" <=> loop.victim = 0
    /\ closer.at \in {"idle", "returned"} => closer.victims = {}
    /\ closer.at = "killed" => \A p \in closer.victims : Running(p) => signal[p] = "kill"

Inv == /\ TypeOK /\ CountInv /\ OpInv /\ UnbornInv /\ SpawnedInv /\ ListedInv /\ ClaimInv
       /\ ContextInv /\ HandsInv /\ NoOrphan /\ ListIsTrue /\ OnCurrentContext

-----------------------------------------------------------------------------
(* What a step may change.                                                 *)

\* The bounds are numbers.
LEMMA Bounds ==
  /\ MaxChildren \in Nat /\ MaxTeardowns \in Nat
  /\ Children = 1 .. MaxChildren /\ Ids = 1 .. MaxChildren
  BY RegistryAssumption DEF Children, Ids

\* An operation that has not begun holds nothing.
LEMMA AtRest ==
  /\ Idle.at = "idle" /\ Idle.port \in Ports /\ Idle.record = 0 /\ Idle.generation = 0
  /\ Idle.holders = {} /\ Idle.child = 0
  /\ Idle = [at |-> Idle.at, port |-> Idle.port, record |-> Idle.record, generation |-> Idle.generation,
             holders |-> Idle.holders, child |-> Idle.child]
  BY RegistryAssumption DEF Idle

\* Records are numbered from one on.
LEMMA Numbers ==
  ASSUME TypeOK
  PROVE  /\ count \in Nat /\ generation \in Nat
         /\ \A r \in listed : r \in Nat /\ r # 0 /\ r <= count
         /\ \A w \in Workers : op[w].record \in Nat
  BY Bounds DEF TypeOK

\* Records are created for children.
LEMMA ListedIds == ASSUME TypeOK PROVE listed \subseteq Ids
  BY Bounds DEF TypeOK

\* A claim signals children of broken records on its port, and only those that still run.
LEMMA DoomedAreBroken ==
  ASSUME TypeOK, NEW n, NEW p \in Doomed(n)
  PROVE  Running(p) /\ \E r \in OnPort(n) : r \in listed /\ proc[r] = p /\ status[r] = "broken"
  <1>1. PICK b \in OnPort(n) : /\ proc[b] = p /\ Running(proc[b])
                              /\ \A q \in OnPort(n) : q <= b => status[q] = "broken"
    BY DEF Doomed
  <1>2. b \in listed /\ b \in Nat
    BY ListedIds, Bounds DEF OnPort
  <1>3. QED
    BY <1>1, <1>2

\* Only a spawn makes a child run, and says where.
LEMMA Births ==
  ASSUME TypeOK, [Next]_vars
  PROVE  \/ \E w \in Workers, p \in Children : Spawn(w, p)
         \/ /\ where' = where
            /\ \A p \in Children : /\ child'[p] = "unborn" <=> child[p] = "unborn"
                                   /\ Running(p)' => Running(p)
  <1>1. CASE \E p \in Children : Closes(p) \/ Exits(p)
    BY <1>1 DEF TypeOK, Closes, Exits, Running
  <1>2. \/ \E p \in Children : Closes(p) \/ Exits(p)
        \/ \E w \in Workers, p \in Children : Spawn(w, p)
        \/ UNCHANGED <<child, where>>
    BY DEF Next, vars, Step, children, Reads, ReadsEof, Refresh, Start, Reattach, WaitReadyPolls, Stop,
           FailStart, ClaimRefused, Claim, HolderStuck, KillHolder, HolderGone, SpawnFails, Register,
           Swap, Reject, Discard, Signal, Enter, StopAll, TerminateAll, KillAll, Return, Retarget, Unlist,
           Publish
  <1>3. QED
    BY <1>1, <1>2 DEF Running

\* An operation changes by its own steps only.
LEMMA Operations ==
  ASSUME TypeOK, [Next]_vars, NEW w \in Workers
  PROVE  \/ op'[w] = op[w]
         \/ \E late \in SUBSET reaping : \/ \E n \in Ports : Start(w, n, late)
                                         \/ \E r \in Ids : Reattach(w, r, late)
         \/ Step(w)
  <1>1. ASSUME NEW v \in Workers, v # w, Step(v)
        PROVE  op'[w] = op[w]
    <2>1. CASE ClaimRefused(v) \/ Claim(v) \/ HolderStuck(v) \/ SpawnFails(v)
      BY <1>1, <2>1 DEF TypeOK, ClaimRefused, Claim, HolderStuck, SpawnFails
    <2>2. CASE \E p \in Children : KillHolder(v, p) \/ HolderGone(v, p) \/ Spawn(v, p)
      BY <1>1, <2>2 DEF TypeOK, KillHolder, HolderGone, Spawn
    <2>3. CASE Register(v) \/ Swap(v) \/ Reject(v) \/ Discard(v)
      BY <1>1, <2>3 DEF TypeOK, Register, Swap, Reject, Discard
    <2>4. QED
      BY <1>1, <2>1, <2>2, <2>3 DEF Step
  <1>2. ASSUME NEW v \in Workers, v # w, NEW late \in SUBSET reaping,
               \/ \E n \in Ports : Start(v, n, late)
               \/ \E r \in Ids : Reattach(v, r, late)
        PROVE  op'[w] = op[w]
    BY <1>2 DEF TypeOK, Start, Reattach
  <1>3. \/ \E v \in Workers : Step(v)
        \/ \E late \in SUBSET reaping, v \in Workers :
              (\E n \in Ports : Start(v, n, late)) \/ (\E r \in Ids : Reattach(v, r, late))
        \/ UNCHANGED op
    BY DEF Next, vars, Closes, Exits, Reads, ReadsEof, Refresh, WaitReadyPolls, Stop, FailStart,
           Signal, Enter, StopAll, TerminateAll, KillAll, Return, Retarget
  <1>4. QED
    BY <1>1, <1>2, <1>3

\* Only a claim takes hold of children.
LEMMA Holders ==
  ASSUME TypeOK, [Next]_vars, NEW w \in Workers
  PROVE  op'[w].holders \subseteq op[w].holders \/ Claim(w)
  <1>1. ASSUME NEW late, \/ \E n \in Ports : Start(w, n, late)
                         \/ \E r \in Ids : Reattach(w, r, late)
        PROVE  op'[w].holders = {}
    <2>1. ASSUME NEW n \in Ports, Start(w, n, late)
          PROVE  op'[w].holders = {}
      <3>1. op'[w] = [Idle EXCEPT !.at = "claim", !.port = n, !.generation = generation]
        BY <2>1 DEF TypeOK, Start
      <3>2. QED
        BY <3>1, AtRest
    <2>2. ASSUME NEW r \in Ids, Reattach(w, r, late)
          PROVE  op'[w].holders = {}
      <3>1. op'[w] = [Idle EXCEPT !.at = "claim", !.record = r, !.port = where[proc[r]].port]
        BY <2>2 DEF TypeOK, Reattach
      <3>2. QED
        BY <3>1, AtRest
    <2>3. QED
      BY <1>1, <2>1, <2>2
  <1>2. CASE ClaimRefused(w) \/ HolderStuck(w) \/ SpawnFails(w)
    BY <1>2, AtRest DEF TypeOK, ClaimRefused, HolderStuck, SpawnFails
  <1>3. CASE \E p \in Children : KillHolder(w, p) \/ HolderGone(w, p) \/ Spawn(w, p)
    BY <1>3 DEF TypeOK, KillHolder, HolderGone, Spawn
  <1>4. CASE Register(w) \/ Swap(w) \/ Reject(w) \/ Discard(w)
    <2>1. op'[w] = Idle \/ op'[w] = [op[w] EXCEPT !.at = "discard"]
      BY <1>4 DEF TypeOK, Register, Swap, Reject, Discard
    <2>2. QED
      BY <2>1, AtRest DEF TypeOK
  <1>5. QED
    BY <1>1, <1>2, <1>3, <1>4, Operations DEF Step

\* A listed record is as it was, broken or confirmed by the child it has, or else just
\* registered or swapped in.
LEMMA Listings ==
  ASSUME TypeOK, [Next]_vars, NEW r \in listed'
  PROVE  \/ \E w \in Workers : Register(w) /\ r = count + 1
         \/ \E w \in Workers : Swap(w) /\ r = op[w].record
         \/ /\ r \in listed /\ proc'[r] = proc[r]
            /\ \/ status'[r] = status[r]
               \/ status'[r] = "broken"
               \/ status[r] = "starting" /\ status'[r] = "alive" /\ proc[r] \in said'
  <1>1. ASSUME NEW w \in Workers, Register(w) \/ Swap(w)
        PROVE  \/ Register(w) /\ r = count + 1
               \/ Swap(w) /\ r = op[w].record
               \/ r \in listed /\ proc'[r] = proc[r] /\ status'[r] = status[r]
    <2>1. CASE Register(w)
      BY <2>1, Bounds DEF TypeOK, Register, Publish
    <2>2. CASE Swap(w)
      BY <2>2, Bounds DEF TypeOK, Swap, Publish
    <2>3. QED
      BY <1>1, <2>1, <2>2
  <1>2. CASE \E p \in Children : Reads(p) \/ ReadsEof(p)
    <2>1. r \in listed /\ proc'[r] = proc[r] /\ r \in Ids
      <3>1. listed' = listed /\ proc' = proc
        BY <1>2 DEF Reads, ReadsEof
      <3>2. QED
        BY <3>1, Bounds DEF TypeOK
    <2>2. ASSUME NEW p \in Children, Reads(p)
          PROVE  \/ status'[r] = status[r]
                 \/ status[r] = "starting" /\ status'[r] = "alive" /\ proc[r] \in said'
      BY <2>1, <2>2 DEF TypeOK, Reads
    <2>3. ASSUME NEW p \in Children, ReadsEof(p)
          PROVE  status'[r] \in {status[r], "broken"}
      BY <2>1, <2>3 DEF TypeOK, ReadsEof
    <2>4. QED
      BY <1>2, <2>1, <2>2, <2>3
  <1>3. ASSUME NEW late, Refreshed(late), UNCHANGED <<listed, proc>>
        PROVE  r \in listed /\ proc'[r] = proc[r] /\ status'[r] \in {status[r], "broken"}
    BY <1>3, Bounds DEF TypeOK, Refreshed
  <1>4. CASE \E late \in SUBSET reaping : \/ Refresh(late)
                                          \/ \E w \in Workers, n \in Ports : Start(w, n, late)
                                          \/ \E w \in Workers, q \in Ids : Reattach(w, q, late)
    BY <1>3, <1>4 DEF Refresh, Start, Reattach
  <1>5. CASE StopAll \/ \E q \in Ids : Stop(q)
    <2>1. r \in Ids
      BY <1>5, ListedIds DEF StopAll, Stop, Unlist
    <2>2. QED
      BY <1>5, <2>1 DEF StopAll, Stop, Unlist
  <1>6. CASE \E q \in Ids : WaitReadyPolls(q) \/ FailStart(q)
    <2>1. r \in Ids /\ r \in listed
      BY <1>6, ListedIds DEF WaitReadyPolls, FailStart, Unlist
    <2>2. QED
      BY <1>6, <2>1 DEF TypeOK, WaitReadyPolls, FailStart, Unlist
  <1>7. \/ \E w \in Workers : Register(w) \/ Swap(w)
        \/ \E p \in Children : Reads(p) \/ ReadsEof(p)
        \/ \E late \in SUBSET reaping : \/ Refresh(late)
                                        \/ \E w \in Workers, n \in Ports : Start(w, n, late)
                                        \/ \E w \in Workers, q \in Ids : Reattach(w, q, late)
        \/ StopAll
        \/ \E q \in Ids : Stop(q) \/ WaitReadyPolls(q) \/ FailStart(q)
        \/ UNCHANGED <<listed, proc, status>>
    <2>1. ASSUME NEW w \in Workers, Step(w)
          PROVE  Register(w) \/ Swap(w) \/ UNCHANGED <<listed, proc, status>>
      BY <2>1 DEF Step, records, ClaimRefused, Claim, HolderStuck, KillHolder, HolderGone, Spawn,
                  SpawnFails, Reject, Discard
    <2>2. CASE \/ \E p \in Children : Closes(p) \/ Exits(p)
               \/ Signal \/ Enter \/ TerminateAll \/ KillAll \/ Return
               \/ \E c \in Contexts : Retarget(c)
               \/ UNCHANGED vars
      BY <2>2 DEF vars, records, Closes, Exits, Signal, Enter, TerminateAll, KillAll, Return, Retarget
    <2>3. QED
      BY <2>1, <2>2 DEF Next
  <1>8. QED
    BY <1>1, <1>2, <1>4, <1>5, <1>6, <1>7

\* Whoever is newly being put down was the child of a record that broke or went.
LEMMA Marking ==
  ASSUME TypeOK, OpInv, HandsInv, [Next]_vars, NEW p \in Children, p \in Marked'
  PROVE  p \in Marked \/ \E r \in listed : /\ proc[r] = p
                                           /\ r \in listed' => status'[r] = "broken" /\ proc'[r] = p
  <1>1. ASSUME NEW w \in Workers, Claim(w)
        PROVE  p \in Marked \/ \E r \in listed : proc[r] = p /\ status'[r] = "broken" /\ proc'[r] = p
    BY <1>1 DEF Claim, Marked, Doomed, OnPort, records, TypeOK
  <1>2. ASSUME NEW w \in Workers, ClaimRefused(w)
        PROVE  p \in Marked \/ \E r \in listed : proc[r] = p /\ status'[r] = "broken" /\ proc'[r] = p
    <2>1. PICK V : /\ reaping' = reaping \union V
                   /\ \A q \in V : \E r \in listed : proc[r] = q /\ status[r] = "broken"
      <3>1. CASE closed \/ op[w].port \in claimed
        BY <1>2, <3>1 DEF ClaimRefused
      <3>2. CASE ~(closed \/ op[w].port \in claimed)
        <4>1. reaping' = reaping \union Doomed(op[w].port)
          BY <1>2, <3>2 DEF ClaimRefused
        <4>2. \A q \in Doomed(op[w].port) : \E r \in listed : proc[r] = q /\ status[r] = "broken"
          BY DoomedAreBroken
        <4>3. QED
          BY <4>1, <4>2
      <3>3. QED
        BY <3>1, <3>2
    <2>2. closer' = closer /\ loop' = loop /\ UNCHANGED records
      BY <1>2 DEF ClaimRefused
    <2>3. \A v \in Workers : op'[v].holders \subseteq op[v].holders
      BY <1>2, AtRest DEF ClaimRefused, TypeOK
    <2>4. QED
      BY <2>1, <2>2, <2>3 DEF Marked, records
  <1>3. ASSUME NEW w \in Workers, HolderStuck(w)
        PROVE  p \in Marked
    <2>1. reaping' = reaping \union op[w].holders /\ closer' = closer /\ loop' = loop
      BY <1>3 DEF HolderStuck
    <2>2. \A v \in Workers : op'[v].holders \subseteq op[v].holders \/ Claim(v)
      BY Holders
    <2>3. \A v \in Workers : ~Claim(v)
      BY <1>3, Bounds DEF HolderStuck, Claim, TypeOK
    <2>4. QED
      BY <2>1, <2>2, <2>3 DEF Marked
  <1>4. ASSUME NEW r \in Ids, Stop(r) \/ FailStart(r)
        PROVE  p \in Marked \/ (/\ r \in listed /\ proc[r] = p
                                /\ r \in listed' => status'[r] = "broken" /\ proc'[r] = p)
    BY <1>4, Bounds DEF Stop, FailStart, Unlist, Marked, TypeOK
  <1>5. CASE StopAll
    BY <1>5 DEF StopAll, Unlist, Marked, TypeOK
  <1>6. CASE /\ reaping' \subseteq reaping /\ closer'.victims \subseteq closer.victims
             /\ loop'.victim \in {loop.victim, 0}
             /\ \A v \in Workers : ~Claim(v)
    BY <1>6, Holders, Bounds DEF Marked
  <1>7. CASE Enter
    <2>1. /\ reaping' = reaping \union {loop.victim} /\ loop'.victim = 0
          /\ closer' = closer /\ op' = op /\ p # 0
      BY <1>7, Bounds DEF Enter
    <2>2. QED
      BY <2>1 DEF Marked
  <1>8. ASSUME NEW w \in Workers, Step(w), ~Claim(w), ~ClaimRefused(w), ~HolderStuck(w)
        PROVE  reaping' = reaping /\ closer' = closer /\ loop' = loop
    BY <1>8 DEF Step, SpawnFails, Register, Swap, Reject, Discard, KillHolder, HolderGone, Spawn
  <1>9. \/ \E w \in Workers : Step(w)
        \/ \E r \in Ids : Stop(r) \/ FailStart(r)
        \/ StopAll \/ Enter
        \/ /\ reaping' \subseteq reaping /\ closer'.victims \subseteq closer.victims
           /\ loop'.victim \in {loop.victim, 0}
    <2>1. ASSUME NEW late \in SUBSET reaping,
                 \/ Refresh(late)
                 \/ \E w \in Workers, n \in Ports : Start(w, n, late)
                 \/ \E w \in Workers, r \in Ids : Reattach(w, r, late)
          PROVE  reaping' \subseteq reaping /\ closer' = closer /\ loop' = loop
      BY <2>1 DEF Refresh, Start, Reattach, Refreshed, Reap
    <2>2. CASE Signal
      BY <2>2 DEF Signal, TypeOK
    <2>3. CASE TerminateAll \/ KillAll \/ Return \/ \E c \in Contexts : Retarget(c)
      BY <2>3 DEF TerminateAll, KillAll, Return, Retarget, TypeOK
    <2>4. CASE \/ \E q \in Children : Closes(q) \/ Exits(q) \/ Reads(q) \/ ReadsEof(q)
               \/ \E r \in Ids : WaitReadyPolls(r)
               \/ UNCHANGED vars
      BY <2>4 DEF vars, Closes, Exits, Reads, ReadsEof, WaitReadyPolls
    <2>5. QED
      BY <2>1, <2>2, <2>3, <2>4 DEF Next
  <1>10. QED
    BY <1>1, <1>2, <1>3, <1>4, <1>5, <1>6, <1>7, <1>8, <1>9

\* What is sent, and to whom: nobody is spared once he was killed.
LEMMA Sending ==
  ASSUME TypeOK, NEW victims, NEW sig \in {"term", "kill"}, Send(victims, sig), NEW p \in Children
  PROVE  /\ p \notin victims => signal'[p] = signal[p]
         /\ signal[p] = "kill" => signal'[p] = "kill"
         /\ sig = "kill" /\ p \in victims /\ Running(p) => signal'[p] = "kill"
         /\ signal'[p] = "none" => signal[p] = "none"
         /\ signal' \in [Children -> {"none", "term", "kill"}]
  <1>1. /\ signal'[p] = IF p \in victims /\ Running(p) /\ signal[p] # "kill" THEN sig ELSE signal[p]
        /\ signal' \in [Children -> {"none", "term", "kill"}]
    BY DEF Send, TypeOK
  <1>2. QED
    BY <1>1


\* A step that signals somebody sends one signal, to children that are being put down or to
\* one that is given up before it was adopted.
LEMMA Signalling ==
  ASSUME TypeOK, OpInv, [Next]_vars
  PROVE  \/ UNCHANGED signal
         \/ \E q \in Children : Exits(q)
         \/ \E V \in SUBSET (Marked \union Marked'), sig \in {"term", "kill"} : Send(V, sig)
         \/ \E w \in Workers : Discard(w)
  <1>1. ASSUME NEW late \in SUBSET reaping,
               \/ Refresh(late)
               \/ \E w \in Workers, n \in Ports : Start(w, n, late)
               \/ \E w \in Workers, r \in Ids : Reattach(w, r, late)
        PROVE  Send(late, "kill") /\ late \subseteq Marked
    BY <1>1 DEF Refresh, Start, Reattach, Refreshed, Reap, Marked
  <1>2. ASSUME NEW w \in Workers, Claim(w)
        PROVE  Send(Doomed(op[w].port), "term") /\ Doomed(op[w].port) \subseteq Marked'
    BY <1>2 DEF Claim, TypeOK, Marked
  <1>3. ASSUME NEW w \in Workers, ClaimRefused(w)
        PROVE  \E V \in SUBSET Marked' : Send(V, "term")
    BY <1>3 DEF ClaimRefused, Marked
  <1>4. ASSUME NEW w \in Workers, NEW q \in Children, KillHolder(w, q)
        PROVE  Send({q}, "kill") /\ q \in Marked
    BY <1>4 DEF KillHolder, Marked
  <1>5. Signal => Send({loop.victim}, "term") /\ loop.victim \in Marked
    BY DEF Signal, Marked
  <1>6. TerminateAll => \E V \in SUBSET Marked : Send(V, "term")
    <2>1. {q \in closer.victims : signal[q] = "none"} \subseteq Marked
      BY DEF Marked
    <2>2. QED
      BY <2>1 DEF TerminateAll
  <1>7. KillAll => Send(closer.victims, "kill") /\ closer.victims \subseteq Marked
    BY DEF KillAll, Marked
  <1>8. \/ \E w \in Workers : Claim(w) \/ ClaimRefused(w) \/ Discard(w)
        \/ \E w \in Workers, q \in Children : KillHolder(w, q)
        \/ \E late \in SUBSET reaping : \/ Refresh(late)
                                        \/ \E w \in Workers, n \in Ports : Start(w, n, late)
                                        \/ \E w \in Workers, r \in Ids : Reattach(w, r, late)
        \/ Signal \/ TerminateAll \/ KillAll
        \/ \E q \in Children : Exits(q)
        \/ UNCHANGED signal
    BY DEF Next, Step, vars, Closes, Reads, ReadsEof, WaitReadyPolls, Stop, FailStart, HolderStuck,
           HolderGone, Spawn, SpawnFails, Register, Swap, Reject, Enter, StopAll, Return, Retarget
  <1>9. QED
    BY <1>1, <1>2, <1>3, <1>4, <1>5, <1>6, <1>7, <1>8

\* Nobody else is signalled, and no signal is taken back.
LEMMA Signalled ==
  ASSUME TypeOK, OpInv, [Next]_vars, NEW p \in Children
  PROVE  /\ signal'[p] # "none" =>
              \/ signal[p] # "none"
              \/ p \in Marked \union Marked'
              \/ \E w \in Workers : op[w].child = p /\ op'[w].child = 0
         /\ signal[p] = "kill" /\ Running(p)' => signal'[p] = "kill"
         /\ signal' \in [Children -> {"none", "term", "kill"}]
  <1>1. CASE UNCHANGED signal
    BY <1>1 DEF TypeOK
  <1>2. ASSUME NEW q \in Children, Exits(q)
        PROVE  /\ signal'[p] # "none" => signal[p] # "none"
               /\ signal[p] = "kill" /\ Running(p)' => signal'[p] = "kill"
               /\ signal' \in [Children -> {"none", "term", "kill"}]
    BY <1>2 DEF Exits, TypeOK, Running
  <1>3. ASSUME NEW V \in SUBSET (Marked \union Marked'), NEW sig \in {"term", "kill"}, Send(V, sig)
        PROVE  /\ signal'[p] # "none" => signal[p] # "none" \/ p \in Marked \union Marked'
               /\ signal[p] = "kill" => signal'[p] = "kill"
               /\ signal' \in [Children -> {"none", "term", "kill"}]
    BY <1>3, Sending
  <1>4. ASSUME NEW w \in Workers, Discard(w)
        PROVE  /\ signal'[p] # "none" => signal[p] # "none" \/ (op[w].child = p /\ op'[w].child = 0)
               /\ signal[p] = "kill" => signal'[p] = "kill"
               /\ signal' \in [Children -> {"none", "term", "kill"}]
    <2>1. Send({op[w].child}, "kill") /\ op'[w] = Idle
      BY <1>4 DEF Discard, TypeOK
    <2>2. QED
      BY <2>1, Sending, AtRest
  <1>5. QED
    BY <1>1, <1>2, <1>3, <1>4, Signalling

-----------------------------------------------------------------------------
(* The invariant holds initially, and every step preserves it.             *)

\* An empty registry satisfies the invariant.
LEMMA InitInv == Init => Inv
  <1> SUFFICES ASSUME Init PROVE Inv
    OBVIOUS
  <1> USE DEF Init
  <1>1. TypeOK
    <2>1. op \in [Workers -> [at : {"idle", "claim", "reclaim", "adopt", "discard"}, port : Ports,
                              record : {0} \union Ids, generation : 0 .. generation,
                              holders : SUBSET Children, child : {0} \union Children]]
      BY AtRest
    <2>2. Nowhere \in [port : Ports, context : Contexts]
      BY RegistryAssumption DEF Nowhere
    <2>3. context \in Contexts /\ where \in [Children -> [port : Ports, context : Contexts]]
      BY <2>2
    <2>4. count \in 0 .. MaxChildren /\ generation \in 0 .. MaxTeardowns /\ version \in [Ids -> 0 .. MaxChildren]
      BY Bounds
    <2>5. /\ loop \in [at : {"idle", "signal", "enter"}, victim : {0} \union Children]
          /\ closer \in [at : {"idle", "terminate", "drain", "killed", "returned"}, victims : SUBSET Children]
      OBVIOUS
    <2>6. QED
      BY <2>1, <2>3, <2>4, <2>5 DEF TypeOK
  <1>2. \A w \in Workers : op[w] = Idle
    OBVIOUS
  <1>3. CountInv
    <2>1. Spawned = {} /\ Born = {}
      BY <1>2, AtRest DEF Spawned, Born
    <2>2. QED
      BY <2>1, FS_EmptySet, Bounds DEF CountInv
  <1>4. OpInv /\ ClaimInv /\ ContextInv /\ SpawnedInv
    BY <1>2, AtRest DEF OpInv, ClaimInv, ContextInv, SpawnedInv
  <1>5. Marked = {0}
    BY <1>2, AtRest DEF Marked
  <1>6. UnbornInv
    BY <1>2, <1>5, AtRest, Bounds DEF UnbornInv, Born
  <1>7. ListedInv /\ HandsInv /\ ListIsTrue /\ OnCurrentContext
    BY DEF ListedInv, HandsInv, ListIsTrue, OnCurrentContext
  <1>8. NoOrphan
    BY DEF NoOrphan, Running
  <1>9. QED
    BY <1>1, <1>3, <1>4, <1>6, <1>7, <1>8 DEF Inv

\* How an operation moves on.
Begun(w) ==
    \/ \E n \in Ports : op'[w] = [Idle EXCEPT !.at = "claim", !.port = n, !.generation = generation]
    \/ \E r \in listed : op'[w] = [Idle EXCEPT !.at = "claim", !.record = r, !.port = where[proc[r]].port]

\* An operation stands still, ends, begins, claims, spawns or gives its child up.
LEMMA Moves ==
  ASSUME TypeOK, [Next]_vars, NEW w \in Workers
  PROVE  \/ op'[w] = op[w]
         \/ op'[w] = Idle
         \/ Begun(w) /\ UNCHANGED <<listed, proc, where, generation>>
         \/ Claim(w)
         \/ \E p \in Children : HolderGone(w, p) \/ Spawn(w, p)
         \/ Reject(w)
  <1>1. ASSUME NEW late \in SUBSET reaping, \/ \E n \in Ports : Start(w, n, late)
                                            \/ \E r \in Ids : Reattach(w, r, late)
        PROVE  Begun(w) /\ UNCHANGED <<listed, proc, where, generation>>
    BY <1>1 DEF Start, Reattach, Begun, TypeOK, children, latch
  <1>2. CASE ClaimRefused(w) \/ HolderStuck(w) \/ SpawnFails(w) \/ Register(w) \/ Swap(w) \/ Discard(w)
    BY <1>2 DEF ClaimRefused, HolderStuck, SpawnFails, Register, Swap, Discard, TypeOK
  <1>3. ASSUME NEW p \in Children, KillHolder(w, p)
        PROVE  op'[w] = op[w]
    BY <1>3 DEF KillHolder
  <1>4. QED
    BY <1>1, <1>2, <1>3, Operations DEF Step

\* What an operation that has just begun looks like.
LEMMA Beginnings ==
  ASSUME TypeOK, ListedInv, NEW w \in Workers, Begun(w)
  PROVE  /\ op'[w].at = "claim" /\ op'[w].holders = {} /\ op'[w].child = 0 /\ op'[w].port \in Ports
         /\ op'[w].generation \in 0 .. generation
         /\ \/ op'[w].record = 0
            \/ op'[w].record \in listed /\ op'[w].port = where[proc[op'[w].record]].port
         /\ op'[w] = [at |-> op'[w].at, port |-> op'[w].port, record |-> op'[w].record,
                      generation |-> op'[w].generation, holders |-> op'[w].holders,
                      child |-> op'[w].child]
  <1>1. ASSUME NEW r \in listed
        PROVE  where[proc[r]].port \in Ports /\ r # 0
    BY ListedIds, Bounds DEF ListedInv, Born, TypeOK
  <1>2. generation \in 0 .. generation /\ 0 \in 0 .. generation
    BY Bounds DEF TypeOK
  <1>3. QED
    BY <1>1, <1>2, AtRest DEF Begun

\* A child in the hands of an operation was spawned by it.
LEMMA ChildrenInHand ==
  ASSUME TypeOK, OpInv, ListedInv, [Next]_vars, NEW w \in Workers, op'[w].child # 0
  PROVE  \/ op'[w].child = op[w].child /\ (op'[w] = op[w] \/ Reject(w))
         \/ \E p \in Children : Spawn(w, p) /\ op'[w].child = p
  <1>1. op'[w] # Idle /\ ~Begun(w)
    BY AtRest, Beginnings
  <1>2. CASE Claim(w) \/ \E p \in Children : HolderGone(w, p)
    <2>1. op[w].child = 0
      BY <1>2 DEF Claim, HolderGone, OpInv
    <2>2. op'[w].child = op[w].child
      BY <1>2 DEF Claim, HolderGone, TypeOK
    <2>3. QED
      BY <2>1, <2>2
  <1>3. CASE Reject(w)
    BY <1>3 DEF Reject, TypeOK
  <1>4. ASSUME NEW p \in Children, Spawn(w, p)
        PROVE  op'[w].child = p
    BY <1>4 DEF Spawn, TypeOK
  <1>5. QED
    BY <1>1, <1>2, <1>3, <1>4, Moves

\* Only a registration counts.
LEMMA Counts == [Next]_vars => count' = count \/ count' = count + 1
  BY DEF Next, Step, vars, records, Closes, Exits, Reads, ReadsEof, Refresh, Start, Reattach,
         WaitReadyPolls, Stop, FailStart, ClaimRefused, Claim, HolderStuck, KillHolder, HolderGone,
         Spawn, SpawnFails, Register, Swap, Reject, Discard, Signal, Enter, StopAll, TerminateAll,
         KillAll, Return, Retarget

\* A born child stays where it is, and a record keeps its port.
LEMMA Places ==
  ASSUME TypeOK, OpInv, ListedInv, UnbornInv, [Next]_vars
  PROVE  /\ \A p \in Born : where'[p] = where[p] /\ p \in Born'
         /\ \A r \in listed \intersect listed' : where'[proc'[r]].port = where[proc[r]].port
         /\ count <= count' /\ \A r \in listed' : r \in listed \/ r = count + 1
  <1>1. ASSUME NEW p \in Born
        PROVE  where'[p] = where[p] /\ p \in Born'
    <2>1. ASSUME NEW w \in Workers, NEW q \in Children, Spawn(w, q)
          PROVE  where'[p] = where[p] /\ child'[p] # "unborn"
      BY <2>1 DEF Spawn, Unborn, Born, TypeOK
    <2>2. QED
      BY <2>1, Births DEF Born
  <1>2. \A r \in listed' : \/ r \in listed /\ proc'[r] = proc[r]
                           \/ r = count + 1
                           \/ \E w \in Workers : Swap(w) /\ r = op[w].record
    BY Listings
  <1>3. \A w \in Workers : Swap(w) => op[w].record \in listed
    BY DEF Swap, Gone
  <1>4. ASSUME NEW r \in listed, r \in listed'
        PROVE  where'[proc'[r]].port = where[proc[r]].port
    <2>1. CASE proc'[r] = proc[r]
      BY <1>1, <1>4, <2>1 DEF ListedInv
    <2>2. ASSUME NEW w \in Workers, Swap(w), r = op[w].record
          PROVE  where'[proc'[r]].port = where[proc[r]].port
      <3>1. proc'[r] = op[w].child /\ where' = where /\ op[w].at = "adopt"
        BY <2>2, ListedIds DEF Swap, Publish, TypeOK
      <3>2. QED
        BY <2>2, <3>1 DEF OpInv
    <2>3. r # count + 1
      BY Numbers
    <2>4. QED
      BY <1>2, <1>4, <2>1, <2>2, <2>3
  <1>5. count <= count'
    BY Counts, Numbers
  <1>6. QED
    BY <1>1, <1>2, <1>3, <1>4, <1>5

\* Operations keep to the port of their record, and children to their operation.
LEMMA OpStep == ASSUME Inv, [Next]_vars PROVE OpInv'
  <1> USE DEF Inv
  <1>1. \A r \in listed' : r # 0
    BY Places, Numbers
  <1>2. SUFFICES ASSUME NEW w \in Workers
                 PROVE  /\ op'[w].at # "reclaim" => op'[w].holders = {}
                        /\ op'[w].at \in {"adopt", "discard"} <=> op'[w].child # 0
                        /\ op'[w].at = "adopt" => where'[op'[w].child].port = op'[w].port
                        /\ op'[w].record <= count'
                        /\ op'[w].record \in listed' => where'[proc'[op'[w].record]].port = op'[w].port
    BY DEF OpInv
  <1>8. count' \in Nat
    BY Counts, Numbers
  <1>3. CASE op'[w].record = op[w].record /\ op'[w].port = op[w].port
    <2>1. /\ op'[w].record <= count'
          /\ op'[w].record \in listed' => where'[proc'[op'[w].record]].port = op'[w].port
      BY <1>3, Places, Numbers, <1>8 DEF OpInv
    <2>2. ASSUME op[w].at = "adopt"
          PROVE  where'[op[w].child].port = op[w].port
      BY <2>2, Places DEF OpInv, SpawnedInv
    <2>3. CASE op'[w] = op[w]
      BY <2>1, <2>2, <2>3 DEF OpInv
    <2>4. CASE Claim(w)
      BY <2>1, <2>4 DEF Claim, OpInv, TypeOK
    <2>5. CASE Reject(w)
      <3>1. op'[w] = [op[w] EXCEPT !.at = "discard"] /\ op[w].at = "adopt"
        BY <2>5 DEF Reject, TypeOK
      <3>2. op'[w].at = "discard" /\ op'[w].child = op[w].child /\ op'[w].holders = op[w].holders
        BY <3>1 DEF TypeOK
      <3>3. op[w].holders = {} /\ op[w].child # 0
        BY <3>1 DEF OpInv
      <3>4. QED
        BY <2>1, <3>2, <3>3
    <2>6. ASSUME NEW p \in Children, HolderGone(w, p)
          PROVE  /\ op'[w].at = op[w].at /\ op[w].at = "reclaim" /\ op'[w].child = op[w].child
      BY <2>6 DEF HolderGone, TypeOK
    <2>7. ASSUME NEW p \in Children, Spawn(w, p)
          PROVE  /\ op'[w].at = "adopt" /\ op'[w].child = p /\ op'[w].holders = {}
                 /\ where'[p].port = op[w].port /\ p # 0
      BY <2>7, Bounds DEF Spawn, TypeOK
    <2>8. CASE op'[w] = Idle
      BY <2>1, <2>8, AtRest
    <2>9. CASE Begun(w)
      BY <2>1, <2>9, Beginnings
    <2>10. QED
      BY <1>3, <2>1, <2>3, <2>4, <2>5, <2>6, <2>7, <2>8, <2>9, Moves DEF OpInv
  <1>4. CASE op'[w] = Idle
    BY <1>1, <1>4, <1>8, AtRest, Places, Numbers
  <1>5. CASE Begun(w) /\ UNCHANGED <<listed, proc, where, generation>>
    <2>1. op'[w].record = 0 \/ (op'[w].record \in listed /\ op'[w].port = where[proc[op'[w].record]].port)
      BY <1>5, Beginnings
    <2>2. op'[w].record <= count'
      BY <1>8, <2>1, Places, Numbers
    <2>3. op'[w].record \in listed' => where'[proc'[op'[w].record]].port = op'[w].port
      BY <1>1, <1>5, <2>1
    <2>4. QED
      BY <1>5, <2>2, <2>3, Beginnings
  <1>6. CASE Claim(w) \/ Reject(w) \/ \E p \in Children : HolderGone(w, p) \/ Spawn(w, p)
    BY <1>6, <1>3 DEF Claim, Reject, HolderGone, Spawn, TypeOK
  <1>7. QED
    BY <1>3, <1>4, <1>5, <1>6, Moves

\* A spawned child is born, and counted as long as nobody adopted it.
LEMMA Counting ==
  ASSUME Inv, [Next]_vars
  PROVE  /\ IsFiniteSet(Spawned) /\ IsFiniteSet(Born) /\ Spawned \subseteq Born
         /\ IsFiniteSet(Spawned') /\ IsFiniteSet(Born')
         /\ \/ \E p \in Children : p \notin Born /\ Born' = Born \union {p} /\ Spawned' \subseteq Spawned \union {p}
            \/ Born' = Born /\ Spawned' \subseteq Spawned
         /\ \A w \in Workers : Register(w) \/ Swap(w) =>
              op[w].child \in Spawned /\ Born' = Born /\ Spawned' \subseteq Spawned \ {op[w].child}
  <1> USE DEF Inv
  <1>1. IsFiniteSet(Children) /\ Born \subseteq Children /\ Born' \subseteq Children
    BY Bounds, FS_Interval DEF Born
  <1>2. Spawned \subseteq Born
    BY DEF Spawned, SpawnedInv, OpInv
  <1>3. ASSUME NEW c \in Spawned'
        PROVE  \/ \E w \in Workers : op[w].child = c /\ op'[w] = op[w] /\ op[w].at = "adopt"
               \/ c \in Children /\ \E w \in Workers : Spawn(w, c)
    <2>1. PICK w \in Workers : op'[w].at = "adopt" /\ op'[w].child = c /\ c # 0
      BY OpStep DEF Spawned, OpInv
    <2>2. ~Reject(w)
      BY <2>1 DEF Reject, TypeOK
    <2>3. QED
      BY <2>1, <2>2, ChildrenInHand
  <1>4. ASSUME NEW w \in Workers, NEW p \in Children, Spawn(w, p)
        PROVE  p \notin Born /\ Born' = Born \union {p} /\ Spawned' \subseteq Spawned \union {p}
    <2>1. p \notin Born /\ Born' = Born \union {p}
      <3>1. child[p] = "unborn" /\ child' = [child EXCEPT ![p] = "running"]
        BY <1>4 DEF Spawn, Unborn
      <3>2. QED
        BY <3>1 DEF Born, TypeOK
    <2>2. ASSUME NEW v \in Workers, NEW c, Spawn(v, c)
          PROVE  c = p
      BY <1>4, <2>2, Bounds DEF Spawn, Unborn
    <2>3. QED
      BY <1>3, <2>1, <2>2 DEF Spawned
  <1>5. ASSUME ~\E w \in Workers, p \in Children : Spawn(w, p)
        PROVE  Born' = Born /\ Spawned' \subseteq Spawned
    <2>1. Born' = Born
      BY <1>5, Births DEF Born
    <2>2. Spawned' \subseteq Spawned
      BY <1>3, <1>5 DEF Spawned
    <2>3. QED
      BY <2>1, <2>2
  <1>6. ASSUME NEW w \in Workers, Register(w) \/ Swap(w)
        PROVE  op[w].child \in Spawned /\ Born' = Born /\ Spawned' \subseteq Spawned \ {op[w].child}
    <2>1. op[w].at = "adopt" /\ op'[w] = Idle /\ child' = child
      BY <1>6 DEF Register, Swap, TypeOK
    <2>2. ASSUME NEW v \in Workers, NEW c \in Children, Spawn(v, c)
          PROVE  FALSE
      <3>1. child[c] = "unborn" /\ child' = [child EXCEPT ![c] = "running"]
        BY <2>2 DEF Spawn, Unborn
      <3>2. QED
        BY <2>1, <3>1 DEF TypeOK
    <2>3. ASSUME NEW c \in Spawned'
          PROVE  c \in Spawned /\ c # op[w].child
      <3>1. PICK v \in Workers : op[v].child = c /\ op'[v] = op[v] /\ op[v].at = "adopt"
        BY <1>3, <2>2
      <3>2. v # w
        BY <2>1, <3>1, AtRest
      <3>3. op[w].child # 0
        BY <2>1 DEF OpInv
      <3>4. QED
        BY <3>1, <3>2, <3>3 DEF Spawned, SpawnedInv
    <2>4. QED
      BY <2>1, <2>3 DEF Spawned, Born
  <1>7. QED
    <2>1. IsFiniteSet(Born) /\ IsFiniteSet(Born') /\ IsFiniteSet(Spawned)
      BY <1>1, <1>2, FS_Subset
    <2>2. \/ \E p \in Children : p \notin Born /\ Born' = Born \union {p} /\ Spawned' \subseteq Spawned \union {p}
          \/ Born' = Born /\ Spawned' \subseteq Spawned
      BY <1>4, <1>5
    <2>3. IsFiniteSet(Spawned')
      BY <2>1, <2>2, FS_Subset, FS_AddElement
    <2>4. QED
      BY <1>2, <1>6, <2>1, <2>2, <2>3

\* There is a record, and a version, left for every child that may be adopted.
LEMMA Room ==
  ASSUME TypeOK, OpInv, SpawnedInv, CountInv, NEW w \in Workers, op[w].at = "adopt"
  PROVE  /\ count + 1 \in 1 .. MaxChildren
         /\ \A r \in Ids : version[r] + 1 \in 0 .. MaxChildren
  <1>1. IsFiniteSet(Children) /\ Cardinality(Children) = MaxChildren /\ Born \subseteq Children
    <2>1. IsFiniteSet(1 .. MaxChildren)
          /\ Cardinality(1 .. MaxChildren) = IF 1 > MaxChildren THEN 0 ELSE MaxChildren - 1 + 1
      BY Bounds, FS_Interval
    <2>2. QED
      BY <2>1, Bounds DEF Born
  <1>2. IsFiniteSet(Born) /\ Cardinality(Born) <= MaxChildren /\ Cardinality(Born) \in Nat
    BY <1>1, FS_Subset, FS_CardinalityType
  <1>3. Spawned \subseteq Born
    BY DEF Spawned, SpawnedInv, OpInv
  <1>4. op[w].child \in Spawned
    BY DEF Spawned
  <1>5. IsFiniteSet(Spawned) /\ Cardinality(Spawned) \in Nat /\ Cardinality(Spawned) # 0
    BY <1>2, <1>3, <1>4, FS_Subset, FS_CardinalityType, FS_EmptySet
  <1>6. count \in Nat /\ count + Cardinality(Spawned) <= Cardinality(Born)
    BY Numbers DEF CountInv
  <1>7. \A r \in Ids : version[r] \in Nat /\ version[r] + Cardinality(Spawned) <= Cardinality(Born)
    BY Bounds DEF CountInv, TypeOK
  <1>8. QED
    BY <1>2, <1>5, <1>6, <1>7, Bounds

\* Only the event loop's own steps change what it is at.
LEMMA Loops ==
  ASSUME [Next]_vars
  PROVE  (\E r \in Ids : Stop(r) \/ FailStart(r)) \/ Signal \/ Enter \/ loop' = loop
  BY DEF Next, Step, vars, Closes, Exits, Reads, ReadsEof, Refresh, Start, Reattach, WaitReadyPolls,
         ClaimRefused, Claim, HolderStuck, KillHolder, HolderGone, Spawn, SpawnFails, Register, Swap,
         Reject, Discard, StopAll, TerminateAll, KillAll, Return, Retarget

\* Only a teardown and the retarget after it touch the latch.
LEMMA Latches ==
  ASSUME [Next]_vars
  PROVE  StopAll \/ (\E c \in Contexts : Retarget(c)) \/ UNCHANGED <<closed, generation, context, closer>>
                 \/ (UNCHANGED <<closed, generation, context>> /\ (TerminateAll \/ KillAll \/ Return))
  <1>1. ASSUME NEW w \in Workers, Step(w)
        PROVE  UNCHANGED <<closed, generation, context, closer>>
    BY <1>1 DEF Step, latch, ClaimRefused, Claim, HolderStuck, KillHolder, HolderGone, Spawn,
                SpawnFails, Register, Swap, Reject, Discard
  <1>2. ASSUME NEW late \in SUBSET reaping,
               \/ Refresh(late)
               \/ \E w \in Workers, n \in Ports : Start(w, n, late)
               \/ \E w \in Workers, r \in Ids : Reattach(w, r, late)
        PROVE  UNCHANGED <<closed, generation, context, closer>>
    BY <1>2 DEF Refresh, Start, Reattach, latch
  <1>3. CASE \/ \E p \in Children : Closes(p) \/ Exits(p) \/ Reads(p) \/ ReadsEof(p)
             \/ \E r \in Ids : WaitReadyPolls(r) \/ Stop(r) \/ FailStart(r)
             \/ Signal \/ Enter \/ UNCHANGED vars
    BY <1>3 DEF vars, latch, Closes, Exits, Reads, ReadsEof, WaitReadyPolls, Stop, FailStart, Signal,
                Enter
  <1>4. TerminateAll \/ KillAll \/ Return => UNCHANGED <<closed, generation, context>>
    BY DEF TerminateAll, KillAll, Return, latch
  <1>5. QED
    BY <1>1, <1>2, <1>3, <1>4 DEF Next

\* The operations stay what they are.
LEMMA OpTypes ==
  ASSUME TypeOK, ListedInv, [Next]_vars
  PROVE  op' \in [Workers -> [at : {"idle", "claim", "reclaim", "adopt", "discard"}, port : Ports,
                              record : {0} \union Ids, generation : 0 .. generation',
                              holders : SUBSET Children, child : {0} \union Children]]
  <1> DEFINE Ops(g) == [at : {"idle", "claim", "reclaim", "adopt", "discard"}, port : Ports,
                        record : {0} \union Ids, generation : 0 .. g,
                        holders : SUBSET Children, child : {0} \union Children]
  <1>1. generation' = generation \/ generation' = generation + 1
    BY Latches DEF StopAll, Retarget
  <1>2. \A x \in Ops(generation) : x \in Ops(generation')
    BY <1>1, Numbers
  <1>3. Idle \in Ops(generation)
    BY AtRest, Numbers
  <1>4. op' = [w \in Workers |-> op'[w]]
    <2>1. ASSUME NEW w \in Workers, Step(w)
          PROVE  op' = [v \in Workers |-> op'[v]]
      BY <2>1 DEF TypeOK, Step, ClaimRefused, Claim, HolderStuck, KillHolder, HolderGone, Spawn,
                  SpawnFails, Register, Swap, Reject, Discard
    <2>2. ASSUME NEW w \in Workers, NEW late \in SUBSET reaping,
                 \/ \E n \in Ports : Start(w, n, late)
                 \/ \E r \in Ids : Reattach(w, r, late)
          PROVE  op' = [v \in Workers |-> op'[v]]
      BY <2>2 DEF TypeOK, Start, Reattach
    <2>3. \/ \E v \in Workers : Step(v)
          \/ \E late \in SUBSET reaping, v \in Workers :
                (\E n \in Ports : Start(v, n, late)) \/ (\E r \in Ids : Reattach(v, r, late))
          \/ UNCHANGED op
      BY DEF Next, vars, Closes, Exits, Reads, ReadsEof, Refresh, WaitReadyPolls, Stop, FailStart,
             Signal, Enter, StopAll, TerminateAll, KillAll, Return, Retarget
    <2>4. QED
      BY <2>1, <2>2, <2>3 DEF TypeOK
  <1>5. ASSUME NEW w \in Workers
        PROVE  op'[w] \in Ops(generation)
    <2>1. op[w] \in Ops(generation)
      BY DEF TypeOK
    <2>2. CASE Begun(w)
      <3>1. op'[w].record \in {0} \union Ids
        BY <2>2, Beginnings, ListedIds
      <3>2. /\ op'[w].at = "claim" /\ op'[w].holders = {} /\ op'[w].child = 0 /\ op'[w].port \in Ports
            /\ op'[w].generation \in 0 .. generation
            /\ op'[w] = [at |-> op'[w].at, port |-> op'[w].port, record |-> op'[w].record,
                         generation |-> op'[w].generation, holders |-> op'[w].holders,
                         child |-> op'[w].child]
        BY <2>2, Beginnings
      <3>3. QED
        BY <3>1, <3>2
    <2>3. CASE Claim(w)
      <3>1. PICK h \in SUBSET Children : op'[w] = [op[w] EXCEPT !.at = "reclaim", !.holders = h]
        <4>1. Doomed(op[w].port) \subseteq Children
          BY ListedIds DEF Doomed, OnPort, ListedInv, Born
        <4>2. QED
          BY <2>3, <4>1 DEF Claim, TypeOK
      <3>2. QED
        BY <2>1, <3>1
    <2>4. CASE Reject(w)
      <3>1. op'[w] = [op[w] EXCEPT !.at = "discard"]
        BY <2>4 DEF Reject, TypeOK
      <3>2. QED
        BY <2>1, <3>1
    <2>5. ASSUME NEW p \in Children, HolderGone(w, p) \/ Spawn(w, p)
          PROVE  op'[w] \in Ops(generation)
      <3>1. \/ op'[w] = [op[w] EXCEPT !.holders = @ \ {p}]
            \/ op'[w] = [op[w] EXCEPT !.at = "adopt", !.child = p]
        BY <2>5 DEF HolderGone, Spawn, TypeOK
      <3>2. QED
        BY <2>1, <3>1
    <2>6. QED
      BY <2>1, <2>2, <2>3, <2>4, <2>5, <1>3, Moves
  <1>6. QED
    BY <1>2, <1>4, <1>5

\* The records stay what they are.
LEMMA RecordTypes ==
  ASSUME TypeOK, OpInv, SpawnedInv, CountInv, ListedInv, [Next]_vars
  PROVE  /\ count' \in 0 .. MaxChildren /\ listed' \subseteq 1 .. count'
         /\ proc' \in [Ids -> {0} \union Children]
         /\ status' \in [Ids -> {"starting", "alive", "broken"}]
         /\ version' \in [Ids -> 0 .. MaxChildren]
         /\ reader' \in [Children -> {0} \union Ids]
         /\ said' \subseteq Children
  <1>1. ASSUME NEW w \in Workers, Register(w)
        PROVE  /\ count' \in 0 .. MaxChildren /\ listed' \subseteq 1 .. count'
               /\ proc' \in [Ids -> {0} \union Children]
               /\ status' \in [Ids -> {"starting", "alive", "broken"}]
               /\ version' = version /\ said' = said
               /\ reader' \in [Children -> {0} \union Ids]
    <2>1. count' = count + 1 /\ count' \in 1 .. MaxChildren /\ op[w].child \in Children
      BY <1>1, Room DEF Register, OpInv, TypeOK
    <2>2. count' \in Ids /\ listed' = listed \union {count'} /\ listed \subseteq 1 .. count
      BY <1>1, <2>1, Bounds DEF Register, TypeOK
    <2>3. /\ proc' = [proc EXCEPT ![count'] = op[w].child]
          /\ status' = [status EXCEPT ![count'] = "starting"]
          /\ reader' = [reader EXCEPT ![op[w].child] = count']
          /\ version' = version /\ said' = said
      BY <1>1 DEF Register, Publish
    <2>4. listed' \subseteq 1 .. count' /\ count' \in 0 .. MaxChildren
      BY <2>1, <2>2, Bounds DEF TypeOK
    <2>5. QED
      BY <2>1, <2>2, <2>3, <2>4 DEF TypeOK
  <1>2. ASSUME NEW w \in Workers, Swap(w)
        PROVE  /\ proc' \in [Ids -> {0} \union Children]
               /\ status' \in [Ids -> {"starting", "alive", "broken"}]
               /\ version' \in [Ids -> 0 .. MaxChildren]
               /\ reader' \in [Children -> {0} \union Ids]
               /\ count' = count /\ listed' = listed /\ said' = said
    <2>1. op[w].child \in Children /\ op[w].record \in Ids /\ op[w].at = "adopt"
      BY <1>2 DEF Swap, OpInv, TypeOK
    <2>2. version[op[w].record] + 1 \in 0 .. MaxChildren
      BY <2>1, Room
    <2>3. QED
      BY <1>2, <2>1, <2>2 DEF Swap, Publish, TypeOK
  <1>3. ASSUME NEW gone \in SUBSET listed, Unlist(gone), UNCHANGED <<count, said>>
        PROVE  /\ proc' \in [Ids -> {0} \union Children]
               /\ status' \in [Ids -> {"starting", "alive", "broken"}]
               /\ version' \in [Ids -> 0 .. MaxChildren]
               /\ reader' \in [Children -> {0} \union Ids]
               /\ listed' \subseteq listed
    <2>1. 0 \in 0 .. MaxChildren
      BY Bounds
    <2>2. QED
      BY <1>3, <2>1 DEF Unlist, TypeOK
  <1>4. ASSUME NEW r \in Ids, Stop(r) \/ FailStart(r)
        PROVE  /\ UNCHANGED <<count, said>>
               /\ \/ r \in listed /\ Unlist({r})
                  \/ /\ UNCHANGED <<listed, proc, version, reader>>
                     /\ status' = [status EXCEPT ![r] = "broken"]
    BY <1>4 DEF Stop, FailStart
  <1>5. StopAll => Unlist(listed) /\ UNCHANGED <<count, said>>
    BY DEF StopAll
  <1>6. ASSUME NEW p \in Children, Reads(p) \/ ReadsEof(p)
        PROVE  /\ UNCHANGED <<count, listed, proc, version>>
               /\ status' \in [Ids -> {"starting", "alive", "broken"}]
               /\ reader' \in [Children -> {0} \union Ids]
               /\ said' \subseteq Children
    BY <1>6 DEF Reads, ReadsEof, TypeOK
  <1>7. ASSUME NEW late \in SUBSET reaping,
               \/ Refresh(late)
               \/ \E w \in Workers, n \in Ports : Start(w, n, late)
               \/ \E w \in Workers, r \in Ids : Reattach(w, r, late)
        PROVE  /\ UNCHANGED <<count, listed, proc, version, reader, said>>
               /\ status' \in [Ids -> {"starting", "alive", "broken"}]
    <2>1. Refreshed(late) /\ UNCHANGED <<count, listed, proc, version, reader, said>>
      BY <1>7 DEF Refresh, Start, Reattach, children
    <2>2. status' \in [Ids -> {"starting", "alive", "broken"}]
      BY <2>1 DEF Refreshed, TypeOK
    <2>3. QED
      BY <2>1, <2>2
  <1>8. ASSUME NEW r \in Ids, WaitReadyPolls(r)
        PROVE  /\ UNCHANGED <<count, listed, proc, version, reader, said>>
               /\ status' \in [Ids -> {"starting", "alive", "broken"}]
    BY <1>8 DEF WaitReadyPolls, children, TypeOK
  <1>9. \/ \E w \in Workers : Register(w) \/ Swap(w)
        \/ \E r \in Ids : Stop(r) \/ FailStart(r) \/ WaitReadyPolls(r)
        \/ \E p \in Children : Reads(p) \/ ReadsEof(p)
        \/ \E late \in SUBSET reaping : \/ Refresh(late)
                                        \/ \E w \in Workers, n \in Ports : Start(w, n, late)
                                        \/ \E w \in Workers, r \in Ids : Reattach(w, r, late)
        \/ StopAll
        \/ UNCHANGED <<count, listed, proc, status, version, reader, said>>
    <2>1. ASSUME NEW w \in Workers, Step(w)
          PROVE  \/ Register(w) \/ Swap(w)
                 \/ UNCHANGED <<count, listed, proc, status, version, reader, said>>
      BY <2>1 DEF Step, children, records, ClaimRefused, Claim, HolderStuck, KillHolder, HolderGone,
                  Spawn, SpawnFails, Reject, Discard
    <2>2. CASE \/ \E p \in Children : Closes(p) \/ Exits(p)
               \/ Signal \/ Enter \/ TerminateAll \/ KillAll \/ Return
               \/ \E c \in Contexts : Retarget(c)
               \/ UNCHANGED vars
      BY <2>2 DEF vars, children, records, Closes, Exits, Signal, Enter, TerminateAll, KillAll, Return,
                  Retarget
    <2>3. QED
      BY <2>1, <2>2 DEF Next
  <1>10. /\ count \in 0 .. MaxChildren /\ listed \subseteq 1 .. count
         /\ proc \in [Ids -> {0} \union Children]
         /\ status \in [Ids -> {"starting", "alive", "broken"}]
         /\ version \in [Ids -> 0 .. MaxChildren]
         /\ reader \in [Children -> {0} \union Ids]
         /\ said \subseteq Children
    BY DEF TypeOK
  <1>11. ASSUME NEW gone \in SUBSET listed, Unlist(gone), UNCHANGED <<count, said>>
         PROVE  /\ count' \in 0 .. MaxChildren /\ listed' \subseteq 1 .. count'
                /\ proc' \in [Ids -> {0} \union Children]
                /\ status' \in [Ids -> {"starting", "alive", "broken"}]
                /\ version' \in [Ids -> 0 .. MaxChildren]
                /\ reader' \in [Children -> {0} \union Ids]
                /\ said' \subseteq Children
    BY <1>3, <1>10, <1>11
  <1>12. CASE \E r \in Ids : Stop(r) \/ FailStart(r)
    <2>1. PICK r \in Ids : Stop(r) \/ FailStart(r)
      BY <1>12
    <2>2. CASE r \in listed /\ Unlist({r})
      <3>1. {r} \in SUBSET listed
        BY <2>2
      <3>2. QED
        BY <2>1, <2>2, <3>1, <1>4, <1>11
    <2>3. CASE /\ UNCHANGED <<listed, proc, version, reader>>
               /\ status' = [status EXCEPT ![r] = "broken"]
      BY <2>1, <2>3, <1>4, <1>10
    <2>4. QED
      BY <2>1, <2>2, <2>3, <1>4
  <1>13. CASE StopAll
    BY <1>5, <1>11, <1>13
  <1>14. QED
    BY <1>1, <1>2, <1>6, <1>7, <1>8, <1>9, <1>10, <1>12, <1>13

\* Types are kept by every step.
LEMMA TypeStep == ASSUME Inv, [Next]_vars PROVE TypeOK'
  <1> USE DEF Inv
  <1>1. /\ child' \in [Children -> {"unborn", "running", "closing", "exited"}]
        /\ where' \in [Children -> [port : Ports, context : Contexts]]
    <2>1. CASE \E p \in Children : Closes(p) \/ Exits(p)
      BY <2>1 DEF TypeOK, Closes, Exits
    <2>2. CASE \E w \in Workers, p \in Children : Spawn(w, p)
      BY <2>2 DEF TypeOK, Spawn
    <2>3. \/ \E p \in Children : Closes(p) \/ Exits(p)
          \/ \E w \in Workers, p \in Children : Spawn(w, p)
          \/ UNCHANGED <<child, where>>
      BY DEF Next, vars, Step, children, Reads, ReadsEof, Refresh, Start, Reattach, WaitReadyPolls, Stop,
             FailStart, ClaimRefused, Claim, HolderStuck, KillHolder, HolderGone, SpawnFails, Register,
             Swap, Reject, Discard, Signal, Enter, StopAll, TerminateAll, KillAll, Return, Retarget
    <2>4. QED
      BY <2>1, <2>2, <2>3 DEF TypeOK
  <1>2. signal' \in [Children -> {"none", "term", "kill"}]
    <2>1. ASSUME NEW V, NEW sig \in {"term", "kill"}, Send(V, sig)
          PROVE  signal' \in [Children -> {"none", "term", "kill"}]
      BY <2>1 DEF Send, TypeOK
    <2>2. ASSUME NEW q \in Children, Exits(q)
          PROVE  signal' \in [Children -> {"none", "term", "kill"}]
      BY <2>2 DEF Exits, TypeOK
    <2>3. ASSUME NEW w \in Workers, Discard(w)
          PROVE  Send({op[w].child}, "kill")
      BY <2>3 DEF Discard
    <2>4. CASE UNCHANGED signal
      BY <2>4 DEF TypeOK
    <2>5. QED
      BY <2>1, <2>2, <2>3, <2>4, Signalling
  <1>3. reaping' \subseteq Children /\ claimed' \subseteq Ports
    <2>1. ASSUME NEW n
          PROVE  Doomed(n) \subseteq Children
      BY DEF Doomed, OnPort, ListedInv, Born
    <2>2. ASSUME NEW w \in Workers, ClaimRefused(w)
          PROVE  reaping' \subseteq Children /\ claimed' = claimed
      BY <2>1, <2>2 DEF ClaimRefused, TypeOK
    <2>3. ASSUME NEW w \in Workers, Claim(w)
          PROVE  reaping' \subseteq reaping /\ claimed' = claimed \union {op[w].port}
      BY <2>3 DEF Claim
    <2>4. ASSUME NEW w \in Workers, HolderStuck(w)
          PROVE  reaping' = reaping \union op[w].holders /\ claimed' \subseteq claimed
      BY <2>4 DEF HolderStuck
    <2>5. CASE Enter
      <3>1. loop.victim # 0 /\ reaping' = reaping \union {loop.victim} /\ claimed' = claimed
        BY <2>5 DEF Enter, HandsInv
      <3>2. QED
        BY <3>1 DEF TypeOK
    <2>6. ASSUME NEW late \in SUBSET reaping,
                 \/ Refresh(late)
                 \/ \E w \in Workers, n \in Ports : Start(w, n, late)
                 \/ \E w \in Workers, r \in Ids : Reattach(w, r, late)
          PROVE  reaping' \subseteq reaping /\ claimed' = claimed
      BY <2>6 DEF Refresh, Start, Reattach, Refreshed, Reap
    <2>7. \/ \E w \in Workers : ClaimRefused(w) \/ Claim(w) \/ HolderStuck(w)
          \/ Enter
          \/ \E late \in SUBSET reaping : \/ Refresh(late)
                                          \/ \E w \in Workers, n \in Ports : Start(w, n, late)
                                          \/ \E w \in Workers, r \in Ids : Reattach(w, r, late)
          \/ reaping' \subseteq reaping /\ claimed' \subseteq claimed
      BY DEF Next, Step, vars, Closes, Exits, Reads, ReadsEof, WaitReadyPolls, Stop, FailStart,
             KillHolder, HolderGone, Spawn, SpawnFails, Register, Swap, Reject, Discard, Signal,
             StopAll, TerminateAll, KillAll, Return, Retarget
    <2>8. /\ reaping \subseteq Children /\ claimed \subseteq Ports
          /\ \A w \in Workers : op[w].holders \subseteq Children /\ op[w].port \in Ports
      BY DEF TypeOK
    <2>9. QED
      BY <2>2, <2>3, <2>4, <2>5, <2>6, <2>7, <2>8
  <1>4. closed' \in BOOLEAN /\ generation' \in 0 .. MaxTeardowns /\ context' \in Contexts
    <2>1. CASE StopAll
      BY <2>1, Bounds DEF StopAll, TypeOK
    <2>2. CASE \E c \in Contexts : Retarget(c)
      BY <2>2 DEF Retarget, TypeOK
    <2>3. StopAll \/ (\E c \in Contexts : Retarget(c)) \/ UNCHANGED <<closed, generation, context>>
      BY Latches
    <2>4. QED
      BY <2>1, <2>2, <2>3 DEF TypeOK
  <1>5. loop' \in [at : {"idle", "signal", "enter"}, victim : {0} \union Children]
    <2>1. CASE \E r \in Ids : Stop(r) \/ FailStart(r)
      BY <2>1 DEF Stop, FailStart, TypeOK
    <2>2. CASE Signal \/ Enter
      BY <2>2 DEF Signal, Enter, TypeOK
    <2>3. QED
      BY <2>1, <2>2, Loops DEF TypeOK
  <1>6. closer' \in [at : {"idle", "terminate", "drain", "killed", "returned"}, victims : SUBSET Children]
    <2>1. CASE StopAll
      <3>1. {proc[r] : r \in listed} \union reaping \subseteq Children
        BY DEF ListedInv, Born, TypeOK
      <3>2. QED
        BY <2>1, <3>1 DEF StopAll
    <2>2. CASE TerminateAll \/ KillAll \/ Return \/ \E c \in Contexts : Retarget(c)
      BY <2>2 DEF TerminateAll, KillAll, Return, Retarget, TypeOK
    <2>3. \/ StopAll \/ TerminateAll \/ KillAll \/ Return \/ \E c \in Contexts : Retarget(c)
          \/ UNCHANGED closer
      BY DEF Next, Step, vars, Closes, Exits, Reads, ReadsEof, Refresh, Start, Reattach,
             WaitReadyPolls, Stop, FailStart, ClaimRefused, Claim, HolderStuck, KillHolder, HolderGone,
             Spawn, SpawnFails, Register, Swap, Reject, Discard, Signal, Enter
    <2>4. QED
      BY <2>1, <2>2, <2>3 DEF TypeOK
  <1>7. QED
    BY <1>1, <1>2, <1>3, <1>4, <1>5, <1>6, OpTypes, RecordTypes DEF TypeOK

\* A record that a step registers or swaps gets the child that its operation spawned.
Adopts(w, r) == (Register(w) /\ r = count + 1) \/ (Swap(w) /\ r = op[w].record)

\* An adoption is one operation's, which is done with it; nothing else changes hands.
LEMMA Adopting ==
  ASSUME Inv, [Next]_vars, NEW w \in Workers, NEW r, Adopts(w, r)
  PROVE  /\ op[w].at = "adopt" /\ op[w].child # 0 /\ op'[w] = Idle
         /\ r \in listed' /\ proc'[r] = op[w].child /\ status'[r] = "starting"
         /\ where' = where /\ child' = child /\ signal' = signal /\ said' = said
         /\ UNCHANGED <<reaping, latch, loop, closer>>
         /\ where[op[w].child].port = op[w].port
         /\ \A v \in Workers : \A q : Adopts(v, q) => v = w /\ q = r
  <1> USE DEF Inv
  <1>1. op[w].at = "adopt" /\ op[w].child # 0 /\ where[op[w].child].port = op[w].port
    BY DEF Adopts, Register, Swap, OpInv
  <1>2. op' = [op EXCEPT ![w] = Idle] /\ op'[w] = Idle
    BY DEF Adopts, Register, Swap, TypeOK
  <1>3. /\ where' = where /\ child' = child /\ signal' = signal /\ said' = said
        /\ UNCHANGED <<reaping, latch, loop, closer>>
    BY DEF Adopts, Register, Swap
  <1>4. r \in Ids /\ r \in listed' /\ Publish(r, op[w].child)
    <2>1. CASE Register(w) /\ r = count + 1
      BY <1>1, <2>1, Room, Bounds DEF Register
    <2>2. CASE Swap(w) /\ r = op[w].record
      BY <2>2, ListedIds DEF Swap, Gone, TypeOK
    <2>3. QED
      BY <2>1, <2>2 DEF Adopts
  <1>5. proc'[r] = op[w].child /\ status'[r] = "starting"
    BY <1>4 DEF Publish, TypeOK
  <1>6. ASSUME NEW v \in Workers, NEW q, Adopts(v, q)
        PROVE  v = w /\ q = r
    <2>1. op[v].at = "adopt" /\ op'[v] = Idle
      BY <1>6 DEF Adopts, Register, Swap, TypeOK
    <2>2. v = w
      BY <1>2, <2>1, AtRest DEF TypeOK
    <2>3. q = r
      BY <1>6, <2>2 DEF Adopts, Register, Swap
    <2>4. QED
      BY <2>2, <2>3
  <1>7. QED
    BY <1>1, <1>2, <1>3, <1>4, <1>5, <1>6

\* Any other listed record is as it was, or broken, or confirmed.
LEMMA Staying ==
  ASSUME Inv, [Next]_vars, NEW r \in listed'
  PROVE  \/ \E w \in Workers : Adopts(w, r)
         \/ /\ r \in listed /\ proc'[r] = proc[r] /\ proc[r] \in Born
            /\ status[r] = "broken" => status'[r] = "broken"
            /\ status'[r] = "alive" => status[r] = "alive" \/ proc[r] \in said'
  BY Listings DEF Inv, Adopts, ListedInv

\* Nobody is born twice.
LEMMA Surviving ==
  ASSUME Inv, [Next]_vars, NEW p \in Born
  PROVE  p \in Born' /\ where'[p] = where[p] /\ (Running(p)' => Running(p))
  <1>1. ASSUME NEW w \in Workers, NEW q \in Children, Spawn(w, q)
        PROVE  Running(p)' => Running(p)
    BY <1>1 DEF Spawn, Unborn, Born, Running, TypeOK, Inv
  <1>2. QED
    BY <1>1, Births, Places DEF Born, Inv

\* A new child is where its operation put it, and no one else has it.
LEMMA Spawning ==
  ASSUME Inv, [Next]_vars, NEW w \in Workers, NEW c \in Children, Spawn(w, c)
  PROVE  /\ c \notin Born /\ c \in Born' /\ op[w].at = "reclaim" /\ op'[w].at = "adopt"
         /\ op'[w].child = c /\ where'[c].context = context
         /\ op'[w].record = op[w].record /\ op'[w].generation = op[w].generation
         /\ \A v \in Workers : v # w => op'[v] = op[v]
         /\ UNCHANGED <<signal, records, reaping, claimed, latch, loop, closer>>
  BY DEF Inv, Spawn, Unborn, Born, TypeOK

\* Only a record that somebody adopts into, and only the count of those, goes up.
LEMMA Versions ==
  ASSUME Inv, [Next]_vars
  PROVE  \/ \E w \in Workers : Register(w) /\ count' = count + 1 /\ version' = version
         \/ \E w \in Workers : /\ Swap(w) /\ count' = count
                               /\ \A r \in Ids : version'[r] \in {version[r], version[r] + 1}
         \/ count' = count /\ \A r \in Ids : version'[r] \in {version[r], 0}
  <1> USE DEF Inv
  <1>1. ASSUME NEW gone, Unlist(gone)
        PROVE  \A r \in Ids : version'[r] \in {version[r], 0}
    BY <1>1 DEF Unlist, TypeOK
  <1>2. CASE StopAll \/ \E r \in Ids : Stop(r) \/ FailStart(r)
    BY <1>1, <1>2 DEF StopAll, Stop, FailStart
  <1>3. ASSUME NEW w \in Workers, Step(w), ~Register(w), ~Swap(w)
        PROVE  count' = count /\ version' = version
    BY <1>3 DEF Step, records, ClaimRefused, Claim, HolderStuck, KillHolder, HolderGone, Spawn,
                SpawnFails, Reject, Discard
  <1>4. ASSUME NEW late \in SUBSET reaping,
               \/ Refresh(late)
               \/ \E w \in Workers, n \in Ports : Start(w, n, late)
               \/ \E w \in Workers, r \in Ids : Reattach(w, r, late)
        PROVE  count' = count /\ version' = version
    BY <1>4 DEF Refresh, Start, Reattach
  <1>5. CASE \/ \E p \in Children : Closes(p) \/ Exits(p) \/ Reads(p) \/ ReadsEof(p)
             \/ \E r \in Ids : WaitReadyPolls(r)
             \/ Signal \/ Enter \/ TerminateAll \/ KillAll \/ Return
             \/ \E c \in Contexts : Retarget(c)
             \/ UNCHANGED vars
    BY <1>5 DEF vars, records, Closes, Exits, Reads, ReadsEof, WaitReadyPolls, Signal, Enter,
                TerminateAll, KillAll, Return, Retarget
  <1>6. ASSUME NEW w \in Workers, Register(w)
        PROVE  count' = count + 1 /\ version' = version
    BY <1>6 DEF Register
  <1>7. ASSUME NEW w \in Workers, Swap(w)
        PROVE  count' = count /\ \A r \in Ids : version'[r] \in {version[r], version[r] + 1}
    BY <1>7 DEF Swap, TypeOK
  <1>8. QED
    BY <1>2, <1>3, <1>4, <1>5, <1>6, <1>7 DEF Next

\* Whatever is adopted leaves the spawned ones, so the numbers do not outgrow the children.
LEMMA CountStep == ASSUME Inv, [Next]_vars PROVE CountInv'
  <1> USE DEF Inv
  <1> DEFINE S == Cardinality(Spawned)
             B == Cardinality(Born)
             T == Cardinality(Spawned')
             C == Cardinality(Born')
  <1>1. S \in Nat /\ B \in Nat /\ T \in Nat /\ C \in Nat
    BY Counting, FS_CardinalityType
  <1>2. count \in Nat /\ \A r \in Ids : version[r] \in Nat
    <2>1. version \in [Ids -> 0 .. MaxChildren]
      BY DEF TypeOK
    <2>2. QED
      BY <2>1, Numbers, Bounds
  <1>3. count + S <= B /\ \A r \in Ids : version[r] + S <= B
    BY DEF CountInv
  <1>4. (T <= S /\ C = B) \/ (T <= S + 1 /\ C = B + 1)
    <2>1. ASSUME NEW p \in Children, p \notin Born, Born' = Born \union {p},
                 Spawned' \subseteq Spawned \union {p}
          PROVE  T <= S + 1 /\ C = B + 1
      <3>1. p \notin Spawned
        BY <2>1, Counting
      <3>2. /\ IsFiniteSet(Spawned \union {p}) /\ Cardinality(Spawned \union {p}) = S + 1
            /\ Cardinality(Born \union {p}) = B + 1
        BY <2>1, <3>1, Counting, FS_AddElement
      <3>3. QED
        BY <2>1, <3>2, FS_Subset
    <2>2. ASSUME Born' = Born, Spawned' \subseteq Spawned
          PROVE  T <= S /\ C = B
      BY <2>2, Counting, FS_Subset
    <2>3. QED
      BY <2>1, <2>2, Counting
  <1>5. ASSUME NEW w \in Workers, Register(w) \/ Swap(w)
        PROVE  T + 1 <= S /\ C = B
    <2>1. /\ op[w].child \in Spawned /\ Born' = Born /\ Spawned' \subseteq Spawned \ {op[w].child}
          /\ IsFiniteSet(Spawned)
      BY <1>5, Counting
    <2>2. Cardinality(Spawned \ {op[w].child}) = S - 1 /\ IsFiniteSet(Spawned \ {op[w].child})
      BY <2>1, FS_RemoveElement
    <2>3. T <= S - 1
      BY <2>1, <2>2, FS_Subset
    <2>4. QED
      BY <1>1, <2>1, <2>3
  <1>6. count' + T <= C /\ \A r \in Ids : version'[r] + T <= C
    <2> HIDE DEF S, B, T, C
    <2>1. CASE \E w \in Workers : Register(w) /\ count' = count + 1 /\ version' = version
      BY <1>1, <1>2, <1>3, <1>5, <2>1
    <2>2. CASE \E w \in Workers : /\ Swap(w) /\ count' = count
                                  /\ \A r \in Ids : version'[r] \in {version[r], version[r] + 1}
      BY <1>1, <1>2, <1>3, <1>5, <2>2
    <2>3. CASE count' = count /\ \A r \in Ids : version'[r] \in {version[r], 0}
      <3>1. \A r \in Ids : version'[r] <= version[r] /\ version'[r] \in Nat
        BY <1>2, <2>3
      <3>2. QED
        BY <1>1, <1>2, <1>3, <1>4, <2>3, <3>1
    <2>4. QED
      BY <2>1, <2>2, <2>3, Versions
  <1>7. QED
    BY <1>6 DEF CountInv

\* What is not born stays out of everybody's hands.
LEMMA UnbornStep == ASSUME Inv, [Next]_vars PROVE UnbornInv'
  <1> USE DEF Inv
  <1>1. SUFFICES ASSUME NEW p \in Children, p \notin Born'
                 PROVE  /\ p \notin Marked' /\ signal'[p] = "none"
                        /\ \A r \in listed' : proc'[r] # p
                        /\ \A w \in Workers : op'[w].child # p
    BY DEF UnbornInv
  <1>2. p \notin Born /\ p # 0
    BY <1>1, Surviving, Bounds
  <1>3. /\ p \notin Marked /\ signal[p] = "none"
        /\ \A r \in listed : proc[r] # p
        /\ \A w \in Workers : op[w].child # p
    BY <1>2 DEF UnbornInv
  <1>4. p \notin Marked'
    BY <1>3, Marking
  <1>5. signal'[p] = "none"
    BY <1>3, <1>4, Signalled
  <1>6. \A r \in listed' : proc'[r] # p
    BY <1>3, Staying, Adopting
  <1>7. \A w \in Workers : op'[w].child # p
    BY <1>1, <1>2, <1>3, ChildrenInHand, Spawning
  <1>8. QED
    BY <1>4, <1>5, <1>6, <1>7

\* A spawned child stays with its operation, untouched, until that gives it away.
LEMMA SpawnedStep == ASSUME Inv, [Next]_vars PROVE SpawnedInv'
  <1> USE DEF Inv
  <1>1. SUFFICES ASSUME NEW w \in Workers, op'[w].child # 0
                 PROVE  /\ op'[w].child \in Born' \ Marked' /\ signal'[op'[w].child] = "none"
                        /\ \A r \in listed' : proc'[r] # op'[w].child
                        /\ \A v \in Workers : op'[v].child = op'[w].child => v = w
    BY DEF SpawnedInv
  <1>2. CASE op'[w].child = op[w].child
    <2> DEFINE c == op[w].child
    <2>1. /\ c \in Born \ Marked /\ signal[c] = "none" /\ c \in Children
          /\ \A r \in listed : proc[r] # c
          /\ \A v \in Workers : op[v].child = c => v = w
      BY <1>1, <1>2 DEF SpawnedInv, Born
    <2>2. c \in Born' /\ c \notin Marked'
      BY <2>1, Surviving, Marking
    <2>3. signal'[c] = "none"
      BY <1>1, <1>2, <2>1, <2>2, Signalled
    <2>4. ASSUME NEW r \in listed', proc'[r] = c
          PROVE  FALSE
      <3>1. PICK v \in Workers : Adopts(v, r)
        BY <2>1, <2>4, Staying
      <3>2. op[v].child = c /\ op'[v] = Idle
        BY <2>4, <3>1, Adopting
      <3>3. QED
        BY <1>1, <2>1, <3>2, AtRest
    <2>5. ASSUME NEW v \in Workers, op'[v].child = c
          PROVE  v = w
      <3>1. CASE op[v].child = c
        BY <2>1, <3>1
      <3>2. CASE Spawn(v, c)
        BY <2>1, <3>2, Spawning
      <3>3. QED
        BY <1>1, <1>2, <2>5, <3>1, <3>2, ChildrenInHand
    <2>6. QED
      BY <1>2, <2>2, <2>3, <2>4, <2>5
  <1>3. ASSUME NEW c \in Children, Spawn(w, c), op'[w].child = c
        PROVE  /\ c \in Born' \ Marked' /\ signal'[c] = "none"
               /\ \A r \in listed' : proc'[r] # c
               /\ \A v \in Workers : op'[v].child = c => v = w
    <2>1. /\ c \notin Born /\ c \in Born' /\ UNCHANGED <<signal, records>>
          /\ \A v \in Workers : v # w => op'[v] = op[v]
      BY <1>3, Spawning
    <2>2. /\ c \notin Marked /\ signal[c] = "none"
          /\ \A r \in listed : proc[r] # c
          /\ \A v \in Workers : op[v].child # c
      BY <2>1 DEF UnbornInv
    <2>3. QED
      BY <2>1, <2>2, Marking DEF records
  <1>4. QED
    BY <1>1, <1>2, <1>3, ChildrenInHand

\* A listed child stays with its record.
LEMMA ListedStep == ASSUME Inv, [Next]_vars PROVE ListedInv'
  <1> USE DEF Inv
  <1>1. SUFFICES ASSUME NEW r \in listed'
                 PROVE  /\ proc'[r] \in Born'
                        /\ \A q \in listed' : proc'[q] = proc'[r] => q = r
                        /\ status'[r] # "broken" => proc'[r] \notin Marked'
    BY DEF ListedInv
  <1>2. ASSUME NEW w \in Workers, NEW x \in listed', Adopts(w, x)
        PROVE  /\ proc'[x] \in Born' /\ proc'[x] \notin Marked'
               /\ \A q \in listed' : proc'[q] = proc'[x] => q = x
    <2>1. proc'[x] = op[w].child /\ op[w].child # 0
      BY <1>2, Adopting
    <2>2. /\ op[w].child \in Born \ Marked /\ op[w].child \in Children
          /\ \A q \in listed : proc[q] # op[w].child
      BY <2>1 DEF SpawnedInv, Born
    <2>3. op[w].child \in Born' /\ op[w].child \notin Marked'
      BY <2>2, Surviving, Marking
    <2>4. ASSUME NEW q \in listed', proc'[q] = proc'[x]
          PROVE  q = x
      BY <1>2, <2>1, <2>2, <2>4, Staying, Adopting
    <2>5. QED
      BY <2>1, <2>3, <2>4
  <1>3. CASE \E w \in Workers : Adopts(w, r)
    BY <1>2, <1>3
  <1>4. CASE ~\E w \in Workers : Adopts(w, r)
    <2>1. /\ r \in listed /\ proc'[r] = proc[r] /\ proc[r] \in Born /\ proc[r] \in Children
          /\ status[r] = "broken" => status'[r] = "broken"
      BY <1>4, Staying DEF Born
    <2>2. ASSUME NEW q \in listed', proc'[q] = proc'[r]
          PROVE  q = r
      <3>1. CASE \E w \in Workers : Adopts(w, q)
        BY <1>2, <2>2, <3>1
      <3>2. CASE ~\E w \in Workers : Adopts(w, q)
        BY <2>1, <2>2, <3>2, Staying DEF ListedInv
      <3>3. QED
        BY <3>1, <3>2
    <2>3. ASSUME status'[r] # "broken"
          PROVE  proc'[r] \notin Marked'
      <3>1. proc[r] \notin Marked
        BY <2>1, <2>3 DEF ListedInv
      <3>2. \A q \in listed : proc[q] = proc[r] => q = r
        BY <2>1 DEF ListedInv
      <3>3. QED
        BY <2>1, <2>3, <3>1, <3>2, Marking
    <2>4. QED
      BY <2>1, <2>2, <2>3, Surviving
  <1>5. QED
    BY <1>3, <1>4

\* A claim is given up by the operation that made it.
LEMMA Releases ==
  ASSUME Inv, [Next]_vars, NEW n \in claimed
  PROVE  \/ n \in claimed'
         \/ \E v \in Workers : /\ op[v].at \in {"reclaim", "adopt"} /\ op[v].port = n
                               /\ op'[v].at \notin {"reclaim", "adopt"}
  <1> USE DEF Inv
  <1>1. ASSUME NEW v \in Workers, HolderStuck(v) \/ SpawnFails(v) \/ Register(v) \/ Swap(v) \/ Reject(v)
        PROVE  /\ claimed' = claimed \ {op[v].port} /\ op[v].at \in {"reclaim", "adopt"}
               /\ op'[v].at \notin {"reclaim", "adopt"}
    <2>1. op'[v] = Idle \/ op'[v] = [op[v] EXCEPT !.at = "discard"]
      BY <1>1 DEF TypeOK, HolderStuck, SpawnFails, Register, Swap, Reject
    <2>2. op'[v].at \in {"idle", "discard"}
      BY <2>1, AtRest DEF TypeOK
    <2>3. QED
      BY <1>1, <2>2 DEF HolderStuck, SpawnFails, Register, Swap, Reject
  <1>2. ASSUME NEW v \in Workers, Step(v),
               ~(HolderStuck(v) \/ SpawnFails(v) \/ Register(v) \/ Swap(v) \/ Reject(v))
        PROVE  claimed \subseteq claimed'
    BY <1>2 DEF Step, ClaimRefused, Claim, KillHolder, HolderGone, Spawn, Discard
  <1>3. (\E v \in Workers : Step(v)) \/ claimed' = claimed
    BY DEF Next, vars, Closes, Exits, Reads, ReadsEof, Refresh, Start, Reattach, WaitReadyPolls, Stop,
           FailStart, Signal, Enter, StopAll, TerminateAll, KillAll, Return, Retarget
  <1>4. QED
    BY <1>1, <1>2, <1>3

\* An operation keeps its port to itself as long as it may spawn or adopt.
LEMMA ClaimStep == ASSUME Inv, [Next]_vars PROVE ClaimInv'
  <1> USE DEF Inv
  <1> DEFINE Has(w) == op[w].at \in {"reclaim", "adopt"}
  <1>1. ASSUME NEW w \in Workers, op'[w].at \in {"reclaim", "adopt"}
        PROVE  /\ op'[w].port = op[w].port
               /\ \/ Claim(w)
                  \/ /\ Has(w)
                     /\ \A p \in op[w].holders : Running(p) => p \in op'[w].holders
    <2>1. CASE op'[w] = op[w] \/ Claim(w)
      BY <1>1, <2>1 DEF Claim, TypeOK
    <2>2. ASSUME NEW p \in Children, HolderGone(w, p) \/ Spawn(w, p)
          PROVE  /\ op'[w].port = op[w].port /\ Has(w)
                 /\ \A q \in op[w].holders : Running(q) => q \in op'[w].holders
      BY <2>2 DEF HolderGone, Spawn, TypeOK
    <2>3. op'[w] # Idle /\ ~Begun(w)
      BY <1>1, AtRest, Beginnings
    <2>4. Reject(w) => op'[w].at = "discard"
      BY DEF Reject, TypeOK
    <2>5. QED
      BY <1>1, <2>1, <2>2, <2>3, <2>4, Moves
  <1>2. ASSUME NEW w \in Workers, op'[w].at \in {"reclaim", "adopt"}
        PROVE  op'[w].port \in claimed'
    <2>1. CASE Claim(w)
      BY <1>1, <1>2, <2>1 DEF Claim
    <2>2. CASE Has(w)
      BY <1>1, <1>2, <2>2, Releases DEF ClaimInv
    <2>3. QED
      BY <1>1, <1>2, <2>1, <2>2
  <1>3. ASSUME NEW w \in Workers, op'[w].at \in {"reclaim", "adopt"},
               NEW v \in Workers, op'[v].at \in {"reclaim", "adopt"}, op'[v].port = op'[w].port
        PROVE  v = w
    <2>1. op[v].port = op[w].port
      BY <1>1, <1>3
    <2>2. CASE Has(w) /\ Has(v)
      BY <2>1, <2>2 DEF ClaimInv
    <2>3. CASE Claim(w) /\ Has(v)
      BY <2>1, <2>3 DEF ClaimInv, Claim, Refused
    <2>4. CASE Has(w) /\ Claim(v)
      BY <2>1, <2>4 DEF ClaimInv, Claim, Refused
    <2>5. CASE Claim(w) /\ Claim(v)
      BY <2>5, <1>3 DEF Claim, TypeOK
    <2>6. QED
      BY <1>1, <1>3, <2>2, <2>3, <2>4, <2>5
  <1>4. ASSUME NEW w \in Workers, op'[w].at \in {"reclaim", "adopt"},
               NEW r \in listed', where'[proc'[r]].port = op'[w].port
        PROVE  status'[r] = "broken" /\ (child'[proc'[r]] \in {"running", "closing"} => proc'[r] \in op'[w].holders)
    <2>1. CASE Claim(w)
      <3>1. /\ UNCHANGED <<child, where, listed, proc, status>> /\ ~Refused(op[w].port)
            /\ op'[w].holders = Doomed(op[w].port) \union {p \in reaping : where[p].port = op[w].port}
        BY <2>1 DEF Claim, children, records, TypeOK
      <3>2. r \in OnPort(op[w].port) /\ \A q \in OnPort(op[w].port) : status[q] = "broken"
        BY <1>1, <1>4, <3>1 DEF OnPort, Refused
      <3>3. ASSUME Running(proc[r])
            PROVE  proc[r] \in op'[w].holders
        <4>1. CASE proc[r] \in reaping
          BY <3>1, <3>2, <4>1 DEF OnPort
        <4>2. CASE proc[r] \notin reaping
          BY <3>1, <3>2, <3>3, <4>2 DEF Doomed
        <4>3. QED
          BY <4>1, <4>2
      <3>4. QED
        BY <3>1, <3>2, <3>3 DEF Running
    <2>2. CASE Has(w) /\ ~Claim(w)
      <3>1. ASSUME NEW v \in Workers, Adopts(v, r)
            PROVE  FALSE
        <4>1. /\ op[v].at = "adopt" /\ op'[v] = Idle
              /\ where'[proc'[r]].port = op[v].port
          BY <3>1, Adopting
        <4>2. v = w
          BY <1>1, <1>4, <2>2, <4>1 DEF ClaimInv
        <4>3. QED
          BY <1>4, <4>1, <4>2, AtRest
      <3>2. /\ r \in listed /\ proc'[r] = proc[r] /\ proc[r] \in Born
            /\ status[r] = "broken" => status'[r] = "broken"
        BY <3>1, Staying
      <3>3. r \in OnPort(op[w].port)
        BY <1>1, <1>4, <3>2, Surviving DEF OnPort
      <3>4. status[r] = "broken" /\ (Running(proc[r]) => proc[r] \in op[w].holders)
        BY <2>2, <3>3 DEF ClaimInv
      <3>5. QED
        BY <1>1, <1>4, <2>2, <3>2, <3>4, Surviving DEF Running
    <2>3. QED
      BY <1>1, <1>4, <2>1, <2>2 DEF Claim
  <1>5. QED
    BY <1>2, <1>3, <1>4 DEF ClaimInv, OnPort, Running

\* What the event loop and the teardown hold is theirs until they let go of it.
LEMMA HandsStep == ASSUME Inv, [Next]_vars PROVE HandsInv'
  <1> USE DEF Inv
  <1>1. loop'.at = "idle" <=> loop'.victim = 0
    <2>1. ASSUME NEW r \in Ids, Stop(r) \/ FailStart(r)
          PROVE  loop'.at = "signal" /\ loop'.victim # 0
      <3>1. r \in listed /\ loop' = [at |-> "signal", victim |-> proc[r]]
        BY <2>1 DEF Stop, FailStart
      <3>2. proc[r] # 0
        BY <3>1, Bounds DEF ListedInv, Born
      <3>3. QED
        BY <3>1, <3>2
    <2>2. CASE Signal
      <3>1. loop' = [loop EXCEPT !.at = "enter"] \/ loop' = [at |-> "idle", victim |-> 0]
        BY <2>2 DEF Signal
      <3>2. loop.victim # 0
        BY <2>2 DEF Signal, HandsInv
      <3>3. QED
        BY <3>1, <3>2 DEF TypeOK
    <2>3. CASE Enter
      BY <2>3 DEF Enter
    <2>4. \/ \E r \in Ids : Stop(r) \/ FailStart(r)
          \/ Signal \/ Enter \/ loop' = loop
      BY Loops
    <2>5. QED
      BY <2>1, <2>2, <2>3, <2>4 DEF HandsInv
  <1>2. /\ closer'.at \in {"idle", "returned"} => closer'.victims = {}
        /\ closer'.at = "killed" => \A p \in closer'.victims : Running(p)' => signal'[p] = "kill"
    <2>1. CASE StopAll
      BY <2>1 DEF StopAll
    <2>2. CASE TerminateAll
      BY <2>2 DEF TerminateAll, TypeOK
    <2>3. CASE KillAll
      <3>1. /\ closer' = [closer EXCEPT !.at = "killed"] /\ Send(closer.victims, "kill")
            /\ UNCHANGED children
        BY <2>3 DEF KillAll
      <3>2. /\ closer'.at = "killed" /\ closer'.victims = closer.victims /\ child' = child
            /\ closer.victims \subseteq Children
        BY <3>1 DEF TypeOK, children
      <3>3. \A p \in closer.victims : Running(p) => signal'[p] = "kill"
        BY <3>1, <3>2, Sending
      <3>4. QED
        BY <3>2, <3>3 DEF Running
    <2>4. CASE Return
      BY <2>4 DEF Return
    <2>5. CASE \E c \in Contexts : Retarget(c)
      BY <2>5 DEF Retarget, HandsInv, TypeOK
    <2>6. CASE closer' = closer
      <3>1. ASSUME closer.at = "killed", NEW p \in closer.victims, Running(p)'
            PROVE  signal'[p] = "kill"
        <4>1. p \in Children /\ p \in Marked
          BY DEF TypeOK, Marked
        <4>2. p \in Born
          BY <4>1 DEF UnbornInv
        <4>3. signal[p] = "kill"
          BY <3>1, <4>2, Surviving DEF HandsInv
        <4>4. QED
          BY <3>1, <4>1, <4>3, Signalled
      <3>2. QED
        BY <2>6, <3>1 DEF HandsInv
    <2>7. QED
      BY <2>1, <2>2, <2>3, <2>4, <2>5, <2>6, Latches
  <1>3. QED
    BY <1>1, <1>2 DEF HandsInv

\* Whoever may still adopt spawned for the context that the registry has.
LEMMA ContextStep == ASSUME Inv, [Next]_vars PROVE ContextInv'
  <1> USE DEF Inv
  <1>1. closer'.at # "idle" => closed'
    <2>1. CASE StopAll
      BY <2>1 DEF StopAll
    <2>2. CASE \E c \in Contexts : Retarget(c)
      BY <2>2 DEF Retarget, TypeOK
    <2>3. TerminateAll \/ KillAll \/ Return => closer.at # "idle"
      BY DEF TerminateAll, KillAll, Return
    <2>4. QED
      BY <2>1, <2>2, <2>3, Latches DEF ContextInv
  <1>2. CASE StopAll
    <2>1. listed' = {} /\ op' = op /\ generation' = generation + 1
      BY <1>2 DEF StopAll, Unlist
    <2>2. ASSUME NEW w \in Workers
          PROVE  op[w].generation # generation + 1
      BY Numbers DEF TypeOK
    <2>3. QED
      BY <1>1, <2>1, <2>2 DEF ContextInv
  <1>3. CASE \E c \in Contexts : Retarget(c)
    <2>1. /\ closed /\ op' = op /\ generation' = generation /\ listed' = listed
      BY <1>3 DEF Retarget, ContextInv, records
    <2>2. listed = {}
      BY <2>1 DEF OnCurrentContext
    <2>3. QED
      BY <1>1, <2>1, <2>2 DEF ContextInv
  <1>4. CASE UNCHANGED <<closed, generation, context>>
    <2>1. ASSUME NEW w \in Workers, op'[w].at \in {"reclaim", "adopt"}
          PROVE  /\ op'[w].record = 0 /\ op'[w].generation = generation' =>
                      ~closed' /\ (op'[w].at = "adopt" => where'[op'[w].child].context = context')
                 /\ op'[w].at = "adopt" /\ op'[w].record \in listed' =>
                      where'[op'[w].child].context = context'
      <3>1. op[w].record \in listed' => op[w].record \in listed
        BY Places, Numbers DEF OpInv
      <3>2. op[w].at = "adopt" => where'[op[w].child] = where[op[w].child]
        BY Surviving DEF OpInv, SpawnedInv
      <3>3. CASE op'[w] = op[w]
        BY <1>4, <2>1, <3>1, <3>2, <3>3 DEF ContextInv
      <3>4. CASE Claim(w)
        <4>1. op'[w].at = "reclaim" /\ ~closed
          BY <3>4 DEF Claim, Refused, TypeOK
        <4>2. QED
          BY <1>4, <4>1
      <3>5. ASSUME NEW c \in Children, Spawn(w, c)
            PROVE  /\ op'[w].child = c /\ where'[c].context = context
                   /\ op'[w].record = op[w].record /\ op'[w].generation = op[w].generation
                   /\ op[w].at = "reclaim"
        BY <3>5, Spawning
      <3>6. ASSUME NEW p \in Children, HolderGone(w, p)
            PROVE  /\ op'[w].at = "reclaim" /\ op[w].at = "reclaim"
                   /\ op'[w].record = op[w].record /\ op'[w].generation = op[w].generation
        BY <3>6 DEF HolderGone, TypeOK
      <3>7. op'[w] # Idle /\ ~Begun(w) /\ ~Reject(w)
        <4>1. Reject(w) => op'[w].at = "discard"
          BY DEF Reject, TypeOK
        <4>2. QED
          BY <2>1, <4>1, AtRest, Beginnings
      <3>8. CASE \E c \in Children : Spawn(w, c)
        BY <1>4, <3>5, <3>8 DEF ContextInv
      <3>9. CASE \E p \in Children : HolderGone(w, p)
        BY <1>4, <3>6, <3>9 DEF ContextInv
      <3>10. QED
        BY <3>3, <3>4, <3>7, <3>8, <3>9, Moves
    <2>2. QED
      BY <1>1, <2>1 DEF ContextInv
  <1>5. QED
    BY <1>2, <1>3, <1>4, Latches

\* A forward is adopted for the current context, and a teardown leaves none to move on from.
LEMMA CurrentStep == ASSUME Inv, [Next]_vars PROVE OnCurrentContext'
  <1> USE DEF Inv
  <1>1. SUFFICES ASSUME NEW r \in listed'
                 PROVE  ~closed' /\ where'[proc'[r]].context = context'
    BY DEF OnCurrentContext
  <1>2. ASSUME NEW w \in Workers, Adopts(w, r)
        PROVE  ~closed' /\ where'[proc'[r]].context = context'
    <2>1. /\ proc'[r] = op[w].child /\ op[w].at = "adopt" /\ where' = where
          /\ closed' = closed /\ context' = context
      BY <1>2, Adopting DEF latch
    <2>2. CASE Register(w)
      BY <2>1, <2>2 DEF Register, Superseded, ContextInv
    <2>3. CASE Swap(w)
      BY <2>1, <2>3 DEF Swap, Gone, ContextInv
    <2>4. QED
      BY <1>2, <2>2, <2>3 DEF Adopts
  <1>3. CASE ~\E w \in Workers : Adopts(w, r)
    <2>1. r \in listed /\ proc'[r] = proc[r] /\ proc[r] \in Born
      BY <1>3, Staying
    <2>2. ~closed /\ where'[proc'[r]].context = context
      BY <2>1, Surviving DEF OnCurrentContext
    <2>3. ~StopAll
      BY DEF StopAll, Unlist
    <2>4. ~\E c \in Contexts : Retarget(c)
      BY <2>2 DEF Retarget, ContextInv
    <2>5. QED
      BY <2>2, <2>3, <2>4, Latches
  <1>4. QED
    BY <1>2, <1>3

\* What is not shown as broken was not signalled and shares its port with nobody.
LEMMA ListStep == ASSUME Inv, [Next]_vars PROVE ListIsTrue'
  <1> USE DEF Inv
  <1>1. said \subseteq said'
    BY DEF Next, Step, vars, children, Closes, Exits, Reads, ReadsEof, Refresh, Start, Reattach,
           WaitReadyPolls, Stop, FailStart, ClaimRefused, Claim, HolderStuck, KillHolder, HolderGone,
           Spawn, SpawnFails, Register, Swap, Reject, Discard, Signal, Enter, StopAll, TerminateAll,
           KillAll, Return, Retarget
  <1>2. ASSUME NEW r \in listed', status'[r] # "broken"
        PROVE  signal'[proc'[r]] = "none"
    <2>1. ASSUME NEW w \in Workers, Adopts(w, r)
          PROVE  signal'[proc'[r]] = "none"
      BY <2>1, Adopting DEF SpawnedInv
    <2>2. CASE ~\E w \in Workers : Adopts(w, r)
      <3>1. /\ r \in listed /\ proc'[r] = proc[r] /\ status[r] # "broken"
            /\ proc[r] \in Children /\ proc[r] # 0
        BY <1>2, <2>2, Staying, Bounds DEF Born
      <3>2. signal[proc[r]] = "none" /\ proc[r] \notin Marked
        BY <3>1 DEF ListIsTrue, ListedInv
      <3>3. proc[r] \notin Marked'
        BY <1>2, <3>1, ListedStep DEF ListedInv
      <3>4. \A w \in Workers : op[w].child # proc[r]
        BY <3>1 DEF SpawnedInv
      <3>5. QED
        BY <3>1, <3>2, <3>3, <3>4, Signalled
    <2>3. QED
      BY <2>1, <2>2
  <1>3. ASSUME NEW w \in Workers, NEW r \in listed', Adopts(w, r),
               NEW q \in listed', q # r, status'[q] # "broken"
        PROVE  where'[proc'[r]].port # where'[proc'[q]].port
    <2>1. /\ where'[proc'[r]].port = op[w].port /\ op[w].at = "adopt"
          /\ ~\E v \in Workers : Adopts(v, q)
      BY <1>3, Adopting
    <2>2. q \in listed /\ status[q] # "broken" /\ where'[proc'[q]] = where[proc[q]]
      BY <1>3, <2>1, Staying, Surviving
    <2>3. where[proc[q]].port # op[w].port
      BY <2>1, <2>2 DEF ClaimInv, OnPort
    <2>4. QED
      BY <2>1, <2>2, <2>3
  <1>4. ASSUME NEW r \in listed', NEW q \in listed' \ {r}, status'[r] # "broken", status'[q] # "broken"
        PROVE  where'[proc'[r]].port # where'[proc'[q]].port
    <2>1. CASE \E w \in Workers : Adopts(w, r)
      BY <1>3, <1>4, <2>1
    <2>2. CASE \E w \in Workers : Adopts(w, q)
      BY <1>3, <1>4, <2>2
    <2>3. CASE ~\E w \in Workers : Adopts(w, r) \/ Adopts(w, q)
      <3>1. /\ r \in listed /\ status[r] # "broken" /\ where'[proc'[r]] = where[proc[r]]
            /\ q \in listed /\ status[q] # "broken" /\ where'[proc'[q]] = where[proc[q]]
        BY <1>4, <2>3, Staying, Surviving
      <3>2. QED
        BY <1>4, <3>1 DEF ListIsTrue
    <2>4. QED
      BY <2>1, <2>2, <2>3
  <1>5. ASSUME NEW r \in listed', status'[r] = "alive"
        PROVE  proc'[r] \in said'
    <2>1. \A w \in Workers : ~Adopts(w, r)
      BY <1>5, Adopting
    <2>2. QED
      BY <1>1, <1>5, <2>1, Staying DEF ListIsTrue
  <1>6. QED
    BY <1>2, <1>4, <1>5 DEF ListIsTrue

\* Who takes children off the reaping list.
LEMMA Reaped ==
  ASSUME Inv, [Next]_vars, NEW p \in reaping, Running(p)
  PROVE  \/ p \in reaping'
         \/ \E w \in Workers : Claim(w) /\ p \in op'[w].holders
         \/ StopAll
  <1> USE DEF Inv
  <1>1. ASSUME NEW late \in SUBSET reaping,
               \/ Refresh(late)
               \/ \E w \in Workers, n \in Ports : Start(w, n, late)
               \/ \E w \in Workers, r \in Ids : Reattach(w, r, late)
        PROVE  p \in reaping'
    BY <1>1 DEF Refresh, Start, Reattach, Refreshed, Reap
  <1>2. ASSUME NEW w \in Workers, Claim(w)
        PROVE  p \in reaping' \/ p \in op'[w].holders
    BY <1>2 DEF Claim, TypeOK
  <1>3. ASSUME NEW w \in Workers, Step(w), ~Claim(w)
        PROVE  p \in reaping'
    BY <1>3 DEF Step, ClaimRefused, HolderStuck, KillHolder, HolderGone, Spawn, SpawnFails, Register,
                Swap, Reject, Discard
  <1>4. CASE \/ \E q \in Children : Closes(q) \/ Exits(q) \/ Reads(q) \/ ReadsEof(q)
             \/ \E r \in Ids : WaitReadyPolls(r) \/ Stop(r) \/ FailStart(r)
             \/ Signal \/ Enter \/ TerminateAll \/ KillAll \/ Return
             \/ \E c \in Contexts : Retarget(c)
             \/ UNCHANGED vars
    BY <1>4 DEF vars, Closes, Exits, Reads, ReadsEof, WaitReadyPolls, Stop, FailStart, Signal, Enter,
                TerminateAll, KillAll, Return, Retarget
  <1>5. QED
    BY <1>1, <1>2, <1>3, <1>4 DEF Next

\* Who takes a record off the list.
LEMMA Unlisted ==
  ASSUME Inv, [Next]_vars, NEW r \in listed
  PROVE  \/ r \in listed' /\ proc'[r] = proc[r]
         \/ \E w \in Workers : Swap(w) /\ r = op[w].record
         \/ Stop(r) \/ FailStart(r) \/ StopAll
  <1> USE DEF Inv
  <1>1. r \in Ids /\ r # count + 1
    BY ListedIds, Numbers
  <1>2. ASSUME NEW q \in Ids, Stop(q) \/ FailStart(q), q # r
        PROVE  r \in listed' /\ proc'[r] = proc[r]
    BY <1>1, <1>2 DEF Stop, FailStart, Unlist
  <1>3. ASSUME NEW w \in Workers, Register(w)
        PROVE  r \in listed' /\ proc'[r] = proc[r]
    BY <1>1, <1>3 DEF Register, Publish, TypeOK
  <1>4. ASSUME NEW w \in Workers, Swap(w), r # op[w].record
        PROVE  r \in listed' /\ proc'[r] = proc[r]
    BY <1>1, <1>4 DEF Swap, Publish, TypeOK
  <1>5. ASSUME NEW w \in Workers, Step(w), ~Register(w), ~Swap(w)
        PROVE  listed' = listed /\ proc' = proc
    BY <1>5 DEF Step, records, ClaimRefused, Claim, HolderStuck, KillHolder, HolderGone, Spawn,
                SpawnFails, Reject, Discard
  <1>6. ASSUME NEW late \in SUBSET reaping,
               \/ Refresh(late)
               \/ \E w \in Workers, n \in Ports : Start(w, n, late)
               \/ \E w \in Workers, q \in Ids : Reattach(w, q, late)
        PROVE  listed' = listed /\ proc' = proc
    BY <1>6 DEF Refresh, Start, Reattach
  <1>7. CASE \/ \E p \in Children : Closes(p) \/ Exits(p) \/ Reads(p) \/ ReadsEof(p)
             \/ \E q \in Ids : WaitReadyPolls(q)
             \/ Signal \/ Enter \/ TerminateAll \/ KillAll \/ Return
             \/ \E c \in Contexts : Retarget(c)
             \/ UNCHANGED vars
    BY <1>7 DEF vars, records, Closes, Exits, Reads, ReadsEof, WaitReadyPolls, Signal, Enter,
                TerminateAll, KillAll, Return, Retarget
  <1>8. QED
    BY <1>2, <1>3, <1>4, <1>5, <1>6, <1>7 DEF Next

\* A child is handed from one to the next until it is killed or gone.
LEMMA OrphanStep == ASSUME Inv, [Next]_vars PROVE NoOrphan'
  <1> USE DEF Inv
  <1> DEFINE Held(p) == p \in reaping \/ InHand(p) \/ \E r \in listed : proc[r] = p
  <1>1. SUFFICES ASSUME NEW p \in Children, Running(p)', signal'[p] # "kill"
                 PROVE  Held(p)'
    BY DEF NoOrphan
  <1>2. p # 0
    BY Bounds
  <1>3. ASSUME p \notin Born
        PROVE  Held(p)'
    <2>1. child[p] = "unborn"
      BY <1>3 DEF Born
    <2>2. PICK w \in Workers, q \in Children : Spawn(w, q)
      BY <1>1, <2>1, Births DEF Running
    <2>3. q = p
      BY <1>1, <2>1, <2>2 DEF Spawn, Running, TypeOK
    <2>4. QED
      BY <2>2, <2>3, Spawning DEF InHand
  <1>4. ASSUME p \in Born
        PROVE  Running(p) /\ Held(p)
    BY <1>1, <1>4, Surviving, Signalled DEF NoOrphan
  <1>5. ASSUME StopAll, Running(p), p \in reaping \/ \E r \in listed : proc[r] = p
        PROVE  Held(p)'
    <2>1. p \in closer'.victims
      BY <1>5 DEF StopAll
    <2>2. QED
      BY <2>1 DEF InHand
  <1>6. ASSUME p \in reaping, Running(p)
        PROVE  Held(p)'
    BY <1>5, <1>6, Reaped DEF InHand
  <1>7. ASSUME NEW r \in listed, proc[r] = p, Running(p)
        PROVE  Held(p)'
    <2>1. CASE r \in listed' /\ proc'[r] = proc[r]
      BY <1>7, <2>1
    <2>2. ASSUME NEW w \in Workers, Swap(w), r = op[w].record
          PROVE  FALSE
      <3>1. op[w].at = "adopt" /\ op[w].holders = {} /\ r \in OnPort(op[w].port)
        BY <1>7, <2>2 DEF Swap, OpInv, OnPort
      <3>2. QED
        BY <1>7, <3>1 DEF ClaimInv
    <2>3. CASE Stop(r) \/ FailStart(r)
      BY <1>7, <2>3 DEF Stop, FailStart, InHand
    <2>4. QED
      BY <1>5, <1>7, <2>1, <2>2, <2>3, Unlisted
  <1>8. ASSUME NEW w \in Workers, p \in op[w].holders, Running(p)
        PROVE  Held(p)'
    <2>1. op[w].at = "reclaim"
      BY <1>8 DEF OpInv
    <2>2. CASE op'[w] = op[w]
      BY <1>8, <2>2 DEF InHand
    <2>3. ASSUME NEW q \in Children, HolderGone(w, q)
          PROVE  p \in op'[w].holders
      BY <1>8, <2>3 DEF HolderGone, TypeOK
    <2>4. ASSUME HolderStuck(w)
          PROVE  p \in reaping'
      BY <1>8, <2>4 DEF HolderStuck
    <2>5. CASE Step(w)
      BY <1>8, <2>1, <2>2, <2>3, <2>4, <2>5
         DEF Step, ClaimRefused, Claim, KillHolder, Spawn, SpawnFails, Register, Swap, Reject, Discard,
             InHand
    <2>6. QED
      BY <2>1, <2>2, <2>5, Operations DEF Start, Reattach
  <1>9. ASSUME NEW w \in Workers, op[w].child = p
        PROVE  Held(p)'
    <2>1. op[w].at \in {"adopt", "discard"}
      BY <1>2, <1>9 DEF OpInv
    <2>2. CASE op'[w] = op[w]
      BY <1>9, <2>2 DEF InHand
    <2>3. CASE Register(w) \/ Swap(w)
      <3>1. \E r \in listed' : proc'[r] = p
        BY <1>9, <2>3, Adopting DEF Adopts
      <3>2. QED
        BY <3>1
    <2>4. CASE Reject(w)
      <3>1. op'[w].child = p
        BY <1>9, <2>4 DEF Reject, TypeOK
      <3>2. QED
        BY <3>1 DEF InHand
    <2>5. ASSUME Discard(w)
          PROVE  FALSE
      <3>1. Send({p}, "kill") /\ child' = child
        BY <1>9, <2>5 DEF Discard, children
      <3>2. QED
        BY <1>1, <3>1, Sending DEF Running
    <2>6. CASE Step(w)
      BY <2>1, <2>3, <2>4, <2>5, <2>6
         DEF Step, ClaimRefused, Claim, HolderStuck, KillHolder, HolderGone, Spawn, SpawnFails
    <2>7. QED
      BY <2>1, <2>2, <2>6, Operations DEF Start, Reattach
  <1>10. ASSUME loop.victim = p, Running(p)
         PROVE  Held(p)'
    <2>1. loop.at # "idle"
      BY <1>2, <1>10 DEF HandsInv
    <2>2. CASE Signal
      BY <1>10, <2>2 DEF Signal, InHand, TypeOK
    <2>3. CASE Enter
      BY <1>10, <2>3 DEF Enter
    <2>4. CASE loop' = loop
      BY <1>10, <2>4 DEF InHand
    <2>5. QED
      BY <2>1, <2>2, <2>3, <2>4, Loops DEF Stop, FailStart
  <1>11. ASSUME p \in closer.victims, Running(p)
         PROVE  Held(p)'
    <2>1. closer.at \notin {"idle", "returned"}
      BY <1>11 DEF HandsInv
    <2>2. ASSUME Return
          PROVE  FALSE
      <3>1. closer.at = "killed" /\ child' = child /\ signal' = signal
        BY <1>11, <2>2 DEF Return, children
      <3>2. QED
        BY <1>1, <1>11, <3>1 DEF HandsInv
    <2>3. TerminateAll \/ KillAll => closer'.victims = closer.victims
      BY DEF TerminateAll, KillAll, TypeOK
    <2>4. p \in closer'.victims
      BY <1>11, <2>1, <2>2, <2>3, Latches DEF StopAll, Retarget
    <2>5. QED
      BY <2>4 DEF InHand
  <1>12. QED
    BY <1>3, <1>4, <1>6, <1>7, <1>8, <1>9, <1>10, <1>11 DEF InHand

\* Every step preserves the invariant.
LEMMA NextInv == Inv /\ [Next]_vars => Inv'
  BY TypeStep, CountStep, OpStep, UnbornStep, SpawnedStep, ListedStep, ClaimStep, ContextStep,
     HandsStep, OrphanStep, ListStep, CurrentStep DEF Inv

\* The invariant holds of every reachable state.
LEMMA Invariance == Spec => []Inv
  BY InitInv, NextInv, PTL DEF Spec

-----------------------------------------------------------------------------
(* Theorems.                                                               *)

\* The registry's state keeps its types; in particular neither records nor versions outgrow
\* the children that were spawned.
THEOREM TypeCorrect == Spec => []TypeOK
  <1>1. Inv => TypeOK
    BY DEF Inv
  <1>2. QED
    BY <1>1, Invariance, PTL

\* No kubectl child is lost, however starts, re-attaches, stops and teardowns overlap: it is
\* in a record, on the reaping list or in the hands of an unfinished operation until it was
\* killed or is gone.
THEOREM NobodyIsOrphaned == Spec => []NoOrphan
  <1>1. Inv => NoOrphan
    BY DEF Inv
  <1>2. QED
    BY <1>1, Invariance, PTL

\* A forward that is not shown as broken was never signalled and has its local port to itself;
\* an alive one was confirmed by the child it has now.
THEOREM TheListIsTrue == Spec => []ListIsTrue
  <1>1. Inv => ListIsTrue
    BY DEF Inv
  <1>2. QED
    BY <1>1, Invariance, PTL

\* A listed forward runs against the current context, and none is listed between a teardown
\* and the retarget after it.
THEOREM ForwardsFollowTheContext == Spec => []OnCurrentContext
  <1>1. Inv => OnCurrentContext
    BY DEF Inv
  <1>2. QED
    BY <1>1, Invariance, PTL

-----------------------------------------------------------------------------
(* What a write turned out to do, for any number of generations.           *)

Approved == {"approved", "patched", "done"}
ScaleWrites == [at : Approved, kind : {"scale"}, uid : {1}, replicas : 0 .. 1,
                before : [uid : Nat, generation : Nat, replicas : 0 .. 1], landed : Nat]
RestartWrites == [at : {"approved", "done"}, kind : {"restart"}, uid : {1}, marker : Nat,
                  landed : Nat]

OutcomeType ==
    /\ spec \in [uid : 1 .. 2, generation : Nat, replicas : 0 .. 1]
    /\ templates \in Seq([marker : Nat, bad : BOOLEAN]) /\ templates # <<>>
    /\ sets \subseteq 1 .. D!Newest /\ pods \subseteq sets
    /\ reported \in [observed : Nat, total : Nat, updated : Nat, ready : Nat]
    /\ write \in [at : {"none", "refused"}] \union ScaleWrites \union RestartWrites
    /\ DOMAIN tracker = {"generation", "outcome"} /\ tracker.generation \in Nat
    /\ DOMAIN tracker.outcome = {"phase", "blame"}
    /\ DOMAIN read = {"at", "uid", "generation", "sets", "pods"}

\* A status that speaks of the present generation, and says that it is there, is right: a
\* Deployment that has converged stays so while nobody changes it.
StatusInv ==
    /\ reported.observed <= spec.generation
    /\ /\ reported.observed = spec.generation
       /\ {reported.total, reported.updated, reported.ready} = {spec.replicas}
       => D!Converged
    /\ D!Hit /\ D!Converged => held

\* What is known of the PATCH: the Deployment has been changed since the first look if
\* its generation has, and the one that the PATCH made is at least that far.
WriteInv ==
    /\ write.at = "none" => spec.uid = 1
    /\ write \in ScaleWrites => LET before == write.before IN
         /\ write.at = "approved" /\ spec.uid = 1 =>
              /\ before.uid = 1 /\ spec.generation >= before.generation
              /\ spec.generation = before.generation => spec.replicas = before.replicas
         /\ write.at = "patched" =>
              /\ before.uid = 1
              /\ write.landed >= before.generation + (IF before.replicas = write.replicas THEN 0 ELSE 1)
         /\ D!Hit => spec.replicas = write.replicas
    /\ write \in RestartWrites /\ D!Hit => D!Template.marker = write.marker
    /\ write.at \in {"patched", "done"} /\ spec.uid = 1 => spec.generation >= write.landed

\* A tracker follows the generation that the PATCH made, or none.
TrackerInv ==
    LET phase == tracker.outcome.phase IN
    /\ phase = "none" \/ write.at = "done"
    /\ phase \in D!Active => tracker.generation = write.landed
    /\ read.at # "idle" => phase \in D!Active

\* The invariant of this part.
OutcomeInv == OutcomeType /\ StatusInv /\ WriteInv /\ TrackerInv /\ VerdictIsTrue

\* The steps, by what they touch.
ClusterStep == \/ D!OtherChanges \/ D!OtherRecreates \/ D!MakeSet \/ D!AddPod
               \/ (\E s \in pods : D!DropPod(s)) \/ D!WriteStatus
WriteStep   == D!Approve \/ D!Conflict \/ D!Scale \/ D!Restart \/ D!Correlate
ReadStep    == D!GetDeployment \/ D!ListSets \/ D!ListPods \/ D!GetAgain \/ D!ReadFails

\* Every step is the cluster's, the write's or the reader's.
LEMMA Steps ==
  D!Step <=> ClusterStep \/ WriteStep \/ ReadStep
  BY DEF D!Step, ClusterStep, WriteStep, ReadStep

\* The set that was made last is the current one.
LEMMA NewestIsCurrent ==
  ASSUME OutcomeType, D!Newest \in sets
  PROVE  D!Current = D!Newest
  <1> DEFINE n == D!Newest
  <1>1. n \in sets /\ \A s \in sets : s \in Int /\ n >= s
    BY DEF OutcomeType
  <1>2. \A m \in sets : (\A s \in sets : m >= s) => m = n
    BY <1>1
  <1>3. D!Max(sets) = n
    BY <1>1, <1>2 DEF D!Max
  <1>4. QED
    BY <1>1, <1>3 DEF D!Current


\* What the types say of the parts.
LEMMA Fields ==
  ASSUME OutcomeType
  PROVE  /\ spec.uid \in 1 .. 2 /\ spec.generation \in Nat /\ spec.replicas \in 0 .. 1
         /\ D!Newest \in Nat /\ D!Newest >= 1
         /\ D!Template.marker \in Nat
         /\ \A i \in 1 .. D!Newest : templates[i].bad \in BOOLEAN
  <1>1. spec \in [uid : 1 .. 2, generation : Nat, replicas : 0 .. 1]
    BY DEF OutcomeType
  <1>2. /\ templates \in Seq([marker : Nat, bad : BOOLEAN]) /\ templates # <<>>
        /\ Len(templates) \in Nat /\ Len(templates) >= 1
    BY DEF OutcomeType
  <1>3. \A i \in 1 .. Len(templates) : templates[i] \in [marker : Nat, bad : BOOLEAN]
    <2> DEFINE R == [marker : Nat, bad : BOOLEAN]
    <2>1. templates \in Seq(R)
      BY <1>2
    <2> HIDE DEF R
    <2>2. \A i \in 1 .. Len(templates) : templates[i] \in R
      BY <2>1
    <2>3. QED
      BY <2>2 DEF R
  <1>4. \A i \in 1 .. Len(templates) : templates[i].marker \in Nat /\ templates[i].bad \in BOOLEAN
    BY <1>3
  <1>5. QED
    BY <1>1, <1>2, <1>4 DEF D!Newest, D!Template

\* The instance counts as this module does.
LEMMA SameCount == \A S : D!Cardinality(S) = Cardinality(S)
  BY DEF D!Cardinality, Cardinality

\* What a scale does to the Deployment.
LEMMA Scaled ==
  ASSUME OutcomeType, NEW r \in 0 .. 1, D!ScaleTo(r)
  PROVE  /\ templates' = templates
         /\ spec' \in [uid : 1 .. 2, generation : Nat, replicas : 0 .. 1]
         /\ spec'.uid = spec.uid /\ spec'.replicas = r
         /\ spec'.generation = IF r = spec.replicas THEN spec.generation ELSE spec.generation + 1
  <1> DEFINE g == IF r = spec.replicas THEN spec.generation ELSE spec.generation + 1
  <1>1. templates' = templates /\ spec' = [spec EXCEPT !.replicas = r, !.generation = g]
    BY DEF D!ScaleTo
  <1>2. g \in Nat
    BY Fields
  <1>3. spec \in [uid : 1 .. 2, generation : Nat, replicas : 0 .. 1]
    BY DEF OutcomeType
  <1> HIDE DEF g
  <1>4. /\ spec' \in [uid : 1 .. 2, generation : Nat, replicas : 0 .. 1]
        /\ spec'.uid = spec.uid /\ spec'.replicas = r /\ spec'.generation = g
    BY <1>1, <1>2, <1>3
  <1>5. QED
    BY <1>1, <1>4 DEF g

\* What an edit or a restart does to it.
LEMMA Templated ==
  ASSUME OutcomeType, NEW m \in Nat, D!NewTemplate(m)
  PROVE  /\ spec' \in [uid : 1 .. 2, generation : Nat, replicas : 0 .. 1]
         /\ spec'.uid = spec.uid /\ spec'.replicas = spec.replicas
         /\ spec'.generation = spec.generation + 1
         /\ templates' \in Seq([marker : Nat, bad : BOOLEAN]) /\ templates' # <<>>
         /\ D!Newest' = D!Newest + 1 /\ D!Template'.marker = m
  <1>1. PICK bad \in BOOLEAN : templates' = Append(templates, [marker |-> m, bad |-> bad])
    BY DEF D!NewTemplate
  <1>2. spec' = [spec EXCEPT !.generation = spec.generation + 1]
    BY DEF D!NewTemplate
  <1> DEFINE t == [marker |-> m, bad |-> bad]
  <1>3. t \in [marker : Nat, bad : BOOLEAN] /\ t.marker = m
    OBVIOUS
  <1>4. templates \in Seq([marker : Nat, bad : BOOLEAN])
    BY DEF OutcomeType
  <1> HIDE DEF t
  <1>5. /\ templates' \in Seq([marker : Nat, bad : BOOLEAN]) /\ templates' # <<>>
        /\ Len(templates') = Len(templates) + 1 /\ templates'[Len(templates) + 1] = t
    BY <1>1, <1>3, <1>4 DEF t
  <1>6. QED
    <2>1. /\ spec' \in [uid : 1 .. 2, generation : Nat, replicas : 0 .. 1]
          /\ spec'.uid = spec.uid /\ spec'.replicas = spec.replicas
          /\ spec'.generation = spec.generation + 1
      BY <1>2 DEF OutcomeType
    <2>2. QED
      BY <1>3, <1>5, <2>1 DEF D!Newest, D!Template

\* There are no more pods than templates.
LEMMA PodsAreFinite ==
  ASSUME OutcomeType
  PROVE  \A S \in SUBSET pods : IsFiniteSet(S)
  <1>1. IsFiniteSet(1 .. D!Newest)
    BY Fields, FS_Interval
  <1>2. \A S \in SUBSET pods : S \in SUBSET (1 .. D!Newest)
    BY DEF OutcomeType
  <1>3. QED
    BY <1>1, <1>2, FS_Subset

\* Every step keeps the types.
LEMMA StepsAreTyped ==
  ASSUME OutcomeType, WriteInv, D!Step
  PROVE  OutcomeType'
  <1>1. CASE ClusterStep
    <2>1. CASE D!OtherChanges
      <3>1. UNCHANGED <<sets, pods, reported, write, tracker, read>>
        BY <2>1 DEF D!OtherChanges
      <3>2. /\ spec' \in [uid : 1 .. 2, generation : Nat, replicas : 0 .. 1]
            /\ templates' \in Seq([marker : Nat, bad : BOOLEAN]) /\ templates' # <<>>
            /\ D!Newest' >= D!Newest /\ D!Newest' \in Nat
        <4>1. CASE \E r \in D!Replicas \ {spec.replicas} : D!ScaleTo(r)
          <5>1. PICK r \in 0 .. 1 : D!ScaleTo(r)
            BY <4>1 DEF D!Replicas
          <5>2. templates' = templates /\ spec' \in [uid : 1 .. 2, generation : Nat, replicas : 0 .. 1]
            BY <5>1, Scaled
          <5>3. QED
            BY <5>2, Fields DEF OutcomeType, D!Newest
        <4>2. CASE \E m \in {D!Template.marker, D!Restarted} : D!NewTemplate(m)
          BY <4>2, Templated, Fields DEF D!Restarted
        <4>3. QED
          BY <2>1, <4>1, <4>2 DEF D!OtherChanges
      <3>3. sets \subseteq 1 .. D!Newest'
        BY <3>2, Fields DEF OutcomeType
      <3>4. QED
        BY <3>1, <3>2, <3>3 DEF OutcomeType
    <2>2. CASE D!OtherRecreates
      BY <2>2 DEF OutcomeType, D!OtherRecreates, D!First, D!AtRest, D!Newest
    <2>3. CASE D!MakeSet
      <3>1. sets' \subseteq 1 .. D!Newest /\ pods' \subseteq sets'
        <4>1. /\ sets' = sets \union {D!Newest} /\ pods' = pods
              /\ sets \subseteq 1 .. D!Newest /\ pods \subseteq sets
          BY <2>3 DEF OutcomeType, D!MakeSet
        <4>2. D!Newest \in 1 .. D!Newest
          BY Fields
        <4>3. QED
          BY <4>1, <4>2
      <3>2. QED
        BY <2>3, <3>1 DEF OutcomeType, D!MakeSet, D!Newest
    <2>4. CASE D!AddPod \/ \E s \in pods : D!DropPod(s)
      BY <2>4 DEF OutcomeType, D!AddPod, D!DropPod, D!Newest
    <2>5. CASE D!WriteStatus
      <3>2. \A S \in SUBSET pods : Cardinality(S) \in Nat
        BY PodsAreFinite, FS_CardinalityType
      <3>3. /\ Cardinality(pods) \in Nat /\ Cardinality(pods \intersect {D!Newest}) \in Nat
            /\ Cardinality(D!Ready) \in Nat
        BY <3>2 DEF D!Ready
      <3>4. QED
        <4>1. reported' \in [observed : Nat, total : Nat, updated : Nat, ready : Nat]
          <5>1. reported' = [observed |-> spec.generation, total |-> Cardinality(pods),
                             updated |-> Cardinality(pods \intersect {D!Newest}),
                             ready |-> Cardinality(D!Ready)]
            BY <2>5, SameCount DEF D!WriteStatus
          <5>2. QED
            BY <3>3, <5>1, Fields
        <4>2. QED
          BY <2>5, <4>1 DEF OutcomeType, D!WriteStatus, D!Newest
    <2>6. QED
      BY <1>1, <2>1, <2>2, <2>3, <2>4, <2>5 DEF ClusterStep
  <1>2. CASE WriteStep
    <2>1. CASE D!Approve
      BY <2>1 DEF OutcomeType, D!Approve, D!cluster, WriteInv, D!Look, ScaleWrites,
         RestartWrites, D!Newest,
                  Approved, D!Replicas
    <2>2. CASE D!Conflict
      BY <2>2 DEF OutcomeType, D!Conflict, D!cluster, D!Newest
    <2>3. CASE D!Scale
      <3>1. write \in ScaleWrites
        BY <2>3 DEF OutcomeType, D!Scale, RestartWrites
      <3>2. PICK g : g = spec'.generation
        OBVIOUS
      <3>3. /\ spec' \in [uid : 1 .. 2, generation : Nat, replicas : 0 .. 1]
            /\ g \in Nat /\ templates' = templates
        BY <2>3, <3>1, <3>2, Scaled DEF D!Scale, ScaleWrites
      <3>4. write' = [write EXCEPT !.at = "patched", !.landed = g]
        BY <2>3, <3>2 DEF D!Scale
      <3>5. write' \in ScaleWrites
        BY <3>1, <3>3, <3>4 DEF ScaleWrites, Approved
      <3>6. QED
        BY <2>3, <3>3, <3>5 DEF OutcomeType, D!Scale, D!Newest
    <2>4. CASE D!Restart
      <3>1. write \in RestartWrites
        BY <2>4 DEF OutcomeType, D!Restart, ScaleWrites
      <3>2. PICK g : g = spec'.generation
        OBVIOUS
      <3>3. D!Restarted \in Nat
        BY Fields DEF D!Restarted
      <3>4. /\ spec' \in [uid : 1 .. 2, generation : Nat, replicas : 0 .. 1]
            /\ templates' \in Seq([marker : Nat, bad : BOOLEAN]) /\ templates' # <<>>
            /\ D!Newest' = D!Newest + 1 /\ g \in Nat
        BY <2>4, <3>2, <3>3, Templated DEF D!Restart
      <3>5. write' = [write EXCEPT !.at = "done", !.landed = g, !.marker = D!Restarted]
        BY <2>4, <3>2 DEF D!Restart
      <3>6. write' \in RestartWrites
        BY <3>1, <3>3, <3>4, <3>5 DEF RestartWrites
      <3>7. sets \subseteq 1 .. D!Newest'
        <4>1. \A i \in 1 .. D!Newest : i \in 1 .. D!Newest'
          BY <3>4, Fields
        <4>2. QED
          BY <4>1 DEF OutcomeType
      <3>8. /\ DOMAIN tracker' = {"generation", "outcome"} /\ tracker'.generation \in Nat
            /\ DOMAIN tracker'.outcome = {"phase", "blame"}
        BY <2>4, <3>2, <3>4 DEF D!Restart, D!Start, D!NoOutcome
      <3>9. QED
        BY <2>4, <3>4, <3>6, <3>7, <3>8 DEF OutcomeType, D!Restart
    <2>5. CASE D!Correlate
      <3>1. write \in ScaleWrites
        BY <2>5 DEF OutcomeType, D!Correlate, RestartWrites
      <3>2. PICK before \in {write.before, D!Unknown}, after \in {D!Look, D!Unknown} :
               D!Start(D!FromSnapshots(before, after, write.replicas))
        BY <2>5 DEF D!Correlate
      <3>3. after.generation \in Nat
        BY <3>2, Fields DEF D!Look, D!Unknown
      <3>4. D!FromSnapshots(before, after, write.replicas) \in Nat
        BY <3>3 DEF D!FromSnapshots
      <3>5. /\ DOMAIN tracker' = {"generation", "outcome"} /\ tracker'.generation \in Nat
            /\ DOMAIN tracker'.outcome = {"phase", "blame"}
        BY <3>2, <3>4 DEF D!Start, D!NoOutcome
      <3>6. write' \in ScaleWrites
        <4>1. write' = [write EXCEPT !.at = "done", !.before = D!Unknown]
          BY <2>5 DEF D!Correlate
        <4>2. D!Unknown \in [uid : Nat, generation : Nat, replicas : 0 .. 1]
          BY DEF D!Unknown
        <4>3. QED
          BY <3>1, <4>1, <4>2 DEF ScaleWrites, Approved
      <3>7. QED
        BY <2>5, <3>5, <3>6 DEF OutcomeType, D!Correlate, D!cluster, D!Newest
    <2>6. QED
      BY <1>2, <2>1, <2>2, <2>3, <2>4, <2>5 DEF WriteStep
  <1>3. CASE ReadStep
    <2>1. DOMAIN tracker' = {"generation", "outcome"} /\ tracker'.generation = tracker.generation
      BY <1>3 DEF ReadStep, OutcomeType, D!GetDeployment, D!ListSets, D!ListPods, D!GetAgain,
         D!ReadFails
    <2>2. DOMAIN tracker'.outcome = {"phase", "blame"}
      <3>1. CASE D!GetAgain
        BY <3>1 DEF OutcomeType, D!GetAgain, D!Evaluate, D!EvaluateScale, D!EvaluateRestart,
           D!Phase, D!Stalled, D!NoOutcome
      <3>2. CASE ~D!GetAgain
        BY <1>3, <3>2 DEF ReadStep, OutcomeType, D!GetDeployment, D!ListSets, D!ListPods,
           D!GetAgain, D!ReadFails
      <3>3. QED
        BY <3>1, <3>2
    <2>3. DOMAIN read' = {"at", "uid", "generation", "sets", "pods"}
      BY <1>3 DEF ReadStep, OutcomeType, D!GetDeployment, D!ListSets, D!ListPods, D!GetAgain,
         D!ReadFails, D!NoRead
    <2>4. UNCHANGED <<spec, templates, sets, pods, reported, write>>
      BY <1>3 DEF ReadStep, D!GetDeployment, D!ListSets, D!ListPods, D!GetAgain, D!ReadFails,
         D!Reading, D!cluster
    <2>5. QED
      BY <2>1, <2>2, <2>3, <2>4 DEF OutcomeType, D!Newest
  <1>4. QED
    BY <1>1, <1>2, <1>3, Steps

\* Convergence holds while nobody changes the Deployment.
LEMMA ConvergenceHolds ==
  ASSUME OutcomeType, D!Step, spec' = spec, templates' = templates, D!Converged
  PROVE  D!Converged'
  <1>1. CASE ClusterStep
    <2>1. CASE D!OtherChanges
      <3>1. CASE \E r \in D!Replicas \ {spec.replicas} : D!ScaleTo(r)
        BY <3>1, Scaled, Fields DEF D!Replicas
      <3>2. CASE \E m \in {D!Template.marker, D!Restarted} : D!NewTemplate(m)
        BY <3>2, Templated, Fields DEF D!Restarted
      <3>3. QED
        BY <2>1, <3>1, <3>2 DEF D!OtherChanges
    <2>6. CASE D!OtherRecreates
      BY <2>6 DEF D!OtherRecreates, D!Watched
    <2>2. CASE D!MakeSet \/ D!WriteStatus
      BY <2>2 DEF D!MakeSet, D!WriteStatus, D!Converged, D!Ready, D!Newest
    <2>3. CASE D!AddPod
      <3>1. pods = {D!Newest} /\ D!Current \notin pods /\ pods \subseteq sets
        BY <2>3, Fields DEF D!AddPod, D!Converged, OutcomeType
      <3>2. QED
        BY <3>1, NewestIsCurrent
    <2>4. CASE \E s \in pods : D!DropPod(s)
      BY <2>4, NewestIsCurrent DEF D!DropPod, D!Converged, OutcomeType
    <2>5. QED
      BY <1>1, <2>1, <2>2, <2>3, <2>4, <2>6 DEF ClusterStep
  <1>2. CASE WriteStep \/ ReadStep
    <2>1. UNCHANGED pods
      BY <1>2 DEF WriteStep, ReadStep, D!cluster, D!Reading, D!Approve, D!Conflict, D!Scale,
         D!Restart, D!Correlate,
                  D!GetDeployment, D!ListSets, D!ListPods, D!GetAgain, D!ReadFails
    <2>2. QED
      BY <2>1 DEF D!Converged, D!Ready, D!Newest
  <1>3. QED
    BY <1>1, <1>2, Steps

\* Every step keeps the status true, and the ghost.
LEMMA StatusIsTrue ==
  ASSUME OutcomeType, StatusInv, WriteInv, D!Step, held' = (held \/ (D!Hit /\ D!Converged)')
  PROVE  StatusInv'
  <1> DEFINE Full == {reported.total, reported.updated, reported.ready} = {spec.replicas}
  <1>1. D!Hit' /\ D!Converged' => held'
    OBVIOUS
  <1>2. CASE UNCHANGED <<spec, templates, reported>>
    <2>1. reported'.observed <= spec'.generation
      BY <1>2 DEF StatusInv
    <2>2. reported'.observed = spec'.generation /\ Full' => D!Converged'
      BY <1>2, ConvergenceHolds DEF StatusInv
    <2>3. QED
      BY <1>1, <2>1, <2>2 DEF StatusInv
  <1>3. ASSUME reported' = reported, spec'.generation > spec.generation
        PROVE  StatusInv'
    <2>1. reported.observed \in Nat /\ spec.generation \in Nat /\ spec'.generation \in Nat
      BY StepsAreTyped DEF OutcomeType
    <2>2. reported'.observed <= spec'.generation /\ reported'.observed # spec'.generation
      BY <1>3, <2>1 DEF StatusInv
    <2>3. QED
      BY <1>1, <2>2 DEF StatusInv
  <1>4. CASE ClusterStep
    <2>1. CASE D!OtherChanges
      <3>1. CASE \E r \in D!Replicas \ {spec.replicas} : D!ScaleTo(r)
        BY <2>1, <3>1, <1>3, Scaled, Fields DEF D!OtherChanges, D!Replicas
      <3>2. CASE \E m \in {D!Template.marker, D!Restarted} : D!NewTemplate(m)
        BY <2>1, <3>2, <1>3, Templated, Fields DEF D!OtherChanges, D!Restarted
      <3>3. QED
        BY <2>1, <3>1, <3>2 DEF D!OtherChanges
    <2>2. CASE D!OtherRecreates
      <3>1. PICK bad \in BOOLEAN : templates' = D!First(bad) /\ reported' = D!AtRest(bad)
        BY <2>2 DEF D!OtherRecreates
      <3>2. /\ reported'.observed = 1 /\ spec'.generation = 1 /\ spec'.replicas = 1
            /\ reported'.ready = IF bad THEN 0 ELSE 1
            /\ pods' = {1}
        BY <2>2, <3>1 DEF D!OtherRecreates, D!AtRest
      <3>3. D!Newest' = 1 /\ templates'[1].bad = bad
        BY <3>1 DEF D!First, D!Newest
      <3>4. ASSUME Full' PROVE ~bad
        BY <3>2, <3>4
      <3>5. ASSUME Full' PROVE D!Converged'
        BY <3>2, <3>3, <3>4, <3>5 DEF D!Converged, D!Ready
      <3>6. QED
        BY <1>1, <3>2, <3>5 DEF StatusInv
    <2>3. CASE D!WriteStatus
      <3>1. /\ reported' = [observed |-> spec.generation, total |-> Cardinality(pods),
                            updated |-> Cardinality(pods \intersect {D!Newest}),
                            ready |-> Cardinality(D!Ready)]
            /\ UNCHANGED <<spec, templates, sets, pods>>
        BY <2>3, SameCount DEF D!WriteStatus
      <3>2. IsFiniteSet(pods) /\ IsFiniteSet(pods \intersect {D!Newest}) /\ IsFiniteSet(D!Ready)
        BY PodsAreFinite DEF D!Ready
      <3>3. ASSUME Full'
            PROVE  /\ Cardinality(pods) = spec.replicas /\ Cardinality(D!Ready) = spec.replicas
                   /\ Cardinality(pods \intersect {D!Newest}) = spec.replicas
        BY <3>1, <3>3
      <3>4. ASSUME Full' PROVE D!Converged
        <4>1. CASE spec.replicas = 0
          BY <3>2, <3>3, <3>4, <4>1, FS_EmptySet DEF D!Converged
        <4>2. CASE spec.replicas = 1
          <5>1. PICK x, y, z : /\ pods = {x} /\ pods \intersect {D!Newest} = {y} /\ D!Ready = {z}
            <6>1. \A S : IsFiniteSet(S) /\ Cardinality(S) = 1 => \E e : S = {e}
              BY FS_Singleton
            <6>2. /\ Cardinality(pods) = 1 /\ Cardinality(D!Ready) = 1
                 /\ Cardinality(pods \intersect {D!Newest}) = 1
              BY <3>3, <3>4, <4>2
            <6>3. /\ (\E x : pods = {x}) /\ (\E z : D!Ready = {z})
                 /\ (\E y : pods \intersect {D!Newest} = {y})
              BY <3>2, <6>1, <6>2, Zenon
            <6>4. QED
              BY <6>3
          <5>2. pods = {D!Newest} /\ D!Ready = pods
            BY <5>1 DEF D!Ready
          <5>3. QED
            BY <4>2, <5>2 DEF D!Converged
        <4>3. QED
          BY <4>1, <4>2, Fields
      <3>5. Full' => D!Converged'
        BY <3>1, <3>4 DEF D!Converged, D!Ready, D!Newest
      <3>6. reported'.observed <= spec'.generation
        BY <3>1, Fields
      <3>7. QED
        BY <1>1, <3>5, <3>6 DEF StatusInv
    <2>4. CASE D!MakeSet \/ D!AddPod \/ \E s \in pods : D!DropPod(s)
      BY <1>2, <2>4 DEF D!MakeSet, D!AddPod, D!DropPod
    <2>5. QED
      BY <1>4, <2>1, <2>2, <2>3, <2>4 DEF ClusterStep
  <1>5. CASE WriteStep
    <2>1. CASE D!Scale
      <3>1. write.replicas \in 0 .. 1 /\ D!ScaleTo(write.replicas) /\ reported' = reported
        BY <2>1 DEF OutcomeType, D!Scale, ScaleWrites, RestartWrites
      <3>2. CASE write.replicas = spec.replicas
        <4>1. spec' = spec
          BY <3>1, <3>2, Scaled DEF OutcomeType
        <4>2. QED
          BY <3>1, <4>1, <1>2 DEF D!ScaleTo
      <3>3. CASE write.replicas # spec.replicas
        BY <3>1, <3>3, <1>3, Scaled, Fields
      <3>4. QED
        BY <3>2, <3>3
    <2>2. CASE D!Restart
      <3>1. D!Restarted \in Nat
        BY Fields DEF D!Restarted
      <3>2. QED
        BY <2>2, <3>1, <1>3, Templated, Fields DEF D!Restart
    <2>3. CASE D!Approve \/ D!Conflict \/ D!Correlate
      BY <1>2, <2>3 DEF D!Approve, D!Conflict, D!Correlate, D!cluster
    <2>4. QED
      BY <1>5, <2>1, <2>2, <2>3 DEF WriteStep
  <1>6. CASE ReadStep
    BY <1>2, <1>6 DEF ReadStep, D!GetDeployment, D!ListSets, D!ListPods, D!GetAgain, D!ReadFails,
       D!Reading, D!cluster
  <1>7. QED
    BY <1>4, <1>5, <1>6, Steps

\* A generation that another one left, or that is another Deployment's, is not hit again.
LEMMA HitsBefore ==
  ASSUME OutcomeType, WriteInv, D!Step, write' = write, D!Hit'
  PROVE  D!Hit /\ spec' = spec /\ D!Template' = D!Template
  <1>1. write.at \in {"patched", "done"} /\ spec'.uid = 1 /\ spec'.generation = write.landed
    BY DEF D!Hit, OutcomeType, ScaleWrites, RestartWrites
  <1>2. spec.uid = 1 => spec.generation >= write.landed
    BY <1>1 DEF WriteInv
  <1>3. write.landed \in Nat /\ write.uid = 1
    BY <1>1 DEF OutcomeType, ScaleWrites, RestartWrites
  <1>4. CASE UNCHANGED <<spec, templates>>
    BY <1>1, <1>3, <1>4 DEF D!Hit, D!Template, D!Newest
  <1>5. CASE D!OtherChanges
    <2>1. spec'.uid = spec.uid /\ spec'.generation = spec.generation + 1
      <3>1. CASE \E r \in D!Replicas \ {spec.replicas} : D!ScaleTo(r)
        BY <3>1, Scaled, Fields DEF D!Replicas
      <3>2. CASE \E m \in {D!Template.marker, D!Restarted} : D!NewTemplate(m)
        BY <3>2, Templated, Fields DEF D!Restarted
      <3>3. QED
        BY <1>5, <3>1, <3>2 DEF D!OtherChanges
    <2>2. QED
      BY <1>1, <1>2, <1>3, <2>1, Fields
  <1>6. CASE D!OtherRecreates
    BY <1>1, <1>6 DEF D!OtherRecreates
  <1>7. CASE D!MakeSet \/ D!AddPod \/ D!WriteStatus \/ \E s \in pods : D!DropPod(s)
    BY <1>4, <1>7 DEF D!MakeSet, D!AddPod, D!WriteStatus, D!DropPod
  <1>8. CASE WriteStep
    <2>1. CASE D!Scale \/ D!Restart \/ D!Approve \/ D!Conflict
      BY <1>1, <2>1 DEF D!Scale, D!Restart, D!Approve, D!Conflict, ScaleWrites, RestartWrites,
         OutcomeType
    <2>2. CASE D!Correlate
      BY <1>4, <2>2 DEF D!Correlate, D!cluster
    <2>3. QED
      BY <1>8, <2>1, <2>2 DEF WriteStep
  <1>9. CASE ReadStep
    BY <1>4, <1>9 DEF ReadStep, D!GetDeployment, D!ListSets, D!ListPods, D!GetAgain, D!ReadFails,
       D!Reading, D!cluster
  <1>10. QED
    BY <1>5, <1>6, <1>7, <1>8, <1>9, Steps DEF ClusterStep

\* The Deployment only moves on.
LEMMA MovesOn ==
  ASSUME OutcomeType, D!Step
  PROVE  /\ spec'.uid = 1 => spec.uid = 1 /\ spec'.generation >= spec.generation
         /\ spec'.uid = 1 /\ spec'.generation = spec.generation => spec'.replicas = spec.replicas
  <1>1. CASE UNCHANGED spec
    BY <1>1, Fields
  <1>2. CASE D!OtherChanges
    <2>1. CASE \E r \in D!Replicas \ {spec.replicas} : D!ScaleTo(r)
      BY <2>1, Scaled, Fields DEF D!Replicas
    <2>2. CASE \E m \in {D!Template.marker, D!Restarted} : D!NewTemplate(m)
      BY <2>2, Templated, Fields DEF D!Restarted
    <2>3. QED
      BY <1>2, <2>1, <2>2 DEF D!OtherChanges
  <1>3. CASE D!OtherRecreates
    BY <1>3 DEF D!OtherRecreates
  <1>4. CASE D!MakeSet \/ D!AddPod \/ D!WriteStatus \/ \E s \in pods : D!DropPod(s)
    BY <1>1, <1>4 DEF D!MakeSet, D!AddPod, D!WriteStatus, D!DropPod
  <1>5. CASE D!Scale
    <2>1. write.replicas \in 0 .. 1 /\ D!ScaleTo(write.replicas)
      BY <1>5 DEF D!Scale, OutcomeType, ScaleWrites, RestartWrites
    <2>2. QED
      BY <2>1, Scaled, Fields
  <1>6. CASE D!Restart
    <2>1. D!Restarted \in Nat
      BY Fields DEF D!Restarted
    <2>2. QED
      BY <1>6, <2>1, Templated, Fields DEF D!Restart
  <1>7. CASE D!Approve \/ D!Conflict \/ D!Correlate \/ ReadStep
    BY <1>1, <1>7 DEF D!Approve, D!Conflict, D!Correlate, ReadStep, D!GetDeployment, D!ListSets,
       D!ListPods, D!GetAgain,
                D!ReadFails, D!Reading, D!cluster
  <1>8. QED
    BY <1>2, <1>3, <1>4, <1>5, <1>6, <1>7, Steps DEF ClusterStep, WriteStep

\* Every step keeps what is known of the PATCH.
LEMMA WritesAreKnown ==
  ASSUME OutcomeType, WriteInv, D!Step
  PROVE  WriteInv'
  <1>1. CASE write' = write
    <2>1. write.at = "none" => spec'.uid = 1
      <3>1. CASE write.at = "none" /\ spec' # spec
        <4>1. CASE D!OtherChanges
          <5>1. CASE \E r \in D!Replicas \ {spec.replicas} : D!ScaleTo(r)
            BY <3>1, <5>1, Scaled DEF WriteInv, D!Replicas
          <5>2. CASE \E m \in {D!Template.marker, D!Restarted} : D!NewTemplate(m)
            BY <3>1, <5>2, Templated, Fields DEF WriteInv, D!Restarted
          <5>3. QED
            BY <4>1, <5>1, <5>2 DEF D!OtherChanges
        <4>2. CASE ~D!OtherChanges
          BY <3>1, <4>2, Steps DEF ClusterStep, WriteStep, ReadStep, D!OtherRecreates, D!MakeSet,
             D!AddPod, D!DropPod,
             D!WriteStatus, D!Approve, D!Conflict, D!Scale, D!Restart, D!Correlate, D!cluster,
             D!Reading,
             D!GetDeployment, D!ListSets, D!ListPods, D!GetAgain, D!ReadFails
        <4>3. QED
          BY <4>1, <4>2
      <3>2. QED
        BY <3>1 DEF WriteInv
    <2>2. ASSUME write \in ScaleWrites, write.at = "approved", spec'.uid = 1
          PROVE  /\ write.before.uid = 1 /\ spec'.generation >= write.before.generation
                 /\ spec'.generation = write.before.generation => spec'.replicas = write.before.replicas
      <3>1. spec.generation \in Nat /\ spec'.generation \in Nat /\ write.before.generation \in Nat
        BY <2>2, StepsAreTyped DEF ScaleWrites, OutcomeType
      <3>2. QED
        BY <2>2, <3>1, MovesOn DEF WriteInv
    <2>3. write \in ScaleWrites /\ D!Hit' => spec'.replicas = write.replicas
      BY <1>1, HitsBefore DEF WriteInv
    <2>4. write \in RestartWrites /\ D!Hit' => D!Template'.marker = write.marker
      BY <1>1, HitsBefore DEF WriteInv
    <2>5. ASSUME write.at \in {"patched", "done"}, spec'.uid = 1
          PROVE  spec'.generation >= write.landed
      <3>1. spec.generation \in Nat /\ spec'.generation \in Nat /\ write.landed \in Nat
        BY <2>5, StepsAreTyped DEF OutcomeType, ScaleWrites, RestartWrites
      <3>2. QED
        BY <2>5, <3>1, MovesOn DEF WriteInv
    <2>6. QED
      BY <1>1, <2>1, <2>2, <2>3, <2>4, <2>5 DEF WriteInv
  <1>2. CASE D!Approve
    BY <1>2, Fields DEF D!Approve, D!cluster, WriteInv, D!Look, ScaleWrites, RestartWrites, D!Hit
  <1>3. CASE D!Conflict
    BY <1>3 DEF D!Conflict, D!cluster, WriteInv, ScaleWrites, RestartWrites, D!Hit
  <1>4. CASE D!Scale
    <2>1. write \in ScaleWrites /\ write.at = "approved"
      BY <1>4 DEF D!Scale, OutcomeType, RestartWrites
    <2>2. PICK g : g = spec'.generation
      OBVIOUS
    <2>3. write' = [write EXCEPT !.at = "patched", !.landed = g]
      BY <1>4, <2>2 DEF D!Scale
    <2>4. /\ write'.at = "patched" /\ write'.landed = g /\ write'.kind = "scale" /\ write'.before = write.before
          /\ write'.replicas = write.replicas
      BY <2>1, <2>3 DEF ScaleWrites
    <2>5. /\ write.replicas \in 0 .. 1 /\ spec.uid = 1 /\ g \in Nat
          /\ write.before.generation \in Nat /\ write.before.replicas \in 0 .. 1
      BY <1>4, <2>1, <2>2, StepsAreTyped DEF D!Scale, ScaleWrites, OutcomeType
    <2>6. /\ spec'.uid = spec.uid /\ spec'.replicas = write.replicas
          /\ g = IF write.replicas = spec.replicas THEN spec.generation ELSE spec.generation + 1
      BY <1>4, <2>2, <2>5, Scaled DEF D!Scale
    <2>7. /\ write.before.uid = 1 /\ spec.generation >= write.before.generation
          /\ spec.generation = write.before.generation => spec.replicas = write.before.replicas
      BY <2>1, <2>5 DEF WriteInv
    <2>8. g >= write.before.generation + (IF write.before.replicas = write.replicas THEN 0 ELSE 1)
      BY <2>5, <2>6, <2>7, Fields
    <2>9. write' \notin RestartWrites
      BY <2>4 DEF RestartWrites
    <2>10. QED
      BY <2>2, <2>4, <2>5, <2>6, <2>7, <2>8, <2>9 DEF WriteInv
  <1>5. CASE D!Restart
    <2>1. write \in RestartWrites
      BY <1>5 DEF D!Restart, OutcomeType, ScaleWrites
    <2>2. PICK g : g = spec'.generation
      OBVIOUS
    <2>3. write' = [write EXCEPT !.at = "done", !.landed = g, !.marker = D!Restarted]
      BY <1>5, <2>2 DEF D!Restart
    <2>4. write'.at = "done" /\ write'.landed = g /\ write'.kind = "restart" /\ write'.marker = D!Restarted
      BY <2>1, <2>3 DEF RestartWrites
    <2>5. D!Restarted \in Nat
      BY Fields DEF D!Restarted
    <2>6. D!Template'.marker = D!Restarted
      BY <1>5, <2>5, Templated DEF D!Restart
    <2>7. write' \notin ScaleWrites /\ g \in Nat
      BY <2>2, <2>4, StepsAreTyped DEF ScaleWrites, OutcomeType
    <2>8. QED
      BY <2>2, <2>4, <2>6, <2>7 DEF WriteInv
  <1>6. CASE D!Correlate
    <2>1. write \in ScaleWrites /\ write.at = "patched"
      BY <1>6 DEF D!Correlate, OutcomeType, RestartWrites
    <2>2. write' = [write EXCEPT !.at = "done", !.before = D!Unknown]
      BY <1>6 DEF D!Correlate
    <2>3. /\ write'.at = "done" /\ write'.landed = write.landed /\ write'.kind = "scale" /\ write'.uid = write.uid
          /\ write'.replicas = write.replicas
      BY <2>1, <2>2 DEF ScaleWrites
    <2>4. UNCHANGED <<spec, templates>>
      BY <1>6 DEF D!Correlate, D!cluster
    <2>5. D!Hit' => D!Hit
      BY <2>1, <2>3, <2>4 DEF D!Hit
    <2>6. write' \notin RestartWrites
      BY <2>3 DEF RestartWrites
    <2>7. QED
      BY <2>1, <2>3, <2>4, <2>5, <2>6 DEF WriteInv
  <1>7. QED
    BY <1>1, <1>2, <1>3, <1>4, <1>5, <1>6, Steps DEF ClusterStep, WriteStep, ReadStep,
       D!OtherChanges, D!OtherRecreates,
       D!MakeSet, D!AddPod, D!DropPod, D!WriteStatus, D!Reading, D!GetDeployment, D!ListSets,
       D!ListPods, D!GetAgain,
       D!ReadFails

\* What was read around the PATCH proves the generation that it made, or none.
LEMMA ProvenGeneration ==
  ASSUME OutcomeType, WriteInv, D!Correlate
  PROVE  /\ tracker'.generation \in {0, write.landed}
         /\ tracker'.outcome.phase = IF tracker'.generation = 0 THEN "incomplete" ELSE "accepted"
  <1>1. write \in ScaleWrites /\ write.at = "patched"
    BY DEF D!Correlate, OutcomeType, RestartWrites
  <1>2. PICK before \in {write.before, D!Unknown}, after \in {D!Look, D!Unknown} :
           D!Start(D!FromSnapshots(before, after, write.replicas))
    BY DEF D!Correlate
  <1> DEFINE g == D!FromSnapshots(before, after, write.replicas)
  <1>3. tracker'.generation = g /\ tracker'.outcome.phase = IF g = 0 THEN "incomplete" ELSE "accepted"
    BY <1>2 DEF D!Start, D!NoOutcome
  <1>4. ASSUME g # 0 PROVE g = write.landed
    <2>1. /\ before.uid # 0 /\ after.uid = before.uid /\ after.replicas = write.replicas
          /\ after.generation = before.generation + (IF before.replicas = write.replicas THEN 0 ELSE 1)
          /\ g = after.generation
      BY <1>4 DEF D!FromSnapshots
    <2>2. before = write.before /\ before.uid = 1
      BY <1>1, <1>2, <2>1 DEF D!Unknown, WriteInv
    <2>3. after.uid = spec.uid /\ after.generation = spec.generation
      BY <1>2, <2>1, <2>2 DEF D!Look, D!Unknown
    <2>4. write.landed >= g /\ spec.generation >= write.landed
      BY <1>1, <2>1, <2>2, <2>3 DEF WriteInv
    <2>5. QED
      BY <1>1, <2>1, <2>3, <2>4, Fields DEF ScaleWrites
  <1>5. QED
    BY <1>3, <1>4

\* Every step keeps the tracker on the PATCH's generation.
LEMMA TrackersFollow ==
  ASSUME OutcomeType, WriteInv, TrackerInv, D!Step
  PROVE  TrackerInv'
  <1>1. CASE ClusterStep
    BY <1>1 DEF ClusterStep, D!OtherChanges, D!OtherRecreates, D!MakeSet, D!AddPod, D!DropPod,
       D!WriteStatus, TrackerInv
  <1>2. CASE D!Approve \/ D!Conflict
    BY <1>2 DEF D!Approve, D!Conflict, D!cluster, TrackerInv, D!Active
  <1>3. CASE D!Scale
    BY <1>3 DEF D!Scale, TrackerInv, D!Active
  <1>4. CASE D!Restart
    <2>1. write \in RestartWrites /\ write.at = "approved" /\ read' = read
      BY <1>4 DEF D!Restart, OutcomeType, ScaleWrites
    <2>2. PICK g : g = spec'.generation
      OBVIOUS
    <2>3. write' = [write EXCEPT !.at = "done", !.landed = g, !.marker = D!Restarted] /\ D!Start(g)
      BY <1>4, <2>2 DEF D!Restart
    <2>4. write'.at = "done" /\ write'.landed = g
      BY <2>1, <2>3 DEF RestartWrites
    <2>5. tracker'.generation = g /\ tracker'.outcome.phase # "none"
      BY <2>3 DEF D!Start, D!NoOutcome
    <2>6. read.at = "idle"
      BY <2>1 DEF TrackerInv, D!Active
    <2>7. QED
      BY <2>1, <2>4, <2>5, <2>6 DEF TrackerInv
  <1>5. CASE D!Correlate
    <2>1. write \in ScaleWrites /\ write.at = "patched" /\ read' = read
      BY <1>5 DEF D!Correlate, OutcomeType, RestartWrites
    <2>2. write'.at = "done" /\ write'.landed = write.landed
      BY <1>5, <2>1 DEF D!Correlate, ScaleWrites
    <2>3. read.at = "idle"
      BY <2>1 DEF TrackerInv, D!Active
    <2>4. QED
      BY <1>5, <2>1, <2>2, <2>3, ProvenGeneration DEF TrackerInv, D!Active
  <1>6. CASE ReadStep
    <2>1. write' = write /\ tracker'.generation = tracker.generation
      BY <1>6 DEF ReadStep, D!GetDeployment, D!ListSets, D!ListPods, D!GetAgain, D!ReadFails,
         D!Reading, OutcomeType
    <2>2. CASE tracker' = tracker
      BY <1>6, <2>1, <2>2 DEF ReadStep, D!GetDeployment, D!ListSets, D!ListPods, D!GetAgain,
         D!ReadFails, D!NoRead,
                  TrackerInv, OutcomeType
    <2>3. CASE D!GetAgain \/ D!ReadFails
      <3>1. read.at # "idle" /\ read'.at = "idle"
        BY <2>3 DEF D!GetAgain, D!ReadFails, D!NoRead
      <3>2. QED
        BY <2>1, <3>1 DEF TrackerInv, D!Active
    <2>4. QED
      BY <1>6, <2>2, <2>3 DEF ReadStep, D!GetDeployment, D!ListSets, D!ListPods
  <1>7. QED
    BY <1>1, <1>2, <1>3, <1>4, <1>5, <1>6, Steps DEF WriteStep

\* A verdict is given on the generation that the PATCH made, if it is still there.
LEMMA Verdicts ==
  ASSUME OutcomeType, StatusInv, WriteInv, TrackerInv, NEW seen, NEW failed, read.at # "idle"
  PROVE  LET phase == D!Evaluate(seen, failed).phase IN
         /\ phase = "completed"  => held
         /\ phase = "superseded" => ~D!Hit
         /\ phase = "replaced"   => spec.uid # write.uid
  <1> DEFINE phase == D!Evaluate(seen, failed).phase
  <1>1. write.at = "done" /\ tracker.generation = write.landed
    BY DEF TrackerInv, D!Active
  <1>2. write \in ScaleWrites \union RestartWrites /\ write.uid = 1 /\ write.landed \in Nat
    BY <1>1 DEF OutcomeType, ScaleWrites, RestartWrites
  <1>3. CASE spec.uid # write.uid
    BY <1>3 DEF D!Evaluate, D!Phase, D!NoOutcome
  <1>4. CASE spec.uid = write.uid /\ spec.generation # write.landed
    BY <1>1, <1>2, <1>4, Fields DEF D!Evaluate, D!Phase, D!NoOutcome, D!Hit
  <1>5. CASE spec.uid = write.uid /\ spec.generation = write.landed
    <2>1. D!Hit
      BY <1>1, <1>5 DEF D!Hit
    <2>2. ASSUME D!GenerationCurrent, D!ReplicasConverged(spec.replicas)
          PROVE  held
      <3>1. reported.observed = spec.generation
        BY <2>2, Fields DEF D!GenerationCurrent, StatusInv, OutcomeType
      <3>2. {reported.total, reported.updated, reported.ready} = {spec.replicas}
        BY <2>2 DEF D!ReplicasConverged
      <3>3. QED
        BY <2>1, <3>1, <3>2 DEF StatusInv
    <2>3. CASE write.kind = "scale"
      <3>1. spec.replicas = write.replicas
        BY <1>2, <2>1, <2>3 DEF WriteInv, RestartWrites
      <3>2. D!Evaluate(seen, failed) = D!EvaluateScale(seen, failed)
        BY <1>1, <1>2, <1>5, <2>3, Fields DEF D!Evaluate
      <3>3. phase \notin {"superseded", "replaced"}
        BY <3>1, <3>2 DEF D!EvaluateScale, D!Phase, D!Stalled, D!NoOutcome
      <3>4. phase = "completed" => D!GenerationCurrent /\ D!ReplicasConverged(spec.replicas)
        BY <3>1, <3>2 DEF D!EvaluateScale, D!Phase, D!Stalled, D!NoOutcome
      <3>5. QED
        BY <2>2, <3>3, <3>4
    <2>4. CASE write.kind = "restart"
      <3>1. D!Template.marker = write.marker
        BY <1>2, <2>1, <2>4 DEF WriteInv, ScaleWrites
      <3>2. D!Evaluate(seen, failed) = D!EvaluateRestart(seen, failed)
        BY <1>1, <1>2, <1>5, <2>4, Fields DEF D!Evaluate
      <3>3. phase \notin {"superseded", "replaced"}
        BY <3>1, <3>2, Fields DEF D!EvaluateRestart, D!Phase, D!Stalled, D!NoOutcome
      <3>4. phase = "completed" => D!GenerationCurrent /\ D!ReplicasConverged(spec.replicas)
        BY <3>1, <3>2, Fields DEF D!EvaluateRestart, D!Phase, D!Stalled, D!NoOutcome
      <3>5. QED
        BY <2>2, <3>3, <3>4
    <2>5. QED
      BY <1>2, <2>3, <2>4 DEF ScaleWrites, RestartWrites
  <1>6. QED
    BY <1>3, <1>4, <1>5

\* No verdict is false when it is given, or becomes so.
LEMMA VerdictsStayTrue ==
  ASSUME OutcomeInv, D!Step, held' = (held \/ (D!Hit /\ D!Converged)')
  PROVE  VerdictIsTrue'
  <1> USE DEF OutcomeInv
  <1>1. CASE D!GetAgain
    <2>1. PICK cut \in BOOLEAN, failed \in BOOLEAN :
             tracker' = [tracker EXCEPT !.outcome = D!Evaluate(D!Evidence(cut), failed)]
      BY <1>1 DEF D!GetAgain
    <2>2. tracker'.outcome.phase = D!Evaluate(D!Evidence(cut), failed).phase
      BY <2>1 DEF OutcomeType
    <2>3. read.at # "idle"
      BY <1>1 DEF D!GetAgain
    <2>4. UNCHANGED <<spec, write>> /\ D!Hit' = D!Hit
      BY <1>1 DEF D!GetAgain, D!Reading, D!cluster, D!Hit
    <2>5. QED
      BY <2>2, <2>3, <2>4, Verdicts DEF VerdictIsTrue, D!VerdictIsTrue
  <1>2. CASE tracker' = tracker
    <2> DEFINE phase == tracker.outcome.phase
    <2>1. phase = "completed" => held'
      BY DEF VerdictIsTrue, D!VerdictIsTrue
    <2>2. ASSUME phase \in {"superseded", "replaced"} PROVE UNCHANGED <<spec, write>>
      <3>1. write.at = "done" /\ read.at = "idle" /\ ~D!Watched
        BY <2>2 DEF TrackerInv, D!Active, D!Watched
      <3>2. QED
        BY <3>1, Steps DEF ClusterStep, WriteStep, ReadStep, D!OtherChanges, D!OtherRecreates,
           D!MakeSet, D!AddPod,
          D!DropPod, D!WriteStatus, D!Approve, D!Conflict, D!Scale, D!Restart, D!Correlate,
          D!GetDeployment,
          D!ListSets, D!ListPods, D!GetAgain, D!ReadFails, D!Reading, D!cluster
    <2>3. phase \in {"superseded", "replaced"} => D!Hit' = D!Hit
      BY <2>2 DEF D!Hit
    <2>4. QED
      BY <1>2, <2>1, <2>2, <2>3 DEF VerdictIsTrue, D!VerdictIsTrue
  <1>3. CASE tracker'.outcome.phase \in {"incomplete", "accepted"}
    BY <1>3 DEF VerdictIsTrue, D!VerdictIsTrue
  <1>4. CASE D!ReadFails
    <2>1. tracker'.outcome.phase = "incomplete"
      BY <1>4 DEF D!ReadFails, OutcomeType
    <2>2. QED
      BY <1>3, <2>1
  <1>5. CASE D!Restart \/ D!Correlate
    <2>1. PICK g : D!Start(g)
      BY <1>5 DEF D!Restart, D!Correlate
    <2>2. QED
      BY <1>3, <2>1 DEF D!Start, D!NoOutcome
  <1>6. QED
    BY <1>1, <1>2, <1>4, <1>5, Steps DEF ClusterStep, WriteStep, ReadStep, D!OtherChanges,
       D!OtherRecreates, D!MakeSet, D!AddPod,
          D!DropPod, D!WriteStatus, D!Approve, D!Conflict, D!Scale, D!GetDeployment, D!ListSets,
          D!ListPods

\* The invariant holds of every reachable state; the other part does not touch it.
THEOREM OutcomeInvariance == MCSpec => []OutcomeInv
  <1>1. MCInit => OutcomeInv
    <2> SUFFICES ASSUME D!Init PROVE OutcomeInv
      BY DEF MCInit
    <2>1. OutcomeType
      <3>1. /\ templates \in Seq([marker : Nat, bad : BOOLEAN]) /\ templates # <<>> /\ D!Newest = 1
        BY DEF D!Init, D!First, D!Newest
      <3>2. QED
        <4>1. /\ spec \in [uid : 1 .. 2, generation : Nat, replicas : 0 .. 1]
              /\ reported \in [observed : Nat, total : Nat, updated : Nat, ready : Nat]
              /\ write \in [at : {"none", "refused"}]
          BY DEF D!Init, D!AtRest
        <4>2. /\ DOMAIN tracker = {"generation", "outcome"} /\ tracker.generation \in Nat
              /\ DOMAIN tracker.outcome = {"phase", "blame"}
              /\ DOMAIN read = {"at", "uid", "generation", "sets", "pods"}
          BY DEF D!Init, D!NoRead, D!NoOutcome
        <4>3. sets \subseteq 1 .. D!Newest /\ pods \subseteq sets
          BY <3>1 DEF D!Init
        <4>4. QED
          BY <3>1, <4>1, <4>2, <4>3 DEF OutcomeType
    <2>2. write.at = "none" /\ write \notin ScaleWrites \union RestartWrites /\ ~D!Hit
      BY DEF D!Init, ScaleWrites, RestartWrites, Approved, D!Hit
    <2>3. StatusInv
      <3>1. D!Converged
        BY DEF D!Init, D!Converged, D!Ready, D!Newest, D!First
      <3>2. QED
        BY <2>2, <3>1 DEF StatusInv, D!Init, D!AtRest
    <2>4. WriteInv
      BY <2>2 DEF WriteInv, D!Init
    <2>5. TrackerInv /\ VerdictIsTrue
      BY DEF D!Init, TrackerInv, VerdictIsTrue, D!VerdictIsTrue, D!NoRead, D!NoOutcome, D!Active
    <2>6. QED
      BY <2>1, <2>3, <2>4, <2>5 DEF OutcomeInv
  <1>2. OutcomeInv /\ [MCNext]_<<part, vars, outcome>> => OutcomeInv'
    <2> SUFFICES ASSUME OutcomeInv, [MCNext]_<<part, vars, outcome>> PROVE OutcomeInv'
      OBVIOUS
    <2>1. CASE UNCHANGED outcome
      <3>1. /\ D!Newest' = D!Newest /\ D!Hit' = D!Hit /\ D!Converged' = D!Converged /\ D!Template' = D!Template
        BY <2>1 DEF outcome, D!Newest, D!Hit, D!Converged, D!Ready, D!Template
      <3>2. OutcomeType' /\ StatusInv'
        BY <2>1, <3>1 DEF outcome, OutcomeInv, OutcomeType, StatusInv
      <3>3. WriteInv' /\ TrackerInv' /\ VerdictIsTrue'
        BY <2>1, <3>1 DEF outcome, OutcomeInv, WriteInv, TrackerInv, VerdictIsTrue,
           D!VerdictIsTrue
      <3>4. QED
        BY <3>2, <3>3 DEF OutcomeInv
    <2>2. CASE D!Next
      <3>1. D!Step /\ held' = (held \/ (D!Hit /\ D!Converged)')
        BY <2>2 DEF D!Next
      <3>2. QED
        BY <3>1, StepsAreTyped, StatusIsTrue, WritesAreKnown, TrackersFollow,
           VerdictsStayTrue DEF OutcomeInv
    <2>3. QED
      BY <2>1, <2>2 DEF MCNext, outcome
  <1>3. QED
    BY <1>1, <1>2, PTL DEF MCSpec

\* What is said of an accepted scale or restart is true of the PATCH itself: whoever changes
\* or recreates the Deployment around it, however stale the counters, and even when nothing
\* but two reads around the PATCH tells which generation it made.
THEOREM VerdictsAreTrue == MCSpec => []VerdictIsTrue
  <1>1. OutcomeInv => VerdictIsTrue
    BY DEF OutcomeInv
  <1>2. QED
    BY <1>1, OutcomeInvariance, PTL
==============================================================================
