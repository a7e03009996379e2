--------------------------- MODULE ForwardRegistry ---------------------------
(***************************************************************************)
(* core/portforward.py: the registry of `kubectl port-forward` children.   *)
(* Worker threads start and re-attach forwards, the event loop stops,      *)
(* aborts and refreshes them, a teardown thread runs stop_all, and each    *)
(* child has a reader thread.  `_ops` and each record's lock make a        *)
(* critical section one step; what lies between two of them is not.        *)
(***************************************************************************)
EXTENDS Naturals, FiniteSets

CONSTANTS
    Workers,        \* threads that may be inside start() or reattach()
    Ports,          \* local ports
    Contexts,       \* kube contexts
    MaxChildren,    \* bound: kubectl children ever spawned
    MaxTeardowns    \* bound: calls of stop_all

ASSUME RegistryAssumption ==
    /\ Ports # {} /\ Contexts # {} /\ MaxChildren \in Nat /\ MaxTeardowns \in Nat

Children == 1 .. MaxChildren
Ids      == 1 .. MaxChildren    \* a record is created for a child

VARIABLES
    child,       \* each child: unborn, running, closing (stdout at EOF), exited
    signal,      \* the strongest signal it was sent: none, term, kill
    where,       \* the port and the context it was spawned for
    said,        \* children whose readiness line was read for their record
    reader,      \* the record its reader thread is bound to; 0 when there is none
    count,       \* _next_id - 1
    listed,      \* the keys of _records
    proc,        \* _proc of each record
    status,      \* status
    version,     \* _generation of each record
    reaping,     \* _reaping
    claimed,     \* _claimed_ports
    closed,      \* _closed
    generation,  \* _generation
    context,     \* _context
    op,          \* what each worker thread is at
    loop,        \* the stop() or fail_start() the event loop is in, and its child
    closer       \* the stop_all() in progress

children == <<child, where, said, reader>>
records  == <<count, listed, proc, status, version>>
latch    == <<closed, generation, context>>
vars     == <<children, signal, records, reaping, claimed, latch, op, loop, closer>>

Idle == [at |-> "idle", port |-> CHOOSE n \in Ports : TRUE, record |-> 0,
         generation |-> 0, holders |-> {}, child |-> 0]

Nowhere == [port |-> CHOOSE n \in Ports : TRUE, context |-> CHOOSE c \in Contexts : TRUE]

Init ==
    /\ child = [p \in Children |-> "unborn"]
    /\ signal = [p \in Children |-> "none"]
    /\ where = [p \in Children |-> Nowhere]
    /\ said = {}
    /\ reader = [p \in Children |-> 0]
    /\ count = 0 /\ listed = {}
    /\ proc = [r \in Ids |-> 0]
    /\ status = [r \in Ids |-> "broken"]
    /\ version = [r \in Ids |-> 0]
    /\ reaping = {} /\ claimed = {}
    /\ closed = FALSE /\ generation = 0 /\ context = Nowhere.context
    /\ op = [w \in Workers |-> Idle]
    /\ loop = [at |-> "idle", victim |-> 0]
    /\ closer = [at |-> "idle", victims |-> {}]

TypeOK ==
    /\ child \in [Children -> {"unborn", "running", "closing", "exited"}]
    /\ signal \in [Children -> {"none", "term", "kill"}]
    /\ where \in [Children -> [port : Ports, context : Contexts]]
    /\ said \subseteq Children
    /\ reader \in [Children -> {0} \union Ids]
    /\ count \in 0 .. MaxChildren /\ listed \subseteq 1 .. count
    /\ proc \in [Ids -> {0} \union Children]
    /\ status \in [Ids -> {"starting", "alive", "broken"}]
    /\ version \in [Ids -> 0 .. MaxChildren]
    /\ reaping \subseteq Children /\ claimed \subseteq Ports
    /\ closed \in BOOLEAN /\ generation \in 0 .. MaxTeardowns /\ context \in Contexts
    /\ op \in [Workers -> [at : {"idle", "claim", "reclaim", "adopt", "discard"}, port : Ports,
                           record : {0} \union Ids, generation : 0 .. generation,
                           holders : SUBSET Children, child : {0} \union Children]]
    /\ loop \in [at : {"idle", "signal", "enter"}, victim : {0} \union Children]
    /\ closer \in [at : {"idle", "terminate", "drain", "killed", "returned"},
                   victims : SUBSET Children]

-----------------------------------------------------------------------------
(* The children, and the thread that reads the output of each.             *)

Running(p) == child[p] \in {"running", "closing"}    \* poll() is None

\* The target is gone, or a signal had its effect: stdout closes, then it exits.
Closes(p) ==
    /\ child[p] = "running"
    /\ child' = [child EXCEPT ![p] = "closing"]
    /\ UNCHANGED <<where, said, reader, signal, records, reaping, claimed, latch, op, loop, closer>>
Exits(p) ==
    /\ child[p] = "closing"
    /\ child' = [child EXCEPT ![p] = "exited"]
    /\ signal' = [signal EXCEPT ![p] = "none"]
    /\ UNCHANGED <<where, said, reader, records, reaping, claimed, latch, op, loop, closer>>

\* _watch_output reads "Forwarding from", printed at any time before EOF, and looks
\* at the record under its lock.
Reads(p) ==
    /\ reader[p] # 0 /\ p \notin said
    /\ IF proc[reader[p]] = p
         THEN /\ said' = said \union {p}
              /\ status' = [status EXCEPT ![reader[p]] = IF @ = "starting" THEN "alive" ELSE @]
              /\ UNCHANGED reader
         ELSE reader' = [reader EXCEPT ![p] = 0] /\ UNCHANGED <<said, status>>
    /\ UNCHANGED <<child, where, signal, count, listed, proc, version>>
    /\ UNCHANGED <<reaping, claimed, latch, op, loop, closer>>

\* EOF: a child that was never confirmed is broken, though it may still run.
ReadsEof(p) ==
    /\ reader[p] # 0 /\ child[p] \in {"closing", "exited"}
    /\ reader' = [reader EXCEPT ![p] = 0]
    /\ status' = [status EXCEPT ![reader[p]] =
                    IF proc[reader[p]] = p /\ @ = "starting" THEN "broken" ELSE @]
    /\ UNCHANGED <<child, where, said, signal, count, listed, proc, version>>
    /\ UNCHANGED <<reaping, claimed, latch, op, loop, closer>>

-----------------------------------------------------------------------------
(* refresh, and what wait_ready notices.                                   *)

Send(victims, sig) ==
    signal' = [p \in Children |-> IF p \in victims /\ Running(p) /\ signal[p] # "kill"
                                  THEN sig ELSE signal[p]]

\* _reap: who is past the grace deadline is killed, and kept until it exits.
Reap(late) ==
    /\ reaping' = {p \in reaping : Running(p)}
    /\ Send(late, "kill")

\* An exited child breaks its record.  `late` are the overdue entries.
Refreshed(late) ==
    /\ Reap(late)
    /\ status' = [r \in Ids |-> IF r \in listed /\ child[proc[r]] = "exited"
                                THEN "broken" ELSE status[r]]
Refresh(late) ==
    /\ Refreshed(late)
    /\ UNCHANGED <<children, count, listed, proc, version, claimed, latch, op, loop, closer>>

WaitReadyPolls(r) ==
    /\ r \in listed
    /\ status[r] = "starting" /\ child[proc[r]] = "exited"
    /\ status' = [status EXCEPT ![r] = "broken"]
    /\ UNCHANGED <<children, signal, count, listed, proc, version, reaping, claimed, latch>>
    /\ UNCHANGED <<op, loop, closer>>

-----------------------------------------------------------------------------
(* start and reattach, in a worker thread.                                 *)

\* Both refresh first; start notes the registry's generation.
Start(w, n, late) ==
    /\ op[w].at = "idle"
    /\ Refreshed(late)
    /\ op' = [op EXCEPT ![w] = [Idle EXCEPT !.at = "claim", !.port = n,
                                            !.generation = generation]]
    /\ UNCHANGED <<children, count, listed, proc, version, claimed, latch, loop, closer>>
Reattach(w, r, late) ==
    /\ op[w].at = "idle"
    /\ Refreshed(late)
    /\ r \in listed /\ status'[r] = "broken"
    /\ op' = [op EXCEPT ![w] = [Idle EXCEPT !.at = "claim", !.record = r,
                                            !.port = where[proc[r]].port]]
    /\ UNCHANGED <<children, count, listed, proc, version, claimed, latch, loop, closer>>

\* _claim_port, one critical section: signal the broken holders that still run,
\* then take every child that is on its way out of the port into this thread.
OnPort(n) == {r \in listed : where[proc[r]].port = n}
Refused(n) == closed \/ n \in claimed \/ \E r \in OnPort(n) : status[r] # "broken"
DoomedUnchecked(n) ==
    {p \in {proc[r] : r \in OnPort(n)} : Running(p) /\ p \notin reaping}
Doomed(n) == {proc[r] : r \in {b \in OnPort(n) :
                 /\ Running(proc[b]) /\ proc[b] \notin reaping
                 /\ \A q \in OnPort(n) : q <= b => status[q] = "broken"}}

ClaimRefused(w) ==
    /\ op[w].at = "claim" /\ Refused(op[w].port)
    /\ LET doomed == IF closed \/ op[w].port \in claimed THEN {} ELSE Doomed(op[w].port)
       IN  Send(doomed, "term") /\ reaping' = reaping \union doomed
    /\ op' = [op EXCEPT ![w] = Idle]
    /\ UNCHANGED <<children, records, claimed, latch, loop, closer>>
ClaimUnguarded(w) ==
    /\ op[w].at = "claim" /\ ~closed
    /\ \A r \in OnPort(op[w].port) : status[r] = "broken"
    /\ LET holders == Doomed(op[w].port) \union {p \in reaping : where[p].port = op[w].port}
       IN  /\ Send(Doomed(op[w].port), "term")
           /\ reaping' = reaping \ holders
           /\ op' = [op EXCEPT ![w].at = "reclaim", ![w].holders = holders]
    /\ claimed' = claimed \union {op[w].port}
    /\ UNCHANGED <<children, records, latch, loop, closer>>
Claim(w) ==
    /\ op[w].at = "claim" /\ ~Refused(op[w].port)
    /\ LET holders == Doomed(op[w].port) \union {p \in reaping : where[p].port = op[w].port}
       IN  /\ Send(Doomed(op[w].port), "term")
           /\ reaping' = reaping \ holders
           /\ op' = [op EXCEPT ![w].at = "reclaim", ![w].holders = holders]
    /\ claimed' = claimed \union {op[w].port}
    /\ UNCHANGED <<children, records, latch, loop, closer>>

\* _ensure_port_free: holder by holder, killed and waited for outside the lock.
KillHolder(w, p) ==
    /\ op[w].at = "reclaim" /\ p \in op[w].holders
    /\ Running(p) /\ signal[p] # "kill"
    /\ \A q \in op[w].holders : ~(Running(q) /\ signal[q] = "kill")
    /\ Send({p}, "kill")
    /\ UNCHANGED <<children, records, reaping, claimed, latch, op, loop, closer>>
HolderGone(w, p) ==
    /\ op[w].at = "reclaim" /\ p \in op[w].holders /\ ~Running(p)
    /\ op' = [op EXCEPT ![w].holders = @ \ {p}]
    /\ UNCHANGED <<children, signal, records, reaping, claimed, latch, loop, closer>>
HolderStuck(w) ==
    /\ op[w].at = "reclaim"
    /\ \E p \in op[w].holders : Running(p) /\ signal[p] = "kill"
    /\ reaping' = reaping \union op[w].holders
    /\ claimed' = claimed \ {op[w].port}
    /\ op' = [op EXCEPT ![w] = Idle]
    /\ UNCHANGED <<children, signal, records, latch, loop, closer>>

\* _spawn, against the context of that moment, or it raises.
Unborn == {p \in Children : child[p] = "unborn"}
Spawn(w, p) ==
    /\ op[w].at = "reclaim" /\ op[w].holders = {}
    /\ p \in Unborn /\ \A q \in Unborn : p <= q
    /\ child' = [child EXCEPT ![p] = "running"]
    /\ where' = [where EXCEPT ![p] = [port |-> op[w].port, context |-> context]]
    /\ op' = [op EXCEPT ![w].at = "adopt", ![w].child = p]
    /\ UNCHANGED <<said, reader, signal, records, reaping, claimed, latch, loop, closer>>
SpawnFailsClaimed(w) ==
    /\ op[w].at = "reclaim" /\ op[w].holders = {}
    /\ op' = [op EXCEPT ![w] = Idle]
    /\ UNCHANGED <<children, signal, records, reaping, claimed, latch, loop, closer>>
SpawnFails(w) ==
    /\ op[w].at = "reclaim" /\ op[w].holders = {}
    /\ claimed' = claimed \ {op[w].port}
    /\ op' = [op EXCEPT ![w] = Idle]
    /\ UNCHANGED <<children, signal, records, reaping, latch, loop, closer>>

\* The last critical section: register the child, swap it in, or give it up.
SupersededIfClosed(w) == closed
Superseded(w) == closed \/ op[w].generation # generation
Gone(w) == closed \/ op[w].record \notin listed

Publish(r, p) ==
    /\ proc' = [proc EXCEPT ![r] = p]
    /\ status' = [status EXCEPT ![r] = "starting"]
    /\ reader' = [reader EXCEPT ![p] = r]

Register(w) ==
    /\ op[w].at = "adopt" /\ op[w].record = 0 /\ ~Superseded(w)
    /\ claimed' = claimed \ {op[w].port}
    /\ count' = count + 1 /\ listed' = listed \union {count'}
    /\ Publish(count', op[w].child)
    /\ op' = [op EXCEPT ![w] = Idle]
    /\ UNCHANGED <<child, where, said, signal, version, reaping, latch, loop, closer>>
Swap(w) ==
    /\ op[w].at = "adopt" /\ op[w].record # 0 /\ ~Gone(w)
    /\ claimed' = claimed \ {op[w].port}
    /\ Publish(op[w].record, op[w].child)
    /\ version' = [version EXCEPT ![op[w].record] = @ + 1]
    /\ op' = [op EXCEPT ![w] = Idle]
    /\ UNCHANGED <<child, where, said, signal, count, listed, reaping, latch, loop, closer>>
Reject(w) ==
    /\ op[w].at = "adopt"
    /\ IF op[w].record = 0 THEN Superseded(w) ELSE Gone(w)
    /\ claimed' = claimed \ {op[w].port}
    /\ op' = [op EXCEPT ![w].at = "discard"]
    /\ UNCHANGED <<children, signal, records, reaping, latch, loop, closer>>

\* _discard_spawn
Discard(w) ==
    /\ op[w].at = "discard"
    /\ Send({op[w].child}, "kill")
    /\ op' = [op EXCEPT ![w] = Idle]
    /\ UNCHANGED <<children, records, reaping, claimed, latch, loop, closer>>

-----------------------------------------------------------------------------
(* stop and fail_start, on the event loop: unlist, signal, enter to reap.  *)

\* Nobody looks at an unlisted record again: what is left of it is reset.
Unlist(gone) ==
    /\ listed' = listed \ gone
    /\ proc' = [r \in Ids |-> IF r \in gone THEN 0 ELSE proc[r]]
    /\ version' = [r \in Ids |-> IF r \in gone THEN 0 ELSE version[r]]
    /\ status' = [r \in Ids |-> IF r \in gone THEN "broken" ELSE status[r]]
    /\ reader' = [p \in Children |-> IF reader[p] \in gone THEN 0 ELSE reader[p]]

Stop(r) ==
    /\ loop.at = "idle" /\ r \in listed
    /\ Unlist({r})
    /\ loop' = [at |-> "signal", victim |-> proc[r]]
    /\ UNCHANGED <<child, where, said, signal, count, reaping, claimed, latch, op, closer>>

\* A confirmation gave up on the version it had waited for, which still is the
\* record's: a re-attached forward stays listed, a fresh one does not.
FailStart(r) ==
    /\ loop.at = "idle" /\ r \in listed /\ status[r] # "alive"
    /\ IF version[r] = 0 THEN Unlist({r})
       ELSE /\ status' = [status EXCEPT ![r] = "broken"]
            /\ UNCHANGED <<listed, proc, version, reader>>
    /\ loop' = [at |-> "signal", victim |-> proc[r]]
    /\ UNCHANGED <<child, where, said, signal, count, reaping, claimed, latch, op, closer>>

\* _signal_proc: the process snapshot is what gets signalled.
Signal ==
    /\ loop.at = "signal"
    /\ Send({loop.victim}, "term")
    /\ loop' = IF Running(loop.victim) THEN [loop EXCEPT !.at = "enter"]
               ELSE [at |-> "idle", victim |-> 0]
    /\ UNCHANGED <<children, records, reaping, claimed, latch, op, closer>>
EnterNothing ==
    /\ loop.at = "enter"
    /\ loop' = [at |-> "idle", victim |-> 0]
    /\ UNCHANGED <<children, signal, records, reaping, claimed, latch, op, closer>>
Enter ==
    /\ loop.at = "enter"
    /\ reaping' = reaping \union {loop.victim}
    /\ loop' = [at |-> "idle", victim |-> 0]
    /\ UNCHANGED <<children, signal, records, claimed, latch, op, closer>>

-----------------------------------------------------------------------------
(* stop_all in the teardown's thread, and retarget once it returned.       *)

StopAll ==
    /\ closer.at = "idle" /\ generation < MaxTeardowns
    /\ closed' = TRUE /\ generation' = generation + 1
    /\ Unlist(listed) /\ reaping' = {}
    /\ closer' = [at |-> "terminate",
                  victims |-> {p \in {proc[r] : r \in listed} \union reaping : Running(p)}]
    /\ UNCHANGED <<child, where, said, signal, count, claimed, context, op, loop>>

\* What was being reaped has its signal already.
TerminateAll ==
    /\ closer.at = "terminate"
    /\ Send({p \in closer.victims : signal[p] = "none"}, "term")
    /\ closer' = [closer EXCEPT !.at = "drain"]
    /\ UNCHANGED <<children, records, reaping, claimed, latch, op, loop>>

\* The shared grace deadline.
KillAll ==
    /\ closer.at = "drain" /\ \E p \in closer.victims : Running(p)
    /\ Send(closer.victims, "kill")
    /\ closer' = [closer EXCEPT !.at = "killed"]
    /\ UNCHANGED <<children, records, reaping, claimed, latch, op, loop>>

Return ==
    /\ \/ closer.at = "killed"
       \/ closer.at = "drain" /\ \A p \in closer.victims : ~Running(p)
    /\ closer' = [at |-> "returned", victims |-> {}]
    /\ UNCHANGED <<children, signal, records, reaping, claimed, latch, op, loop>>

\* `:ctx` adopted a context; the exit of the app never does.
Retarget(c) ==
    /\ closer.at = "returned"
    /\ context' = c /\ closed' = FALSE
    /\ closer' = [closer EXCEPT !.at = "idle"]
    /\ UNCHANGED <<children, signal, records, reaping, claimed, generation, op, loop>>

-----------------------------------------------------------------------------

Step(w) ==
    \/ ClaimRefused(w) \/ Claim(w) \/ HolderStuck(w)
    \/ \E p \in Children : KillHolder(w, p) \/ HolderGone(w, p) \/ Spawn(w, p)
    \/ SpawnFails(w) \/ Register(w) \/ Swap(w) \/ Reject(w) \/ Discard(w)

Next ==
    \/ \E p \in Children : Closes(p) \/ Exits(p) \/ Reads(p) \/ ReadsEof(p)
    \/ \E late \in SUBSET reaping :
         \/ Refresh(late)
         \/ \E w \in Workers, n \in Ports : Start(w, n, late)
         \/ \E w \in Workers, r \in Ids : Reattach(w, r, late)
    \/ \E r \in Ids : WaitReadyPolls(r) \/ Stop(r) \/ FailStart(r)
    \/ \E w \in Workers : Step(w)
    \/ Signal \/ Enter
    \/ StopAll \/ TerminateAll \/ KillAll \/ Return
    \/ \E c \in Contexts : Retarget(c)

Spec == Init /\ [][Next]_vars

\* The poll interval refreshes for as long as the app runs, threads run on, and a
\* killed child exits (each child once: one condition for all of them starves none).
Dies == \E p \in Children : Exits(p) \/ (signal[p] = "kill" /\ Closes(p))
Fairness ==
    /\ WF_vars(Refresh(reaping))
    /\ \A w \in Workers : WF_vars(Step(w))
    /\ WF_vars(Signal \/ Enter)
    /\ WF_vars(TerminateAll \/ KillAll \/ Return)
    /\ WF_vars(Dies)

FairSpec == Spec /\ Fairness

-----------------------------------------------------------------------------
(* Properties.                                                             *)

\* No kubectl child is lost: until it is killed or gone, a record, the reaping
\* list or an operation that has not finished holds on to it.
InHand(p) ==
    \/ \E w \in Workers : p \in op[w].holders \union {op[w].child}
    \/ loop.victim = p \/ p \in closer.victims
NoOrphan ==
    \A p \in Children :
        Running(p) /\ signal[p] # "kill" =>
            p \in reaping \/ InHand(p) \/ \E r \in listed : proc[r] = p

\* The list tells the truth: a forward that it does not show as broken was not signalled
\* (an abort, a reclaim of its port or a stale confirmation never puts a replacement
\* down) and has its port to itself (concurrent starts and re-attaches cannot both get
\* past the check), and "alive" was said by the child that the record has now.
ListIsTrue ==
    \A r \in listed :
        /\ status[r] # "broken" =>
             /\ signal[proc[r]] = "none"
             /\ \A q \in listed \ {r} :
                  status[q] # "broken" => where[proc[r]].port # where[proc[q]].port
        /\ status[r] = "alive" => proc[r] \in said

\* A listed forward runs against the current context, and none is listed between a
\* teardown and the retarget: a spawn that was in flight across a teardown is not
\* adopted by the closed registry, nor by the reopened one.
OnCurrentContext == \A r \in listed : ~closed /\ where[proc[r]].context = context

\* A stopped child is gone in the end, even if it ignores SIGTERM (so all of them, as they
\* are bounded); a claim on a port is given up again, whatever becomes of the spawn.
Lingers == \E p \in Children : Running(p) /\ signal[p] = "term"
NothingLingers ==
    /\ Lingers ~> ~Lingers
    /\ \A n \in Ports : n \in claimed ~> n \notin claimed
=============================================================================
