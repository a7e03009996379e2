------------------------------- MODULE AuditLog -------------------------------
(***************************************************************************)
(* core/audit.py under ui/write_coordinator.py: sessions (processes) that  *)
(* share one log, each write's intent and outcome appended by a thread     *)
(* that outlives its cancelled worker, rotation, torn lines and their      *)
(* repair, and crashes: a killed session, or a power cut that keeps only   *)
(* what was synced.  Directory changes reach the disk in their order, as   *)
(* on a journaling file system; the log's directory exists.                *)
(***************************************************************************)
EXTENDS Naturals, Sequences, SequencesExt, FiniteSets, TLC

CONSTANTS
    None,         \* no writer
    Sessions,     \* korvid processes that share the log
    WritesEach,   \* bound: writes of each
    Contexts,     \* kube contexts
    Capacity,     \* max_bytes, in lines
    Backups,      \* backups
    MaxCrashes    \* bound: kills and power cuts

ASSUME AuditAssumption ==
    /\ IsFiniteSet(Sessions) /\ None \notin Sessions \X Nat /\ Contexts # {} /\ WritesEach \in Nat
    /\ Capacity \in Nat \ {0} /\ Backups \in Nat \ {0} /\ MaxCrashes \in Nat

Writers  == Sessions \X (1 .. WritesEach)
SessionOf(w) == w[1]
Records  == Writers \X {"intent", "outcome"} \X Contexts
Slots    == 0 .. Backups               \* audit.jsonl, audit.jsonl.1, ...
Files    == 1 .. 2 * Cardinality(Writers)   \* inodes: one for each append; 0 is no file

VARIABLES
    dir,       \* the file of each slot
    older,     \* the directories a power cut may bring back: those since its last sync
    lines,     \* each file: records, whole (with newline), bare (without), part, or junk
    synced,    \* how many lines of it are durable
    holder,    \* the writer whose thread has the locks
    thread,    \* the append of each write
    worker,    \* what each write is at
    target,    \* the context it runs on
    context,   \* set_context of each session
    mutated,   \* the writes that changed their cluster
    acked,     \* the records whose append returned
    retired,   \* the ones in files that rotation unlinked
    crashes

disk  == <<dir, older, lines, synced>>
tasks == <<worker, target, context, mutated>>
ghost == <<acked, retired, crashes>>
vars  == <<disk, holder, thread, tasks, ghost>>

Some == CHOOSE c \in Contexts : TRUE
NoAppend == [at |-> "none", record |-> <<>>, slot |-> 0]

Init ==
    /\ dir = [i \in Slots |-> 0] /\ older = {}
    /\ lines = [f \in Files |-> <<>>] /\ synced = [f \in Files |-> 0]
    /\ holder = None
    /\ thread = [w \in Writers |-> NoAppend]
    /\ worker = [w \in Writers |-> "idle"]
    /\ target = [w \in Writers |-> Some] /\ context = [s \in Sessions |-> Some]
    /\ mutated = {} /\ acked = {} /\ retired = {} /\ crashes = 0

TypeOK ==
    /\ dir \in [Slots -> {0} \union Files] /\ older \subseteq [Slots -> {0} \union Files]
    /\ \A f \in Files : /\ synced[f] \in 0 .. Len(lines[f])
                        /\ \A l \in ToSet(lines[f]) :
                              /\ l.record \in Records
                              /\ l.form \in {"whole", "bare", "part", "junk"}
    /\ holder \in Writers \union {None}
    /\ \A w \in Writers :
          /\ thread[w].at \in {"none", "queued", "waiting", "rotate", "repair", "write",
                               "fsync", "syncdir", "ok", "failed"}
          /\ thread[w].slot \in Slots
    /\ worker \in [Writers -> {"idle", "intent", "mutating", "outcome", "done"}]
    /\ target \in [Writers -> Contexts] /\ context \in [Sessions -> Contexts]
    /\ mutated \subseteq Writers /\ acked \union retired \subseteq Records
    /\ crashes \in 0 .. MaxCrashes

-----------------------------------------------------------------------------
(* The write that is audited: WriteCoordinator._run_write_inner.           *)

\* asyncio.to_thread: queued in the executor.
Submit(w, phase) == thread' = [thread EXCEPT ![w] = [at |-> "queued", record |-> <<w, phase>>, slot |-> 0]]

\* Reserved from here to its end: the session is not retargeted meanwhile.
Begin(w) ==
    /\ worker[w] = "idle"
    /\ worker' = [worker EXCEPT ![w] = "intent"]
    /\ target' = [target EXCEPT ![w] = context[SessionOf(w)]]
    /\ Submit(w, "intent")
    /\ UNCHANGED <<disk, holder, context, mutated, ghost>>

\* The awaited append returned, or raised, which blocks the mutation.
Answered(w, phase, at) == worker[w] = phase /\ thread[w].at = at
IntentReturns(w) ==
    /\ \/ Answered(w, "intent", "ok")     /\ worker' = [worker EXCEPT ![w] = "mutating"]
       \/ Answered(w, "intent", "failed") /\ worker' = [worker EXCEPT ![w] = "done"]
    /\ thread' = [thread EXCEPT ![w] = NoAppend]
    /\ UNCHANGED <<disk, holder, target, context, mutated, ghost>>

\* The API server answers, with or without the mutation.
Mutates(w) ==
    /\ worker[w] = "mutating"
    /\ mutated' = mutated \union {w} \/ UNCHANGED mutated
    /\ worker' = [worker EXCEPT ![w] = "outcome"]
    /\ Submit(w, "outcome")
    /\ UNCHANGED <<disk, holder, target, context, ghost>>

\* A failed outcome record is reported, and the write stands.
OutcomeReturns(w) ==
    /\ \E at \in {"ok", "failed"} : Answered(w, "outcome", at)
    /\ worker' = [worker EXCEPT ![w] = "done"]
    /\ thread' = [thread EXCEPT ![w] = NoAppend]
    /\ UNCHANGED <<disk, holder, target, context, mutated, ghost>>

\* The worker is cancelled at its await: an append that has not started never will, one
\* that has goes on, and a request under way may still land.
Cancel(w) ==
    /\ worker[w] \in {"intent", "mutating", "outcome"}
    /\ worker' = [worker EXCEPT ![w] = "done"]
    /\ thread' = [thread EXCEPT ![w] = IF @.at \in {"queued", "ok", "failed"} THEN NoAppend ELSE @]
    /\ mutated' \in {mutated, mutated \union ({w} \intersect {x \in Writers : worker[x] = "mutating"})}
    /\ UNCHANGED <<disk, holder, target, context, ghost>>

\* `:ctx` re-points the log, which no active write allows.
SetContextAnyway(s, c) ==
    /\ context' = [context EXCEPT ![s] = c]
    /\ UNCHANGED <<disk, holder, thread, worker, target, mutated, ghost>>
SetContext(s, c) ==
    /\ \A w \in Writers : SessionOf(w) = s => worker[w] \in {"idle", "done"}
    /\ context' = [context EXCEPT ![s] = c]
    /\ UNCHANGED <<disk, holder, thread, worker, target, mutated, ghost>>

-----------------------------------------------------------------------------
(* append(), in its thread.                                                *)

At(w, at) == thread[w].at = at /\ (at \in {"queued", "waiting"} \/ holder = w)
Goes(w, at) == thread' = [thread EXCEPT ![w].at = at]

\* Nobody waits for what a cancelled write's append returns.
Ends(w, at) ==
    /\ thread' = [thread EXCEPT ![w] = IF worker[w] = "done" THEN NoAppend ELSE [@ EXCEPT !.at = at]]
    /\ holder' = IF holder = w THEN None ELSE holder

\* The first thing the thread does is to read the ambient context.
Stamp(w) ==
    /\ At(w, "queued")
    /\ thread' = [thread EXCEPT ![w].at = "waiting",
                                ![w].record = Append(@, context[SessionOf(w)])]
    /\ UNCHANGED <<disk, holder, tasks, ghost>>

\* A torn tail is short of a line.
Live == lines[dir[0]]
Full == dir[0] # 0 /\ Len(SelectSeq(Live, LAMBDA l : l.form \in {"whole", "junk"})) >= Capacity

\* The process lock, then the lock file.
Lock(w) ==
    /\ At(w, "waiting") /\ holder = None
    /\ holder' = w
    /\ thread' = [thread EXCEPT ![w].at = IF Full THEN "rotate" ELSE "repair", ![w].slot = Backups]
    /\ UNCHANGED <<disk, tasks, ghost>>

Names(d) == {d[i] : i \in Slots}
Linked(d, of, gone) == [f \in Files |-> IF f \in Names(d) THEN of[f] ELSE gone]   \* no name, no file

\* A directory change is not durable yet.
Become(d) == dir' = d /\ older' = older \union {dir}

\* _rotate_if_needed: the oldest is unlinked, the others move up, the live one last.
Whole(f) == {l.record : l \in {m \in ToSet(lines[f]) : m.form = "whole"}}
Rotate(w) ==
    LET k == thread[w].slot IN
    /\ At(w, "rotate")
    /\ IF k = Backups
         THEN /\ Become([dir EXCEPT ![k] = 0])
              /\ retired' = retired \union (IF dir[k] = 0 THEN {} ELSE Whole(dir[k]))
         ELSE Become([dir EXCEPT ![k + 1] = dir[k], ![k] = 0]) /\ UNCHANGED retired
    /\ thread' = [thread EXCEPT ![w].at = IF k = 0 THEN "repair" ELSE @,
                                ![w].slot = IF k = 0 THEN 0 ELSE k - 1]
    /\ UNCHANGED <<lines, synced, holder, tasks, acked, crashes>>

\* _repair_torn_tail: a newline, synced.
Terminated(l) == [l EXCEPT !.form = CASE @ = "bare" -> "whole" [] @ = "part" -> "junk" [] OTHER -> @]
RepairNothing(w) == At(w, "repair") /\ Goes(w, "write") /\ UNCHANGED <<disk, holder, tasks, ghost>>
Repair(w) ==
    /\ At(w, "repair") /\ Goes(w, "write")
    /\ IF dir[0] = 0 \/ Live = <<>> \/ Last(Live).form \in {"whole", "junk"}
         THEN UNCHANGED <<lines, synced>>
         ELSE /\ lines' = [lines EXCEPT ![dir[0]] = Append(Front(@), Terminated(Last(@)))]
              /\ synced' = [synced EXCEPT ![dir[0]] = Len(Live)]
    /\ UNCHANGED <<dir, older, holder, tasks, ghost>>

\* The line is glued to what an unterminated one left.
Add(old, r, form) ==
    IF old # <<>> /\ Last(old).form \in {"bare", "part"}
    THEN Append(Front(old), [record |-> r, form |-> IF form = "whole" THEN "junk" ELSE "part"])
    ELSE Append(old, [record |-> r, form |-> form])

\* The file is opened, or created, and the line written: all of it, or, on a full disk,
\* a part.
Named == UNION {Names(d) : d \in older \union {dir}}
New   == CHOOSE f \in Files : f \notin Named
Put(r, form) ==
    IF dir[0] # 0
    THEN /\ lines' = [lines EXCEPT ![dir[0]] = Add(@, r, form)]
         /\ UNCHANGED <<dir, older, synced>>
    ELSE /\ Become([dir EXCEPT ![0] = New])
         /\ lines' = [lines EXCEPT ![New] = Add(<<>>, r, form)]
         /\ synced' = [synced EXCEPT ![New] = 0]
Write(w) ==
    /\ At(w, "write")
    /\ \/ Put(thread[w].record, "whole") /\ Goes(w, "fsync") /\ UNCHANGED holder
       \/ \E form \in {"bare", "part"} :
            Put(thread[w].record, form) /\ Ends(w, "failed")
    /\ UNCHANGED <<tasks, ghost>>

Fsync(w) ==
    /\ At(w, "fsync") /\ Goes(w, "syncdir")
    /\ synced' = [synced EXCEPT ![dir[0]] = Len(Live)]
    /\ UNCHANGED <<dir, older, lines, holder, tasks, ghost>>

\* The directory too, and append returns.
SyncDirNever(w) ==
    /\ At(w, "syncdir") /\ Ends(w, "ok")
    /\ acked' = acked \union {thread[w].record}
    /\ UNCHANGED <<disk, tasks, retired, crashes>>
SyncDir(w) ==
    /\ At(w, "syncdir") /\ Ends(w, "ok")
    /\ older' = {}
    /\ acked' = acked \union {thread[w].record}
    /\ lines' = Linked(dir, lines, <<>>) /\ synced' = Linked(dir, synced, 0)
    /\ UNCHANGED <<dir, tasks, retired, crashes>>

\* Whatever the file system refuses, the append raises.
Raises(w) ==
    /\ \E at \in {"waiting", "rotate", "repair", "write", "fsync", "syncdir"} : At(w, at)
    /\ Ends(w, "failed")
    /\ UNCHANGED <<disk, tasks, ghost>>

-----------------------------------------------------------------------------
(* Crashes.                                                                *)

Die(ws) ==
    /\ crashes < MaxCrashes /\ crashes' = crashes + 1
    /\ thread' = [w \in Writers |-> IF w \in ws THEN NoAppend ELSE thread[w]]
    /\ worker' = [w \in Writers |-> IF w \in ws /\ worker[w] # "idle" THEN "done" ELSE worker[w]]
    /\ holder' = IF holder \in ws THEN None ELSE holder
    /\ mutated' \in {mutated, mutated \union {w \in ws : worker[w] = "mutating"}}
    /\ UNCHANGED <<target, context, acked, retired>>

\* A session is killed, perhaps in the middle of its write.
Kill(s) ==
    LET ws == {w \in Writers : SessionOf(w) = s} IN
    /\ Die(ws)
    /\ \/ UNCHANGED disk
       \/ \E w \in ws, form \in {"bare", "part", "whole"} : At(w, "write") /\ Put(thread[w].record, form)

\* The machine stops: what was not synced may be lost, or cut anywhere.
Torn(f) ==
    LET kept(n) == SubSeq(lines[f], 1, n)
        cut(n)  == {Append(kept(n), [lines[f][n + 1] EXCEPT !.form = form]) : form \in {"bare", "part"}}
    IN  {lines[f]} \union UNION {{kept(n)} \union cut(n) : n \in synced[f] .. Len(lines[f]) - 1}
PowerCut ==
    /\ Die(Writers)
    /\ dir' \in older \union {dir}
    /\ older' = {}
    /\ LET unsynced == {f \in Files : synced[f] < Len(lines[f])} IN
       \E left \in [unsynced -> UNION {Torn(f) : f \in unsynced}] :
          /\ \A f \in unsynced : left[f] \in Torn(f)
          /\ lines' = Linked(dir', [f \in Files |-> IF f \in unsynced THEN left[f] ELSE lines[f]], <<>>)
          /\ synced' = [f \in Files |-> Len(lines'[f])]

Next ==
    \/ \E w \in Writers :
         \/ Begin(w) \/ IntentReturns(w) \/ Mutates(w) \/ OutcomeReturns(w) \/ Cancel(w)
         \/ Stamp(w) \/ Lock(w) \/ Rotate(w) \/ Repair(w) \/ Write(w) \/ Fsync(w) \/ SyncDir(w)
         \/ Raises(w)
    \/ \E s \in Sessions : Kill(s) \/ \E c \in Contexts : SetContext(s, c)
    \/ PowerCut

Spec == Init /\ [][Next]_vars

-----------------------------------------------------------------------------
(* Properties.                                                             *)

\* Every crash that may come now leaves the record a whole line of some file.
Survives(r) ==
    \A d \in older \union {dir} : \E i \in Slots :
        d[i] # 0 /\ \E n \in 1 .. synced[d[i]] : lines[d[i]][n] = [record |-> r, form |-> "whole"]

\* A cluster is changed only on the record: the intent of every write that landed, like
\* every record whose append returned, survives a kill or a power cut at any moment as a
\* whole line, until rotation retires it; and every record names the context its write ran
\* on, even when its thread outlives the worker and the session moves on.
OnRecord ==
    /\ \A r \in acked \union {<<w, "intent", target[w]>> : w \in mutated} :
         r \in retired \/ Survives(r)
    /\ \A f \in Files : \A l \in ToSet(lines[f]) :
         l.form = "whole" => l.record[3] = target[l.record[1]]

\* Read from the oldest backup to the live file, the log is the abstract trail: the
\* acknowledged records in their order, of which crashes lose none.
Reading == LET from[i \in Slots] == (IF dir[i] = 0 THEN <<>> ELSE lines[dir[i]])
                                     \o (IF i = 0 THEN <<>> ELSE from[i - 1])
           IN  from[Backups]
OnFile  == LET live == acked \ retired
               good(l) == l.form = "whole" /\ l.record \in live
               kept == SelectSeq(Reading, good)
           IN  [n \in DOMAIN kept |-> kept[n].record]
Trail == INSTANCE AuditTrail WITH trail <- OnFile
ImplementsTrail == Trail!Spec
==============================================================================
