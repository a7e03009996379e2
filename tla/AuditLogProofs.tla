---------------------------- MODULE AuditLogProofs ----------------------------
(***************************************************************************)
(* The audit trail.  First the log: OnRecord, for any sessions, writes,    *)
(* capacity and backups, under any number of kills and power cuts.  Then   *)
(* the queue of the forwards in front of it: StopsAreAudited and           *)
(* EntryNamesItsCluster, for any forwards, re-attaches and switches.       *)
(***************************************************************************)
EXTENDS MCTrails, SequenceTheorems, FiniteSetTheorems, TLAPS

(***************************************************************************)
(* The inductive invariant.                                                *)
(***************************************************************************)
Phases  == {"intent", "outcome"}
Dirs    == [Slots -> {0} \union Files]
Line    == [record : Records, form : {"whole", "bare", "part", "junk"}]
Locked  == {"rotate", "repair", "write", "fsync", "syncdir"}
Appends == [at : {"none", "queued", "waiting", "ok", "failed"} \union Locked,
            record : {<<>>} \union (Writers \X Phases) \union Records, slot : Slots]

DiskOK ==
    /\ dir \in Dirs /\ older \subseteq Dirs
    /\ lines \in [Files -> Seq(Line)]
    /\ synced \in [Files -> Nat] /\ \A f \in Files : synced[f] <= Len(lines[f])

Types ==
    /\ DiskOK
    /\ holder \in Writers \union {None}
    /\ thread \in [Writers -> Appends]
    /\ worker \in [Writers -> {"idle", "intent", "mutating", "outcome", "done"}]
    /\ target \in [Writers -> Contexts] /\ context \in [Sessions -> Contexts]
    /\ mutated \subseteq Writers /\ acked \subseteq Records /\ retired \subseteq Records
    /\ crashes \in 0 .. MaxCrashes

\* A write waits for its append, or has none; one that runs on after its worker was
\* cancelled has its stamp, and nobody waits for what it returns.
ThreadOK(w) ==
    /\ worker[w] \in {"idle", "mutating"} => thread[w].at = "none"
    /\ worker[w] \in Phases => thread[w].at # "none"
    /\ thread[w].at \in {"queued", "ok", "failed"} => worker[w] \in Phases
    /\ thread[w].at = "queued" => thread[w].record = <<w, worker[w]>>
    /\ thread[w].at \notin {"none", "queued"} =>
          \E phase \in Phases : /\ thread[w].record = <<w, phase, target[w]>>
                                /\ worker[w] \in {phase, "done"}

\* A session is not retargeted under a write.
ContextOK(w) == worker[w] \notin {"idle", "done"} => context[SessionOf(w)] = target[w]

\* No mutation without its intent acknowledged.
AckOK(w) ==
    /\ thread[w].at = "ok" => thread[w].record \in acked
    /\ worker[w] = "mutating" \/ w \in mutated => <<w, "intent", target[w]>> \in acked
    /\ worker[w] = "idle" => w \notin mutated

TaskOK(w) == ThreadOK(w) /\ ContextOK(w) /\ AckOK(w)
TaskInv   == \A w \in Writers : TaskOK(w)

\* What the append that has the locks has done so far: emptied the slot it moves the next
\* file to, mended the tail, written its line, synced it.
HeldInv == holder # None =>
    LET own == thread[holder] IN
    /\ own.at \in Locked
    /\ own.at = "rotate" /\ own.slot < Backups => dir[own.slot + 1] = 0
    /\ own.at = "write" /\ dir[0] # 0 /\ Live # <<>> => Live[Len(Live)].form \in {"whole", "junk"}
    /\ own.at \in {"fsync", "syncdir"} =>
          /\ dir[0] # 0 /\ Live # <<>>
          /\ Live[Len(Live)] = [record |-> own.record, form |-> "whole"]
    /\ own.at = "syncdir" => synced[dir[0]] = Len(Live)

\* Every line names the context its write ran on, or still runs on.
LineInv == \A f \in Files : \A n \in 1 .. Len(lines[f]) :
    LET r == lines[f][n].record IN r[3] = target[r[1]] /\ worker[r[1]] # "idle"

\* What was acknowledged survives any crash until it is retired.
KeptInv == \A r \in acked : r \in retired \/ Survives(r)

\* An append that may still write its line; the others made every file there is.
Unwritten(w, phase) ==
    \/ worker[w] = "idle"
    \/ phase = "outcome" /\ worker[w] \in {"intent", "mutating"}
    \/ /\ thread[w].at \in {"queued", "waiting", "rotate", "repair", "write"}
       /\ thread[w].record[2] = phase
Written  == {x \in Writers \X Phases : ~Unwritten(x[1], x[2])}
FilesInv == Cardinality(Named \ {0}) <= Cardinality(Written)

Inv == /\ Types /\ TaskInv /\ HeldInv /\ LineInv /\ KeptInv /\ FilesInv

-----------------------------------------------------------------------------
(* Lines.                                                                  *)

\* Phases and contexts make a stub a record.
LEMMA Stamping ==
  ASSUME NEW w \in Writers, NEW phase \in Phases, NEW c \in Contexts
  PROVE  /\ Append(<<w, phase>>, c) = <<w, phase, c>>
         /\ <<w, phase, c>> \in Records
  <1>1. Append(<<w, phase>>, c) = <<w, phase, c>>
    <2> DEFINE S == {w, phase, c}
               s == <<w, phase>>
               t == <<w, phase, c>>
    <2>1. s \in Seq(S) /\ Len(s) = 2 /\ s[1] = w /\ s[2] = phase /\ c \in S
      OBVIOUS
    <2>2. t \in Seq(S) /\ Len(t) = 3 /\ t[1] = w /\ t[2] = phase /\ t[3] = c
      OBVIOUS
    <2> HIDE DEF S, s, t
    <2>3. /\ Append(s, c) \in Seq(S) /\ Len(Append(s, c)) = 3
          /\ Append(s, c)[1] = w /\ Append(s, c)[2] = phase /\ Append(s, c)[3] = c
      BY <2>1, AppendProperties
    <2>4. \A i \in 1 .. 3 : Append(s, c)[i] = t[i]
      BY <2>2, <2>3
    <2>5. Append(s, c) = t
      BY <2>2, <2>3, <2>4, SeqEqual
    <2>6. QED
      BY <2>5 DEF s, t
  <1>2. <<w, phase, c>> \in Records
    BY DEF Records, Phases
  <1>3. QED
    BY <1>1, <1>2

\* The last line of a log that is not empty is one of its lines.
LEMMA Lasts ==
  ASSUME NEW S, NEW s \in Seq(S), s # <<>>
  PROVE  /\ Len(s) \in Nat \ {0} /\ Last(s) = s[Len(s)] /\ Last(s) \in S
         /\ Front(s) \in Seq(S) /\ Len(Front(s)) = Len(s) - 1
         /\ \A n \in 1 .. Len(s) - 1 : Front(s)[n] = s[n]
  <1>1. Len(s) \in Nat \ {0} /\ \A n \in 1 .. Len(s) : s[n] \in S
    BY EmptySeq, LenProperties, ElementOfSeq
  <1>2. \A n \in 1 .. Len(s) - 1 : s[n] \in S
    BY <1>1
  <1>3. /\ SubSeq(s, 1, Len(s) - 1) \in Seq(S)
        /\ Len(SubSeq(s, 1, Len(s) - 1)) = Len(s) - 1
        /\ \A n \in 1 .. Len(s) - 1 : SubSeq(s, 1, Len(s) - 1)[n] = s[n]
    <2> DEFINE n == Len(s) - 1
               t == SubSeq(s, 1, n)
    <2>1. n \in Nat /\ \A i \in 1 .. n : s[i] \in S
      BY <1>1
    <2> HIDE DEF n
    <2>2. t \in Seq(S) /\ Len(t) = (IF 1 <= n THEN n - 1 + 1 ELSE 0) /\ \A i \in 1 .. n - 1 + 1 : t[i] = s[1 + i - 1]
      BY <2>1, SubSeqProperties
    <2> HIDE DEF t
    <2>3. t \in Seq(S) /\ Len(t) = n /\ \A i \in 1 .. n : t[i] = s[i]
      BY <2>1, <2>2
    <2>4. QED
      BY <2>3 DEF n, t
  <1>4. QED
    BY <1>1, <1>3 DEF Front, Last

\* A line in place of the last one.
LEMMA Relining ==
  ASSUME NEW s \in Seq(Line), s # <<>>, NEW l \in Line
  PROVE  LET t == Append(Front(s), l)
         IN  /\ t \in Seq(Line) /\ Len(t) = Len(s) /\ t[Len(s)] = l
             /\ \A n \in 1 .. Len(s) - 1 : t[n] = s[n]
  <1>1. /\ Len(s) \in Nat \ {0} /\ Front(s) \in Seq(Line) /\ Len(Front(s)) = Len(s) - 1
        /\ \A n \in 1 .. Len(s) - 1 : Front(s)[n] = s[n]
    BY Lasts
  <1> DEFINE u == Front(s)
  <1>2. u \in Seq(Line) /\ Len(u) = Len(s) - 1
    BY <1>1
  <1> HIDE DEF u
  <1>3. /\ Append(u, l) \in Seq(Line) /\ Len(Append(u, l)) = Len(u) + 1
        /\ \A n \in 1 .. Len(u) : Append(u, l)[n] = u[n]
        /\ Append(u, l)[Len(u) + 1] = l
    BY <1>2, AppendProperties
  <1>4. QED
    BY <1>1, <1>2, <1>3 DEF u

\* Whole lines stay what and where they are among the first `k`.
Keep(s, t, k) == k <= Len(t) /\ \A n \in 1 .. k : s[n].form = "whole" => t[n] = s[n]

\* A log whose last line is not short of its newline.
Clean(s) == s = <<>> \/ s[Len(s)].form \in {"whole", "junk"}

\* A line more, or glued to an unterminated one, of which the log had none if it is clean.
LEMMA Adding ==
  ASSUME NEW s \in Seq(Line), NEW r \in Records, NEW form \in {"whole", "bare", "part"}
  PROVE  LET t == Add(s, r, form)
         IN  /\ t \in Seq(Line) /\ t # <<>> /\ Keep(s, t, Len(s))
             /\ \A n \in 1 .. Len(t) :
                   t[n].record = r \/ \E m \in 1 .. Len(s) : t[n].record = s[m].record
             /\ Clean(s) => t[Len(t)] = [record |-> r, form |-> form]
  <1> DEFINE t == Add(s, r, form)
             glued == s # <<>> /\ s[Len(s)].form \in {"bare", "part"}
             l == [record |-> r, form |-> IF form = "whole" THEN "junk" ELSE "part"]
             m == [record |-> r, form |-> form]
  <1>1. l \in Line /\ m \in Line /\ l.record = r /\ m.record = r
    BY DEF Line
  <1>2. Len(s) \in Nat /\ \A n \in 1 .. Len(s) : s[n] \in Line
    BY LenProperties, ElementOfSeq
  <1>3. Clean(s) => ~glued
    BY DEF Clean
  <1>4. t = IF glued THEN Append(Front(s), l) ELSE Append(s, m)
    BY Zenon DEF Add, Last
  <1> HIDE DEF glued
  <1>5. CASE glued
    <2>1. s # <<>> /\ s[Len(s)].form # "whole"
      BY <1>5 DEF glued
    <2>2. t = Append(Front(s), l)
      BY <1>4, <1>5
    <2> HIDE DEF t, l, m
    <2>3. /\ t \in Seq(Line) /\ Len(t) = Len(s) /\ t[Len(s)] = l
          /\ \A n \in 1 .. Len(s) - 1 : t[n] = s[n]
      BY <1>1, <2>1, <2>2, Relining
    <2>4. Len(s) \in Nat \ {0} /\ t # <<>>
      BY <2>1, <2>3, EmptySeq
    <2>5. \A n \in 1 .. Len(s) : n = Len(s) \/ n \in 1 .. Len(s) - 1
      BY <2>4
    <2>6. Keep(s, t, Len(s))
      BY <1>2, <2>1, <2>3, <2>5 DEF Keep
    <2>7. \A n \in 1 .. Len(t) : t[n].record = r \/ \E i \in 1 .. Len(s) : t[n].record = s[i].record
      <3> SUFFICES ASSUME NEW n \in 1 .. Len(s)
                   PROVE  t[n].record = r \/ \E i \in 1 .. Len(s) : t[n].record = s[i].record
        BY <2>3
      <3>1. t[n] = l \/ t[n] = s[n]
        BY <2>3, <2>5
      <3>2. QED
        BY <1>1, <3>1
    <2>8. QED
      BY <1>3, <1>5, <2>3, <2>4, <2>6, <2>7 DEF t
  <1>6. CASE ~glued
    <2>1. t = Append(s, m)
      BY <1>4, <1>6
    <2> HIDE DEF t
    <2> USE DEF Keep
    <2>2. /\ t \in Seq(Line) /\ Len(t) = Len(s) + 1 /\ t[Len(s) + 1] = m
          /\ \A n \in 1 .. Len(s) : t[n] = s[n]
      <3> HIDE DEF m, Keep
      <3>1. QED
        BY <1>1, <2>1, AppendProperties
    <2>3. t # <<>>
      BY <1>2, <2>2, EmptySeq
    <2>4. Keep(s, t, Len(s))
      <3> HIDE DEF m
      <3>1. QED
        BY <1>2, <2>2
    <2>5. \A n \in 1 .. Len(t) : t[n].record = r \/ \E i \in 1 .. Len(s) : t[n].record = s[i].record
      <3> SUFFICES ASSUME NEW n \in 1 .. Len(t)
                   PROVE  t[n].record = r \/ \E i \in 1 .. Len(s) : t[n].record = s[i].record
        OBVIOUS
      <3> HIDE DEF m, Keep
      <3>1. n \in 1 .. Len(s) \/ n = Len(s) + 1
        BY <1>2, <2>2
      <3>2. QED
        BY <1>1, <2>2, <3>1
    <2>6. QED
      BY <2>2, <2>3, <2>4, <2>5 DEF t
  <1>7. QED
    BY <1>5, <1>6

\* The mended tail ends with a newline, and whole lines are not touched.
LEMMA Mending ==
  ASSUME NEW s \in Seq(Line), s # <<>>
  PROVE  LET t == Append(Front(s), Terminated(Last(s)))
         IN  /\ t \in Seq(Line) /\ Len(t) = Len(s) /\ t # <<>> /\ Keep(s, t, Len(s)) /\ Clean(t)
             /\ \A n \in 1 .. Len(t) : t[n].record = s[n].record
  <1> DEFINE l == Last(s)
             m == Terminated(l)
             t == Append(Front(s), m)
  <1>1. Len(s) \in Nat \ {0} /\ l = s[Len(s)] /\ l \in Line
    BY Lasts
  <1>2. /\ m \in Line /\ m.record = l.record /\ m.form \in {"whole", "junk"}
        /\ l.form = "whole" => m = l
    <2> HIDE DEF l
    <2>1. QED
      BY <1>1 DEF Terminated, Line
  <1> HIDE DEF l, m
  <1>3. /\ t \in Seq(Line) /\ Len(t) = Len(s) /\ t[Len(s)] = m
        /\ \A n \in 1 .. Len(s) - 1 : t[n] = s[n]
    BY <1>2, Relining
  <1> HIDE DEF t
  <1>4. \A n \in 1 .. Len(s) : n = Len(s) \/ n \in 1 .. Len(s) - 1
    BY <1>1
  <1>5. t # <<>>
    BY <1>1, <1>3, EmptySeq
  <1>6. \A n \in 1 .. Len(s) : (s[n].form = "whole" => t[n] = s[n]) /\ t[n].record = s[n].record
    BY <1>1, <1>2, <1>3, <1>4
  <1>7. Keep(s, t, Len(s)) /\ Clean(t)
    BY <1>1, <1>2, <1>3, <1>6 DEF Keep, Clean
  <1>8. QED
    BY <1>3, <1>5, <1>6, <1>7 DEF t, l, m

\* A power cut leaves what was synced, and of the rest a beginning.
LEMMA Tearing ==
  ASSUME DiskOK, NEW f \in Files, NEW t \in Torn(f)
  PROVE  /\ t \in Seq(Line) /\ Keep(lines[f], t, synced[f])
         /\ \A n \in 1 .. Len(t) : \E m \in 1 .. Len(lines[f]) : t[n].record = lines[f][m].record
  <1> DEFINE s == lines[f]
             k == synced[f]
  <1>1. s \in Seq(Line) /\ k \in Nat /\ k <= Len(s)
    BY DEF DiskOK
  <1>2. Len(s) \in Nat /\ \A n \in 1 .. Len(s) : s[n] \in Line
    BY <1>1, LenProperties, ElementOfSeq
  <1>3. CASE t = s
    BY <1>1, <1>2, <1>3 DEF Keep
  <1>4. CASE t # s
    <2>1. PICK n \in k .. Len(s) - 1 :
             \/ t = SubSeq(s, 1, n)
             \/ \E form \in {"bare", "part"} :
                  t = Append(SubSeq(s, 1, n), [s[n + 1] EXCEPT !.form = form])
      BY <1>4 DEF Torn
    <2> HIDE DEF s, k
    <2> DEFINE u == SubSeq(s, 1, n)
    <2>2. n \in Nat /\ n + 1 \in 1 .. Len(s) /\ k <= n /\ \A i \in 1 .. n : s[i] \in Line
      BY <1>1, <1>2, <2>1
    <2>3. u \in Seq(Line) /\ Len(u) = n /\ \A i \in 1 .. n : u[i] = s[i]
      <3>1. /\ u \in Seq(Line) /\ Len(u) = (IF 1 <= n THEN n - 1 + 1 ELSE 0)
            /\ \A i \in 1 .. n - 1 + 1 : u[i] = s[1 + i - 1]
        BY <2>2, SubSeqProperties
      <3> HIDE DEF u
      <3>2. QED
        BY <2>2, <3>1
    <2>4. t = u \/ \E form \in {"bare", "part"} : t = Append(u, [s[n + 1] EXCEPT !.form = form])
      BY <2>1
    <2> HIDE DEF u
    <2>5. CASE t = u
      <3>1. \A i \in 1 .. k : i \in 1 .. n
        BY <1>1, <2>2
      <3>2. \A i \in 1 .. n : i \in 1 .. Len(s)
        BY <1>2, <2>2
      <3>3. QED
        BY <1>1, <2>2, <2>3, <2>5, <3>1, <3>2 DEF s, k, Keep
    <2>6. CASE t # u
      <3>1. PICK form \in {"bare", "part"} : t = Append(u, [s[n + 1] EXCEPT !.form = form])
        BY <2>4, <2>6
      <3> DEFINE l == [s[n + 1] EXCEPT !.form = form]
      <3>2. l \in Line /\ l.record = s[n + 1].record
        BY <1>2, <2>2 DEF Line
      <3> HIDE DEF l
      <3>3. t = Append(u, l)
        BY <3>1 DEF l
      <3>4. /\ t \in Seq(Line) /\ Len(t) = n + 1 /\ t[n + 1] = l
            /\ \A i \in 1 .. n : t[i] = s[i]
        BY <2>3, <3>2, <3>3, AppendProperties
      <3>5. \A i \in 1 .. k : i \in 1 .. n
        BY <1>1, <2>2
      <3>6. \A i \in 1 .. n + 1 : i \in 1 .. Len(s) /\ (i \in 1 .. n \/ i = n + 1)
        BY <1>2, <2>2
      <3>7. k <= n + 1
        BY <1>1, <2>2
      <3>8. QED
        BY <3>2, <3>4, <3>5, <3>6, <3>7 DEF s, k, Keep
    <2>7. QED
      BY <2>5, <2>6
  <1>5. QED
    BY <1>3, <1>4

-----------------------------------------------------------------------------
(* Files.                                                                  *)

\* A file keeps its durable lines.
Lasting(f) == synced[f] <= synced'[f] /\ Keep(lines[f], lines'[f], synced[f])

\* A record survives a step that leaves each directory the files of one there was.
LEMMA Surviving ==
  ASSUME DiskOK, DiskOK', NEW r, Survives(r),
         \A e \in older' \union {dir'} : \E d \in older \union {dir} :
            \A i \in Slots : d[i] # 0 => Lasting(d[i]) /\ \E j \in Slots : e[j] = d[i]
  PROVE  Survives(r)'
  <1> SUFFICES ASSUME NEW e \in older' \union {dir'}
               PROVE  \E j \in Slots :
                         e[j] # 0 /\ \E n \in 1 .. synced'[e[j]] :
                                        lines'[e[j]][n] = [record |-> r, form |-> "whole"]
    BY DEF Survives
  <1>1. PICK d \in older \union {dir} :
           \A i \in Slots : d[i] # 0 => Lasting(d[i]) /\ \E j \in Slots : e[j] = d[i]
    OBVIOUS
  <1>2. PICK i \in Slots : d[i] # 0 /\ \E n \in 1 .. synced[d[i]] :
                              lines[d[i]][n] = [record |-> r, form |-> "whole"]
    BY DEF Survives
  <1>3. PICK n \in 1 .. synced[d[i]] : lines[d[i]][n] = [record |-> r, form |-> "whole"]
    BY <1>2
  <1>4. PICK j \in Slots : e[j] = d[i]
    BY <1>1, <1>2
  <1> DEFINE f == d[i]
  <1>5. f \in Files /\ synced[f] \in Nat /\ synced'[f] \in Nat
    BY <1>2 DEF DiskOK, Dirs
  <1>6. synced[f] <= synced'[f] /\ \A m \in 1 .. synced[f] : lines[f][m].form = "whole" => lines'[f][m] = lines[f][m]
    BY <1>1, <1>2 DEF Lasting, Keep
  <1>7. lines'[f][n] = [record |-> r, form |-> "whole"]
    BY <1>3, <1>6
  <1> HIDE DEF f
  <1>8. n \in Nat /\ n <= synced[f] /\ 1 <= n
    BY <1>3, <1>5 DEF f
  <1>9. n \in 1 .. synced'[f]
    BY <1>5, <1>6, <1>8
  <1>10. QED
    BY <1>2, <1>4, <1>7, <1>9 DEF f

\* There are as many files as appends.
LEMMA Counts ==
  /\ IsFiniteSet(Writers \X Phases) /\ IsFiniteSet(Files) /\ 0 \notin Files
  /\ Cardinality(Files) = Cardinality(Writers \X Phases)
  <1>1. IsFiniteSet(1 .. WritesEach)
    BY AuditAssumption, FS_Interval
  <1>2. IsFiniteSet(Writers)
    BY <1>1, AuditAssumption, FS_Product DEF Writers
  <1>3. IsFiniteSet(Phases) /\ Cardinality(Phases) = 2
    <2>1. "intent" # "outcome"
      OBVIOUS
    <2>2. IsFiniteSet({"intent"}) /\ Cardinality({"intent"}) = 1
      BY FS_Singleton
    <2>3. /\ IsFiniteSet({"intent"} \union {"outcome"})
          /\ Cardinality({"intent"} \union {"outcome"}) = 2
      BY <2>1, <2>2, FS_AddElement
    <2>4. Phases = {"intent"} \union {"outcome"}
      BY DEF Phases
    <2>5. QED
      BY <2>3, <2>4
  <1>4. /\ IsFiniteSet(Writers \X Phases)
        /\ Cardinality(Writers \X Phases) = Cardinality(Writers) * Cardinality(Phases)
    BY <1>2, <1>3, FS_Product
  <1>5. Cardinality(Writers) \in Nat
    BY <1>2, FS_CardinalityType
  <1> DEFINE n == Cardinality(Writers)
  <1>6. 2 * n \in Nat /\ n * 2 = 2 * n
    BY <1>5
  <1>7. IsFiniteSet(1 .. 2 * n) /\ Cardinality(1 .. 2 * n) = 2 * n /\ 0 \notin 1 .. 2 * n
    <2> DEFINE m == 2 * n
    <2>1. m \in Nat
      BY <1>6
    <2> HIDE DEF m
    <2>2. IsFiniteSet(1 .. m) /\ Cardinality(1 .. m) = IF 1 > m THEN 0 ELSE m - 1 + 1
      BY <2>1, FS_Interval
    <2>3. IsFiniteSet(1 .. m) /\ Cardinality(1 .. m) = m /\ 0 \notin 1 .. m
      BY <2>1, <2>2
    <2>4. QED
      BY <2>3 DEF m
  <1>8. QED
    BY <1>3, <1>4, <1>6, <1>7 DEF Files

\* What can be found on the disk, now or after a power cut, are files.
LEMMA NamedFiles ==
  ASSUME DiskOK
  PROVE  Named \ {0} \subseteq Files /\ IsFiniteSet(Named \ {0})
  <1>1. Named \ {0} \subseteq Files
    BY DEF Named, Names, DiskOK, Dirs
  <1>2. QED
    BY <1>1, Counts, FS_Subset

\* As long as an append has not written there is a file for it that no directory names.
LEMMA Room ==
  ASSUME DiskOK, FilesInv, NEW w \in Writers, NEW phase \in Phases, Unwritten(w, phase)
  PROVE  New \in Files /\ New \notin Named
  <1> DEFINE all == Writers \X Phases
             x == <<w, phase>>
  <1>1. x \in all /\ Written \subseteq all \ {x}
    BY DEF Written
  <1>2. IsFiniteSet(all \ {x}) /\ Cardinality(all \ {x}) = Cardinality(all) - 1
    BY <1>1, Counts, FS_RemoveElement
  <1>3. IsFiniteSet(Written) /\ Cardinality(Written) <= Cardinality(all \ {x})
    BY <1>1, <1>2, FS_Subset
  <1>4. Cardinality(all) \in Nat /\ Cardinality(Written) \in Nat
    BY <1>3, Counts, FS_CardinalityType
  <1>5. IsFiniteSet(Named \ {0}) /\ Cardinality(Named \ {0}) \in Nat
    BY NamedFiles, FS_CardinalityType
  <1>6. Cardinality(Named \ {0}) < Cardinality(Files)
    BY <1>2, <1>3, <1>4, <1>5, Counts DEF FilesInv
  <1>7. ~(Files \subseteq Named \ {0})
    <2> SUFFICES ASSUME Files \subseteq Named \ {0}
                 PROVE  FALSE
      OBVIOUS
    <2>1. Cardinality(Files) <= Cardinality(Named \ {0})
      BY <1>5, FS_Subset
    <2>2. QED
      BY <1>4, <1>5, <1>6, <2>1, Counts
  <1>8. PICK f \in Files : f \notin Named
    BY <1>7, Counts
  <1>9. QED
    BY <1>8, Zenon DEF New

\* A file more needs an append that wrote.
LEMMA Counting ==
  ASSUME DiskOK, DiskOK', FilesInv, Written \subseteq Written',
         \/ Named' \subseteq Named \union {0}
         \/ Written' # Written /\ \E f : Named' \subseteq Named \union {0, f}
  PROVE  FilesInv'
  <1> DEFINE A == Named \ {0}
             B == Named' \ {0}
             P == Written
             Q == Written'
  <1>1. IsFiniteSet(A) /\ Cardinality(A) \in Nat
    BY NamedFiles, FS_CardinalityType
  <1>2. Q \subseteq Writers \X Phases
    BY DEF Written
  <1>3. IsFiniteSet(Q) /\ IsFiniteSet(P) /\ Cardinality(P) <= Cardinality(Q) /\ (Cardinality(P) = Cardinality(Q) => P = Q)
    <2>1. IsFiniteSet(Q)
      BY <1>2, Counts, FS_Subset
    <2>2. QED
      BY <2>1, FS_Subset
  <1>4. Cardinality(P) \in Nat /\ Cardinality(Q) \in Nat /\ Cardinality(A) <= Cardinality(P)
    BY <1>3, FS_CardinalityType DEF FilesInv
  <1>5. CASE Named' \subseteq Named \union {0}
    <2>1. B \subseteq A
      BY <1>5
    <2> HIDE DEF A, B
    <2>2. IsFiniteSet(B) /\ Cardinality(B) <= Cardinality(A) /\ Cardinality(B) \in Nat
      BY <1>1, <2>1, FS_Subset, FS_CardinalityType
    <2> HIDE DEF P, Q
    <2>3. Cardinality(B) <= Cardinality(Q)
      BY <1>1, <1>3, <1>4, <2>2
    <2>4. QED
      BY <2>3 DEF B, Q, FilesInv
  <1>6. CASE Written' # Written /\ \E f : Named' \subseteq Named \union {0, f}
    <2>1. PICK f : Named' \subseteq Named \union {0, f}
      BY <1>6
    <2>2. B \subseteq A \union {f} /\ P # Q
      BY <1>6, <2>1
    <2> HIDE DEF A, B, P, Q
    <2>3. IsFiniteSet(A \union {f}) /\ Cardinality(A \union {f}) \in Nat /\ Cardinality(A \union {f}) <= Cardinality(A) + 1
      <3>1. IsFiniteSet(A \union {f}) /\ Cardinality(A \union {f}) = IF f \in A THEN Cardinality(A) ELSE Cardinality(A) + 1
        BY <1>1, FS_AddElement
      <3>2. QED
        BY <1>1, <3>1
    <2>4. IsFiniteSet(B) /\ Cardinality(B) <= Cardinality(A \union {f}) /\ Cardinality(B) \in Nat
      BY <2>2, <2>3, FS_Subset, FS_CardinalityType
    <2>5. Cardinality(P) < Cardinality(Q)
      BY <1>3, <1>4, <2>2
    <2>6. Cardinality(B) <= Cardinality(Q)
      BY <1>1, <1>4, <2>3, <2>4, <2>5
    <2>7. QED
      BY <2>6 DEF B, Q, FilesInv
  <1>7. QED
    BY <1>5, <1>6

-----------------------------------------------------------------------------
(* Writes and their appends.                                               *)

\* A write that began keeps its target and stays begun.
Steady == \A w \in Writers : worker[w] # "idle" => worker'[w] # "idle" /\ target'[w] = target[w]

\* After the step, record `r` is about a write that began, on the context it runs on.
Lawful(r) == r[3] = target'[r[1]] /\ worker'[r[1]] # "idle"

\* A task that nothing touches stays in order.
LEMMA SameTask ==
  ASSUME Types, NEW w \in Writers, TaskOK(w), acked \subseteq acked',
         thread'[w] = thread[w], worker'[w] = worker[w], target'[w] = target[w],
         context'[SessionOf(w)] = context[SessionOf(w)], w \in mutated' => w \in mutated
  PROVE  TaskOK(w)'
  <1>1. ThreadOK(w)'
    BY DEF TaskOK, ThreadOK
  <1>2. ContextOK(w)'
    BY DEF TaskOK, ContextOK
  <1>3. AckOK(w)'
    BY DEF TaskOK, AckOK
  <1>4. QED
    BY <1>1, <1>2, <1>3 DEF TaskOK

\* Who has written its line has written it.
LEMMA StaysWritten ==
  ASSUME \A w \in Writers : \A phase \in Phases : Unwritten(w, phase)' => Unwritten(w, phase)
  PROVE  Written \subseteq Written'
  BY DEF Written

\* The task of one write changes.
LEMMA OneTask ==
  ASSUME Types, TaskInv, NEW w \in Writers, TaskOK(w)', acked \subseteq acked', context' = context,
         \A g \in Writers \ {w} : /\ thread'[g] = thread[g] /\ worker'[g] = worker[g]
                                  /\ target'[g] = target[g] /\ (g \in mutated' => g \in mutated),
         worker[w] # "idle" => worker'[w] # "idle" /\ target'[w] = target[w],
         \A phase \in Phases : Unwritten(w, phase)' => Unwritten(w, phase)
  PROVE  TaskInv' /\ Steady /\ Written \subseteq Written'
  <1>1. TaskInv'
    <2> SUFFICES ASSUME NEW g \in Writers \ {w}
                 PROVE  TaskOK(g)'
      BY DEF TaskInv
    <2>1. TaskOK(g)
      BY DEF TaskInv
    <2>2. QED
      BY <2>1, SameTask
  <1>2. Steady
    BY DEF Steady
  <1>3. \A g \in Writers : \A phase \in Phases : Unwritten(g, phase)' => Unwritten(g, phase)
    BY DEF Unwritten
  <1>4. QED
    BY <1>1, <1>2, <1>3, StaysWritten

\* A line written, mended or torn is still of a write that began.
LEMMA Lined ==
  ASSUME Types, LineInv, Steady,
         \A f \in Files : \A n \in 1 .. Len(lines'[f]) :
            \/ \E m \in 1 .. Len(lines[f]) : lines'[f][n].record = lines[f][m].record
            \/ Lawful(lines'[f][n].record)
  PROVE  LineInv'
  <1> SUFFICES ASSUME NEW f \in Files, NEW n \in 1 .. Len(lines'[f])
               PROVE  Lawful(lines'[f][n].record)
    BY DEF LineInv, Lawful
  <1>1. CASE \E m \in 1 .. Len(lines[f]) : lines'[f][n].record = lines[f][m].record
    <2>1. PICK m \in 1 .. Len(lines[f]) : lines'[f][n].record = lines[f][m].record
      BY <1>1
    <2> DEFINE r == lines[f][m].record
    <2>2. lines[f] \in Seq(Line)
      BY DEF Types, DiskOK
    <2>3. lines[f][m] \in Line
      BY <2>2, ElementOfSeq
    <2>4. r \in Records /\ r[1] \in Writers
      BY <2>3 DEF Line, Records
    <2>5. r[3] = target[r[1]] /\ worker[r[1]] # "idle"
      BY DEF LineInv
    <2>6. target'[r[1]] = target[r[1]] /\ worker'[r[1]] # "idle"
      BY <2>4, <2>5 DEF Steady
    <2>7. QED
      BY <2>1, <2>5, <2>6 DEF Lawful
  <1>2. QED
    BY <1>1

\* A step that leaves the disk and what was acknowledged alone.
LEMMA Quiet ==
  ASSUME Inv, UNCHANGED <<disk, acked, retired>>, Steady, Written \subseteq Written'
  PROVE  LineInv' /\ KeptInv' /\ FilesInv'
  <1>1. LineInv'
    BY Lined DEF Inv, disk
  <1>2. \A r : Survives(r)' <=> Survives(r)
    BY DEF Survives, disk
  <1>3. KeptInv'
    BY <1>2 DEF Inv, KeptInv
  <1>4. Named' = Named
    BY DEF Named, Names, disk
  <1>5. DiskOK /\ DiskOK'
    BY DEF Inv, Types, DiskOK, disk
  <1>6. FilesInv'
    BY <1>4, <1>5, Counting DEF Inv
  <1>7. QED
    BY <1>1, <1>3, <1>6

\* The append that has the locks stands still.
LEMMA StillHeld ==
  ASSUME HeldInv, UNCHANGED <<disk, holder>>, holder # None => thread'[holder] = thread[holder]
  PROVE  HeldInv'
  BY DEF HeldInv, disk, Live

\* An append that is not past its wait for the locks does not have them.
LEMMA Outside ==
  ASSUME Types, HeldInv, NEW w \in Writers, thread[w].at \notin Locked
  PROVE  holder # w
  <1>1. None \notin Writers
    BY AuditAssumption DEF Writers
  <1>2. QED
    BY <1>1 DEF HeldInv

\* The task of one write steps, and the append that has the locks stands still.
LEMMA TaskStep ==
  ASSUME Inv, Types', NEW w \in Writers, TaskOK(w)', context' = context,
         UNCHANGED <<disk, holder, ghost>>,
         \A g \in Writers \ {w} : /\ thread'[g] = thread[g] /\ worker'[g] = worker[g]
                                  /\ target'[g] = target[g] /\ (g \in mutated' => g \in mutated),
         worker[w] # "idle" => worker'[w] # "idle" /\ target'[w] = target[w],
         \A phase \in Phases : Unwritten(w, phase)' => Unwritten(w, phase),
         thread'[w] = thread[w] \/ thread[w].at \notin Locked
  PROVE  Inv'
  <1>1. UNCHANGED <<disk, holder, acked, retired>>
    BY DEF ghost
  <1>2. TaskInv' /\ Steady /\ Written \subseteq Written'
    BY <1>1, OneTask DEF Inv
  <1>3. LineInv' /\ KeptInv' /\ FilesInv'
    BY <1>1, <1>2, Quiet
  <1>4. HeldInv'
    <2>1. holder # None => thread'[holder] = thread[holder]
      <3> SUFFICES ASSUME holder # None
                   PROVE  thread'[holder] = thread[holder]
        OBVIOUS
      <3>1. holder \in Writers
        BY DEF Inv, Types
      <3>2. holder = w => thread'[w] = thread[w]
        BY Outside DEF Inv
      <3>3. QED
        BY <3>1, <3>2
    <2>2. QED
      BY <1>1, <2>1, StillHeld DEF Inv
  <1>5. QED
    BY <1>2, <1>3, <1>4 DEF Inv

\* The slots, and what a thread at rest or in the executor's queue is.
LEMMA Queuing ==
  /\ 0 \in Slots /\ Backups \in Slots
  /\ NoAppend \in Appends
  /\ \A w \in Writers : \A phase \in Phases :
        [at |-> "queued", record |-> <<w, phase>>, slot |-> 0] \in Appends
  <1>1. 0 \in Slots /\ Backups \in Slots
    BY AuditAssumption DEF Slots
  <1>2. QED
    BY <1>1 DEF Appends, NoAppend

\* The reserved write takes its target and submits its intent.
LEMMA BeginStep ==
  ASSUME Inv, NEW w \in Writers, Begin(w)
  PROVE  Inv'
  <1>1. /\ worker[w] = "idle" /\ thread[w].at = "none" /\ w \notin mutated
        /\ context[SessionOf(w)] \in Contexts
    <2>1. SessionOf(w) \in Sessions
      BY DEF Writers, SessionOf
    <2>2. QED
      BY <2>1 DEF Begin, Inv, Types, TaskInv, TaskOK, ThreadOK, AckOK
  <1>2. /\ worker'[w] = "intent" /\ target'[w] = context[SessionOf(w)]
        /\ thread'[w] = [at |-> "queued", record |-> <<w, "intent">>, slot |-> 0]
        /\ UNCHANGED <<disk, holder, context, mutated, ghost>>
        /\ \A g \in Writers \ {w} : /\ thread'[g] = thread[g] /\ worker'[g] = worker[g]
                                    /\ target'[g] = target[g]
    BY DEF Begin, Submit, Inv, Types
  <1>3. Types'
    <2>1. worker' \in [Writers -> {"idle", "intent", "mutating", "outcome", "done"}]
      BY DEF Begin, Inv, Types
    <2>2. target' \in [Writers -> Contexts]
      BY <1>1 DEF Begin, Inv, Types
    <2>3. thread' \in [Writers -> Appends]
      BY Queuing DEF Begin, Submit, Inv, Types, Phases
    <2>4. QED
      BY <1>2, <2>1, <2>2, <2>3 DEF Inv, Types, DiskOK, disk, ghost
  <1>4. TaskOK(w)'
    BY <1>1, <1>2 DEF TaskOK, ThreadOK, ContextOK, AckOK, Phases
  <1>5. \A phase \in Phases : Unwritten(w, phase)
    BY <1>1 DEF Unwritten
  <1>6. QED
    BY <1>1, <1>2, <1>3, <1>4, <1>5, TaskStep DEF Locked

\* The intent's append answers.
LEMMA IntentReturnsStep ==
  ASSUME Inv, NEW w \in Writers, IntentReturns(w)
  PROVE  Inv'
  <1>1. worker[w] = "intent" /\ thread[w].at \in {"ok", "failed"}
    BY DEF IntentReturns, Answered
  <1>2. /\ worker'[w] \in {"mutating", "done"} /\ thread'[w] = NoAppend
        /\ worker'[w] = "mutating" => thread[w].at = "ok"
        /\ UNCHANGED <<disk, holder, target, context, mutated, ghost>>
        /\ \A g \in Writers \ {w} : thread'[g] = thread[g] /\ worker'[g] = worker[g]
    BY DEF IntentReturns, Answered, Inv, Types
  <1>3. Types'
    <2>1. worker' \in [Writers -> {"idle", "intent", "mutating", "outcome", "done"}]
      BY DEF IntentReturns, Inv, Types
    <2>2. thread' \in [Writers -> Appends]
      BY Queuing DEF IntentReturns, Inv, Types
    <2>3. QED
      BY <1>2, <2>1, <2>2 DEF Inv, Types, DiskOK, disk, ghost
  <1>4. thread[w].record = <<w, "intent", target[w]>>
    BY <1>1 DEF Inv, TaskInv, TaskOK, ThreadOK, Phases
  <1>5. TaskOK(w)'
    <2>1. w \in mutated => <<w, "intent", target[w]>> \in acked
      BY DEF Inv, TaskInv, TaskOK, AckOK
    <2>2. worker'[w] = "mutating" => <<w, "intent", target[w]>> \in acked
      BY <1>2, <1>4 DEF Inv, TaskInv, TaskOK, AckOK
    <2>3. AckOK(w)'
      BY <1>2, <2>1, <2>2 DEF AckOK, NoAppend, ghost
    <2>4. ContextOK(w)'
      BY <1>1, <1>2 DEF Inv, TaskInv, TaskOK, ContextOK
    <2>5. ThreadOK(w)'
      BY <1>2 DEF ThreadOK, NoAppend, Phases
    <2>6. QED
      BY <2>3, <2>4, <2>5 DEF TaskOK
  <1>6. \A phase \in Phases : Unwritten(w, phase)' => Unwritten(w, phase)
    BY <1>1, <1>2 DEF Unwritten, NoAppend
  <1>7. QED
    BY <1>1, <1>2, <1>3, <1>5, <1>6, TaskStep DEF Locked

\* The API server answers, and the outcome is submitted.
LEMMA MutatesStep ==
  ASSUME Inv, NEW w \in Writers, Mutates(w)
  PROVE  Inv'
  <1>1. worker[w] = "mutating" /\ thread[w].at = "none"
    BY DEF Mutates, Inv, TaskInv, TaskOK, ThreadOK
  <1>2. /\ worker'[w] = "outcome"
        /\ thread'[w] = [at |-> "queued", record |-> <<w, "outcome">>, slot |-> 0]
        /\ UNCHANGED <<disk, holder, target, context, ghost>>
        /\ mutated' \subseteq mutated \union {w}
        /\ \A g \in Writers \ {w} : thread'[g] = thread[g] /\ worker'[g] = worker[g]
    BY DEF Mutates, Submit, Inv, Types
  <1>3. Types'
    <2>1. worker' \in [Writers -> {"idle", "intent", "mutating", "outcome", "done"}]
      BY DEF Mutates, Inv, Types
    <2>2. thread' \in [Writers -> Appends]
      BY Queuing DEF Mutates, Submit, Inv, Types, Phases
    <2>3. mutated' \subseteq Writers
      BY <1>2 DEF Inv, Types
    <2>4. QED
      BY <1>2, <2>1, <2>2, <2>3 DEF Inv, Types, DiskOK, disk, ghost
  <1>4. TaskOK(w)'
    <2>1. <<w, "intent", target[w]>> \in acked
      BY <1>1 DEF Inv, TaskInv, TaskOK, AckOK
    <2>2. AckOK(w)'
      BY <1>2, <2>1 DEF AckOK, ghost
    <2>3. ContextOK(w)'
      BY <1>1, <1>2 DEF Inv, TaskInv, TaskOK, ContextOK
    <2>4. ThreadOK(w)'
      BY <1>2 DEF ThreadOK, Phases
    <2>5. QED
      BY <2>2, <2>3, <2>4 DEF TaskOK
  <1>5. \A phase \in Phases : Unwritten(w, phase)' => Unwritten(w, phase)
    BY <1>1, <1>2 DEF Unwritten, Phases
  <1>6. QED
    BY <1>1, <1>2, <1>3, <1>4, <1>5, TaskStep DEF Locked

\* The outcome's append answers, and the write is over.
LEMMA OutcomeReturnsStep ==
  ASSUME Inv, NEW w \in Writers, OutcomeReturns(w)
  PROVE  Inv'
  <1>1. worker[w] = "outcome" /\ thread[w].at \in {"ok", "failed"}
    BY DEF OutcomeReturns, Answered
  <1>2. /\ worker'[w] = "done" /\ thread'[w] = NoAppend
        /\ UNCHANGED <<disk, holder, target, context, mutated, ghost>>
        /\ \A g \in Writers \ {w} : thread'[g] = thread[g] /\ worker'[g] = worker[g]
    BY DEF OutcomeReturns, Inv, Types
  <1>3. Types'
    <2>1. worker' \in [Writers -> {"idle", "intent", "mutating", "outcome", "done"}]
      BY DEF OutcomeReturns, Inv, Types
    <2>2. thread' \in [Writers -> Appends]
      BY Queuing DEF OutcomeReturns, Inv, Types
    <2>3. QED
      BY <1>2, <2>1, <2>2 DEF Inv, Types, DiskOK, disk, ghost
  <1>4. TaskOK(w)'
    <2>1. w \in mutated => <<w, "intent", target[w]>> \in acked
      BY DEF Inv, TaskInv, TaskOK, AckOK
    <2>2. QED
      BY <1>2, <2>1 DEF TaskOK, ThreadOK, ContextOK, AckOK, NoAppend, Phases, ghost
  <1>5. \A phase \in Phases : Unwritten(w, phase)' => Unwritten(w, phase)
    BY <1>1, <1>2 DEF Unwritten, NoAppend
  <1>6. QED
    BY <1>1, <1>2, <1>3, <1>4, <1>5, TaskStep DEF Locked

\* A cancelled worker leaves its thread what it has started.
LEMMA CancelStep ==
  ASSUME Inv, NEW w \in Writers, Cancel(w)
  PROVE  Inv'
  <1>1. worker[w] \in {"intent", "mutating", "outcome"}
    BY DEF Cancel
  <1> DEFINE dropped == thread[w].at \in {"queued", "ok", "failed"}
  <1>2. /\ worker'[w] = "done"
        /\ UNCHANGED <<disk, holder, target, context, ghost>>
        /\ \A g \in Writers \ {w} : thread'[g] = thread[g] /\ worker'[g] = worker[g]
    BY DEF Cancel, Inv, Types
  <1>3. thread'[w] = IF dropped THEN NoAppend ELSE thread[w]
    BY DEF Cancel, Inv, Types
  <1>4. /\ mutated' \subseteq mutated \union {w}
        /\ w \in mutated' => w \in mutated \/ worker[w] = "mutating"
    BY DEF Cancel
  <1>5. Types'
    <2>1. worker' \in [Writers -> {"idle", "intent", "mutating", "outcome", "done"}]
      BY DEF Cancel, Inv, Types
    <2>2. thread' \in [Writers -> Appends]
      <3>1. thread \in [Writers -> Appends]
        BY DEF Inv, Types
      <3>2. thread' = [thread EXCEPT ![w] = thread'[w]]
        BY <3>1 DEF Cancel
      <3>3. thread'[w] \in Appends
        BY <1>3, <3>1, Queuing
      <3>4. QED
        BY <3>1, <3>2, <3>3
    <2>3. mutated' \subseteq Writers
      BY <1>4 DEF Inv, Types
    <2>4. QED
      BY <1>2, <2>1, <2>2, <2>3 DEF Inv, Types, DiskOK, disk, ghost
  <1>6. TaskOK(w)'
    <2>1. w \in mutated' => <<w, "intent", target[w]>> \in acked
      BY <1>4 DEF Inv, TaskInv, TaskOK, AckOK
    <2>2. thread'[w].at \notin {"queued", "ok", "failed"}
      BY <1>3 DEF NoAppend
    <2>3. AckOK(w)'
      BY <1>2, <2>1, <2>2 DEF AckOK, ghost
    <2>4. ContextOK(w)'
      BY <1>2 DEF ContextOK
    <2>5. thread'[w].at \notin {"none", "queued"} =>
             \E phase \in Phases : thread'[w].record = <<w, phase, target[w]>>
      BY <1>3 DEF NoAppend, Inv, TaskInv, TaskOK, ThreadOK
    <2>6. ThreadOK(w)'
      BY <1>2, <2>2, <2>5 DEF ThreadOK, Phases
    <2>7. QED
      BY <2>3, <2>4, <2>6 DEF TaskOK
  <1>7. \A phase \in Phases : Unwritten(w, phase)' => Unwritten(w, phase)
    BY <1>2, <1>3 DEF Unwritten, NoAppend
  <1>8. thread'[w] = thread[w] \/ thread[w].at \notin Locked
    BY <1>3 DEF Locked
  <1>9. QED
    BY <1>1, <1>2, <1>4, <1>5, <1>6, <1>7, <1>8, TaskStep

\* A thread starts with the ambient context, which is its write's.
LEMMA StampStep ==
  ASSUME Inv, NEW w \in Writers, Stamp(w)
  PROVE  Inv'
  <1>1. thread[w].at = "queued" /\ worker[w] \in Phases /\ thread[w].record = <<w, worker[w]>>
    BY DEF Stamp, At, Inv, TaskInv, TaskOK, ThreadOK
  <1>2. context[SessionOf(w)] = target[w] /\ target[w] \in Contexts
    BY <1>1 DEF Inv, Types, TaskInv, TaskOK, ContextOK, Phases
  <1> DEFINE r == <<w, worker[w], target[w]>>
  <1>3. Append(thread[w].record, context[SessionOf(w)]) = r /\ r \in Records
    BY <1>1, <1>2, Stamping
  <1>4. thread[w] \in Appends
    BY DEF Inv, Types
  <1>5. /\ thread' = [thread EXCEPT ![w] = [thread[w] EXCEPT !.at = "waiting", !.record = r]]
        /\ UNCHANGED <<disk, holder, tasks, ghost>>
    <2>1. thread' = [thread EXCEPT ![w] = [thread[w] EXCEPT !.at = "waiting",
                        !.record = Append(thread[w].record, context[SessionOf(w)])]]
      BY DEF Stamp, Inv, Types
    <2>2. QED
      BY <1>3, <2>1 DEF Stamp
  <1> HIDE DEF r
  <1>6. /\ thread'[w] \in Appends /\ thread'[w].at = "waiting" /\ thread'[w].record = r
        /\ \A g \in Writers \ {w} : thread'[g] = thread[g]
    BY <1>3, <1>4, <1>5 DEF Appends, Inv, Types
  <1>7. Types'
    <2>1. thread' \in [Writers -> Appends]
      BY <1>5, <1>6 DEF Inv, Types
    <2>2. QED
      BY <1>5, <2>1 DEF Inv, Types, DiskOK, disk, ghost, tasks
  <1>8. TaskOK(w)'
    <2>1. ThreadOK(w)'
      BY <1>1, <1>5, <1>6 DEF ThreadOK, r, tasks, Phases
    <2>2. ContextOK(w)'
      BY <1>2, <1>5 DEF ContextOK, tasks
    <2>3. AckOK(w)'
      BY <1>5, <1>6 DEF AckOK, tasks, ghost, Inv, TaskInv, TaskOK
    <2>4. QED
      BY <2>1, <2>2, <2>3 DEF TaskOK
  <1>9. \A phase \in Phases : Unwritten(w, phase)' => Unwritten(w, phase)
    BY <1>1, <1>5, <1>6 DEF Unwritten, r, tasks
  <1>10. QED
    BY <1>1, <1>5, <1>6, <1>7, <1>8, <1>9, TaskStep DEF Locked, tasks

\* A session without an active write is retargeted.
LEMMA SetContextStep ==
  ASSUME Inv, NEW s \in Sessions, NEW c \in Contexts, SetContext(s, c)
  PROVE  Inv'
  <1>1. /\ UNCHANGED <<disk, holder, thread, worker, target, mutated, ghost>>
        /\ context' = [context EXCEPT ![s] = c]
        /\ \A w \in Writers : SessionOf(w) = s => worker[w] \in {"idle", "done"}
    BY DEF SetContext
  <1>2. Types'
    BY <1>1 DEF Inv, Types, DiskOK, disk, ghost
  <1>3. TaskInv'
    <2> SUFFICES ASSUME NEW w \in Writers
                 PROVE  TaskOK(w)'
      BY DEF TaskInv
    <2>1. TaskOK(w)
      BY DEF Inv, TaskInv
    <2>2. SessionOf(w) \in Sessions
      BY DEF Writers, SessionOf
    <2>3. SessionOf(w) # s => context'[SessionOf(w)] = context[SessionOf(w)]
      BY <1>1, <2>2 DEF Inv, Types
    <2>4. ContextOK(w)'
      BY <1>1, <2>1, <2>3 DEF TaskOK, ContextOK
    <2>5. ThreadOK(w)' /\ AckOK(w)'
      BY <1>1, <2>1 DEF TaskOK, ThreadOK, AckOK, ghost
    <2>6. QED
      BY <2>4, <2>5 DEF TaskOK
  <1>4. Steady /\ Written \subseteq Written'
    BY <1>1 DEF Steady, Written, Unwritten
  <1>5. LineInv' /\ KeptInv' /\ FilesInv'
    <2>1. UNCHANGED <<disk, acked, retired>>
      BY <1>1 DEF ghost
    <2>2. QED
      BY <1>4, <2>1, Quiet
  <1>6. HeldInv'
    BY <1>1, StillHeld DEF Inv
  <1>7. QED
    BY <1>2, <1>3, <1>5, <1>6 DEF Inv

\* An append goes on, with the record it has.
LEMMA Working ==
  ASSUME Inv, NEW w \in Writers, UNCHANGED tasks, acked \subseteq acked',
         thread[w].at \in {"waiting"} \union Locked, thread'[w].at \in Locked,
         thread'[w].record = thread[w].record,
         \A g \in Writers \ {w} : thread'[g] = thread[g],
         thread[w].at \in {"fsync", "syncdir"} => thread'[w].at \in {"fsync", "syncdir"}
  PROVE  TaskInv' /\ Steady /\ Written \subseteq Written'
  <1>1. TaskOK(w)
    BY DEF Inv, TaskInv
  <1>2. ThreadOK(w)'
    BY <1>1 DEF TaskOK, ThreadOK, Locked, Phases, tasks
  <1>3. ContextOK(w)'
    BY <1>1 DEF TaskOK, ContextOK, tasks
  <1>4. AckOK(w)'
    BY <1>1 DEF TaskOK, AckOK, tasks, Locked
  <1>5. TaskOK(w)'
    BY <1>2, <1>3, <1>4 DEF TaskOK
  <1>6. \A phase \in Phases : Unwritten(w, phase)' => Unwritten(w, phase)
    BY DEF Unwritten, tasks, Locked
  <1>7. /\ context' = context /\ (worker[w] # "idle" => worker'[w] # "idle" /\ target'[w] = target[w])
        /\ \A g \in Writers \ {w} : /\ thread'[g] = thread[g] /\ worker'[g] = worker[g]
                                    /\ target'[g] = target[g] /\ (g \in mutated' => g \in mutated)
    BY DEF tasks
  <1>8. QED
    BY <1>5, <1>6, <1>7, OneTask DEF Inv

\* An append comes to its end and gives the locks back.
LEMMA Ending ==
  ASSUME Inv, NEW w \in Writers, NEW at \in {"ok", "failed"}, Ends(w, at), UNCHANGED tasks,
         acked \subseteq acked', at = "ok" => thread[w].record \in acked',
         thread[w].at \in {"waiting"} \union Locked
  PROVE  /\ thread' \in [Writers -> Appends] /\ holder' \in Writers \union {None}
         /\ TaskInv' /\ Steady /\ Written \subseteq Written'
         /\ holder' # None => holder' = holder /\ thread'[holder] = thread[holder]
         /\ holder = w => holder' = None
         /\ thread'[w].at \notin {"queued", "waiting"} \union Locked
  <1>1. TaskOK(w) /\ thread[w] \in Appends
    BY DEF Inv, TaskInv, Types
  <1> DEFINE t == IF worker[w] = "done" THEN NoAppend ELSE [thread[w] EXCEPT !.at = at]
  <1>2. thread' = [thread EXCEPT ![w] = t] /\ holder' = IF holder = w THEN None ELSE holder
    BY DEF Ends, Inv, Types
  <1>3. /\ t \in Appends
        /\ worker[w] = "done" => t.at = "none"
        /\ worker[w] # "done" => t.at = at /\ t.record = thread[w].record
    BY <1>1, Queuing DEF Appends, NoAppend
  <1> HIDE DEF t
  <1>4. thread' \in [Writers -> Appends] /\ thread'[w] = t /\ \A g \in Writers \ {w} : thread'[g] = thread[g]
    BY <1>2, <1>3 DEF Inv, Types
  <1>5. ThreadOK(w)'
    BY <1>1, <1>3, <1>4 DEF TaskOK, ThreadOK, Locked, Phases, tasks
  <1>6. ContextOK(w)'
    BY <1>1 DEF TaskOK, ContextOK, tasks
  <1>7. AckOK(w)'
    BY <1>1, <1>3, <1>4 DEF TaskOK, AckOK, tasks
  <1>8. TaskOK(w)'
    BY <1>5, <1>6, <1>7 DEF TaskOK
  <1>9. \A phase \in Phases : Unwritten(w, phase)' => Unwritten(w, phase)
    BY <1>3, <1>4 DEF Unwritten, tasks
  <1>10. /\ context' = context /\ (worker[w] # "idle" => worker'[w] # "idle" /\ target'[w] = target[w])
         /\ \A g \in Writers \ {w} : /\ thread'[g] = thread[g] /\ worker'[g] = worker[g]
                                     /\ target'[g] = target[g] /\ (g \in mutated' => g \in mutated)
    BY <1>4 DEF tasks
  <1>11. TaskInv' /\ Steady /\ Written \subseteq Written'
    BY <1>8, <1>9, <1>10, OneTask DEF Inv
  <1>12. holder \in Writers \union {None} /\ holder' \in Writers \union {None}
    BY <1>2 DEF Inv, Types
  <1>13. thread'[w].at \notin {"queued", "waiting"} \union Locked
    BY <1>3, <1>4 DEF Locked
  <1>14. holder' # None => holder' = holder /\ thread'[holder] = thread[holder]
    BY <1>2, <1>4, <1>12
  <1>15. holder = w => holder' = None
    BY <1>2
  <1>16. QED
    BY <1>4, <1>11, <1>12, <1>13, <1>14, <1>15

\* A thread gets the locks, and finds the log full or not.
LEMMA LockStep ==
  ASSUME Inv, NEW w \in Writers, Lock(w)
  PROVE  Inv'
  <1>1. thread[w].at = "waiting" /\ thread[w] \in Appends
    BY DEF Lock, At, Inv, Types
  <1> DEFINE at == IF Full THEN "rotate" ELSE "repair"
  <1>2. /\ thread' = [thread EXCEPT ![w] = [thread[w] EXCEPT !.at = at, !.slot = Backups]]
        /\ holder' = w /\ UNCHANGED <<disk, tasks, ghost>>
    BY DEF Lock, Inv, Types
  <1>3. at \in {"rotate", "repair"}
    OBVIOUS
  <1> HIDE DEF at
  <1>4. /\ thread'[w] \in Appends /\ thread'[w].at = at /\ thread'[w].slot = Backups
        /\ thread'[w].record = thread[w].record
        /\ \A g \in Writers \ {w} : thread'[g] = thread[g]
    BY <1>1, <1>2, <1>3, Queuing DEF Appends, Locked, Inv, Types
  <1>5. Types'
    <2>1. thread' \in [Writers -> Appends]
      BY <1>2, <1>4 DEF Inv, Types
    <2>2. QED
      BY <1>2, <2>1 DEF Inv, Types, DiskOK, disk, ghost, tasks
  <1>6. TaskInv' /\ Steady /\ Written \subseteq Written'
    BY <1>1, <1>2, <1>3, <1>4, Working DEF Locked, ghost
  <1>7. LineInv' /\ KeptInv' /\ FilesInv'
    <2>1. UNCHANGED <<disk, acked, retired>>
      BY <1>2 DEF ghost
    <2>2. QED
      BY <1>6, <2>1, Quiet
  <1>8. HeldInv'
    <2>1. ~(Backups < Backups)
      BY AuditAssumption
    <2>2. QED
      BY <1>2, <1>3, <1>4, <2>1 DEF HeldInv, Locked
  <1>9. QED
    BY <1>5, <1>6, <1>7, <1>8 DEF Inv

\* The file system refuses, wherever the append is.
LEMMA RaisesStep ==
  ASSUME Inv, NEW w \in Writers, Raises(w)
  PROVE  Inv'
  <1>1. thread[w].at \in {"waiting"} \union Locked
    BY DEF Raises, At, Locked
  <1>2. Ends(w, "failed") /\ UNCHANGED <<disk, tasks, ghost>>
    BY DEF Raises
  <1>3. UNCHANGED <<disk, acked, retired, tasks, crashes>>
    BY <1>2 DEF ghost
  <1>4. /\ thread' \in [Writers -> Appends] /\ holder' \in Writers \union {None}
        /\ TaskInv' /\ Steady /\ Written \subseteq Written'
        /\ holder' # None => holder' = holder /\ thread'[holder] = thread[holder]
    <2>1. acked \subseteq acked'
      BY <1>3
    <2>2. QED
      BY <1>1, <1>2, <1>3, <2>1, Ending
  <1>5. Types'
    BY <1>3, <1>4 DEF Inv, Types, DiskOK, disk, tasks
  <1>6. LineInv' /\ KeptInv' /\ FilesInv'
    BY <1>3, <1>4, Quiet
  <1>7. HeldInv'
    <2>1. CASE holder' = None
      BY <2>1 DEF HeldInv
    <2>2. CASE holder' # None
      BY <1>3, <1>4, <2>2, StillHeld DEF Inv
    <2>3. QED
      BY <2>1, <2>2
  <1>8. QED
    BY <1>4, <1>5, <1>6, <1>7 DEF Inv

-----------------------------------------------------------------------------
(* Appends under the locks.                                                *)

\* The file of the live slot, and its lines.
LEMMA LiveFile ==
  ASSUME DiskOK, dir[0] # 0
  PROVE  /\ dir[0] \in Files /\ Live \in Seq(Line) /\ Len(Live) \in Nat
         /\ synced[dir[0]] \in Nat /\ synced[dir[0]] <= Len(Live)
  <1>1. dir[0] \in Files
    BY Queuing DEF DiskOK, Dirs
  <1>2. Live \in Seq(Line)
    BY <1>1 DEF DiskOK, Live
  <1>3. QED
    BY <1>1, <1>2, LenProperties DEF DiskOK, Live

\* The live file changes after the lines that are whole, and no name does.
LEMMA LiveStep ==
  ASSUME DiskOK, dir[0] # 0, NEW t \in Seq(Line), NEW k \in Nat,
         UNCHANGED <<dir, older>>, lines' = [lines EXCEPT ![dir[0]] = t],
         synced' = [synced EXCEPT ![dir[0]] = k],
         synced[dir[0]] <= k, k <= Len(t), Keep(Live, t, Len(Live))
  PROVE  /\ DiskOK' /\ \A r : Survives(r) => Survives(r)'
         /\ Live' = t /\ synced'[dir'[0]] = k /\ Named' = Named
         /\ \A f \in Files \ {dir[0]} : lines'[f] = lines[f]
  <1> DEFINE l == dir[0]
  <1>1. /\ l \in Files /\ Live = lines[l] /\ Len(Live) \in Nat /\ synced[l] \in Nat /\ synced[l] <= Len(Live)
        /\ \A n \in 1 .. Len(Live) : Live[n] \in Line
    BY LiveFile, ElementOfSeq DEF Live
  <1>2. lines'[l] = t /\ synced'[l] = k
    BY <1>1 DEF DiskOK
  <1>3. \A f \in Files \ {l} : lines'[f] = lines[f] /\ synced'[f] = synced[f]
    BY <1>1 DEF DiskOK
  <1> HIDE DEF l
  <1>4. Lasting(l)
    <2>1. \A n \in 1 .. synced[l] : n \in 1 .. Len(Live)
      BY <1>1
    <2>2. synced[l] <= k /\ synced[l] <= Len(t)
      <3>1. Len(t) \in Nat
        BY LenProperties
      <3>2. QED
        BY <1>1, <3>1 DEF l
    <2>3. QED
      BY <1>1, <1>2, <2>1, <2>2 DEF Lasting, Keep
  <1>5. \A f \in Files \ {l} : Lasting(f)
    BY <1>3 DEF Lasting, Keep, DiskOK
  <1>6. DiskOK'
    <2>1. lines' \in [Files -> Seq(Line)] /\ synced' \in [Files -> Nat]
      BY <1>1 DEF DiskOK, l
    <2>2. \A f \in Files : synced'[f] <= Len(lines'[f])
      BY <1>1, <1>2, <1>3 DEF DiskOK
    <2>3. QED
      BY <2>1, <2>2 DEF DiskOK
  <1>7. \A r : Survives(r) => Survives(r)'
    <2> SUFFICES ASSUME NEW r, Survives(r)
                 PROVE  Survives(r)'
      OBVIOUS
    <2>1. \A e \in older' \union {dir'} : \A i \in Slots : e[i] # 0 => e[i] \in Files
      BY DEF DiskOK, Dirs
    <2>2. \A e \in older' \union {dir'} : \E d \in older \union {dir} :
             \A i \in Slots : d[i] # 0 => Lasting(d[i]) /\ \E j \in Slots : e[j] = d[i]
      BY <1>4, <1>5, <2>1
    <2>3. QED
      BY <1>6, <2>2, Surviving
  <1>8. Named' = Named
    BY DEF Named, Names
  <1>9. QED
    BY <1>2, <1>3, <1>6, <1>7, <1>8 DEF Live, l

\* After the step each line is about what a line of its file was about, or about `r`.
Repeats(r) ==
    \A f \in Files : \A n \in 1 .. Len(lines'[f]) :
        \/ \E m \in 1 .. Len(lines[f]) : lines'[f][n].record = lines[f][m].record
        \/ lines'[f][n].record = r

\* A line is put into the live file, or into a new one.
LEMMA Putting ==
  ASSUME DiskOK, FilesInv, NEW w \in Writers, NEW phase \in Phases, Unwritten(w, phase),
         NEW r \in Records, NEW form \in {"whole", "bare", "part"}, Put(r, form)
  PROVE  /\ DiskOK' /\ \A s : Survives(s) => Survives(s)'
         /\ Named' \subseteq Named \union {0, New}
         /\ Repeats(r)
         /\ (dir[0] # 0 => Clean(Live))
            => dir'[0] # 0 /\ Live' # <<>> /\ Live'[Len(Live')] = [record |-> r, form |-> form]
  <1>1. CASE dir[0] # 0
    <2> DEFINE l == dir[0]
               t == Add(Live, r, form)
               k == synced[l]
    <2>1. UNCHANGED <<dir, older, synced>> /\ lines' = [lines EXCEPT ![l] = t]
      BY <1>1 DEF Put, Live
    <2>2. l \in Files /\ Live = lines[l] /\ Live \in Seq(Line) /\ Len(Live) \in Nat /\ k \in Nat /\ k <= Len(Live)
      BY <1>1, LiveFile DEF Live
    <2>3. /\ t \in Seq(Line) /\ t # <<>> /\ Keep(Live, t, Len(Live))
          /\ \A n \in 1 .. Len(t) :
                t[n].record = r \/ \E m \in 1 .. Len(Live) : t[n].record = Live[m].record
          /\ Clean(Live) => t[Len(t)] = [record |-> r, form |-> form]
      BY <2>2, Adding
    <2> HIDE DEF t
    <2>4. synced' = [synced EXCEPT ![l] = k]
      BY <2>1, <2>2 DEF DiskOK
    <2>5. k <= Len(t)
      <3>1. Len(t) \in Nat
        BY <2>3, LenProperties
      <3>2. QED
        BY <2>2, <2>3, <3>1 DEF Keep
    <2>6. /\ DiskOK' /\ \A s : Survives(s) => Survives(s)'
          /\ Live' = t /\ Named' = Named
          /\ \A f \in Files \ {l} : lines'[f] = lines[f]
      <3> HIDE DEF k
      <3>1. k \in Nat /\ synced[dir[0]] <= k
        BY <2>2 DEF k
      <3>2. QED
        BY <1>1, <2>1, <2>2, <2>3, <2>4, <2>5, <3>1, LiveStep
    <2>7. lines'[l] = t
      BY <2>1, <2>2 DEF DiskOK
    <2>8. \A f \in Files : \A n \in 1 .. Len(lines'[f]) :
             \/ \E m \in 1 .. Len(lines[f]) : lines'[f][n].record = lines[f][m].record
             \/ lines'[f][n].record = r
      <3> SUFFICES ASSUME NEW f \in Files, NEW n \in 1 .. Len(lines'[f])
                   PROVE  \/ \E m \in 1 .. Len(lines[f]) : lines'[f][n].record = lines[f][m].record
                          \/ lines'[f][n].record = r
        OBVIOUS
      <3>1. CASE f = l
        BY <2>2, <2>3, <2>7, <3>1
      <3>2. CASE f # l
        BY <2>6, <3>2
      <3>3. QED
        BY <3>1, <3>2
    <2>9. QED
      BY <1>1, <2>1, <2>3, <2>6, <2>8 DEF Repeats
  <1>2. CASE dir[0] = 0
    <2> DEFINE l == New
               t == Add(<<>>, r, form)
    <2>1. l \in Files /\ l \notin Named /\ l # 0
      BY Room, Counts
    <2>2. /\ dir' = [dir EXCEPT ![0] = l] /\ older' = older \union {dir}
          /\ lines' = [lines EXCEPT ![l] = t] /\ synced' = [synced EXCEPT ![l] = 0]
      BY <1>2 DEF Put, Become
    <2>3. /\ t \in Seq(Line) /\ t # <<>> /\ t[Len(t)] = [record |-> r, form |-> form]
          /\ \A n \in 1 .. Len(t) : t[n].record = r
      <3> DEFINE e == <<>>
                 u == Add(e, r, form)
      <3>1. e \in Seq(Line) /\ 1 .. Len(e) = {} /\ Clean(e)
        BY EmptySeq DEF Clean
      <3> HIDE DEF e
      <3>2. /\ u \in Seq(Line) /\ u # <<>> /\ Keep(e, u, Len(e))
            /\ \A n \in 1 .. Len(u) :
                  u[n].record = r \/ \E m \in 1 .. Len(e) : u[n].record = e[m].record
            /\ Clean(e) => u[Len(u)] = [record |-> r, form |-> form]
        BY <3>1, Adding, Zenon
      <3> HIDE DEF u
      <3>3. /\ u \in Seq(Line) /\ u # <<>> /\ u[Len(u)] = [record |-> r, form |-> form]
            /\ \A n \in 1 .. Len(u) : u[n].record = r
        BY <3>1, <3>2
      <3>4. t = u
        BY DEF u, e
      <3>5. QED
        BY <3>3, <3>4
    <2> HIDE DEF l, t
    <2>4. Len(t) \in Nat
      BY <2>3, LenProperties
    <2>5. /\ lines'[l] = t /\ synced'[l] = 0
          /\ \A f \in Files \ {l} : lines'[f] = lines[f] /\ synced'[f] = synced[f]
      BY <2>1, <2>2 DEF DiskOK
    <2>6. dir'[0] = l /\ \A i \in Slots \ {0} : dir'[i] = dir[i]
      BY <2>2, Queuing DEF DiskOK, Dirs
    <2>7. DiskOK'
      <3>1. dir' \in Dirs /\ older' \subseteq Dirs
        BY <2>1, <2>2, Queuing DEF DiskOK, Dirs
      <3>2. lines' \in [Files -> Seq(Line)] /\ synced' \in [Files -> Nat]
        BY <2>1, <2>2, <2>3 DEF DiskOK
      <3>3. \A f \in Files : synced'[f] <= Len(lines'[f])
        BY <2>4, <2>5 DEF DiskOK
      <3>4. QED
        BY <3>1, <3>2, <3>3 DEF DiskOK
    <2>8. \A d \in older \union {dir} : \A i \in Slots : d[i] # 0 => d[i] \in Files \ {l}
      BY <2>1 DEF DiskOK, Dirs, Named, Names
    <2>9. \A f \in Files \ {l} : Lasting(f)
      BY <2>5 DEF Lasting, Keep, DiskOK
    <2>10. \A s : Survives(s) => Survives(s)'
      <3> SUFFICES ASSUME NEW s, Survives(s)
                   PROVE  Survives(s)'
        OBVIOUS
      <3>1. \A i \in Slots : dir[i] # 0 => dir'[i] = dir[i]
        BY <1>2, <2>6
      <3>2. \A e \in older' \union {dir'} : \E d \in older \union {dir} :
               \A i \in Slots : d[i] # 0 => Lasting(d[i]) /\ \E j \in Slots : e[j] = d[i]
        <4> SUFFICES ASSUME NEW e \in older' \union {dir'}
                     PROVE  \E d \in older \union {dir} :
                               \A i \in Slots : d[i] # 0 => Lasting(d[i]) /\ \E j \in Slots : e[j] = d[i]
          OBVIOUS
        <4>1. CASE e = dir'
          BY <2>8, <2>9, <3>1, <4>1
        <4>2. CASE e # dir'
          <5>1. e \in older \union {dir}
            BY <2>2, <4>2
          <5>2. QED
            BY <2>8, <2>9, <5>1
        <4>3. QED
          BY <4>1, <4>2
      <3>3. QED
        BY <2>7, <3>2, Surviving
    <2>11. Named' \subseteq Named \union {0, New}
      <3>1. \A e \in older' \union {dir'} : \A i \in Slots : e[i] \in Named \union {l}
        <4>1. \A e \in older \union {dir} : \A i \in Slots : e[i] \in Named
          BY DEF Named, Names
        <4>2. \A i \in Slots : dir'[i] \in Named \union {l}
          BY <2>6, <4>1
        <4>3. QED
          BY <2>2, <4>1, <4>2
      <3>2. QED
        BY <3>1 DEF Named, Names, l
    <2>12. \A f \in Files : \A n \in 1 .. Len(lines'[f]) :
              \/ \E m \in 1 .. Len(lines[f]) : lines'[f][n].record = lines[f][m].record
              \/ lines'[f][n].record = r
      BY <2>3, <2>5
    <2>13. dir'[0] # 0 /\ Live' = t
      BY <2>1, <2>5, <2>6 DEF Live
    <2>14. QED
      BY <2>3, <2>7, <2>10, <2>11, <2>12, <2>13 DEF Repeats
  <1>3. QED
    BY <1>1, <1>2

\* Who is at its turn under the locks has them, and what HeldInv says of it.
LEMMA HasLocks ==
  ASSUME Inv, NEW w \in Writers, NEW at \in Locked, At(w, at)
  PROVE  /\ holder = w /\ holder # None /\ thread[w].at = at /\ thread[w] \in Appends
         /\ at = "rotate" /\ thread[w].slot < Backups => dir[thread[w].slot + 1] = 0
         /\ at = "write" => (dir[0] # 0 => Clean(Live))
         /\ at \in {"fsync", "syncdir"} =>
               /\ dir[0] # 0 /\ Live # <<>>
               /\ Live[Len(Live)] = [record |-> thread[w].record, form |-> "whole"]
         /\ at = "syncdir" => synced[dir[0]] = Len(Live)
  <1>1. holder = w /\ thread[w].at = at
    BY DEF At, Locked
  <1>2. None \notin Writers
    BY AuditAssumption DEF Writers
  <1>3. thread[w] \in Appends
    BY DEF Inv, Types
  <1>4. HeldInv
    BY DEF Inv
  <1>5. QED
    BY <1>1, <1>2, <1>3, <1>4 DEF HeldInv, Clean

\* The thread of `w` goes on under its locks.
LEMMA GoingOn ==
  ASSUME Inv, NEW w \in Writers, NEW at \in Locked, NEW slot \in Slots,
         thread' = [thread EXCEPT ![w].at = at, ![w].slot = slot]
  PROVE  /\ thread' \in [Writers -> Appends]
         /\ thread'[w].at = at /\ thread'[w].slot = slot /\ thread'[w].record = thread[w].record
         /\ \A g \in Writers \ {w} : thread'[g] = thread[g]
  <1>1. thread[w] \in Appends /\ thread \in [Writers -> Appends]
    BY DEF Inv, Types
  <1> DEFINE t == [thread[w] EXCEPT !.at = at, !.slot = slot]
  <1>2. t \in Appends /\ t.at = at /\ t.slot = slot /\ t.record = thread[w].record
    BY <1>1 DEF Appends
  <1>3. thread' = [thread EXCEPT ![w] = t]
    BY <1>1
  <1> HIDE DEF t
  <1>4. QED
    BY <1>1, <1>2, <1>3

\* The same, in the slot it has.
LEMMA Going ==
  ASSUME Inv, NEW w \in Writers, NEW at \in Locked, Goes(w, at)
  PROVE  /\ thread' \in [Writers -> Appends]
         /\ thread'[w].at = at /\ thread'[w].record = thread[w].record
         /\ \A g \in Writers \ {w} : thread'[g] = thread[g]
  <1>1. thread[w] \in Appends /\ thread \in [Writers -> Appends]
    BY DEF Inv, Types
  <1> DEFINE t == [thread[w] EXCEPT !.at = at]
  <1>2. t \in Appends /\ t.at = at /\ t.record = thread[w].record
    BY <1>1 DEF Appends
  <1>3. thread' = [thread EXCEPT ![w] = t]
    BY <1>1 DEF Goes
  <1> HIDE DEF t
  <1>4. QED
    BY <1>1, <1>2, <1>3

\* A step that acknowledges nothing new keeps what was acknowledged.
LEMMA StaysKept ==
  ASSUME KeptInv, acked' = acked, retired \subseteq retired', \A r : Survives(r) => Survives(r)' \/ r \in retired'
  PROVE  KeptInv'
  BY DEF KeptInv

\* A rotation moves one file up, or lets the oldest go with what was acknowledged in it.
LEMMA RotateStep ==
  ASSUME Inv, NEW w \in Writers, Rotate(w)
  PROVE  Inv'
  <1> DEFINE k == thread[w].slot
             at == IF k = 0 THEN "repair" ELSE "rotate"
             slot == IF k = 0 THEN 0 ELSE k - 1
  <1>1. /\ holder = w /\ thread[w].at = "rotate" /\ thread[w] \in Appends
        /\ k < Backups => dir[k + 1] = 0
    BY HasLocks DEF Rotate, Locked
  <1>2. k \in 0 .. Backups /\ Slots = 0 .. Backups /\ Backups \in Nat \ {0}
    BY <1>1, AuditAssumption DEF Appends, Slots
  <1>3. at \in Locked /\ slot \in Slots /\ at \in {"rotate", "repair"}
    BY <1>2 DEF Locked
  <1>4. /\ thread' = [thread EXCEPT ![w].at = at, ![w].slot = slot]
        /\ UNCHANGED <<lines, synced, holder, tasks, acked, crashes>>
        /\ older' = older \union {dir}
    <2>1. thread' = [thread EXCEPT ![w].at = IF k = 0 THEN "repair" ELSE @,
                                   ![w].slot = IF k = 0 THEN 0 ELSE k - 1]
      BY DEF Rotate
    <2>2. (IF k = 0 THEN "repair" ELSE thread[w].at) = at
      BY <1>1
    <2>3. QED
      BY <2>1, <2>2 DEF Rotate, Become
  <1>5. /\ thread' \in [Writers -> Appends]
        /\ thread'[w].at = at /\ thread'[w].slot = slot /\ thread'[w].record = thread[w].record
        /\ \A g \in Writers \ {w} : thread'[g] = thread[g]
    <2> HIDE DEF at, slot
    <2>1. QED
      BY <1>3, <1>4, GoingOn
  <1>6. DiskOK /\ dir \in Dirs
    BY DEF Inv, Types, DiskOK
  <1> DEFINE Moved == /\ dir' \in Dirs /\ dir'[k] = 0 /\ \A i \in Slots : dir'[i] \in Names(dir) \union {0}
                      /\ retired' \subseteq Records /\ retired \subseteq retired'
                      /\ \A r : Survives(r) => Survives(r)' \/ r \in retired'
  <1>7. ASSUME k = Backups
        PROVE  Moved
    <2>1. /\ dir' = [dir EXCEPT ![k] = 0]
          /\ retired' = retired \union (IF dir[k] = 0 THEN {} ELSE Whole(dir[k]))
      BY <1>7 DEF Rotate, Become
    <2>2. dir'[k] = 0 /\ (\A i \in Slots \ {k} : dir'[i] = dir[i]) /\ dir' \in Dirs
      BY <1>2, <1>6, <2>1 DEF Dirs
    <2>3. \A r : Survives(r) => Survives(r)' \/ r \in retired'
      <3> SUFFICES ASSUME NEW r, Survives(r), r \notin retired'
                   PROVE  Survives(r)'
        OBVIOUS
      <3>1. PICK i \in Slots : dir[i] # 0 /\ \E n \in 1 .. synced[dir[i]] :
                                  lines[dir[i]][n] = [record |-> r, form |-> "whole"]
        BY DEF Survives
      <3>2. PICK n \in 1 .. synced[dir[i]] : lines[dir[i]][n] = [record |-> r, form |-> "whole"]
        BY <3>1
      <3>3. i # k
        <4> SUFFICES ASSUME i = k
                     PROVE  FALSE
          OBVIOUS
        <4> DEFINE f == dir[k]
                   x == lines[f][n]
        <4>1. f \in Files /\ f # 0 /\ lines[f] \in Seq(Line) /\ synced[f] \in Nat /\ synced[f] <= Len(lines[f])
          BY <1>6, <3>1 DEF DiskOK, Dirs
        <4>2. n \in DOMAIN lines[f]
          <5>1. Len(lines[f]) \in Nat /\ DOMAIN lines[f] = 1 .. Len(lines[f])
            BY <4>1, LenProperties
          <5>2. n \in 1 .. synced[f]
            BY <3>2
          <5>3. QED
            BY <4>1, <5>1, <5>2
        <4>3. x \in ToSet(lines[f])
          BY <4>2 DEF ToSet
        <4>4. x.form = "whole" /\ x.record = r
          BY <3>2
        <4> HIDE DEF f, x
        <4>5. r \in Whole(f)
          BY <4>3, <4>4 DEF Whole
        <4>6. QED
          BY <2>1, <4>1, <4>5 DEF f
      <3>4. \A e \in older' \union {dir'} : \E j \in Slots :
               e[j] # 0 /\ \E m \in 1 .. synced[e[j]] : lines[e[j]][m] = [record |-> r, form |-> "whole"]
        <4> SUFFICES ASSUME NEW e \in older' \union {dir'}
                     PROVE  \E j \in Slots :
                              e[j] # 0 /\ \E m \in 1 .. synced[e[j]] :
                                             lines[e[j]][m] = [record |-> r, form |-> "whole"]
          OBVIOUS
        <4>1. CASE e = dir'
          <5>1. e[i] = dir[i]
            BY <2>2, <3>3, <4>1
          <5>2. QED
            BY <3>1, <5>1
        <4>2. CASE e # dir'
          <5>1. e \in older \union {dir}
            BY <1>4, <4>2
          <5>2. QED
            BY <5>1 DEF Survives
        <4>3. QED
          BY <4>1, <4>2
      <3>5. QED
        BY <1>4, <3>4 DEF Survives
    <2>4. retired' \subseteq Records /\ retired \subseteq retired'
      <3>1. dir[k] # 0 => Whole(dir[k]) \subseteq Records
        <4> SUFFICES ASSUME dir[k] # 0, NEW r \in Whole(dir[k])
                     PROVE  r \in Records
          OBVIOUS
        <4>1. dir[k] \in Files
          BY <1>2, <1>6 DEF Dirs
        <4>2. lines[dir[k]] \in Seq(Line)
          BY <1>6, <4>1 DEF DiskOK
        <4>3. PICK l \in ToSet(lines[dir[k]]) : l.record = r
          BY DEF Whole
        <4>4. l \in Line
          BY <4>2, <4>3, ElementOfSeq, LenProperties DEF ToSet
        <4>5. QED
          BY <4>3, <4>4 DEF Line
      <3>2. QED
        BY <2>1, <3>1 DEF Inv, Types
    <2>5. \A i \in Slots : dir'[i] \in Names(dir) \union {0}
      BY <2>2 DEF Names
    <2>6. QED
      BY <2>2, <2>3, <2>4, <2>5
  <1>8. ASSUME k # Backups
        PROVE  Moved
    <2>1. k \in Slots /\ k + 1 \in Slots /\ k # k + 1 /\ dir[k + 1] = 0
      BY <1>1, <1>2, <1>8
    <2>2. dir' = [dir EXCEPT ![k + 1] = dir[k], ![k] = 0] /\ retired' = retired
      BY <1>8 DEF Rotate, Become
    <2>3. /\ dir'[k + 1] = dir[k] /\ dir'[k] = 0 /\ \A i \in Slots \ {k, k + 1} : dir'[i] = dir[i]
      BY <1>6, <2>1, <2>2 DEF Dirs
    <2>4. dir' \in Dirs
      <3>1. dir[k] \in {0} \union Files
        BY <1>6, <2>1 DEF Dirs
      <3>2. QED
        BY <1>6, <2>1, <2>2, <3>1 DEF Dirs
    <2>5. \A i \in Slots : dir'[i] \in Names(dir) \union {0}
      <3>1. \A i \in Slots : i = k \/ i = k + 1 \/ i \in Slots \ {k, k + 1}
        OBVIOUS
      <3>2. \A i \in Slots : dir[i] \in Names(dir)
        BY DEF Names
      <3>3. QED
        BY <2>1, <2>3, <3>1, <3>2, Zenon
    <2>6. \A i \in Slots : dir[i] # 0 => \E j \in Slots : dir'[j] = dir[i]
      BY <2>1, <2>3
    <2>7. DiskOK'
      BY <1>4, <1>6, <2>4 DEF DiskOK
    <2>8. \A f \in Files : Lasting(f)
      BY <1>4, <1>6 DEF Lasting, Keep, DiskOK
    <2>9. \A d \in older \union {dir} : \A i \in Slots : d[i] # 0 => Lasting(d[i])
      BY <1>6, <2>8 DEF DiskOK, Dirs
    <2>10. \A e \in older' \union {dir'} : \E d \in older \union {dir} :
              \A i \in Slots : d[i] # 0 => Lasting(d[i]) /\ \E j \in Slots : e[j] = d[i]
      BY <1>4, <2>6, <2>9
    <2>11. \A r : Survives(r) => Survives(r)'
      BY <1>6, <2>7, <2>10, Surviving
    <2>12. retired' \subseteq Records
      BY <2>2 DEF Inv, Types
    <2>13. QED
      BY <2>2, <2>3, <2>4, <2>5, <2>11, <2>12
  <1>9. Moved
    BY <1>7, <1>8
  <1> HIDE DEF at, slot
  <1>10. DiskOK'
    BY <1>4, <1>6, <1>9 DEF DiskOK
  <1>11. Types'
    BY <1>4, <1>5, <1>9, <1>10 DEF Inv, Types, tasks
  <1>12. TaskInv' /\ Steady /\ Written \subseteq Written'
    BY <1>1, <1>3, <1>4, <1>5, Working DEF Locked
  <1>13. LineInv'
    BY <1>4, <1>12, Lined DEF Inv
  <1>14. KeptInv'
    BY <1>4, <1>9, StaysKept DEF Inv
  <1>15. FilesInv'
    <2>1. Named' \subseteq Named \union {0}
      <3>1. \A e \in older' \union {dir'} : \A i \in Slots : e[i] \in Named \union {0}
        BY <1>4, <1>9 DEF Named, Names
      <3>2. QED
        BY <3>1 DEF Named, Names
    <2>2. QED
      BY <1>6, <1>10, <1>12, <2>1, Counting DEF Inv
  <1>16. HeldInv'
    <2>1. holder' = w
      BY <1>1, <1>4
    <2>2. CASE k = 0
      BY <1>3, <1>5, <2>1, <2>2 DEF HeldInv, at, Locked
    <2>3. CASE k # 0
      <3>1. at = "rotate" /\ slot + 1 = k
        BY <1>2, <2>3 DEF at, slot
      <3>2. dir'[thread'[w].slot + 1] = 0 /\ thread'[w].at = "rotate"
        BY <1>5, <1>9, <3>1
      <3>3. QED
        BY <2>1, <3>2 DEF HeldInv, Locked
    <2>4. QED
      BY <2>2, <2>3
  <1>17. QED
    BY <1>11, <1>12, <1>13, <1>14, <1>15, <1>16 DEF Inv

\* A torn tail gets its newline, or there is none.
LEMMA RepairStep ==
  ASSUME Inv, NEW w \in Writers, Repair(w)
  PROVE  Inv'
  <1>1. holder = w /\ thread[w].at = "repair"
    BY HasLocks DEF Repair, Locked
  <1>2. /\ thread' \in [Writers -> Appends]
        /\ thread'[w].at = "write" /\ thread'[w].record = thread[w].record
        /\ \A g \in Writers \ {w} : thread'[g] = thread[g]
    BY Going DEF Repair, Locked
  <1>3. UNCHANGED <<dir, older, holder, tasks, acked, retired, crashes>> /\ DiskOK
    BY DEF Repair, ghost, Inv, Types
  <1> DEFINE fine == dir[0] = 0 \/ Live = <<>> \/ Last(Live).form \in {"whole", "junk"}
             Mended == /\ DiskOK' /\ (\A r : Survives(r) => Survives(r)') /\ Named' = Named
                       /\ dir'[0] # 0 => Clean(Live')
                       /\ \A f \in Files : \A n \in 1 .. Len(lines'[f]) :
                            \E m \in 1 .. Len(lines[f]) : lines'[f][n].record = lines[f][m].record
  <1>4. ASSUME fine
        PROVE  Mended
    <2>1. UNCHANGED disk
      BY <1>4 DEF Repair, disk
    <2>2. Live' = Live /\ Named' = Named /\ DiskOK' /\ \A r : Survives(r) => Survives(r)'
      BY <1>3, <2>1 DEF disk, Live, Named, Names, DiskOK, Survives
    <2>3. dir'[0] # 0 => Clean(Live')
      BY <1>3, <1>4, <2>2 DEF Clean, Last
    <2>4. QED
      BY <2>1, <2>2, <2>3 DEF disk
  <1>5. ASSUME ~fine
        PROVE  Mended
    <2> DEFINE l == dir[0]
               t == Append(Front(Live), Terminated(Last(Live)))
    <2>1. /\ dir[0] # 0 /\ Live # <<>> /\ lines' = [lines EXCEPT ![l] = t]
          /\ synced' = [synced EXCEPT ![l] = Len(Live)]
      BY <1>5 DEF Repair, Live
    <2>2. /\ l \in Files /\ Live = lines[l] /\ Live \in Seq(Line) /\ Len(Live) \in Nat
          /\ synced[l] \in Nat /\ synced[l] <= Len(Live)
      BY <1>3, <2>1, LiveFile DEF Live
    <2>3. /\ t \in Seq(Line) /\ Len(t) = Len(Live) /\ Keep(Live, t, Len(Live)) /\ Clean(t)
          /\ \A n \in 1 .. Len(t) : t[n].record = Live[n].record
      BY <2>1, <2>2, Mending
    <2> HIDE DEF t
    <2>4. Len(Live) <= Len(t)
      BY <2>2, <2>3
    <2>5. /\ DiskOK' /\ \A r : Survives(r) => Survives(r)'
          /\ Live' = t /\ Named' = Named
          /\ \A f \in Files \ {l} : lines'[f] = lines[f]
      BY <1>3, <2>1, <2>2, <2>3, <2>4, LiveStep
    <2>6. lines'[l] = t
      BY <1>3, <2>1, <2>2 DEF DiskOK
    <2>7. \A f \in Files : \A n \in 1 .. Len(lines'[f]) :
             \E m \in 1 .. Len(lines[f]) : lines'[f][n].record = lines[f][m].record
      <3> SUFFICES ASSUME NEW f \in Files, NEW n \in 1 .. Len(lines'[f])
                   PROVE  \E m \in 1 .. Len(lines[f]) : lines'[f][n].record = lines[f][m].record
        OBVIOUS
      <3>1. CASE f = l
        BY <2>2, <2>3, <2>6, <3>1
      <3>2. CASE f # l
        BY <2>5, <3>2
      <3>3. QED
        BY <3>1, <3>2
    <2>8. QED
      BY <2>3, <2>5, <2>7
  <1>6. Mended
    BY <1>4, <1>5
  <1>7. Types'
    BY <1>2, <1>3, <1>6 DEF Inv, Types, tasks
  <1>8. TaskInv' /\ Steady /\ Written \subseteq Written'
    BY <1>1, <1>2, <1>3, Working DEF Locked
  <1>9. LineInv'
    BY <1>6, <1>8, Lined DEF Inv
  <1>10. KeptInv'
    BY <1>3, <1>6, StaysKept DEF Inv
  <1>11. FilesInv'
    BY <1>3, <1>6, <1>8, Counting DEF Inv
  <1>12. HeldInv'
    BY <1>1, <1>2, <1>3, <1>6 DEF HeldInv, Clean, Locked
  <1>13. QED
    BY <1>7, <1>8, <1>9, <1>10, <1>11, <1>12 DEF Inv

\* The line of an append that is about to write it.
LEMMA TheLine ==
  ASSUME Inv, NEW w \in Writers, At(w, "write")
  PROVE  \E phase \in Phases :
            /\ thread[w].record = <<w, phase, target[w]>> /\ thread[w].record \in Records
            /\ Unwritten(w, phase) /\ worker[w] \in {phase, "done"}
  <1>1. thread[w].at = "write"
    BY DEF At
  <1>2. PICK phase \in Phases : /\ thread[w].record = <<w, phase, target[w]>>
                                /\ worker[w] \in {phase, "done"}
    BY <1>1 DEF Inv, TaskInv, TaskOK, ThreadOK
  <1>3. target[w] \in Contexts
    BY DEF Inv, Types
  <1>4. <<w, phase, target[w]>> \in Records
    BY <1>3, Stamping
  <1>5. Unwritten(w, phase)
    BY <1>1, <1>2 DEF Unwritten
  <1>6. QED
    BY <1>2, <1>4, <1>5

\* A line put on the disk: the file it may need, and what it says.
LEMMA PutStep ==
  ASSUME Inv, NEW w \in Writers, At(w, "write"), NEW form \in {"whole", "bare", "part"},
         Put(thread[w].record, form), Steady, Written \subseteq Written',
         acked' = acked, retired' = retired,
         thread'[w].at \notin {"queued", "waiting", "rotate", "repair", "write"},
         worker'[w] \in {worker[w], "done"}
  PROVE  DiskOK' /\ LineInv' /\ KeptInv' /\ FilesInv'
  <1>0. PICK r : r = thread[w].record
    OBVIOUS
  <1>1. PICK phase \in Phases :
           /\ r = <<w, phase, target[w]>> /\ r \in Records
           /\ Unwritten(w, phase) /\ worker[w] \in {phase, "done"}
    BY <1>0, TheLine
  <1>2. DiskOK
    BY DEF Inv, Types
  <1>3. /\ DiskOK' /\ \A s : Survives(s) => Survives(s)'
        /\ Named' \subseteq Named \union {0, New}
        /\ Repeats(r)
    <2>1. Put(r, form) /\ r \in Records /\ Unwritten(w, phase)
      BY <1>0, <1>1
    <2>2. FilesInv
      BY DEF Inv
    <2>3. DiskOK' /\ \A s : Survives(s) => Survives(s)'
      BY <1>2, <2>1, <2>2, Putting
    <2>4. Named' \subseteq Named \union {0, New}
      BY <1>2, <2>1, <2>2, Putting
    <2>5. Repeats(r)
      BY <1>2, <2>1, <2>2, Putting
    <2>6. QED
      BY <2>3, <2>4, <2>5
  <1>4. Lawful(r)
    <2>1. worker[w] # "idle"
      BY <1>1 DEF Phases
    <2>2. target'[w] = target[w] /\ worker'[w] # "idle"
      BY <2>1 DEF Steady
    <2>3. r[1] = w /\ r[3] = target[w]
      BY <1>1
    <2>4. QED
      BY <2>2, <2>3 DEF Lawful
  <1>5. LineInv'
    BY <1>3, <1>4, Lined DEF Inv, Repeats
  <1>6. KeptInv'
    BY <1>3, StaysKept DEF Inv
  <1>7. Written' # Written
    <2> DEFINE x == <<w, phase>>
    <2>1. x \in Writers \X Phases /\ x[1] = w /\ x[2] = phase
      OBVIOUS
    <2>2. ~Unwritten(w, phase)'
      BY <1>1 DEF Unwritten, Phases
    <2>3. x \notin Written /\ x \in Written'
      BY <1>1, <2>1, <2>2 DEF Written
    <2>4. QED
      BY <2>3
  <1>8. FilesInv'
    BY <1>2, <1>3, <1>7, Counting DEF Inv
  <1>9. QED
    BY <1>3, <1>5, <1>6, <1>8

\* The line is written, all of it or a part.
LEMMA WriteStep ==
  ASSUME Inv, NEW w \in Writers, Write(w)
  PROVE  Inv'
  <1>1. At(w, "write") /\ UNCHANGED <<tasks, ghost>>
    BY DEF Write
  <1>2. holder = w /\ thread[w].at = "write" /\ thread[w] \in Appends /\ (dir[0] # 0 => Clean(Live))
    BY <1>1, HasLocks DEF Locked
  <1>3. UNCHANGED <<tasks, acked, retired, crashes>>
    BY <1>1 DEF ghost
  <1>4. CASE Put(thread[w].record, "whole") /\ Goes(w, "fsync") /\ UNCHANGED holder
    <2>1. /\ thread' \in [Writers -> Appends]
          /\ thread'[w].at = "fsync" /\ thread'[w].record = thread[w].record
          /\ \A g \in Writers \ {w} : thread'[g] = thread[g]
      BY <1>4, Going DEF Locked
    <2>2. TaskInv' /\ Steady /\ Written \subseteq Written'
      BY <1>2, <1>3, <2>1, Working DEF Locked
    <2>3. DiskOK' /\ LineInv' /\ KeptInv' /\ FilesInv'
      <3>1. worker'[w] = worker[w]
        BY <1>3 DEF tasks
      <3>2. QED
        BY <1>1, <1>3, <1>4, <2>1, <2>2, <3>1, PutStep
    <2>4. Types'
      BY <1>3, <1>4, <2>1, <2>3 DEF Inv, Types, tasks
    <2>5. HeldInv'
      <3>1. PICK phase \in Phases : Unwritten(w, phase) /\ thread[w].record \in Records
        BY <1>1, TheLine
      <3>0. PICK r : r = thread[w].record
        OBVIOUS
      <3>2. DiskOK /\ FilesInv /\ Put(r, "whole") /\ r \in Records
        BY <1>4, <3>0, <3>1 DEF Inv, Types
      <3>3. dir'[0] # 0 /\ Live' # <<>> /\ Live'[Len(Live')] = [record |-> r, form |-> "whole"]
        BY <1>2, <3>1, <3>2, Putting
      <3>4. QED
        BY <1>2, <1>4, <2>1, <3>0, <3>3 DEF HeldInv, Locked
    <2>6. QED
      BY <2>2, <2>3, <2>4, <2>5 DEF Inv
  <1>5. CASE \E form \in {"bare", "part"} : Put(thread[w].record, form) /\ Ends(w, "failed")
    <2>1. PICK form \in {"bare", "part"} : Put(thread[w].record, form) /\ Ends(w, "failed")
      BY <1>5
    <2>2. /\ thread' \in [Writers -> Appends] /\ holder' = None
          /\ TaskInv' /\ Steady /\ Written \subseteq Written'
          /\ thread'[w].at \notin {"queued", "waiting"} \union Locked
      BY <1>2, <1>3, <2>1, Ending DEF Locked
    <2>3. DiskOK' /\ LineInv' /\ KeptInv' /\ FilesInv'
      <3>1. worker'[w] = worker[w]
        BY <1>3 DEF tasks
      <3>2. thread'[w].at \notin {"queued", "waiting", "rotate", "repair", "write"}
        BY <2>2 DEF Locked
      <3>3. QED
        BY <1>1, <1>3, <2>1, <2>2, <3>1, <3>2, PutStep
    <2>4. Types'
      BY <1>3, <2>2, <2>3 DEF Inv, Types, tasks
    <2>5. HeldInv'
      BY <2>2 DEF HeldInv
    <2>6. QED
      BY <2>2, <2>3, <2>4, <2>5 DEF Inv
  <1>6. QED
    BY <1>4, <1>5 DEF Write

\* The file is synced.
LEMMA FsyncStep ==
  ASSUME Inv, NEW w \in Writers, Fsync(w)
  PROVE  Inv'
  <1>1. /\ holder = w /\ thread[w].at = "fsync"
        /\ dir[0] # 0 /\ Live # <<>>
        /\ Live[Len(Live)] = [record |-> thread[w].record, form |-> "whole"]
    BY HasLocks DEF Fsync, Locked
  <1>2. /\ thread' \in [Writers -> Appends]
        /\ thread'[w].at = "syncdir" /\ thread'[w].record = thread[w].record
        /\ \A g \in Writers \ {w} : thread'[g] = thread[g]
    BY Going DEF Fsync, Locked
  <1>3. /\ UNCHANGED <<dir, older, lines, holder, tasks, acked, retired, crashes>> /\ DiskOK
        /\ synced' = [synced EXCEPT ![dir[0]] = Len(Live)]
    BY DEF Fsync, ghost, Inv, Types
  <1>4. /\ DiskOK' /\ \A r : Survives(r) => Survives(r)'
        /\ Live' = Live /\ synced'[dir'[0]] = Len(Live) /\ Named' = Named
    <2> DEFINE t == Live
               k == Len(Live)
    <2>1. /\ dir[0] \in Files /\ t \in Seq(Line) /\ k \in Nat /\ k <= Len(t)
          /\ synced[dir[0]] \in Nat /\ synced[dir[0]] <= k /\ t = lines[dir[0]]
      BY <1>1, <1>3, LiveFile DEF Live
    <2>2. Keep(Live, t, Len(Live))
      BY <2>1 DEF Keep
    <2>3. lines' = [lines EXCEPT ![dir[0]] = t] /\ synced' = [synced EXCEPT ![dir[0]] = k]
      BY <1>3, <2>1 DEF DiskOK
    <2> HIDE DEF t, k
    <2>4. /\ DiskOK' /\ \A r : Survives(r) => Survives(r)'
          /\ Live' = t /\ synced'[dir'[0]] = k /\ Named' = Named
      BY <1>1, <1>3, <2>1, <2>2, <2>3, LiveStep
    <2>5. QED
      BY <2>4 DEF t, k
  <1>5. Types'
    BY <1>2, <1>3, <1>4 DEF Inv, Types, tasks
  <1>6. TaskInv' /\ Steady /\ Written \subseteq Written'
    BY <1>1, <1>2, <1>3, Working DEF Locked
  <1>7. LineInv'
    BY <1>3, <1>6, Lined DEF Inv
  <1>8. KeptInv'
    BY <1>3, <1>4, StaysKept DEF Inv
  <1>9. FilesInv'
    BY <1>3, <1>4, <1>6, Counting DEF Inv
  <1>10. HeldInv'
    BY <1>1, <1>2, <1>3, <1>4 DEF HeldInv, Locked
  <1>11. QED
    BY <1>5, <1>6, <1>7, <1>8, <1>9, <1>10 DEF Inv

\* What no directory names is gone; the files of `d` stay.
LEMMA Linking ==
  ASSUME NEW d, NEW of, NEW gone, NEW f \in Files
  PROVE  Linked(d, of, gone)[f] = IF f \in Names(d) THEN of[f] ELSE gone
  BY DEF Linked

\* The directory is synced, and append returns: what it wrote is there for good.
LEMMA SyncDirStep ==
  ASSUME Inv, NEW w \in Writers, SyncDir(w)
  PROVE  Inv'
  <1>0. PICK r : r = thread[w].record
    OBVIOUS
  <1>1. /\ holder = w /\ thread[w].at = "syncdir" /\ thread[w] \in Appends
        /\ dir[0] # 0 /\ Live # <<>> /\ synced[dir[0]] = Len(Live)
        /\ Live[Len(Live)] = [record |-> r, form |-> "whole"]
    BY <1>0, HasLocks DEF SyncDir, Locked
  <1>2. /\ Ends(w, "ok") /\ older' = {} /\ acked' = acked \union {r}
        /\ lines' = Linked(dir, lines, <<>>) /\ synced' = Linked(dir, synced, 0)
        /\ UNCHANGED <<dir, tasks, retired, crashes>>
    BY <1>0 DEF SyncDir
  <1>3. DiskOK /\ \A f \in Files : synced[f] \in Nat /\ lines[f] \in Seq(Line)
    BY DEF Inv, Types, DiskOK
  <1>4. /\ thread' \in [Writers -> Appends] /\ holder' = None
        /\ TaskInv' /\ Steady /\ Written \subseteq Written'
    <2>1. thread[w].record \in acked'
      BY <1>0, <1>2
    <2>2. QED
      BY <1>1, <1>2, <2>1, Ending DEF Locked
  <1>5. \A f \in Files : /\ f \in Names(dir) => lines'[f] = lines[f] /\ synced'[f] = synced[f]
                         /\ f \notin Names(dir) => lines'[f] = <<>> /\ synced'[f] = 0
    BY <1>2, Linking
  <1>6. DiskOK'
    <2>1. lines' \in [Files -> Seq(Line)] /\ synced' \in [Files -> Nat]
      <3>1. \A f \in Files : lines'[f] \in Seq(Line) /\ synced'[f] \in Nat
        <4>1. <<>> \in Seq(Line) /\ 0 \in Nat
          BY EmptySeq
        <4>2. QED
          BY <1>3, <1>5, <4>1, Zenon
      <3>2. QED
        BY <1>2, <3>1 DEF Linked
    <2>2. \A f \in Files : synced'[f] <= Len(lines'[f])
      <3>1. Len(<<>>) = 0
        BY EmptySeq
      <3>2. QED
        BY <1>3, <1>5, <3>1 DEF DiskOK
    <2>3. QED
      BY <1>2, <1>3, <2>1, <2>2 DEF DiskOK
  <1>7. \A s : Survives(s) => Survives(s)'
    <2> SUFFICES ASSUME NEW s, Survives(s)
                 PROVE  Survives(s)'
      OBVIOUS
    <2>1. \A f \in Files : f \in Names(dir) => Lasting(f)
      BY <1>3, <1>5 DEF Lasting, Keep, DiskOK
    <2>2. \A i \in Slots : dir[i] # 0 => Lasting(dir[i])
      BY <1>3, <2>1 DEF DiskOK, Dirs, Names
    <2>3. \A e \in older' \union {dir'} : \E d \in older \union {dir} :
             \A i \in Slots : d[i] # 0 => Lasting(d[i]) /\ \E j \in Slots : e[j] = d[i]
      BY <1>2, <2>2
    <2>4. QED
      BY <1>3, <1>6, <2>3, Surviving
  <1>8. Survives(r)'
    <2>1. dir[0] \in Files /\ dir[0] \in Names(dir) /\ 0 \in Slots
      BY <1>1, <1>3, LiveFile, Queuing DEF Names
    <2> DEFINE n == Len(Live)
    <2>2. n \in Nat \ {0} /\ Live = lines[dir[0]]
      BY <1>1, <1>3, LiveFile, EmptySeq DEF Live
    <2>3. dir' = dir /\ lines'[dir'[0]] = Live /\ synced'[dir'[0]] = n
      BY <1>1, <1>2, <1>5, <2>1, <2>2
    <2> HIDE DEF n
    <2>4. n \in 1 .. synced'[dir'[0]]
      BY <2>2, <2>3
    <2>5. lines'[dir'[0]][n] = [record |-> r, form |-> "whole"]
      BY <1>1, <2>3 DEF n
    <2>6. \A e \in older' \union {dir'} : e = dir'
      BY <1>2
    <2>7. dir'[0] # 0 /\ 0 \in Slots
      BY <1>1, <2>1, <2>3
    <2>8. QED
      BY <2>4, <2>5, <2>6, <2>7, Zenon DEF Survives
  <1>9. r \in Records
    <2>1. PICK phase \in Phases : r = <<w, phase, target[w]>>
      BY <1>0, <1>1 DEF Inv, TaskInv, TaskOK, ThreadOK
    <2>2. target[w] \in Contexts
      BY DEF Inv, Types
    <2>3. QED
      BY <2>1, <2>2, Stamping
  <1>10. Types'
    BY <1>2, <1>4, <1>6, <1>9 DEF Inv, Types, tasks
  <1>11. LineInv'
    <2>1. \A f \in Files : \A n \in 1 .. Len(lines'[f]) :
             \E m \in 1 .. Len(lines[f]) : lines'[f][n].record = lines[f][m].record
      <3>1. Len(<<>>) = 0 /\ 1 .. 0 = {}
        BY EmptySeq
      <3>2. QED
        BY <1>5, <3>1
    <2>2. QED
      BY <1>4, <2>1, Lined DEF Inv
  <1>12. KeptInv'
    <2>1. \A s \in acked : s \in retired \/ Survives(s)
      BY DEF Inv, KeptInv
    <2>2. \A s \in acked' : s \in retired' \/ Survives(s)'
      BY <1>2, <1>7, <1>8, <2>1, Zenon
    <2>3. QED
      BY <2>2 DEF KeptInv
  <1>13. FilesInv'
    <2>1. Named' \subseteq Named
      BY <1>2 DEF Named, Names
    <2>2. QED
      BY <1>3, <1>4, <1>6, <2>1, Counting DEF Inv
  <1>14. HeldInv'
    BY <1>4 DEF HeldInv
  <1>15. QED
    BY <1>4, <1>10, <1>11, <1>12, <1>13, <1>14 DEF Inv

-----------------------------------------------------------------------------
(* Crashes.                                                                *)

\* The tasks of `ws` are no more; what they mutated had its intent acknowledged.
LEMMA Dying ==
  ASSUME Inv, NEW ws \in SUBSET Writers, Die(ws)
  PROVE  /\ thread' \in [Writers -> Appends] /\ holder' \in Writers \union {None}
         /\ worker' \in [Writers -> {"idle", "intent", "mutating", "outcome", "done"}]
         /\ mutated' \subseteq Writers /\ crashes' \in 0 .. MaxCrashes
         /\ UNCHANGED <<target, context, acked, retired>>
         /\ TaskInv' /\ Steady /\ Written \subseteq Written'
         /\ holder' # None => holder' = holder /\ thread'[holder] = thread[holder]
         /\ holder \in ws => holder' = None
         /\ \A w \in ws : /\ thread'[w] = NoAppend
                          /\ worker'[w] = IF worker[w] = "idle" THEN "idle" ELSE "done"
  <1>1. /\ UNCHANGED <<target, context, acked, retired>>
        /\ holder' = IF holder \in ws THEN None ELSE holder
        /\ mutated' \subseteq mutated \union {w \in ws : worker[w] = "mutating"}
        /\ crashes < MaxCrashes /\ crashes' = crashes + 1
    BY DEF Die
  <1>2. \A w \in Writers :
           /\ w \in ws => /\ thread'[w] = NoAppend
                          /\ worker'[w] = IF worker[w] = "idle" THEN "idle" ELSE "done"
           /\ w \notin ws => thread'[w] = thread[w] /\ worker'[w] = worker[w]
    BY DEF Die
  <1>3. thread' \in [Writers -> Appends]
    <2>1. \A w \in Writers : thread'[w] \in Appends
      BY <1>2, Queuing DEF Inv, Types
    <2>2. QED
      BY <2>1 DEF Die
  <1>4. worker' \in [Writers -> {"idle", "intent", "mutating", "outcome", "done"}]
    <2>1. \A w \in Writers : worker'[w] \in {"idle", "intent", "mutating", "outcome", "done"}
      BY <1>2 DEF Inv, Types
    <2>2. QED
      BY <2>1 DEF Die
  <1>5. holder \in Writers \union {None} /\ mutated \subseteq Writers /\ crashes \in 0 .. MaxCrashes
    BY DEF Inv, Types
  <1>6. holder' \in Writers \union {None} /\ mutated' \subseteq Writers
    BY <1>1, <1>5
  <1>7. crashes' \in 0 .. MaxCrashes
    BY <1>1, <1>5, AuditAssumption
  <1>8. TaskInv'
    <2> SUFFICES ASSUME NEW w \in Writers
                 PROVE  TaskOK(w)'
      BY DEF TaskInv
    <2>1. TaskOK(w)
      BY DEF Inv, TaskInv
    <2>2. CASE w \in ws
      <3>1. thread'[w].at = "none" /\ worker'[w] \in {"idle", "done"}
        BY <1>2, <2>2 DEF NoAppend
      <3>2. w \in mutated' => <<w, "intent", target[w]>> \in acked
        BY <1>1, <2>1 DEF TaskOK, AckOK
      <3>3. worker'[w] = "idle" => w \notin mutated'
        BY <1>1, <1>2, <2>1, <2>2 DEF TaskOK, AckOK
      <3>4. AckOK(w)'
        BY <1>1, <3>1, <3>2, <3>3 DEF AckOK
      <3>5. ThreadOK(w)' /\ ContextOK(w)'
        BY <3>1 DEF ThreadOK, ContextOK, Phases
      <3>6. QED
        BY <3>4, <3>5 DEF TaskOK
    <2>3. CASE w \notin ws
      <3>1. /\ thread'[w] = thread[w] /\ worker'[w] = worker[w] /\ target'[w] = target[w]
            /\ context'[SessionOf(w)] = context[SessionOf(w)] /\ (w \in mutated' => w \in mutated)
            /\ acked \subseteq acked'
        BY <1>1, <1>2, <2>3
      <3>2. QED
        BY <2>1, <3>1, SameTask DEF Inv
    <2>4. QED
      BY <2>2, <2>3
  <1>9. Steady
    BY <1>1, <1>2 DEF Steady
  <1>10. Written \subseteq Written'
    <2>1. \A w \in Writers : \A phase \in Phases : Unwritten(w, phase)' => Unwritten(w, phase)
      <3> SUFFICES ASSUME NEW w \in Writers, NEW phase \in Phases, Unwritten(w, phase)'
                   PROVE  Unwritten(w, phase)
        OBVIOUS
      <3>1. CASE w \in ws
        BY <1>2, <3>1 DEF Unwritten, NoAppend
      <3>2. CASE w \notin ws
        BY <1>2, <3>2 DEF Unwritten
      <3>3. QED
        BY <3>1, <3>2
    <2>2. QED
      BY <2>1, StaysWritten
  <1>11. holder' # None => holder' = holder /\ thread'[holder] = thread[holder]
    BY <1>1, <1>2, <1>5
  <1>12. QED
    BY <1>1, <1>2, <1>3, <1>4, <1>6, <1>7, <1>8, <1>9, <1>10, <1>11

\* A session is killed, perhaps in the middle of its write.
LEMMA KillStep ==
  ASSUME Inv, NEW s \in Sessions, Kill(s)
  PROVE  Inv'
  <1> DEFINE ws == {w \in Writers : SessionOf(w) = s}
  <1>1. Die(ws) /\ ws \in SUBSET Writers
    BY DEF Kill
  <1>2. \/ UNCHANGED disk
        \/ \E w \in ws, form \in {"bare", "part", "whole"} : At(w, "write") /\ Put(thread[w].record, form)
    BY DEF Kill
  <1> HIDE DEF ws
  <1>3. /\ thread' \in [Writers -> Appends] /\ holder' \in Writers \union {None}
        /\ worker' \in [Writers -> {"idle", "intent", "mutating", "outcome", "done"}]
        /\ mutated' \subseteq Writers /\ crashes' \in 0 .. MaxCrashes
        /\ UNCHANGED <<target, context, acked, retired>>
        /\ TaskInv' /\ Steady /\ Written \subseteq Written'
        /\ holder' # None => holder' = holder /\ thread'[holder] = thread[holder]
        /\ holder \in ws => holder' = None
        /\ \A w \in ws : /\ thread'[w] = NoAppend
                         /\ worker'[w] = IF worker[w] = "idle" THEN "idle" ELSE "done"
    BY <1>1, Dying
  <1>4. CASE UNCHANGED disk
    <2>1. LineInv' /\ KeptInv' /\ FilesInv'
      BY <1>3, <1>4, Quiet
    <2>2. HeldInv'
      <3>1. CASE holder' = None
        BY <3>1 DEF HeldInv
      <3>2. CASE holder' # None
        BY <1>3, <1>4, <3>2, StillHeld DEF Inv
      <3>3. QED
        BY <3>1, <3>2
    <2>3. Types'
      BY <1>3, <1>4 DEF Inv, Types, DiskOK, disk
    <2>4. QED
      BY <1>3, <2>1, <2>2, <2>3 DEF Inv
  <1>5. CASE \E w \in ws, form \in {"bare", "part", "whole"} : At(w, "write") /\ Put(thread[w].record, form)
    <2>1. PICK w \in ws, form \in {"bare", "part", "whole"} : At(w, "write") /\ Put(thread[w].record, form)
      BY <1>5
    <2>2. w \in Writers /\ holder = w
      BY <1>1, <2>1, HasLocks DEF Locked
    <2>3. DiskOK' /\ LineInv' /\ KeptInv' /\ FilesInv'
      <3>1. thread'[w].at = "none" /\ worker'[w] \in {worker[w], "done"}
        BY <1>3, <2>1 DEF NoAppend
      <3>2. QED
        BY <1>3, <2>1, <2>2, <3>1, PutStep
    <2>4. HeldInv'
      BY <1>3, <2>1, <2>2 DEF HeldInv
    <2>5. Types'
      BY <1>3, <2>3 DEF Inv, Types
    <2>6. QED
      BY <1>3, <2>3, <2>4, <2>5 DEF Inv
  <1>6. QED
    BY <1>2, <1>4, <1>5

\* The machine stops: each file the disk still names has what was synced of it.
LEMMA PowerCutStep ==
  ASSUME Inv, PowerCut
  PROVE  Inv'
  <1>1. Die(Writers) /\ dir' \in older \union {dir} /\ older' = {}
    BY DEF PowerCut
  <1>2. /\ thread' \in [Writers -> Appends] /\ holder' = None
        /\ worker' \in [Writers -> {"idle", "intent", "mutating", "outcome", "done"}]
        /\ mutated' \subseteq Writers /\ crashes' \in 0 .. MaxCrashes
        /\ UNCHANGED <<target, context, acked, retired>>
        /\ TaskInv' /\ Steady /\ Written \subseteq Written'
    <2>1. holder \in Writers \union {None}
      BY DEF Inv, Types
    <2>2. QED
      BY <1>1, <2>1, Dying
  <1>3. DiskOK /\ \A f \in Files : lines[f] \in Seq(Line) /\ synced[f] \in Nat /\ synced[f] <= Len(lines[f])
    BY DEF Inv, Types, DiskOK
  <1> DEFINE unsynced == {f \in Files : synced[f] < Len(lines[f])}
  <1>4. PICK left \in [unsynced -> UNION {Torn(f) : f \in unsynced}] :
           /\ \A f \in unsynced : left[f] \in Torn(f)
           /\ lines' = Linked(dir', [f \in Files |-> IF f \in unsynced THEN left[f] ELSE lines[f]], <<>>)
           /\ synced' = [f \in Files |-> Len(lines'[f])]
    BY DEF PowerCut
  <1>5. \A f \in Files :
           lines'[f] = IF f \in Names(dir') THEN IF f \in unsynced THEN left[f] ELSE lines[f]
                       ELSE <<>>
    BY <1>4, Linking
  <1>6. \A f \in Files :
           /\ lines'[f] \in Seq(Line)
           /\ f \in Names(dir') => Keep(lines[f], lines'[f], synced[f])
           /\ \A n \in 1 .. Len(lines'[f]) :
                 \E m \in 1 .. Len(lines[f]) : lines'[f][n].record = lines[f][m].record
    <2> SUFFICES ASSUME NEW f \in Files
                 PROVE  /\ lines'[f] \in Seq(Line)
                        /\ f \in Names(dir') => Keep(lines[f], lines'[f], synced[f])
                        /\ \A n \in 1 .. Len(lines'[f]) :
                              \E m \in 1 .. Len(lines[f]) : lines'[f][n].record = lines[f][m].record
      OBVIOUS
    <2>1. CASE f \notin Names(dir')
      <3>1. <<>> \in Seq(Line) /\ 1 .. Len(<<>>) = {}
        BY EmptySeq
      <3>2. lines'[f] = <<>>
        BY <1>5, <2>1
      <3>3. QED
        BY <2>1, <3>1, <3>2
    <2>2. CASE f \in Names(dir') /\ f \in unsynced
      <3>1. lines'[f] = left[f] /\ left[f] \in Torn(f)
        BY <1>4, <1>5, <2>2
      <3>2. PICK t \in Torn(f) : lines'[f] = t
        BY <3>1
      <3>3. /\ t \in Seq(Line) /\ Keep(lines[f], t, synced[f])
            /\ \A n \in 1 .. Len(t) : \E m \in 1 .. Len(lines[f]) : t[n].record = lines[f][m].record
        BY <1>3, <3>2, Tearing
      <3>4. QED
        BY <3>2, <3>3
    <2>3. CASE f \in Names(dir') /\ f \notin unsynced
      <3>1. lines'[f] = lines[f]
        BY <1>5, <2>3
      <3>2. QED
        BY <1>3, <3>1 DEF Keep
    <2>4. QED
      BY <2>1, <2>2, <2>3
  <1> HIDE DEF unsynced
  <1>7. \A f \in Files : synced'[f] = Len(lines'[f]) /\ Len(lines'[f]) \in Nat
    BY <1>4, <1>6, LenProperties
  <1>8. DiskOK'
    <2>1. lines' \in [Files -> Seq(Line)]
      BY <1>4, <1>6 DEF Linked
    <2>2. synced' \in [Files -> Nat]
      BY <1>4, <1>7
    <2>3. dir' \in Dirs /\ older' \subseteq Dirs
      BY <1>1, <1>3 DEF DiskOK
    <2>4. QED
      BY <1>7, <2>1, <2>2, <2>3 DEF DiskOK
  <1>9. \A r : Survives(r) => Survives(r)'
    <2> SUFFICES ASSUME NEW r, Survives(r)
                 PROVE  Survives(r)'
      OBVIOUS
    <2>1. \A f \in Files : f \in Names(dir') => Lasting(f)
      BY <1>6, <1>7 DEF Lasting, Keep
    <2>2. \A i \in Slots : dir'[i] # 0 => dir'[i] \in Files /\ dir'[i] \in Names(dir')
      BY <1>8 DEF DiskOK, Dirs, Names
    <2>3. \A e \in older' \union {dir'} : \E d \in older \union {dir} :
             \A i \in Slots : d[i] # 0 => Lasting(d[i]) /\ \E j \in Slots : e[j] = d[i]
      BY <1>1, <2>1, <2>2
    <2>4. QED
      BY <1>3, <1>8, <2>3, Surviving
  <1>10. Types'
    BY <1>2, <1>8 DEF Inv, Types
  <1>11. LineInv'
    BY <1>2, <1>6, Lined DEF Inv
  <1>12. KeptInv'
    BY <1>2, <1>9, StaysKept DEF Inv
  <1>13. FilesInv'
    <2>1. Named' \subseteq Named
      BY <1>1 DEF Named, Names
    <2>2. QED
      BY <1>2, <1>3, <1>8, <2>1, Counting DEF Inv
  <1>14. HeldInv'
    BY <1>2 DEF HeldInv
  <1>15. QED
    BY <1>2, <1>10, <1>11, <1>12, <1>13, <1>14 DEF Inv

-----------------------------------------------------------------------------
(* Theorems.                                                               *)

\* No file, no record and no write is there at the start.
LEMMA InvInit == Init => Inv
  <1> SUFFICES ASSUME Init
               PROVE  Inv
    OBVIOUS
  <1>1. Some \in Contexts
    BY AuditAssumption DEF Some
  <1>2. <<>> \in Seq(Line) /\ Len(<<>>) = 0 /\ 1 .. 0 = {}
    BY EmptySeq
  <1>3. Types
    <2>1. DiskOK
      BY <1>2 DEF Init, DiskOK, Dirs
    <2>2. thread \in [Writers -> Appends]
      BY Queuing DEF Init
    <2>3. QED
      BY <1>1, <2>1, <2>2, AuditAssumption DEF Init, Types
  <1>4. TaskInv
    BY DEF Init, TaskInv, TaskOK, ThreadOK, ContextOK, AckOK, NoAppend, Phases
  <1>5. HeldInv /\ KeptInv
    BY DEF Init, HeldInv, KeptInv
  <1>6. LineInv
    BY <1>2 DEF Init, LineInv
  <1>7. FilesInv
    <2>1. Named \ {0} = {}
      BY DEF Init, Named, Names
    <2>2. IsFiniteSet(Written)
      BY Counts, FS_Subset DEF Written
    <2>3. Cardinality(Written) \in Nat
      BY <2>2, FS_CardinalityType
    <2>4. QED
      BY <2>1, <2>3, FS_EmptySet DEF FilesInv
  <1>8. QED
    BY <1>3, <1>4, <1>5, <1>6, <1>7 DEF Inv

\* No step of a session, and no crash, breaks it.
LEMMA InvNext == Inv /\ [Next]_vars => Inv'
  <1> SUFFICES ASSUME Inv, [Next]_vars
               PROVE  Inv'
    OBVIOUS
  <1>1. CASE UNCHANGED vars
    <2>1. UNCHANGED <<disk, holder, thread, tasks, ghost>>
      BY <1>1 DEF vars
    <2>2. Types'
      BY <2>1 DEF Inv, Types, DiskOK, disk, tasks, ghost
    <2>3. TaskInv'
      BY <2>1 DEF Inv, TaskInv, TaskOK, ThreadOK, ContextOK, AckOK, tasks, ghost
    <2>4. Steady /\ Written \subseteq Written'
      BY <2>1 DEF Steady, Written, Unwritten, tasks
    <2>5. LineInv' /\ KeptInv' /\ FilesInv'
      <3>1. UNCHANGED <<disk, acked, retired>>
        BY <2>1 DEF ghost
      <3>2. QED
        BY <2>4, <3>1, Quiet
    <2>6. HeldInv'
      BY <2>1, StillHeld DEF Inv
    <2>7. QED
      BY <2>2, <2>3, <2>5, <2>6 DEF Inv
  <1>2. ASSUME NEW w \in Writers, Begin(w) \/ IntentReturns(w) \/ Mutates(w) \/ OutcomeReturns(w) \/ Cancel(w)
        PROVE  Inv'
    BY <1>2, BeginStep, IntentReturnsStep, MutatesStep, OutcomeReturnsStep, CancelStep
  <1>3. ASSUME NEW w \in Writers, Stamp(w) \/ Lock(w) \/ Raises(w)
        PROVE  Inv'
    BY <1>3, StampStep, LockStep, RaisesStep
  <1>4. ASSUME NEW w \in Writers, Rotate(w) \/ Repair(w) \/ Write(w) \/ Fsync(w) \/ SyncDir(w)
        PROVE  Inv'
    BY <1>4, RotateStep, RepairStep, WriteStep, FsyncStep, SyncDirStep
  <1>5. ASSUME NEW s \in Sessions, Kill(s) \/ \E c \in Contexts : SetContext(s, c)
        PROVE  Inv'
    BY <1>5, KillStep, SetContextStep
  <1>6. QED
    BY <1>1, <1>2, <1>3, <1>4, <1>5, PowerCutStep DEF Next

\* The invariant of every behaviour of the log.
THEOREM Invariance == Spec => []Inv
  BY InvInit, InvNext, PTL DEF Spec

\* Every variable keeps to its type, the durable part of each file among them.
THEOREM TypeCorrect == Spec => []TypeOK
  <1>1. Inv => TypeOK
    <2> SUFFICES ASSUME Inv
                 PROVE  TypeOK
      OBVIOUS
    <2>1. Types /\ DiskOK
      BY DEF Inv, Types
    <2>2. \A f \in Files : /\ synced[f] \in 0 .. Len(lines[f])
                           /\ \A l \in ToSet(lines[f]) :
                                 /\ l.record \in Records
                                 /\ l.form \in {"whole", "bare", "part", "junk"}
      <3> SUFFICES ASSUME NEW f \in Files
                   PROVE  /\ synced[f] \in 0 .. Len(lines[f])
                          /\ \A l \in ToSet(lines[f]) :
                                /\ l.record \in Records
                                /\ l.form \in {"whole", "bare", "part", "junk"}
        OBVIOUS
      <3>1. lines[f] \in Seq(Line) /\ synced[f] \in Nat /\ synced[f] <= Len(lines[f])
        BY <2>1 DEF DiskOK
      <3>2. Len(lines[f]) \in Nat /\ ToSet(lines[f]) \subseteq Line
        BY <3>1, LenProperties, ElementOfSeq DEF ToSet
      <3>3. QED
        BY <3>1, <3>2 DEF Line
    <2>3. \A w \in Writers :
             /\ thread[w].at \in {"none", "queued", "waiting", "rotate", "repair", "write",
                                  "fsync", "syncdir", "ok", "failed"}
             /\ thread[w].slot \in Slots
      BY <2>1 DEF Types, Appends, Locked
    <2>4. QED
      BY <2>1, <2>2, <2>3 DEF Types, DiskOK, Dirs, TypeOK
  <1>2. QED
    BY <1>1, Invariance, PTL

\* A cluster is changed only on the record: the intent of each mutation, like each record
\* whose append returned, survives every crash until it is retired, and every record names
\* the context its write ran on.
THEOREM MutationsAreOnRecord == Spec => []OnRecord
  <1>1. Inv => OnRecord
    <2> SUFFICES ASSUME Inv
                 PROVE  OnRecord
      OBVIOUS
    <2>1. \A w \in mutated : <<w, "intent", target[w]>> \in acked
      BY DEF Inv, Types, TaskInv, TaskOK, AckOK
    <2>2. \A r \in acked \union {<<w, "intent", target[w]>> : w \in mutated} :
             r \in retired \/ Survives(r)
      BY <2>1 DEF Inv, KeptInv
    <2>3. ASSUME NEW f \in Files, NEW l \in ToSet(lines[f])
          PROVE  l.record[3] = target[l.record[1]]
      <3>1. lines[f] \in Seq(Line)
        BY DEF Inv, Types, DiskOK
      <3>2. PICK n \in 1 .. Len(lines[f]) : l = lines[f][n]
        BY <3>1, LenProperties DEF ToSet
      <3>3. QED
        BY <3>2 DEF Inv, LineInv
    <2>4. QED
      BY <2>2, <2>3 DEF OnRecord
  <1>2. QED
    BY <1>1, Invariance, PTL

(***************************************************************************)
(* The trail of the forwards.                                              *)
(***************************************************************************)
\* A coroutine in its thread or back from it; a launch that has not published.
Flying  == {"spawning", "landed", "refused", "raised"}
Unborn  == {"idle", "looking", "spawning", "orphan", "raised"}

\* A confirmation that will be audited; the records stop_all took; the phases after it.
Open(x)    == confirm[x] \in {"made", "waiting"}
Victims    == IF ctl.at = "confirming" THEN ctl.victims ELSE {}
AfterStops == {"confirming", "flushing", "flushed"}

Entries == [act : {"start", "stop"}, of : F!Works]

\* The entries, written or not, in order; what they say of a forward.
Span    == Len(log) + Len(queue)
Says(i) == IF i <= Len(log) THEN log[i] ELSE queue[i - Len(log)]
On(i, f)     == F!FwdOf(Says(i).of) = f
Started(f)   == \E i \in 1 .. Span : On(i, f) /\ Says(i).act = "start"
StopAt(i, f) == On(i, f) /\ Says(i).act = "stop"

\* A stop of it is owed.
Kept(f) == f \in listed \union deferred \union Victims

\* The types of this part.
FTypes ==
    /\ work \in [F!Works -> Flying \union {"idle", "looking", "orphan", "over"}]
    /\ confirm \in [F!Works -> {"none", "made", "waiting", "over", "dropped"}]
    /\ wanted \in [Forwards -> Nat] /\ \A f \in Forwards : wanted[f] <= F!Epoch /\ wanted[f] # 0
    /\ listed \subseteq Forwards /\ deferred \subseteq Forwards /\ late \subseteq Forwards
    /\ stopped \subseteq Forwards
    /\ stopper \in [Forwards -> SUBSET F!Works]
    /\ queue \in Seq(Entries) /\ log \in Seq([act : {"start", "stop"}, of : F!Works, in : Contexts])
    /\ epochs \in Seq(Contexts) /\ epochs # <<>> /\ pen \in 0 .. F!Epoch
    /\ ctl.at \in {"idle", "launches", "reattaches", "stopping"} \union AfterStops
    /\ DOMAIN ctl = {"at", "waits", "victims"}
    /\ ctl.victims \subseteq Forwards

\* A forward that was not launched yet has left no trace, but for a launch that failed.
NewInv == \A f \in Forwards :
    LET x == <<f, 0>> IN
    /\ work[x] \in Unborn =>
         /\ ~Kept(f) /\ confirm[x] = "none"
         /\ \A i \in 1 .. Span : ~StopAt(i, f)
         /\ \A k \in 1 .. MaxAgain : work[<<f, k>>] = "idle"
    /\ work[x] \in {"idle", "looking"} => \A i \in 1 .. Span : ~On(i, f)
    /\ work[x] = "orphan" => Started(f)

\* A confirmation is of a launch or re-attach that is over.
ConfirmInv == \A x \in F!Works : confirm[x] # "none" => work[x] = "over"

\* A forward that is up, or that is to be audited as stopped, has had its start audited,
\* or will have.
StartedInv == \A f \in Forwards : Kept(f) =>
    LET x == <<f, 0>> IN
    \/ work[x] = "landed"
    \/ work[x] = "over" /\ (Open(x) \/ confirm[x] = "dropped" \/ Started(f))

\* Nothing but late re-attaches flies once the teardown has waited for what flew.
PhaseInv ==
    /\ ctl.at # "idle" => closing /\ (app = "up" => switching)
    /\ app = "up" => \A x \in F!Works : work[x] # "orphan"
    /\ \A x \in F!Works : work[x] \in Flying =>
         /\ ctl.at = "launches" /\ x \in F!Launches => x \in ctl.waits
         /\ ctl.at \notin {"idle", "launches"} => x \notin F!Launches
         /\ ctl.at = "reattaches" => x \in ctl.waits \/ F!FwdOf(x) \in late
         /\ ctl.at \in {"stopping"} \union AfterStops => F!FwdOf(x) \in late
    /\ ctl.at \in AfterStops => shut /\ listed = {}
    /\ ctl.at = "confirming" => \A x \in F!Works : Open(x) => x \in ctl.waits
    /\ ctl.at \in {"flushing", "flushed"} => deferred = {} /\ \A x \in F!Works : ~Open(x)
    /\ ctl.at = "flushed" =>
         \A i \in DOMAIN queue : queue[i].act = "start" /\ F!FwdOf(queue[i].of) \in late

\* What is up, or still to be audited, was asked for in this epoch.
ToDo(f) ==
    \/ Kept(f)
    \/ \E x \in F!Works : F!FwdOf(x) = f /\ (work[x] \in Flying \union {"orphan"} \/ Open(x))
    \/ \E i \in DOMAIN queue : F!FwdOf(queue[i].of) = f
EpochInv == \A f \in Forwards \ late : ToDo(f) => wanted[f] = F!Epoch
PenInv   == pen # 0 => queue # <<>> /\ (F!FwdOf(Head(queue).of) \notin late => pen = F!Epoch)

\* A deferred stop waits for all that may still be audited of its forward.
StopperInv == \A f \in deferred : stopper[f] # {} =>
    \A x \in F!Works : F!FwdOf(x) = f /\ (work[x] \in Flying \/ Open(x)) => x \in stopper[f]
ApartInv == deferred \intersect (listed \union Victims) = {}

\* After its stop nothing is audited of a forward, and nothing is there that could be.
Over(f) == /\ ~Kept(f)
           /\ \A x \in F!Works : F!FwdOf(x) = f => work[x] \notin Flying /\ ~Open(x)
StopInv == \A f \in Forwards \ late : \A i \in 1 .. Span : StopAt(i, f) =>
    /\ Over(f)
    /\ \A j \in i + 1 .. Span : ~On(j, f)
    /\ F!Dropped(f) \/ \E j \in 1 .. i - 1 : On(j, f) /\ Says(j).act = "start"

\* No stop is forgotten.
OweInv == \A f \in stopped \ forsaken :
    f \in deferred \union Victims \/ \E i \in 1 .. Span : StopAt(i, f)

\* The invariant of this part.
ForwardInv == FTypes /\ NewInv /\ ConfirmInv /\ StartedInv /\ PhaseInv /\ EpochInv /\ PenInv
              /\ StopperInv /\ ApartInv /\ StopInv /\ OweInv /\ EntryNamesItsCluster

-----------------------------------------------------------------------------
(* Forwards, works and entries.                                            *)

\* A launch or re-attach is of one forward.
LEMMA WorksOfForwards ==
  /\ \A x \in F!Works : /\ F!FwdOf(x) \in Forwards /\ F!FwdOf(x) = x[1] /\ x[2] \in 0 .. MaxAgain
                        /\ x = <<x[1], x[2]>> /\ (x[2] = 0 <=> x \in F!Launches)
  /\ \A f \in Forwards, k \in 0 .. MaxAgain :
        /\ <<f, k>> \in F!Works /\ F!FwdOf(<<f, k>>) = f
        /\ <<f, k>> \in F!Launches <=> k = 0
  /\ \A f \in Forwards : <<f, 0>> \in F!Works
  BY ForwardsAssumption DEF F!Works, F!FwdOf, F!Launches

\* The instance counts as this module does.
LEMMA SameCount == \A S : F!Cardinality(S) = Cardinality(S)
  BY DEF F!Cardinality, Cardinality

\* The elements of a finite set in a sequence: all of them, each once.
Lists(s, S) == /\ s \in [1 .. Cardinality(S) -> S] /\ Cardinality(S) \in Nat
               /\ \A i, j \in 1 .. Cardinality(S) : s[i] = s[j] => i = j
               /\ \A e \in S : \E i \in 1 .. Cardinality(S) : s[i] = e

\* SetToSeq lists a finite set.
LEMMA Listing ==
  ASSUME NEW S, IsFiniteSet(S)
  PROVE  Lists(F!SetToSeq(S), S)
  <1> DEFINE n == Cardinality(S)
  <1>1. n \in Nat /\ ExistsBijection(1 .. n, S)
    BY FS_CardinalityType
  <1>2. \E s \in [1 .. n -> S] : F!IsInjective(s)
    BY <1>1 DEF ExistsBijection, Bijection, Injection, IsInjective, F!IsInjective
  <1>3. F!SetToSeq(S) \in [1 .. n -> S] /\ F!IsInjective(F!SetToSeq(S))
    BY <1>2, SameCount DEF F!SetToSeq
  <1> DEFINE s == F!SetToSeq(S)
  <1> HIDE DEF s
  <1>4. s \in [1 .. n -> S] /\ \A i, j \in 1 .. n : s[i] = s[j] => i = j
    BY <1>3 DEF s, F!IsInjective
  <1>5. s \in Injection(1 .. n, S)
    BY <1>4 DEF Injection, IsInjective
  <1>6. IsFiniteSet(1 .. n) /\ Cardinality(1 .. n) = n
    BY <1>1, FS_Interval
  <1>7. s \in Surjection(1 .. n, S)
    BY <1>5, <1>6, FS_Injection
  <1>8. \A e \in S : \E i \in 1 .. n : s[i] = e
    BY <1>7 DEF Surjection
  <1>9. QED
    BY <1>1, <1>4, <1>8 DEF Lists, s

\* The works and the forwards are finitely many.
LEMMA Finite ==
  /\ \A X \in SUBSET F!Works : IsFiniteSet(X)
  /\ \A X \in SUBSET Forwards : IsFiniteSet(X)
  <1>1. IsFiniteSet(0 .. MaxAgain) /\ IsFiniteSet(Forwards)
    BY ForwardsAssumption, FS_Interval
  <1>2. IsFiniteSet(F!Works)
    BY <1>1, FS_Product DEF F!Works
  <1>3. QED
    BY <1>1, <1>2, FS_Subset

\* The entries of the stops of some forwards, and of the starts of some works.
StopsOf(s, fs) ==
    /\ s \in Seq(Entries)
    /\ \A i \in 1 .. Len(s) : s[i].act = "stop" /\ F!FwdOf(s[i].of) \in fs
    /\ \A i, j \in 1 .. Len(s) : F!FwdOf(s[i].of) = F!FwdOf(s[j].of) => i = j
    /\ \A f \in fs : \E i \in 1 .. Len(s) : F!FwdOf(s[i].of) = f
StartsOf(s, xs) ==
    /\ s \in Seq(Entries)
    /\ \A i \in 1 .. Len(s) : s[i].act = "start" /\ s[i].of \in xs
    /\ \A x \in xs : \E i \in 1 .. Len(s) : s[i].of = x

\* The stops that are enqueued for some forwards are one for each of them.
LEMMA StopsAre ==
  ASSUME NEW fs \in SUBSET Forwards
  PROVE  StopsOf(F!Stops(fs), fs)
  <1> DEFINE q == F!SetToSeq(fs)
             n == Cardinality(fs)
             s == F!Stops(fs)
  <1>1. Lists(q, fs)
    BY Finite, Listing
  <1>2. s = [i \in 1 .. n |-> [act |-> "stop", of |-> <<q[i], 0>>]]
    BY SameCount DEF F!Stops, F!Entry
  <1> HIDE DEF q, n, s
  <1>3. /\ n \in Nat /\ \A i \in 1 .. n : q[i] \in fs
        /\ \A i, j \in 1 .. n : q[i] = q[j] => i = j
        /\ \A f \in fs : \E i \in 1 .. n : q[i] = f
    BY <1>1 DEF Lists, n
  <1>4. \A i \in 1 .. n : /\ s[i] \in Entries /\ s[i].act = "stop" /\ F!FwdOf(s[i].of) = q[i]
    BY <1>2, <1>3, WorksOfForwards DEF Entries, F!FwdOf
  <1>5. s \in Seq(Entries) /\ Len(s) = n
    <2>1. s \in [1 .. n -> Entries]
      BY <1>2, <1>4
    <2>2. QED
      BY <1>3, <2>1
  <1>6. QED
    BY <1>3, <1>4, <1>5 DEF StopsOf, s

\* The entries of some starts, as the exit queues them.
Starts(xs) == [i \in 1 .. Cardinality(xs) |-> F!Entry("start", F!SetToSeq(xs)[i])]

\* The starts that the exit enqueues for some works are one for each of them, at least.
LEMMA StartsAre ==
  ASSUME NEW xs \in SUBSET F!Works
  PROVE  StartsOf(Starts(xs), xs)
  <1> DEFINE q == F!SetToSeq(xs)
             n == Cardinality(xs)
             s == Starts(xs)
  <1>1. Lists(q, xs)
    BY Finite, Listing
  <1>2. s = [i \in 1 .. n |-> [act |-> "start", of |-> q[i]]]
    BY DEF Starts, F!Entry
  <1> HIDE DEF q, n, s
  <1>3. /\ n \in Nat /\ \A i \in 1 .. n : q[i] \in xs
        /\ \A x \in xs : \E i \in 1 .. n : q[i] = x
    BY <1>1 DEF Lists, n
  <1>4. \A i \in 1 .. n : s[i] \in Entries /\ s[i].act = "start" /\ s[i].of = q[i]
    BY <1>2, <1>3 DEF Entries
  <1>5. s \in Seq(Entries) /\ Len(s) = n
    <2>1. s \in [1 .. n -> Entries]
      BY <1>2, <1>4
    <2>2. QED
      BY <1>3, <2>1
  <1>6. QED
    BY <1>3, <1>4, <1>5 DEF StartsOf, s

-----------------------------------------------------------------------------
(* How the trail grows.                                                    *)

\* Some entries are queued, or one that was is written.
Grows(s) ==
    /\ Span \in Nat /\ Span' = Span + Len(s)
    /\ \A i \in 1 .. Span : Says(i)'.act = Says(i).act /\ Says(i)'.of = Says(i).of
    /\ \A i \in Span + 1 .. Span + Len(s) :
          Says(i)'.act = s[i - Span].act /\ Says(i)'.of = s[i - Span].of

\* Entries that are queued come after all that there are.
LEMMA Queued ==
  ASSUME FTypes, NEW s \in Seq(Entries), queue' = queue \o s, log' = log
  PROVE  Grows(s)
  <1> DEFINE m == Len(log)
             n == Len(queue)
  <1>1. /\ queue \in Seq(Entries) /\ m \in Nat /\ n \in Nat /\ Len(s) \in Nat
    BY DEF FTypes
  <1>2. /\ Len(queue') = n + Len(s) /\ \A i \in 1 .. n : queue'[i] = queue[i]
        /\ \A i \in n + 1 .. n + Len(s) : queue'[i] = s[i - n]
    BY <1>1
  <1>3. Len(log') = m
    OBVIOUS
  <1> HIDE DEF m, n
  <1>4. Span = m + n /\ Span' = m + n + Len(s)
    BY <1>1, <1>2, <1>3 DEF Span, m, n
  <1>5. ASSUME NEW i \in 1 .. m + n PROVE Says(i)' = Says(i)
    <2>1. CASE i <= m
      BY <1>3, <2>1 DEF Says, m
    <2>2. CASE ~(i <= m)
      <3>1. i - m \in 1 .. n
        BY <1>1, <2>2
      <3>2. QED
        BY <1>2, <1>3, <2>2, <3>1 DEF Says, m
    <2>3. QED
      BY <2>1, <2>2
  <1>6. ASSUME NEW i \in m + n + 1 .. m + n + Len(s) PROVE Says(i)' = s[i - (m + n)]
    <2>1. ~(i <= m) /\ i - m \in n + 1 .. n + Len(s) /\ (i - m) - n = i - (m + n)
      BY <1>1
    <2>2. Says(i)' = queue'[i - m]
      BY <1>3, <2>1 DEF Says, m
    <2>3. QED
      BY <1>2, <2>1, <2>2
  <1>7. QED
    BY <1>1, <1>4, <1>5, <1>6 DEF Grows

\* Writing the head moves no entry: it leaves the queue at the end of the log.
LEMMA WrittenGrows ==
  ASSUME FTypes, F!Written, queue # <<>>
  PROVE  Grows(<<>>)
  <1> DEFINE m == Len(log)
             n == Len(queue)
             e == [act |-> Head(queue).act, of |-> Head(queue).of, in |-> epochs[pen]]
  <1>1. /\ queue \in Seq(Entries) /\ m \in Nat /\ n \in Nat /\ n # 0
    BY DEF FTypes
  <1>2. log' = Append(log, e) /\ queue' = Tail(queue)
    BY DEF F!Written
  <1>3. e.act = queue[1].act /\ e.of = queue[1].of
    BY <1>1
  <1> HIDE DEF e
  <1>4. /\ Len(log') = m + 1 /\ log'[m + 1] = e /\ \A i \in 1 .. m : log'[i] = log[i]
    BY <1>2 DEF FTypes
  <1>5. /\ Len(queue') = n - 1 /\ \A i \in 1 .. n - 1 : queue'[i] = queue[i + 1]
    BY <1>1, <1>2
  <1> HIDE DEF m, n
  <1>6. Span = m + n /\ Span' = m + n
    BY <1>1, <1>4, <1>5 DEF Span, m, n
  <1>7. ASSUME NEW i \in 1 .. m + n PROVE Says(i)'.act = Says(i).act /\ Says(i)'.of = Says(i).of
    <2>1. CASE i <= m
      <3>1. i <= m + 1 /\ i \in 1 .. m
        BY <1>1, <2>1
      <3>2. QED
        BY <1>4, <2>1, <3>1 DEF Says, m
    <2>2. CASE i = m + 1
      <3>1. ~(i <= m) /\ i - m = 1 /\ i <= m + 1
        BY <1>1, <2>2
      <3>2. Says(i) = queue[1] /\ Says(i)' = e
        BY <1>4, <2>2, <3>1 DEF Says, m
      <3>3. QED
        BY <1>3, <3>2
    <2>3. CASE i > m + 1
      <3>1. ~(i <= m) /\ ~(i <= m + 1) /\ i - (m + 1) \in 1 .. n - 1 /\ (i - (m + 1)) + 1 = i - m
        BY <1>1, <2>3
      <3>2. Says(i) = queue[i - m] /\ Says(i)' = queue'[i - (m + 1)]
        BY <1>4, <3>1 DEF Says, m
      <3>3. QED
        BY <1>5, <3>1, <3>2
    <2>4. QED
      BY <1>1, <2>1, <2>2, <2>3
  <1>8. QED
    BY <1>1, <1>6, <1>7 DEF Grows

\* The works of which something is still to be audited.
Busy(x) == work[x] \in Flying \/ Open(x)

\* The steps that touch neither a coroutine, nor a record, nor the trail.
Aside ==
    \/ F!WriteHead \/ F!DrainEnds \/ (\E f \in Forwards : F!Ready(f) \/ F!Breaks(f))
    \/ F!SwitchClaims \/ F!SwitchGivesUp \/ F!Teardown \/ F!LaunchesLanded
    \/ F!ReattachesLanded \/ F!Flushed \/ F!Apply

\* The steps aside leave the coroutines, the records and the trail as they are.
LEMMA AsideRests ==
  ASSUME FTypes, Aside
  PROVE  /\ UNCHANGED <<work, wanted, confirm, listed, deferred, stopper, queue, log, stopped,
                        forsaken, late, stray>>
         /\ ctl'.victims = ctl.victims \/ ctl' = F!Nothing
  <1>1. CASE F!WriteHead \/ F!DrainEnds \/ (\E f \in Forwards : F!Ready(f) \/ F!Breaks(f))
             \/ F!SwitchClaims \/ F!SwitchGivesUp
    BY <1>1 DEF F!WriteHead, F!DrainEnds, F!Ready, F!Breaks, F!Becomes, F!SwitchClaims,
       F!SwitchGivesUp, F!coroutines, F!registry, F!trail, F!session, F!ghost
  <1>2. CASE F!Teardown \/ F!LaunchesLanded \/ F!ReattachesLanded \/ F!Flushed
    <2>1. \E at, waits : ctl' = [ctl EXCEPT !.at = at, !.waits = waits]
      BY <1>2 DEF F!Teardown, F!LaunchesLanded, F!ReattachesLanded, F!Flushed, F!Phase
    <2>2. ctl'.victims = ctl.victims
      BY <2>1 DEF FTypes
    <2>3. QED
      BY <1>2, <2>2 DEF F!Teardown, F!LaunchesLanded, F!ReattachesLanded, F!Flushed,
         F!coroutines, F!registry, F!trail, F!ghost
  <1>3. CASE F!Apply
    BY <1>3 DEF F!Apply, F!coroutines, F!trail, F!ghost
  <1>4. QED
    BY <1>1, <1>2, <1>3 DEF Aside

\* What the exit does: the launches that fly are cut, and some of the re-attaches.
Leaving(cut, s) ==
    /\ F!Exit /\ cut \subseteq F!InFlight /\ F!InFlight \intersect F!Launches \subseteq cut
    /\ work' = [x \in F!Works |-> IF x \in cut
                                  THEN IF work[x] = "spawning" THEN "orphan" ELSE "over"
                                  ELSE IF work[x] = "looking" THEN "over" ELSE work[x]]
    /\ \E t, u \in Seq(Entries) :
          /\ s = t \o u /\ StartsOf(t, cut)
          /\ StartsOf(u, {x \in F!Works : confirm[x] = "waiting"})

\* The exit cuts workers off, and enqueues what they audit as they go.
LEMMA ExitLeaves ==
  ASSUME FTypes, F!Exit
  PROVE  \E cut \in SUBSET F!Works, s \in Seq(Entries) : Leaving(cut, s) /\ queue' = queue \o s /\ log' = log
  <1>1. PICK spared \in SUBSET (F!InFlight \ F!Launches) :
          LET cut   == F!InFlight \ spared
              heard == {x \in F!Works : confirm[x] = "waiting"}
          IN  /\ work' = [x \in F!Works |-> IF x \in cut
                                            THEN IF work[x] = "spawning" THEN "orphan" ELSE "over"
                                            ELSE IF work[x] = "looking" THEN "over" ELSE work[x]]
              /\ queue' = queue \o Starts(cut) \o Starts(heard)
    BY SameCount DEF F!Exit, Starts
  <1> DEFINE cut   == F!InFlight \ spared
             heard == {x \in F!Works : confirm[x] = "waiting"}
             t == Starts(cut)
             u == Starts(heard)
  <1>2. cut \in SUBSET F!Works /\ heard \in SUBSET F!Works
    BY DEF F!InFlight
  <1>3. StartsOf(t, cut) /\ StartsOf(u, heard)
    BY <1>2, StartsAre
  <1> HIDE DEF t, u
  <1>4. queue' = queue \o t \o u
    BY <1>1 DEF t, u
  <1>5. t \in Seq(Entries) /\ u \in Seq(Entries) /\ queue \in Seq(Entries)
    BY <1>3 DEF StartsOf, FTypes
  <1>6. queue' = queue \o (t \o u) /\ t \o u \in Seq(Entries)
    BY <1>4, <1>5
  <1>7. Leaving(cut, t \o u)
    BY <1>1, <1>3, <1>5 DEF Leaving
  <1>8. log' = log
    BY DEF F!Exit
  <1>9. QED
    BY <1>2, <1>6, <1>7, <1>8

\* What a step adds to the trail.
Adds(s) ==
    \/ s = <<>>
    \/ \E x \in F!Works : s = <<F!Entry("start", x)>> /\ Busy(x) /\ (F!Resume(x) \/ F!Heard(x))
    \/ \E f \in Forwards :
         /\ s = <<F!Entry("stop", <<f, 0>>)>>
         /\ \/ F!Stop(f) /\ F!InFlight \union F!Confirming(f) = {}
            \/ F!StopAudited(f) /\ f \in deferred
    \/ F!ConfirmationsOver /\ s = F!Stops(deferred) \o F!Stops(ctl.victims)
    \/ \E cut \in SUBSET F!Works : Leaving(cut, s)

\* Every step either writes the head or enqueues what it adds.
LEMMA TrailStep ==
  ASSUME FTypes, PenInv, F!Next
  PROVE  \E s \in Seq(Entries) : Grows(s) /\ Adds(s) /\ (F!Written \/ (queue' = queue \o s /\ log' = log))
  <1>1. ASSUME NEW s \in Seq(Entries), queue' = queue \o s, log' = log, Adds(s)
        PROVE  \E t \in Seq(Entries) : Grows(t) /\ Adds(t) /\ (F!Written \/ (queue' = queue \o t /\ log' = log))
    BY <1>1, Queued
  <1>2. CASE queue' = queue /\ log' = log
    <2>1. queue' = queue \o <<>> /\ <<>> \in Seq(Entries)
      BY <1>2 DEF FTypes
    <2>2. QED
      BY <1>1, <1>2, <2>1 DEF Adds
  <1>3. CASE F!Written
    <2>1. queue # <<>>
      BY <1>3 DEF F!Written, PenInv
    <2>2. Grows(<<>>) /\ Adds(<<>>) /\ <<>> \in Seq(Entries)
      BY <1>3, <2>1, WrittenGrows DEF Adds
    <2>3. WITNESS <<>> \in Seq(Entries)
    <2>4. QED
      BY <1>3, <2>2
  <1>4. \A e : F!Audit(e) \/ F!AuditSafely(e) => queue' = queue \o <<e>> /\ log' = log
    BY DEF F!Audit, F!AuditSafely, F!Enqueue, FTypes
  <1>5. ASSUME NEW x \in F!Works, F!Resume(x) \/ F!Heard(x)
        PROVE  (queue' = queue /\ log' = log) \/
               \E s \in Seq(Entries) : queue' = queue \o s /\ log' = log /\ Adds(s)
    <2>1. <<F!Entry("start", x)>> \in Seq(Entries)
      <3>1. F!Entry("start", x) \in Entries
        BY DEF F!Entry, Entries
      <3>2. QED
        BY <3>1
    <2>2. Busy(x)
      BY <1>5 DEF F!Resume, F!Heard, Busy, Flying, Open
    <2>3. \/ queue' = queue /\ log' = log
          \/ F!Audit(F!Entry("start", x)) \/ F!AuditSafely(F!Entry("start", x))
      BY <1>5 DEF F!Resume, F!Heard, F!Lands, F!Tracks, F!trail
    <2>4. QED
      BY <1>4, <1>5, <2>1, <2>2, <2>3 DEF Adds
  <1>6. ASSUME NEW f \in Forwards, F!Stop(f) \/ F!StopAudited(f)
        PROVE  (queue' = queue /\ log' = log) \/
               \E s \in Seq(Entries) : queue' = queue \o s /\ log' = log /\ Adds(s)
    <2>1. <<F!Entry("stop", <<f, 0>>)>> \in Seq(Entries)
      <3>1. F!Entry("stop", <<f, 0>>) \in Entries
        BY WorksOfForwards DEF F!Entry, Entries
      <3>2. QED
        BY <3>1
    <2>2. \/ queue' = queue /\ log' = log
          \/ /\ F!Audit(F!Entry("stop", <<f, 0>>))
             /\ \/ F!Stop(f) /\ F!InFlight \union F!Confirming(f) = {}
                \/ F!StopAudited(f) /\ f \in deferred
      BY <1>6 DEF F!Stop, F!StopAudited, F!trail
    <2>3. QED
      BY <1>4, <2>1, <2>2 DEF Adds
  <1>7. CASE F!ConfirmationsOver
    <2> DEFINE s == F!Stops(deferred) \o F!Stops(ctl.victims)
    <2>1. F!Stops(deferred) \in Seq(Entries) /\ F!Stops(ctl.victims) \in Seq(Entries)
      BY StopsAre DEF StopsOf, FTypes
    <2>2. s \in Seq(Entries)
      BY <2>1
    <2>3. queue' = queue \o s /\ log' = log
      BY <1>7 DEF F!ConfirmationsOver, F!Enqueue
    <2>4. Adds(s)
      BY <1>7 DEF Adds
    <2>5. QED
      BY <1>1, <2>2, <2>3, <2>4
  <1>8. CASE F!Exit
    <2>1. PICK cut \in SUBSET F!Works, s \in Seq(Entries) :
             Leaving(cut, s) /\ queue' = queue \o s /\ log' = log
      BY <1>8, ExitLeaves
    <2>2. Adds(s)
      BY <2>1 DEF Adds
    <2>3. QED
      BY <1>1, <2>1, <2>2
  <1>9. CASE Aside \/ F!StopAll \/ F!StrayStops \/ (\E f \in Forwards : F!Ask(f) \/ F!Launch(f))
             \/ (\E x \in F!Works : F!Reattach(x) \/ F!Spawned(x) \/ F!Listen(x))
    BY <1>2, <1>9, AsideRests DEF F!StopAll, F!StrayStops, F!Ask, F!Launch, F!Reattach, F!Spawned,
       F!Listen, F!trail
  <1>10. QED
    BY <1>1, <1>2, <1>3, <1>5, <1>6, <1>7, <1>8, <1>9 DEF F!Next, Aside

-----------------------------------------------------------------------------
(* What a step may change.                                                 *)

\* A coroutine takes its own steps, or is cancelled by the exit.
Moves(x) ==
    \/ work'[x] = work[x]
    \/ work[x] = "idle" /\ work'[x] = "looking" /\ F!Ask(x[1]) /\ x \in F!Launches
    \/ work[x] = "looking" /\ work'[x] = "over"
    \/ work[x] = "looking" /\ work'[x] = "spawning" /\ F!Launch(x[1]) /\ x \in F!Launches
       /\ ~F!Moved(x[1])
    \/ work[x] = "idle" /\ work'[x] = "spawning" /\ F!Reattach(x)
    \/ work[x] = "spawning" /\ work'[x] \in {"landed", "refused", "raised"} /\ F!Spawned(x)
       /\ (x \in F!Launches => work'[x] # "refused") /\ (work'[x] # "landed" => listed' = listed)
    \/ work[x] = "orphan" /\ work'[x] = "over" /\ F!Spawned(x)
    \/ work[x] \in Flying \ {"spawning"} /\ work'[x] = "over" /\ F!Resume(x)
    \/ work[x] = "spawning" /\ work'[x] = "orphan" /\ F!Exit
    \/ work[x] \in Flying \ {"spawning"} /\ work'[x] = "over" /\ F!Exit

\* Every step moves a coroutine by one of its own steps.
LEMMA WorkMoves ==
  ASSUME FTypes, F!Next, NEW x \in F!Works
  PROVE  Moves(x)
  <1>1. ASSUME NEW f \in Forwards, F!Ask(f) \/ F!Launch(f)
        PROVE  Moves(x)
    <2>1. CASE x = <<f, 0>>
      <3>1. x[1] = f /\ x \in F!Launches
        BY <2>1, WorksOfForwards
      <3>2. CASE F!Ask(f)
        <4>1. work[x] = "idle" /\ work'[x] = "looking"
          BY <2>1, <3>2 DEF F!Ask, F!Goes, FTypes
        <4>2. QED
          BY <3>1, <3>2, <4>1 DEF Moves
      <3>3. CASE F!Launch(f)
        <4>1. work[x] = "looking" /\ work'[x] = IF F!Moved(f) THEN "over" ELSE "spawning"
          BY <2>1, <3>3 DEF F!Launch, F!Goes, FTypes
        <4>2. QED
          BY <3>1, <3>3, <4>1 DEF Moves
      <3>4. QED
        BY <1>1, <3>2, <3>3
    <2>2. CASE x # <<f, 0>>
      BY <1>1, <2>2 DEF F!Ask, F!Launch, F!Goes, FTypes, Moves
    <2>3. QED
      BY <2>1, <2>2
  <1>2. ASSUME NEW y \in F!Works, F!Reattach(y) \/ F!Resume(y)
        PROVE  Moves(x)
    <2>1. CASE x # y
      BY <1>2, <2>1 DEF F!Reattach, F!Resume, F!Goes, FTypes, Moves
    <2>2. CASE x = y /\ F!Reattach(y)
      BY <2>2 DEF F!Reattach, F!Goes, FTypes, Moves
    <2>3. CASE x = y /\ F!Resume(y)
      <3>1. work'[x] = "over" /\ work[x] \in Flying \ {"spawning"}
        BY <2>3 DEF F!Resume, F!Goes, FTypes, Flying
      <3>2. QED
        BY <2>3, <3>1 DEF Moves
    <2>4. QED
      BY <1>2, <2>1, <2>2, <2>3
  <1>3. ASSUME NEW y \in F!Works, F!Spawned(y)
        PROVE  Moves(x)
    <2>1. work[y] \in {"spawning", "orphan"} /\ (F!Publishes(y) \/ F!Declines(y))
      BY <1>3 DEF F!Spawned
    <2>2. CASE x # y
      BY <2>1, <2>2 DEF F!Publishes, F!Declines, F!Goes, FTypes, Moves
    <2>3. CASE x = y /\ F!Publishes(y)
      <3>1. work'[x] = IF work[x] = "orphan" THEN "over" ELSE "landed"
        BY <2>3 DEF F!Publishes, F!Goes, FTypes
      <3>2. QED
        BY <1>3, <2>1, <2>3, <3>1 DEF Moves
    <2>4. CASE x = y /\ F!Declines(y)
      <3>1. /\ listed' = listed
            /\ \/ work'[x] = IF work[x] = "orphan" THEN "over" ELSE "raised"
               \/ x[2] > 0 /\ work'[x] = IF work[x] = "orphan" THEN "over" ELSE "refused"
        BY <2>4 DEF F!Declines, F!Goes, FTypes
      <3>2. x \in F!Launches => ~(x[2] > 0)
        BY WorksOfForwards
      <3>3. QED
        BY <1>3, <2>1, <2>4, <3>1, <3>2 DEF Moves
    <2>5. QED
      BY <2>1, <2>2, <2>3, <2>4
  <1>4. CASE F!Exit
    <2>1. PICK cut \in SUBSET F!Works, s \in Seq(Entries) : Leaving(cut, s)
      BY <1>4, ExitLeaves
    <2>2. work'[x] = IF x \in cut THEN IF work[x] = "spawning" THEN "orphan" ELSE "over"
                                  ELSE IF work[x] = "looking" THEN "over" ELSE work[x]
      BY <2>1 DEF Leaving
    <2>3. x \in cut => work[x] \in Flying
      BY <2>1 DEF Leaving, F!InFlight, Flying
    <2>4. QED
      BY <1>4, <2>2, <2>3 DEF Moves
  <1>5. CASE work' = work
    BY <1>5 DEF Moves
  <1>6. CASE Aside \/ F!Written \/ F!StopAll \/ F!StrayStops \/ F!ConfirmationsOver
             \/ (\E f \in Forwards : F!Stop(f) \/ F!StopAudited(f))
             \/ (\E y \in F!Works : F!Listen(y) \/ F!Heard(y))
    BY <1>5, <1>6, AsideRests DEF F!Written, F!StopAll, F!StrayStops, F!ConfirmationsOver, F!Stop,
       F!StopAudited, F!Listen, F!Heard, F!coroutines
  <1>7. QED
    BY <1>1, <1>2, <1>3, <1>4, <1>6 DEF F!Next, Aside

\* A confirmation is made by the coroutine that landed, and goes on by itself.
Confirms(x) ==
    \/ confirm'[x] = confirm[x]
    \/ confirm'[x] = "made" /\ F!Resume(x) /\ work[x] = "landed" /\ ~closing /\ x[1] \in listed
    \/ confirm[x] = "made" /\ confirm'[x] = "waiting"
    \/ confirm[x] = "waiting" /\ confirm'[x] = "over" /\ (F!Heard(x) \/ F!Exit)
    \/ confirm[x] = "made" /\ confirm'[x] = "dropped" /\ F!Exit

\* Every step moves a confirmation by one of its own steps.
LEMMA ConfirmMoves ==
  ASSUME FTypes, F!Next, NEW x \in F!Works
  PROVE  Confirms(x)
  <1>1. ASSUME NEW y \in F!Works, F!Resume(y)
        PROVE  Confirms(x)
    <2>1. \/ confirm' = confirm
          \/ work[y] = "landed" /\ ~closing /\ F!FwdOf(y) \in listed /\ confirm' = [confirm EXCEPT ![y] = "made"]
      BY <1>1 DEF F!Resume, F!Lands, F!Tracks
    <2>2. QED
      BY <1>1, <2>1, WorksOfForwards DEF FTypes, Confirms
  <1>2. ASSUME NEW y \in F!Works, F!Listen(y) \/ F!Heard(y)
        PROVE  Confirms(x)
    BY <1>2 DEF F!Listen, F!Heard, FTypes, Confirms
  <1>3. CASE F!Exit
    <2>1. confirm'[x] = CASE confirm[x] = "made" -> "dropped"
                          [] confirm[x] = "waiting" -> "over" [] OTHER -> confirm[x]
      BY <1>3 DEF F!Exit
    <2>2. CASE confirm[x] = "made"
      BY <1>3, <2>1, <2>2 DEF Confirms
    <2>3. CASE confirm[x] = "waiting"
      BY <1>3, <2>1, <2>3 DEF Confirms
    <2>4. CASE confirm[x] \notin {"made", "waiting"}
      BY <2>1, <2>4 DEF Confirms
    <2>5. QED
      BY <2>2, <2>3, <2>4
  <1>4. CASE confirm' = confirm
    BY <1>4 DEF Confirms
  <1>5. CASE Aside \/ F!Written \/ F!StopAll \/ F!StrayStops \/ F!ConfirmationsOver
             \/ (\E f \in Forwards : F!Ask(f) \/ F!Launch(f) \/ F!Stop(f) \/ F!StopAudited(f))
             \/ (\E y \in F!Works : F!Reattach(y) \/ F!Spawned(y))
    BY <1>4, <1>5, AsideRests DEF F!Written, F!StopAll, F!StrayStops, F!ConfirmationsOver, F!Stop,
       F!StopAudited, F!Ask, F!Launch, F!Reattach, F!Spawned, F!coroutines
  <1>6. QED
    BY <1>1, <1>2, <1>3, <1>5 DEF F!Next, Aside

\* A forward is listed by its launch, and only while the registry is open.
LEMMA Listings ==
  ASSUME FTypes, F!Next, NEW f \in Forwards, f \in listed', f \notin listed
  PROVE  /\ F!Spawned(<<f, 0>>) /\ ~shut /\ UNCHANGED <<queue, log, deferred, ctl, confirm>>
         /\ \/ work[<<f, 0>>] = "spawning" /\ work'[<<f, 0>>] = "landed"
            \/ work[<<f, 0>>] = "orphan" /\ work'[<<f, 0>>] = "over"
  <1>1. ASSUME NEW y \in F!Works, F!Spawned(y)
        PROVE  /\ y = <<f, 0>> /\ ~shut
               /\ \/ work[y] = "spawning" /\ work'[y] = "landed"
                  \/ work[y] = "orphan" /\ work'[y] = "over"
    <2>1. F!Publishes(y) /\ work[y] \in {"spawning", "orphan"}
      BY <1>1 DEF F!Spawned, F!Declines
    <2>2. listed' = listed \union {F!FwdOf(y)} /\ ~shut /\ (y[2] > 0 => F!FwdOf(y) \in listed)
      BY <2>1 DEF F!Publishes
    <2>3. y[1] = f /\ ~(y[2] > 0)
      BY <2>2, WorksOfForwards
    <2>4. y = <<f, 0>>
      BY <2>3, WorksOfForwards, ForwardsAssumption
    <2>5. work'[y] = IF work[y] = "orphan" THEN "over" ELSE "landed"
      BY <2>1 DEF F!Publishes, F!Goes, FTypes
    <2>6. QED
      BY <2>1, <2>2, <2>4, <2>5
  <1>2. listed' \subseteq listed \/ \E y \in F!Works : F!Spawned(y)
    <2>1. CASE \E x \in F!Works : F!Heard(x)
      BY <2>1 DEF F!Heard, F!FailsStart, F!registry
    <2>2. CASE Aside \/ F!Written \/ F!StopAll \/ F!StrayStops \/ F!ConfirmationsOver \/ F!Exit
             \/ (\E g \in Forwards : F!Ask(g) \/ F!Launch(g) \/ F!Stop(g) \/ F!StopAudited(g))
             \/ (\E y \in F!Works : F!Reattach(y) \/ F!Resume(y) \/ F!Listen(y))
      BY <2>2, AsideRests DEF F!Written, F!StopAll, F!StrayStops, F!ConfirmationsOver, F!Stop,
         F!StopAudited, F!Ask, F!Launch, F!Reattach, F!Resume, F!Listen, F!Exit, F!registry
    <2>3. QED
      BY <2>1, <2>2 DEF F!Next, Aside
  <1>3. PICK y \in F!Works : F!Spawned(y)
    BY <1>2
  <1>4. UNCHANGED <<queue, log, deferred, ctl, confirm>>
    BY <1>3 DEF F!Spawned, F!trail, F!session
  <1>5. QED
    BY <1>1, <1>3, <1>4

\* Who owes a stop did, or was listed.
LEMMA Owing ==
  ASSUME FTypes, F!Next, NEW f \in Forwards
  PROVE  /\ f \in deferred' => f \in deferred \union listed
         /\ f \in Victims' => f \in Victims \union listed
  <1>1. f \in deferred' => f \in deferred \union listed
    <2>1. CASE \E g \in Forwards : F!Stop(g) \/ F!StopAudited(g)
      BY <2>1 DEF F!Stop, F!StopAudited
    <2>2. CASE \E x \in F!Works : F!Heard(x) \/ F!Listen(x) \/ F!Resume(x) \/ F!Reattach(x) \/ F!Spawned(x)
      BY <2>2 DEF F!Heard, F!Listen, F!Resume, F!Reattach, F!Spawned
    <2>3. CASE Aside \/ F!Written \/ F!StopAll \/ F!StrayStops \/ F!ConfirmationsOver \/ F!Exit
               \/ (\E g \in Forwards : F!Ask(g) \/ F!Launch(g))
      BY <2>3, AsideRests DEF F!Written, F!StopAll, F!StrayStops, F!ConfirmationsOver, F!Exit,
         F!Ask,
         F!Launch, F!coroutines
    <2>4. QED
      BY <2>1, <2>2, <2>3 DEF F!Next, Aside
  <1>2. f \in Victims' => f \in Victims \union listed
    <2>1. CASE F!StopAll
      BY <2>1 DEF F!StopAll, Victims
    <2>2. CASE Aside
      <3>1. ctl'.at = "confirming" => ctl' = ctl
        <4>1. CASE F!WriteHead \/ F!DrainEnds \/ (\E g \in Forwards : F!Ready(g) \/ F!Breaks(g))
                   \/ F!SwitchClaims \/ F!SwitchGivesUp
          BY <4>1 DEF F!WriteHead, F!DrainEnds, F!Ready, F!Breaks, F!Becomes, F!SwitchClaims,
             F!SwitchGivesUp, F!session
        <4>2. CASE F!Teardown \/ F!LaunchesLanded \/ F!ReattachesLanded \/ F!Flushed
          <5>1. \E waits : \E at \in {"launches", "reattaches", "stopping", "flushed"} :
                   ctl' = [ctl EXCEPT !.at = at, !.waits = waits]
            BY <4>2 DEF F!Teardown, F!LaunchesLanded, F!ReattachesLanded, F!Flushed, F!Phase
          <5>2. QED
            BY <5>1 DEF FTypes
        <4>3. CASE F!Apply
          BY <4>3 DEF F!Apply, F!Nothing
        <4>4. QED
          BY <2>2, <4>1, <4>2, <4>3 DEF Aside
      <3>2. QED
        BY <3>1 DEF Victims
    <2>3. CASE F!ConfirmationsOver \/ F!Exit
      <3>1. ctl'.at # "confirming"
        <4>1. CASE F!Exit
          BY <4>1 DEF F!Exit, F!Nothing
        <4>2. CASE F!ConfirmationsOver
          <5>1. ctl' = [ctl EXCEPT !.at = "flushing", !.waits = {}]
            BY <4>2 DEF F!ConfirmationsOver, F!Phase
          <5>2. QED
            BY <5>1 DEF FTypes
        <4>3. QED
          BY <2>3, <4>1, <4>2
      <3>2. QED
        BY <3>1 DEF Victims
    <2>4. CASE ctl' = ctl
      BY <2>4 DEF Victims
    <2>5. CASE \E g \in Forwards : F!Ask(g) \/ F!Launch(g) \/ F!Stop(g) \/ F!StopAudited(g)
      BY <2>4, <2>5 DEF F!Ask, F!Launch, F!Stop, F!StopAudited, F!session
    <2>6. CASE \E x \in F!Works : F!Heard(x) \/ F!Listen(x) \/ F!Resume(x) \/ F!Reattach(x) \/ F!Spawned(x)
      BY <2>4, <2>6 DEF F!Heard, F!Listen, F!Resume, F!Reattach, F!Spawned, F!session
    <2>7. CASE F!Written \/ F!StrayStops
      BY <2>4, <2>7 DEF F!Written, F!StrayStops, F!session
    <2>8. QED
      BY <2>1, <2>2, <2>3, <2>5, <2>6, <2>7 DEF F!Next, Aside
  <1>3. QED
    BY <1>1, <1>2

\* Who owes a stop after a step did before, or has just been listed.
LEMMA Keeping ==
  ASSUME FTypes, F!Next, NEW f \in Forwards, Kept(f)'
  PROVE  Kept(f) \/ f \in listed' \ listed
  BY Owing DEF Kept

-----------------------------------------------------------------------------
(* Every step keeps the types.                                             *)

\* An epoch is never taken back.
LEMMA Epochs ==
  ASSUME FTypes, F!Next
  PROVE  \/ epochs' = epochs
         \/ /\ F!Apply /\ F!Epoch' = F!Epoch + 1 /\ epochs' \in Seq(Contexts)
            /\ \A n \in 1 .. F!Epoch : epochs'[n] = epochs[n]
  <1>1. CASE F!Apply
    <2>1. epochs' = epochs \/ \E c \in Contexts : epochs' = Append(epochs, c)
      BY <1>1 DEF F!Apply
    <2>2. epochs \in Seq(Contexts) /\ Len(epochs) \in Nat
      BY DEF FTypes
    <2>3. CASE \E c \in Contexts : epochs' = Append(epochs, c)
      <3>1. PICK c \in Contexts : epochs' = Append(epochs, c)
        BY <2>3
      <3>2. /\ epochs' \in Seq(Contexts) /\ Len(epochs') = Len(epochs) + 1
            /\ \A n \in 1 .. Len(epochs) : epochs'[n] = epochs[n]
        BY <2>2, <3>1
      <3>3. QED
        BY <1>1, <3>2 DEF F!Epoch
    <2>4. QED
      BY <2>1, <2>3
  <1>2. CASE Aside /\ ~F!Apply
    BY <1>2 DEF Aside, F!WriteHead, F!DrainEnds, F!Ready, F!Breaks, F!Becomes, F!SwitchClaims,
       F!SwitchGivesUp, F!Teardown, F!LaunchesLanded, F!ReattachesLanded, F!Flushed, F!session
  <1>3. CASE ~Aside
    BY <1>3 DEF F!Next, Aside, F!Written, F!StopAll, F!StrayStops, F!ConfirmationsOver, F!Exit,
       F!Ask, F!Launch, F!Stop, F!StopAudited, F!Reattach, F!Spawned, F!Resume, F!Listen, F!Heard,
       F!session
  <1>4. QED
    BY <1>1, <1>2, <1>3

\* Coroutines and confirmations keep their types.
LEMMA WorkTypes ==
  ASSUME FTypes, F!Next
  PROVE  /\ work' \in [F!Works -> Flying \union {"idle", "looking", "orphan", "over"}]
         /\ confirm' \in [F!Works -> {"none", "made", "waiting", "over", "dropped"}]
  <1>1. DOMAIN work' = F!Works /\ work' = [x \in F!Works |-> work'[x]]
    <2>1. CASE F!Exit
      <3>1. PICK cut \in SUBSET F!Works, s \in Seq(Entries) : Leaving(cut, s)
        BY <2>1, ExitLeaves
      <3>2. QED
        BY <3>1 DEF Leaving
    <2>2. CASE \E at : \E x \in F!Works : work' = [work EXCEPT ![x] = at]
      BY <2>2 DEF FTypes
    <2>3. CASE \E f \in Forwards : F!Ask(f) \/ F!Launch(f)
      BY <2>2, <2>3, WorksOfForwards DEF F!Ask, F!Launch, F!Goes
    <2>4. CASE \E x \in F!Works : F!Reattach(x) \/ F!Spawned(x) \/ F!Resume(x)
      BY <2>2, <2>4 DEF F!Reattach, F!Spawned, F!Publishes, F!Declines, F!Resume, F!Goes
    <2>5. CASE Aside \/ F!Written \/ F!StopAll \/ F!StrayStops \/ F!ConfirmationsOver
             \/ (\E f \in Forwards : F!Stop(f) \/ F!StopAudited(f))
             \/ (\E y \in F!Works : F!Listen(y) \/ F!Heard(y))
      BY <2>5, AsideRests DEF F!Written, F!StopAll, F!StrayStops, F!ConfirmationsOver, F!Stop,
         F!StopAudited, F!Listen, F!Heard, F!coroutines, FTypes
    <2>6. QED
      BY <2>1, <2>3, <2>4, <2>5 DEF F!Next, Aside
  <1>2. \A x \in F!Works : work'[x] \in Flying \union {"idle", "looking", "orphan", "over"}
    BY WorkMoves DEF Moves, Flying, FTypes
  <1>3. DOMAIN confirm' = F!Works /\ confirm' = [x \in F!Works |-> confirm'[x]]
    <2>1. CASE F!Exit
      BY <2>1 DEF F!Exit
    <2>2. CASE \E x \in F!Works : F!Resume(x) \/ F!Listen(x) \/ F!Heard(x)
      <3>1. confirm' = confirm \/ \E c : \E x \in F!Works : confirm' = [confirm EXCEPT ![x] = c]
        BY <2>2 DEF F!Resume, F!Lands, F!Tracks, F!Listen, F!Heard
      <3>2. QED
        BY <3>1 DEF FTypes
    <2>3. CASE Aside \/ F!Written \/ F!StopAll \/ F!StrayStops \/ F!ConfirmationsOver
             \/ (\E f \in Forwards : F!Ask(f) \/ F!Launch(f) \/ F!Stop(f) \/ F!StopAudited(f))
             \/ (\E y \in F!Works : F!Reattach(y) \/ F!Spawned(y))
      BY <2>3, AsideRests DEF F!Written, F!StopAll, F!StrayStops, F!ConfirmationsOver, F!Stop,
         F!StopAudited, F!Ask, F!Launch, F!Reattach, F!Spawned, F!coroutines, FTypes
    <2>4. QED
      BY <2>1, <2>2, <2>3 DEF F!Next, Aside
  <1>4. \A x \in F!Works : confirm'[x] \in {"none", "made", "waiting", "over", "dropped"}
    BY ConfirmMoves DEF Confirms, FTypes
  <1>5. QED
    BY <1>1, <1>2, <1>3, <1>4

\* The teardown keeps its type.
LEMMA CtlTypes ==
  ASSUME FTypes, F!Next
  PROVE  /\ ctl'.at \in {"idle", "launches", "reattaches", "stopping"} \union AfterStops
         /\ DOMAIN ctl' = {"at", "waits", "victims"} /\ ctl'.victims \subseteq Forwards
  <1>1. CASE ctl' = ctl
    BY <1>1 DEF FTypes
  <1>2. CASE ctl' = F!Nothing
    BY <1>2 DEF F!Nothing
  <1>3. CASE \E waits : \E at \in {"launches", "reattaches", "stopping", "flushing", "flushed"} : F!Phase(at, waits)
    BY <1>3 DEF F!Phase, FTypes, AfterStops
  <1>4. CASE F!StopAll
    BY <1>4 DEF F!StopAll, FTypes, AfterStops
  <1>5. CASE Aside
    BY <1>1, <1>2, <1>3, <1>5 DEF Aside, F!WriteHead, F!DrainEnds, F!Ready, F!Breaks, F!Becomes,
       F!SwitchClaims,
       F!SwitchGivesUp, F!Teardown, F!LaunchesLanded, F!ReattachesLanded, F!Flushed, F!Apply,
       F!session
  <1>6. CASE F!ConfirmationsOver \/ F!Exit
    BY <1>2, <1>3, <1>6 DEF F!ConfirmationsOver, F!Exit
  <1>7. CASE ~Aside /\ ~F!StopAll /\ ~F!ConfirmationsOver /\ ~F!Exit
    BY <1>1, <1>7 DEF F!Next, Aside, F!Written, F!StrayStops, F!Ask, F!Launch, F!Stop,
       F!StopAudited, F!Reattach,
       F!Spawned, F!Resume, F!Listen, F!Heard, F!session
  <1>8. QED
    BY <1>4, <1>5, <1>6, <1>7

\* The queue, the log and the pen keep their types.
LEMMA TrailTypes ==
  ASSUME FTypes, PenInv, F!Next
  PROVE  /\ queue' \in Seq(Entries) /\ log' \in Seq([act : {"start", "stop"}, of : F!Works, in : Contexts])
         /\ pen' \in 0 .. F!Epoch'
  <1>1. PICK s \in Seq(Entries) : F!Written \/ (queue' = queue \o s /\ log' = log)
    BY TrailStep
  <1>2. queue \in Seq(Entries) /\ pen \in 0 .. F!Epoch /\ F!Epoch \in Nat
    BY DEF FTypes, F!Epoch
  <1> DEFINE Stamped == [act : {"start", "stop"}, of : F!Works, in : Contexts]
  <1>3. log \in Seq(Stamped)
    BY DEF FTypes
  <1>4. CASE F!Written
    <2> DEFINE e == [act |-> Head(queue).act, of |-> Head(queue).of, in |-> epochs[pen]]
    <2>1. queue # <<>> /\ pen # 0 /\ pen' = 0
      BY <1>4 DEF F!Written, PenInv
    <2>2. Head(queue) \in Entries
      BY <1>2, <2>1
    <2>3. epochs[pen] \in Contexts
      BY <1>2, <2>1 DEF FTypes, F!Epoch
    <2>4. e \in Stamped
      BY <2>2, <2>3 DEF Entries
    <2>5. log' = Append(log, e) /\ queue' = Tail(queue)
      BY <1>4 DEF F!Written
    <2> HIDE DEF e, Stamped
    <2>6. log' \in Seq(Stamped) /\ queue' \in Seq(Entries)
      BY <1>2, <1>3, <2>1, <2>4, <2>5
    <2>7. F!Epoch' = F!Epoch
      BY <1>4 DEF F!Written, F!session, F!Epoch
    <2>8. QED
      BY <1>2, <2>1, <2>6, <2>7 DEF Stamped
  <1>5. CASE queue' = queue \o s /\ log' = log
    <2>1. queue' \in Seq(Entries)
      BY <1>1, <1>2, <1>5
    <2>2. pen' = pen \/ pen' = F!Epoch \/ pen' = 0
      BY DEF F!Next, F!WriteHead, F!DrainEnds, F!Ready, F!Breaks, F!Becomes, F!SwitchClaims,
         F!SwitchGivesUp, F!Teardown, F!LaunchesLanded, F!ReattachesLanded, F!Flushed, F!Apply,
         F!Written,
         F!StrayStops, F!Ask, F!Launch, F!Stop, F!StopAudited, F!Reattach, F!StopAll,
         F!ConfirmationsOver, F!Exit,
         F!Spawned, F!Resume, F!Lands, F!Tracks, F!AuditSafely, F!Audit, F!Enqueue, F!Listen,
         F!Heard, F!trail
    <2>3. F!Epoch' = F!Epoch \/ F!Epoch' = F!Epoch + 1
      BY Epochs DEF F!Epoch
    <2>4. QED
      BY <1>2, <1>3, <1>5, <2>1, <2>2, <2>3
  <1>6. QED
    BY <1>1, <1>4, <1>5

\* The other variables keep their types.
LEMMA RestTypes ==
  ASSUME FTypes, F!Next
  PROVE  /\ wanted' \in [Forwards -> Nat] /\ \A f \in Forwards : wanted'[f] <= F!Epoch' /\ wanted'[f] # 0
         /\ listed' \subseteq Forwards /\ deferred' \subseteq Forwards /\ late' \subseteq Forwards
         /\ stopped' \subseteq Forwards
         /\ stopper' \in [Forwards -> SUBSET F!Works]
         /\ epochs' \in Seq(Contexts) /\ epochs' # <<>>
  <1>1. F!Epoch \in Nat /\ F!Epoch # 0 /\ F!Epoch' \in Nat /\ F!Epoch' >= F!Epoch /\ epochs' \in Seq(Contexts) /\ epochs' # <<>>
    BY Epochs DEF F!Epoch, FTypes
  <1>2. wanted' \in [Forwards -> Nat] /\ \A f \in Forwards : wanted'[f] <= F!Epoch' /\ wanted'[f] # 0
    <2>1. wanted' = wanted \/ \E f \in Forwards : wanted' = [wanted EXCEPT ![f] = F!Epoch]
      BY AsideRests DEF F!Next, Aside, F!Written, F!StrayStops, F!Ask, F!Launch, F!Stop,
         F!StopAudited, F!Reattach,
       F!Spawned, F!Resume, F!Listen, F!Heard, F!StopAll, F!ConfirmationsOver, F!Exit, F!coroutines
    <2>2. wanted \in [Forwards -> Nat] /\ \A f \in Forwards : wanted[f] <= F!Epoch /\ wanted[f] # 0
      BY DEF FTypes
    <2>3. wanted' \in [Forwards -> Nat]
      BY <1>1, <2>1, <2>2
    <2>4. \A f \in Forwards : wanted'[f] = wanted[f] \/ wanted'[f] = F!Epoch
      BY <2>1, <2>2
    <2>5. QED
      BY <1>1, <2>2, <2>3, <2>4
  <1>3. listed' \subseteq Forwards
    <2>1. CASE \E x \in F!Works : F!Spawned(x) \/ F!Heard(x)
      BY <2>1, WorksOfForwards DEF F!Spawned, F!Publishes, F!Declines, F!Heard, F!FailsStart,
         F!registry, FTypes
    <2>2. CASE ~\E x \in F!Works : F!Spawned(x) \/ F!Heard(x)
      BY <2>2, AsideRests DEF F!Next, Aside, F!Written, F!StrayStops, F!Ask, F!Launch, F!Stop,
         F!StopAudited,
         F!Reattach, F!Resume, F!Listen, F!StopAll, F!ConfirmationsOver, F!Exit, F!registry, FTypes
    <2>3. QED
      BY <2>1, <2>2
  <1>4. deferred' \subseteq Forwards /\ stopped' \subseteq Forwards /\ late' \subseteq Forwards
    <2>1. CASE \E x \in F!Works : F!Reattach(x)
      BY <2>1, WorksOfForwards DEF F!Reattach, FTypes
    <2>2. QED
      BY <2>1, AsideRests DEF F!Next, Aside, F!Written, F!StrayStops, F!Ask, F!Launch, F!Stop,
         F!StopAudited,
       F!Spawned, F!Resume, F!Listen, F!Heard, F!StopAll, F!ConfirmationsOver, F!Exit,
         F!coroutines, F!ghost, FTypes
  <1>5. stopper' \in [Forwards -> SUBSET F!Works]
    <2>1. CASE \E f \in Forwards : F!Stop(f)
      <3>1. PICK f \in Forwards : F!Stop(f)
        BY <2>1
      <3>2. stopper' = stopper \/ stopper' = [stopper EXCEPT ![f] = F!InFlight \union F!Confirming(f)]
        BY <3>1 DEF F!Stop
      <3>3. QED
        BY <3>2 DEF F!InFlight, F!Confirming, FTypes
    <2>2. CASE (\E f \in Forwards : F!StopAudited(f)) \/ F!Exit
      BY <2>2 DEF F!StopAudited, F!Exit, FTypes
    <2>3. CASE ~(\E f \in Forwards : F!Stop(f) \/ F!StopAudited(f)) /\ ~F!Exit
      BY <2>3, AsideRests DEF F!Next, Aside, F!Written, F!StrayStops, F!Ask, F!Launch, F!Reattach,
       F!Spawned, F!Resume, F!Listen, F!Heard, F!StopAll, F!ConfirmationsOver, F!coroutines, FTypes
    <2>4. QED
      BY <2>1, <2>2, <2>3
  <1>6. QED
    BY <1>1, <1>2, <1>3, <1>4, <1>5

\* Every step keeps all the types.
LEMMA FTypesStep ==
  ASSUME FTypes, PenInv, F!Next
  PROVE  FTypes'
  BY WorkTypes, CtlTypes, TrailTypes, RestTypes DEF FTypes

-----------------------------------------------------------------------------
(* What is added to the trail.                                             *)

\* A line that there was is there; and so is one that is added.
LEMMA Lines ==
  ASSUME NEW s \in Seq(Entries), Grows(s)
  PROVE  /\ \A i \in 1 .. Span : /\ i \in 1 .. Span'
                                 /\ \A f : (On(i, f)' <=> On(i, f)) /\ (StopAt(i, f)' <=> StopAt(i, f))
         /\ \A f : Started(f) => Started(f)'
         /\ \A j \in 1 .. Len(s) : \E i \in 1 .. Span' :
              /\ i - Span = j /\ Says(i)'.act = s[j].act /\ Says(i)'.of = s[j].of
         /\ \A i \in 1 .. Span' : i \in 1 .. Span \/
              /\ i - Span \in 1 .. Len(s) /\ i > Span
              /\ Says(i)'.act = s[i - Span].act /\ Says(i)'.of = s[i - Span].of
  <1>1. Span \in Nat /\ Len(s) \in Nat /\ Span' = Span + Len(s)
    BY DEF Grows
  <1>2. ASSUME NEW i \in 1 .. Span
        PROVE  /\ i \in 1 .. Span' /\ Says(i)'.act = Says(i).act /\ Says(i)'.of = Says(i).of
               /\ \A f : (On(i, f)' <=> On(i, f)) /\ (StopAt(i, f)' <=> StopAt(i, f))
    <2>1. i \in 1 .. Span' /\ Says(i)'.act = Says(i).act /\ Says(i)'.of = Says(i).of
      BY <1>1 DEF Grows
    <2>2. QED
      BY <2>1 DEF On, StopAt, F!FwdOf
  <1>3. ASSUME NEW f, Started(f) PROVE Started(f)'
    <2>1. PICK i \in 1 .. Span : On(i, f) /\ Says(i).act = "start"
      BY <1>3 DEF Started
    <2>2. On(i, f)' /\ Says(i)'.act = "start" /\ i \in 1 .. Span'
      BY <1>2, <2>1
    <2>3. QED
      BY <2>2 DEF Started
  <1>4. ASSUME NEW i \in Span + 1 .. Span + Len(s)
        PROVE  Says(i)'.act = s[i - Span].act /\ Says(i)'.of = s[i - Span].of
    BY DEF Grows
  <1>5. ASSUME NEW j \in 1 .. Len(s)
        PROVE  \E i \in 1 .. Span' :
                  /\ i - Span = j /\ Says(i)'.act = s[j].act /\ Says(i)'.of = s[j].of
    <2>1. PICK i : i = Span + j
      OBVIOUS
    <2>2. i \in Span + 1 .. Span + Len(s) /\ i - Span = j /\ i \in 1 .. Span'
      BY <1>1, <2>1
    <2>3. QED
      BY <1>4, <2>1, <2>2
  <1>6. ASSUME NEW i \in 1 .. Span', i \notin 1 .. Span
        PROVE  /\ i - Span \in 1 .. Len(s) /\ i > Span
               /\ Says(i)'.act = s[i - Span].act /\ Says(i)'.of = s[i - Span].of
    BY <1>1, <1>4, <1>6
  <1>7. QED
    BY <1>2, <1>3, <1>5, <1>6

\* A start is audited of a work that is still busy, a stop of a forward that owes it.
LEMMA Added ==
  ASSUME FTypes, F!Next, NEW s \in Seq(Entries), Adds(s), NEW i \in 1 .. Len(s)
  PROVE  /\ s[i].of \in F!Works
         /\ s[i].act = "start" => Busy(s[i].of)
         /\ s[i].act = "stop" => Kept(F!FwdOf(s[i].of))
         /\ s[i].act \in {"start", "stop"}
  <1>1. s[i] \in Entries
    OBVIOUS
  <1>2. s[i].of \in F!Works /\ s[i].act \in {"start", "stop"}
    BY <1>1 DEF Entries
  <1>3. ASSUME NEW x \in F!Works, s = <<F!Entry("start", x)>>, Busy(x)
        PROVE  s[i].act = "start" /\ s[i].of = x
    BY <1>3 DEF F!Entry
  <1>4. ASSUME NEW f \in Forwards, s = <<F!Entry("stop", <<f, 0>>)>>,
               f \in listed \union deferred
        PROVE  s[i].act = "stop" /\ Kept(F!FwdOf(s[i].of))
    BY <1>4, WorksOfForwards DEF F!Entry, Kept
  <1>5. CASE F!ConfirmationsOver /\ s = F!Stops(deferred) \o F!Stops(ctl.victims)
    <2> DEFINE t == F!Stops(deferred)
               u == F!Stops(ctl.victims)
    <2>1. StopsOf(t, deferred) /\ StopsOf(u, ctl.victims)
      BY StopsAre DEF FTypes
    <2>2. Victims = ctl.victims
      BY <1>5 DEF F!ConfirmationsOver, Victims
    <2> HIDE DEF t, u
    <2>3. s = t \o u /\ t \in Seq(Entries) /\ u \in Seq(Entries)
      BY <1>5, <2>1 DEF t, u, StopsOf
    <2>4. (i \in 1 .. Len(t) /\ s[i] = t[i]) \/ (i - Len(t) \in 1 .. Len(u) /\ s[i] = u[i - Len(t)])
      BY <2>3
    <2>5. s[i].act = "stop" /\ F!FwdOf(s[i].of) \in deferred \union ctl.victims
      BY <2>1, <2>4 DEF StopsOf
    <2>6. QED
      BY <1>2, <2>2, <2>5 DEF Kept
  <1>6. ASSUME NEW cut \in SUBSET F!Works, Leaving(cut, s)
        PROVE  s[i].act = "start" /\ Busy(s[i].of)
    <2>1. PICK t \in Seq(Entries), u \in Seq(Entries) :
             /\ s = t \o u /\ StartsOf(t, cut)
             /\ StartsOf(u, {x \in F!Works : confirm[x] = "waiting"})
      BY <1>6 DEF Leaving
    <2>2. (i \in 1 .. Len(t) /\ s[i] = t[i]) \/ (i - Len(t) \in 1 .. Len(u) /\ s[i] = u[i - Len(t)])
      BY <2>1
    <2>3. s[i].act = "start" /\ (s[i].of \in cut \/ confirm[s[i].of] = "waiting")
      BY <2>1, <2>2 DEF StartsOf
    <2>4. QED
      BY <1>6, <2>3 DEF Leaving, F!InFlight, Busy, Flying, Open
  <1>7. CASE s = <<>>
    BY <1>7
  <1>8. CASE \E x \in F!Works : s = <<F!Entry("start", x)>> /\ Busy(x)
    BY <1>2, <1>3, <1>8
  <1>9. CASE \E f \in Forwards : /\ s = <<F!Entry("stop", <<f, 0>>)>>
                                 /\ F!Stop(f) \/ f \in deferred
    <2>1. \A f \in Forwards : F!Stop(f) => f \in listed
      BY DEF F!Stop
    <2>2. QED
      BY <1>2, <1>4, <1>9, <2>1
  <1>10. QED
    BY <1>2, <1>5, <1>6, <1>7, <1>8, <1>9 DEF Adds

\* What was audited is of a forward that was busy, or owed it.
LEMMA NewLines ==
  ASSUME FTypes, F!Next, NEW s \in Seq(Entries), Grows(s), Adds(s), NEW f \in Forwards, NEW i \in 1 .. Span',
         i \notin 1 .. Span, On(i, f)'
  PROVE  /\ Says(i)'.act = "start" => \E x \in F!Works : F!FwdOf(x) = f /\ Busy(x)
         /\ Says(i)'.act = "stop" => Kept(f)
         /\ Says(i)'.act \in {"start", "stop"}
  <1>1. PICK j \in 1 .. Len(s) : Says(i)'.act = s[j].act /\ Says(i)'.of = s[j].of
    BY Lines
  <1>2. F!FwdOf(s[j].of) = f
    BY <1>1 DEF On, F!FwdOf
  <1>3. QED
    BY <1>1, <1>2, Added

\* A landed launch or a confirmation that was heard is audited, or goes on.
LEMMA Audited ==
  ASSUME FTypes, F!Next, NEW f \in Forwards,
         \/ work[<<f, 0>>] = "landed" /\ work'[<<f, 0>>] # "landed" /\ confirm'[<<f, 0>>] # "made"
         \/ work[<<f, 0>>] = "spawning" /\ work'[<<f, 0>>] = "orphan"
         \/ confirm[<<f, 0>>] = "waiting" /\ confirm'[<<f, 0>>] = "over"
  PROVE  Started(f)'
  <1>1. PICK x \in F!Works : x = <<f, 0>>
    BY WorksOfForwards
  <1>2. F!FwdOf(x) = f /\ x \in F!Launches
    BY <1>1, WorksOfForwards
  <1>3. \/ work[x] = "landed" /\ work'[x] # "landed" /\ confirm'[x] # "made"
        \/ work[x] = "spawning" /\ work'[x] = "orphan"
        \/ confirm[x] = "waiting" /\ confirm'[x] = "over"
    BY <1>1
  <1>4. ASSUME NEW s \in Seq(Entries), queue' = queue \o s, log' = log,
               NEW j \in 1 .. Len(s), s[j].act = "start", s[j].of = x
        PROVE  Started(f)'
    <2>1. Grows(s)
      BY <1>4, Queued
    <2>2. PICK i \in 1 .. Span' : Says(i)'.act = "start" /\ Says(i)'.of = x
      BY <1>4, <2>1, Lines
    <2>3. On(i, f)'
      BY <1>2, <2>2 DEF On, F!FwdOf
    <2>4. QED
      BY <2>2, <2>3 DEF Started
  <1>5. CASE F!Exit
    <2>1. PICK cut \in SUBSET F!Works, s \in Seq(Entries) : Leaving(cut, s) /\ queue' = queue \o s /\ log' = log
      BY <1>5, ExitLeaves
    <2>2. PICK t \in Seq(Entries), u \in Seq(Entries) :
             /\ s = t \o u /\ StartsOf(t, cut)
             /\ StartsOf(u, {y \in F!Works : confirm[y] = "waiting"})
      BY <2>1 DEF Leaving
    <2>3. \/ x \in cut
          \/ x \in {y \in F!Works : confirm[y] = "waiting"}
      BY <1>2, <1>3, <2>1 DEF Leaving, F!InFlight
    <2>4. CASE x \in cut
      <3>1. PICK j \in 1 .. Len(t) : t[j].of = x /\ t[j].act = "start"
        BY <2>2, <2>4 DEF StartsOf
      <3>2. j \in 1 .. Len(s) /\ s[j] = t[j]
        BY <2>2, <3>1
      <3>3. QED
        BY <1>4, <2>1, <3>1, <3>2
    <2>5. CASE x \in {y \in F!Works : confirm[y] = "waiting"}
      <3>1. PICK j \in 1 .. Len(u) : u[j].of = x /\ u[j].act = "start"
        BY <2>2, <2>5 DEF StartsOf
      <3>2. Len(t) + j \in 1 .. Len(s) /\ s[Len(t) + j] = u[j]
        BY <2>2, <3>1
      <3>3. QED
        BY <1>4, <2>1, <3>1, <3>2
    <2>6. QED
      BY <2>3, <2>4, <2>5
  <1>6. ASSUME F!Audit(F!Entry("start", x)) \/ F!AuditSafely(F!Entry("start", x))
        PROVE  Started(f)'
    <2> DEFINE e == F!Entry("start", x)
               s == <<e>>
    <2>1. e.act = "start" /\ e.of = x /\ e \in Entries
      BY DEF F!Entry, Entries
    <2>2. \A d : F!Audit(d) \/ F!AuditSafely(d) => queue' = queue \o <<d>> /\ log' = log
      BY DEF F!Audit, F!AuditSafely, F!Enqueue, FTypes
    <2>5. queue' = queue \o <<e>> /\ log' = log
      BY <1>6, <2>2
    <2> HIDE DEF e
    <2>3. s \in Seq(Entries) /\ 1 \in 1 .. Len(s) /\ s[1] = e
      BY <2>1
    <2>4. QED
      BY <1>4, <2>1, <2>5, <2>3
  <1>7. CASE F!Heard(x)
    BY <1>6, <1>7 DEF F!Heard
  <1>8. CASE F!Resume(x) /\ work[x] = "landed" /\ confirm'[x] # "made"
    BY <1>6, <1>8 DEF F!Resume, F!Lands, F!Tracks, FTypes
  <1>9. QED
    BY <1>3, <1>5, <1>7, <1>8, WorkMoves, ConfirmMoves DEF Moves, Confirms

-----------------------------------------------------------------------------
(* Every step keeps the invariant.                                         *)

\* The lines of a step: those there were, and those of what was busy or owed a stop.
After(f) ==
    /\ Started(f) => Started(f)'
    /\ \A i \in 1 .. Span : i \in 1 .. Span' /\ (On(i, f)' <=> On(i, f)) /\ (StopAt(i, f)' <=> StopAt(i, f))
    /\ \A i \in 1 .. Span' : On(i, f)' =>
         \/ i \in 1 .. Span
         \/ Says(i)'.act = "start" /\ \E x \in F!Works : F!FwdOf(x) = f /\ Busy(x)
         \/ Says(i)'.act = "stop" /\ Kept(f)

\* Every step leaves such lines.
LEMMA LinesAfter ==
  ASSUME FTypes, PenInv, F!Next, NEW f \in Forwards
  PROVE  After(f)
  <1>1. PICK s \in Seq(Entries) : Grows(s) /\ Adds(s)
    BY TrailStep
  <1>2. Started(f) => Started(f)'
    BY <1>1, Lines
  <1>3. \A i \in 1 .. Span : i \in 1 .. Span' /\ (On(i, f)' <=> On(i, f)) /\ (StopAt(i, f)' <=> StopAt(i, f))
    BY <1>1, Lines
  <1>4. ASSUME NEW i \in 1 .. Span', On(i, f)', i \notin 1 .. Span
        PROVE  \/ Says(i)'.act = "start" /\ \E x \in F!Works : F!FwdOf(x) = f /\ Busy(x)
               \/ Says(i)'.act = "stop" /\ Kept(f)
    BY <1>1, <1>4, NewLines
  <1>5. QED
    BY <1>2, <1>3, <1>4 DEF After

\* What was not launched has left no trace after a step.
LEMMA NewStep ==
  ASSUME FTypes, PenInv, NewInv, ConfirmInv, F!Next
  PROVE  NewInv'
  <1> SUFFICES ASSUME NEW f \in Forwards, NEW x \in F!Works, x = <<f, 0>>
               PROVE  /\ work'[x] \in Unborn =>
                           /\ ~Kept(f)' /\ confirm'[x] = "none"
                           /\ \A i \in 1 .. Span' : ~StopAt(i, f)'
                           /\ \A k \in 1 .. MaxAgain : work'[<<f, k>>] = "idle"
                      /\ work'[x] \in {"idle", "looking"} => \A i \in 1 .. Span' : ~On(i, f)'
                      /\ work'[x] = "orphan" => Started(f)'
    BY WorksOfForwards DEF NewInv, Unborn
  <1>1. Moves(x) /\ Confirms(x) /\ After(f)
    BY WorkMoves, ConfirmMoves, LinesAfter
  <1>2. ASSUME work'[x] \in Unborn
        PROVE  /\ work[x] \in Unborn /\ ~Kept(f) /\ confirm[x] = "none"
               /\ \A i \in 1 .. Span : ~StopAt(i, f)
               /\ \A k \in 1 .. MaxAgain : work[<<f, k>>] = "idle"
    <2>1. work[x] \in Unborn
      BY <1>1, <1>2 DEF Moves, Unborn, Flying
    <2>2. QED
      BY <2>1 DEF NewInv
  <1>3. ASSUME work'[x] \in Unborn
        PROVE  ~Kept(f)' /\ confirm'[x] = "none"
    <2>1. work'[x] \notin {"landed", "over"}
      BY <1>3 DEF Unborn
    <2>2. ~Kept(f)'
      BY <1>2, <1>3, <2>1, Keeping, Listings
    <2>3. confirm'[x] = "none"
      BY <1>1, <1>2, <1>3 DEF Confirms, Unborn
    <2>4. QED
      BY <2>2, <2>3
  <1>4. ASSUME work'[x] \in Unborn, NEW i \in 1 .. Span'
        PROVE  ~StopAt(i, f)'
    <2>1. SUFFICES ASSUME StopAt(i, f)' PROVE FALSE
      OBVIOUS
    <2>2. On(i, f)' /\ Says(i)'.act = "stop"
      BY <2>1 DEF StopAt
    <2>3. i \in 1 .. Span
      BY <1>1, <1>2, <1>4, <2>2 DEF After
    <2>4. QED
      BY <1>1, <1>2, <1>4, <2>1, <2>3 DEF After
  <1>5. ASSUME work'[x] \in Unborn, NEW k \in 1 .. MaxAgain
        PROVE  work'[<<f, k>>] = "idle"
    <2>0. k \in 0 .. MaxAgain /\ k # 0
      BY ForwardsAssumption
    <2>1. PICK y \in F!Works : y = <<f, k>>
      <3>1. <<f, k>> \in F!Works
        BY <2>0, WorksOfForwards, Zenon
      <3>2. QED
        BY <3>1
    <2>2. y \notin F!Launches /\ F!FwdOf(y) = f
      BY <2>0, <2>1, WorksOfForwards, Zenon
    <2>3. work[y] = "idle" /\ Moves(y)
      BY <1>2, <1>5, <2>1, WorkMoves
    <2>4. f \notin listed
      BY <1>2, <1>5 DEF Kept
    <2>5. ~F!Reattach(y)
      BY <2>2, <2>4 DEF F!Reattach
    <2>6. work'[y] = "idle"
      BY <2>2, <2>3, <2>5 DEF Moves, Flying
    <2>7. QED
      BY <2>1, <2>6
  <1>6. ASSUME work'[x] \in {"idle", "looking"}, NEW i \in 1 .. Span', On(i, f)'
        PROVE  FALSE
    <2>1. work'[x] \in Unborn /\ work[x] \in {"idle", "looking"}
      BY <1>1, <1>6 DEF Moves, Unborn, Flying
    <2>2. \A j \in 1 .. Span : ~On(j, f)
      BY <2>1 DEF NewInv
    <2>3. i \notin 1 .. Span /\ ~Kept(f)
      BY <1>1, <1>2, <1>6, <2>1, <2>2 DEF After
    <2>4. PICK y \in F!Works : F!FwdOf(y) = f /\ Busy(y)
      BY <1>1, <1>6, <2>3 DEF After
    <2>5. work[y] \in {"idle", "looking"}
      <3>1. CASE y \in F!Launches
        <4>1. y = x
          BY <2>4, <3>1, WorksOfForwards
        <4>2. QED
          BY <2>1, <4>1
      <3>2. CASE y \notin F!Launches
        <4>1. y[2] \in 1 .. MaxAgain /\ y = <<f, y[2]>>
          BY <2>4, <3>2, ForwardsAssumption, WorksOfForwards
        <4>2. QED
          BY <1>2, <2>1, <4>1
      <3>3. QED
        BY <3>1, <3>2
    <2>6. QED
      BY <2>4, <2>5 DEF Busy, Flying, Open, ConfirmInv
  <1>7. ASSUME work'[x] = "orphan"
        PROVE  Started(f)'
    <2>1. work[x] = "orphan" \/ work[x] = "spawning"
      BY <1>1, <1>7 DEF Moves, Flying
    <2>2. CASE work[x] = "orphan"
      BY <1>1, <2>2 DEF NewInv, After
    <2>3. CASE work[x] = "spawning"
      BY <1>7, <2>3, Audited
    <2>4. QED
      BY <2>1, <2>2, <2>3
  <1>8. QED
    BY <1>3, <1>4, <1>5, <1>6, <1>7

\* A confirmation is of what is over after a step.
LEMMA ConfirmStep ==
  ASSUME FTypes, ConfirmInv, F!Next
  PROVE  ConfirmInv'
  <1> SUFFICES ASSUME NEW x \in F!Works, confirm'[x] # "none"
               PROVE  work'[x] = "over"
    BY DEF ConfirmInv
  <1>1. Moves(x) /\ Confirms(x)
    BY WorkMoves, ConfirmMoves
  <1>2. CASE confirm[x] # "none"
    BY <1>1, <1>2 DEF ConfirmInv, Moves, Flying
  <1>3. CASE F!Resume(x)
    BY <1>3 DEF F!Resume, F!Goes, FTypes
  <1>4. QED
    BY <1>1, <1>2, <1>3 DEF Confirms

\* Whoever owes a stop is started after a step.
LEMMA KeptStep ==
  ASSUME FTypes, PenInv, NewInv, ConfirmInv, StartedInv, F!Next
  PROVE  StartedInv'
  <1> SUFFICES ASSUME NEW f \in Forwards, Kept(f)', NEW x \in F!Works, x = <<f, 0>>
               PROVE  \/ work'[x] = "landed"
                      \/ work'[x] = "over" /\ (Open(x)' \/ confirm'[x] = "dropped" \/ Started(f)')
    BY WorksOfForwards DEF StartedInv
  <1>1. Moves(x) /\ Confirms(x) /\ After(f)
    BY WorkMoves, ConfirmMoves, LinesAfter
  <1>2. CASE f \in listed' /\ f \notin listed
    <2>1. work'[x] = "landed" \/ (work[x] = "orphan" /\ work'[x] = "over")
      BY <1>2, Listings
    <2>2. work[x] = "orphan" => Started(f)'
      BY <1>1 DEF NewInv, After
    <2>3. QED
      BY <2>1, <2>2
  <1>3. CASE Kept(f)
    <2>1. \/ work[x] = "landed"
          \/ work[x] = "over" /\ (Open(x) \/ confirm[x] = "dropped" \/ Started(f))
      BY <1>3 DEF StartedInv
    <2>2. CASE work[x] = "landed"
      <3>1. work'[x] = "landed" \/ work'[x] = "over"
        BY <1>1, <2>2 DEF Moves, Flying
      <3>2. work'[x] = "over" /\ confirm'[x] # "made" => Started(f)'
        BY <2>2, Audited
      <3>3. QED
        BY <3>1, <3>2 DEF Open
    <2>3. CASE work[x] = "over" /\ Open(x)
      <3>1. work'[x] = "over"
        BY <1>1, <2>3 DEF Moves, Flying
      <3>2. confirm'[x] \in {"made", "waiting", "dropped"} \/ (confirm[x] = "waiting" /\ confirm'[x] = "over")
        BY <1>1, <2>3 DEF Open, Confirms
      <3>3. confirm[x] = "waiting" /\ confirm'[x] = "over" => Started(f)'
        BY Audited
      <3>4. QED
        BY <3>1, <3>2, <3>3 DEF Open
    <2>4. CASE work[x] = "over" /\ (confirm[x] = "dropped" \/ Started(f))
      <3>1. work'[x] = "over" /\ ~F!Resume(x)
        BY <1>1, <2>4 DEF Moves, Flying, F!Resume
      <3>2. QED
        BY <1>1, <2>4, <3>1 DEF Confirms, After
    <2>5. QED
      BY <2>1, <2>2, <2>3, <2>4
  <1>4. QED
    BY <1>2, <1>3, Keeping

\* The teardown's own steps, and what every other step leaves.
Enters(at, waits) == ctl'.at = at /\ ctl'.waits = waits
Rests ==
    /\ UNCHANGED <<ctl, app, closing>>
    /\ switching' = switching \/ switching' = TRUE \/ ctl.at = "idle"
    /\ shut' = shut \/ shut' = TRUE
    /\ late \subseteq late' /\ deferred' \subseteq deferred \union listed
Controls ==
    \/ F!Teardown \/ F!LaunchesLanded \/ F!ReattachesLanded \/ F!StopAll \/ F!ConfirmationsOver
    \/ F!Flushed \/ F!Apply \/ F!Exit

\* A step is the teardown's, or leaves the teardown where it is.
LEMMA CtlMoves ==
  ASSUME FTypes, F!Next
  PROVE  Controls \/ Rests
  <1>1. CASE F!WriteHead \/ F!Written \/ F!DrainEnds \/ F!SwitchClaims \/ F!SwitchGivesUp \/ F!StrayStops
    BY <1>1 DEF Rests, F!WriteHead, F!Written, F!DrainEnds, F!SwitchClaims, F!SwitchGivesUp,
       F!StrayStops,
       F!coroutines, F!registry, F!session, F!ghost
  <1>2. CASE \E f \in Forwards : F!Ask(f) \/ F!Launch(f) \/ F!Ready(f) \/ F!Breaks(f)
    BY <1>2 DEF Rests, F!Ask, F!Launch, F!Ready, F!Breaks, F!Becomes, F!coroutines, F!registry,
       F!session, F!ghost
  <1>3. CASE \E f \in Forwards : F!Stop(f) \/ F!StopAudited(f)
    BY <1>3 DEF Rests, F!Stop, F!StopAudited, F!coroutines, F!registry, F!session, F!ghost
  <1>4. CASE \E x \in F!Works : F!Reattach(x) \/ F!Spawned(x) \/ F!Listen(x) \/ F!Resume(x)
    BY <1>4 DEF Rests, F!Reattach, F!Spawned, F!Listen, F!Resume, F!coroutines, F!registry,
       F!session,
       F!ghost
  <1>5. CASE \E x \in F!Works : F!Heard(x)
    BY <1>5 DEF Rests, F!Heard, F!FailsStart, F!coroutines, F!registry, F!session, F!ghost
  <1>6. QED
    BY <1>1, <1>2, <1>3, <1>4, <1>5 DEF F!Next, Controls

\* A coroutine that flies did, or is launched while no switch is under way, or is a re-attach.
LEMMA Flies ==
  ASSUME FTypes, PhaseInv, F!Next, NEW x \in F!Works, work'[x] \in Flying
  PROVE  \/ work[x] \in Flying
         \/ F!Launch(x[1]) /\ ~F!Moved(x[1]) /\ x \in F!Launches /\ app = "up" /\ ctl.at = "idle"
         \/ F!Reattach(x) /\ x \notin F!Launches
  <1>1. Moves(x)
    BY WorkMoves
  <1>2. \/ work[x] \in Flying
        \/ F!Launch(x[1]) /\ ~F!Moved(x[1]) /\ x \in F!Launches
        \/ F!Reattach(x)
    BY <1>1 DEF Moves, Flying
  <1>3. F!Launch(x[1]) /\ ~F!Moved(x[1]) => app = "up" /\ ctl.at = "idle"
    BY DEF F!Launch, F!Moved, PhaseInv
  <1>4. F!Reattach(x) => x \notin F!Launches
    BY WorksOfForwards DEF F!Reattach
  <1>5. QED
    BY <1>2, <1>3, <1>4

\* A confirmation that is open was, or is made while the forwards are open.
LEMMA Opens ==
  ASSUME FTypes, F!Next, NEW x \in F!Works, Open(x)'
  PROVE  Open(x) \/ (F!Resume(x) /\ work[x] = "landed" /\ ~closing /\ x[1] \in listed)
  <1>1. Confirms(x)
    BY ConfirmMoves
  <1>2. QED
    BY <1>1 DEF Confirms, Open

\* Where the teardown rests, nothing it has waited for comes back.
LEMMA PhaseRests ==
  ASSUME FTypes, PenInv, ConfirmInv, PhaseInv, F!Next, Rests
  PROVE  PhaseInv'
  <1>1. ctl' = ctl /\ app' = app /\ closing' = closing
    BY DEF Rests
  <1>2. ctl'.at # "idle" => closing' /\ (app' = "up" => switching')
    BY <1>1 DEF Rests, PhaseInv
  <1>3. app' = "up" => \A x \in F!Works : work'[x] # "orphan"
    <2>1. SUFFICES ASSUME app' = "up", NEW x \in F!Works, work'[x] = "orphan"
                   PROVE  FALSE
      OBVIOUS
    <2>2. work[x] = "orphan" \/ F!Exit
      BY <2>1, WorkMoves DEF Moves, Flying
    <2>3. ~F!Exit
      BY <1>1, <2>1 DEF F!Exit
    <2>4. QED
      BY <1>1, <2>1, <2>2, <2>3 DEF PhaseInv
  <1>4. ASSUME NEW x \in F!Works, work'[x] \in Flying
        PROVE  /\ ctl'.at = "launches" /\ x \in F!Launches => x \in ctl'.waits
               /\ ctl'.at \notin {"idle", "launches"} => x \notin F!Launches
               /\ ctl'.at = "reattaches" => x \in ctl'.waits \/ F!FwdOf(x) \in late'
               /\ ctl'.at \in {"stopping"} \union AfterStops => F!FwdOf(x) \in late'
    <2>1. CASE work[x] \in Flying
      BY <1>1, <2>1 DEF PhaseInv, Rests
    <2>2. CASE ctl.at = "idle"
      BY <1>1, <2>2 DEF AfterStops
    <2>3. CASE F!Reattach(x) /\ x \notin F!Launches /\ ctl.at # "idle"
      <3>1. closing
        BY <2>3 DEF PhaseInv
      <3>2. F!FwdOf(x) \in late'
        BY <2>3, <3>1 DEF F!Reattach
      <3>3. QED
        BY <2>3, <3>2
    <2>4. QED
      BY <1>4, <2>1, <2>2, <2>3, Flies
  <1>5. ctl'.at \in AfterStops => shut' /\ listed' = {}
    <2>1. SUFFICES ASSUME ctl.at \in AfterStops PROVE shut' /\ listed' = {}
      BY <1>1
    <2>2. shut /\ listed = {}
      BY <2>1 DEF PhaseInv
    <2>3. listed' \subseteq Forwards
      BY RestTypes
    <2>4. QED
      BY <2>2, <2>3, Listings DEF Rests
  <1>6. ASSUME ctl.at \in AfterStops, NEW x \in F!Works, Open(x)'
        PROVE  Open(x)
    <2>1. closing
      BY <1>6 DEF PhaseInv, AfterStops
    <2>2. QED
      BY <1>6, <2>1, Opens
  <1>7. ctl'.at = "confirming" => \A x \in F!Works : Open(x)' => x \in ctl'.waits
    BY <1>1, <1>6 DEF PhaseInv, AfterStops
  <1>8. ctl'.at \in {"flushing", "flushed"} => deferred' = {} /\ \A x \in F!Works : ~Open(x)'
    <2>1. SUFFICES ASSUME ctl.at \in {"flushing", "flushed"}
                   PROVE  deferred' = {} /\ \A x \in F!Works : ~Open(x)'
      BY <1>1
    <2>2. ctl.at \in AfterStops /\ deferred = {} /\ listed = {} /\ \A x \in F!Works : ~Open(x)
      BY <2>1 DEF PhaseInv, AfterStops
    <2>3. QED
      BY <1>6, <2>2 DEF Rests
  <1>9. ctl'.at = "flushed" =>
          \A i \in DOMAIN queue' : queue'[i].act = "start" /\ F!FwdOf(queue'[i].of) \in late'
    <2> SUFFICES ASSUME ctl.at = "flushed", NEW i \in DOMAIN queue'
                 PROVE  queue'[i].act = "start" /\ F!FwdOf(queue'[i].of) \in late'
      BY <1>1
    <2>1. /\ listed = {} /\ deferred = {} /\ \A x \in F!Works : ~Open(x)
          /\ \A x \in F!Works : work[x] \in Flying => F!FwdOf(x) \in late
          /\ \A j \in DOMAIN queue : queue[j].act = "start" /\ F!FwdOf(queue[j].of) \in late
      BY DEF PhaseInv, AfterStops
    <2>2. PICK s \in Seq(Entries) : Adds(s) /\ (F!Written \/ (queue' = queue \o s /\ log' = log))
      BY TrailStep
    <2>3. late \subseteq late' /\ queue \in Seq(Entries)
      BY DEF Rests, FTypes
    <2>4. CASE F!Written
      <3>1. queue # <<>> /\ queue' = Tail(queue)
        BY <2>4 DEF F!Written, PenInv
      <3>2. i + 1 \in DOMAIN queue /\ queue'[i] = queue[i + 1]
        BY <2>3, <3>1
      <3>3. QED
        BY <2>1, <2>3, <3>2
    <2>5. CASE queue' = queue \o s
      <3>1. (i \in DOMAIN queue /\ queue'[i] = queue[i])
            \/ (i - Len(queue) \in 1 .. Len(s) /\ queue'[i] = s[i - Len(queue)])
        BY <2>2, <2>3, <2>5
      <3>2. ASSUME NEW j \in 1 .. Len(s)
            PROVE  s[j].act = "start" /\ F!FwdOf(s[j].of) \in late
        <4>1. \A f : ~Kept(f)
          BY <2>1 DEF Kept, Victims
        <4>2. s[j].of \in F!Works /\ s[j].act = "start" /\ Busy(s[j].of)
          BY <2>2, <4>1, Added
        <4>3. QED
          BY <2>1, <4>2 DEF Busy
      <3>3. QED
        BY <2>1, <2>3, <3>1, <3>2
    <2>6. QED
      BY <2>2, <2>4, <2>5
  <1>10. QED
    BY <1>2, <1>3, <1>4, <1>5, <1>7, <1>8, <1>9 DEF PhaseInv

\* The teardown's phases hold after a step.
LEMMA PhaseStep ==
  ASSUME FTypes, PenInv, ConfirmInv, PhaseInv, F!Next
  PROVE  PhaseInv'
  <1> DEFINE Phased(at, waits) == ctl' = [ctl EXCEPT !.at = at, !.waits = waits]
  <1>0. \A at, waits : Phased(at, waits) => Enters(at, waits)
    BY DEF FTypes, Enters
  <1>1. CASE F!Teardown
    <2>1. /\ Enters("launches", F!InFlight \intersect F!Launches) /\ closing' /\ app' = app
          /\ switching' = switching /\ work' = work /\ (app = "up" => switching)
      BY <1>0, <1>1 DEF F!Teardown, F!Phase, F!coroutines
    <2>2. QED
      BY <2>1 DEF PhaseInv, Enters, AfterStops, F!InFlight, Flying
  <1>2. CASE F!LaunchesLanded
    <2>1. /\ Enters("reattaches", F!InFlight \ F!Launches) /\ UNCHANGED <<closing, app, switching, work>>
          /\ ctl.at = "launches" /\ ctl.waits \intersect F!InFlight = {}
      BY <1>0, <1>2 DEF F!LaunchesLanded, F!Phase, F!coroutines
    <2>2. QED
      BY <2>1 DEF PhaseInv, Enters, AfterStops, F!InFlight, Flying
  <1>3. CASE F!ReattachesLanded
    <2>1. /\ Enters("stopping", {}) /\ UNCHANGED <<closing, app, switching, work, late>>
          /\ ctl.at = "reattaches" /\ ctl.waits \intersect F!InFlight = {}
      BY <1>0, <1>3 DEF F!ReattachesLanded, F!Phase, F!coroutines, F!ghost
    <2>2. QED
      BY <2>1 DEF PhaseInv, Enters, AfterStops, F!InFlight, Flying
  <1>4. CASE F!StopAll
    <2>1. /\ Enters("confirming", F!Busy \ F!InFlight) /\ UNCHANGED <<closing, app, switching, work, confirm, late>>
          /\ ctl.at = "stopping" /\ shut' /\ listed' = {}
      BY <1>4 DEF F!StopAll, F!coroutines, Enters
    <2>2. ASSUME NEW x \in F!Works, Open(x) PROVE x \in F!Busy \ F!InFlight
      <3>1. x \in F!Confirming(F!FwdOf(x)) /\ F!FwdOf(x) \in Forwards
        BY <2>2, WorksOfForwards DEF F!Confirming, Open
      <3>2. x \notin F!InFlight
        BY <2>2 DEF ConfirmInv, Open, F!InFlight
      <3>3. QED
        BY <3>1, <3>2 DEF F!Busy
    <2>3. \A x \in F!Works : Open(x)' => x \in ctl'.waits
      BY <2>1, <2>2 DEF Open, Enters
    <2>4. QED
      BY <2>1, <2>3 DEF PhaseInv, Enters, AfterStops
  <1>5. CASE F!ConfirmationsOver
    <2>1. /\ Enters("flushing", {})
          /\ UNCHANGED <<closing, app, switching, work, confirm, late, shut, listed>>
          /\ ctl.at = "confirming" /\ deferred' = {} /\ ctl.waits \intersect F!Busy = {}
      BY <1>0, <1>5 DEF F!ConfirmationsOver, F!Phase, F!registry, F!ghost
    <2>2. ASSUME NEW x \in F!Works, Open(x) PROVE FALSE
      <3>1. x \in F!Confirming(F!FwdOf(x)) /\ F!FwdOf(x) \in Forwards
        BY <2>2, WorksOfForwards DEF F!Confirming, Open
      <3>2. x \in F!Busy /\ x \in ctl.waits
        BY <2>1, <2>2, <3>1 DEF F!Busy, PhaseInv
      <3>3. QED
        BY <2>1, <3>2
    <2>3. \A x \in F!Works : ~Open(x)'
      BY <2>1, <2>2 DEF Open
    <2>4. QED
      BY <2>1, <2>3 DEF PhaseInv, Enters, AfterStops
  <1>6. CASE F!Flushed
    <2>1. /\ Enters("flushed", {})
          /\ UNCHANGED <<closing, switching, work, confirm, late, shut, listed, deferred, queue>>
          /\ ctl.at = "flushing" /\ queue = <<>> /\ (app' = app \/ app' = "gone")
      BY <1>0, <1>6 DEF F!Flushed, F!Phase, F!registry, F!ghost, F!coroutines, F!trail
    <2>2. queue' = <<>>
      BY <2>1
    <2>3. \A x \in F!Works : Open(x)' <=> Open(x)
      BY <2>1 DEF Open
    <2>4. QED
      BY <2>1, <2>2, <2>3 DEF PhaseInv, Enters, AfterStops
  <1>7. CASE F!Apply
    <2>1. ctl'.at = "idle" /\ app' = app /\ work' = work
      BY <1>7 DEF F!Apply, F!Nothing, F!coroutines
    <2>2. QED
      BY <2>1 DEF PhaseInv, AfterStops
  <1>8. CASE F!Exit
    <2>1. ctl'.at = "idle" /\ app' = "exiting"
      BY <1>8 DEF F!Exit, F!Nothing
    <2>2. QED
      BY <2>1 DEF PhaseInv, AfterStops
  <1>9. QED
    BY <1>1, <1>2, <1>3, <1>4, <1>5, <1>6, <1>7, <1>8, CtlMoves, PhaseRests DEF Controls

\* A re-attach during a teardown is never forgotten.
LEMMA LateStays == FTypes /\ F!Next => late \subseteq late'
  <1> SUFFICES ASSUME FTypes, F!Next PROVE late \subseteq late'
    OBVIOUS
  <1>1. CASE Controls
    BY <1>1 DEF Controls, F!Teardown, F!LaunchesLanded, F!ReattachesLanded, F!StopAll,
       F!ConfirmationsOver,
       F!Flushed, F!Apply, F!Exit, F!ghost
  <1>2. QED
    BY <1>1, CtlMoves DEF Rests

\* Who is asked for is asked for now.
LEMMA Wants ==
  ASSUME FTypes, F!Next, NEW f \in Forwards
  PROVE  wanted'[f] = wanted[f] \/ (F!Ask(f) /\ wanted'[f] = F!Epoch')
  <1>1. CASE \E g \in Forwards : F!Ask(g)
    <2>1. PICK g \in Forwards : F!Ask(g)
      BY <1>1
    <2>2. wanted' = [wanted EXCEPT ![g] = F!Epoch] /\ F!Epoch' = F!Epoch
      BY <2>1 DEF F!Ask, F!session, F!Epoch
    <2>3. wanted'[f] = wanted[f] \/ (f = g /\ wanted'[f] = F!Epoch')
      BY <2>2 DEF FTypes
    <2>4. QED
      BY <2>1, <2>3
  <1>2. CASE ~\E g \in Forwards : F!Ask(g)
    BY <1>2, AsideRests DEF F!Next, Aside, F!Written, F!StrayStops, F!Launch, F!Stop,
       F!StopAudited, F!Reattach,
       F!Spawned, F!Resume, F!Listen, F!Heard, F!StopAll, F!ConfirmationsOver, F!Exit, F!coroutines
  <1>3. QED
    BY <1>1, <1>2

\* What is queued was, or is of a forward that is to do.
LEMMA QueueAfter ==
  ASSUME FTypes, PenInv, F!Next, NEW f \in Forwards, NEW i \in DOMAIN queue', F!FwdOf(queue'[i].of) = f
  PROVE  ToDo(f)
  <1>1. PICK s \in Seq(Entries) : Adds(s) /\ (F!Written \/ (queue' = queue \o s /\ log' = log))
    BY TrailStep
  <1>2. queue \in Seq(Entries)
    BY DEF FTypes
  <1>3. CASE F!Written
    <2>1. queue # <<>> /\ queue' = Tail(queue)
      BY <1>3 DEF F!Written, PenInv
    <2>2. i + 1 \in DOMAIN queue /\ queue'[i] = queue[i + 1]
      BY <1>2, <2>1
    <2>3. QED
      BY <2>2 DEF ToDo
  <1>4. CASE queue' = queue \o s
    <2>1. (i \in DOMAIN queue /\ queue'[i] = queue[i])
          \/ (i - Len(queue) \in 1 .. Len(s) /\ queue'[i] = s[i - Len(queue)])
      BY <1>1, <1>2, <1>4
    <2>2. ASSUME NEW j \in 1 .. Len(s), F!FwdOf(s[j].of) = f
          PROVE  ToDo(f)
      <3>1. s[j].of \in F!Works /\ (Busy(s[j].of) \/ Kept(f))
        BY <1>1, <2>2, Added
      <3>2. QED
        BY <2>2, <3>1 DEF ToDo, Busy
    <2>3. QED
      BY <2>1, <2>2 DEF ToDo
  <1>5. QED
    BY <1>1, <1>3, <1>4

\* Nothing is to do that was not, but for what is asked for.
LEMMA ToDoAfter ==
  ASSUME FTypes, PenInv, ConfirmInv, PhaseInv, F!Next, NEW f \in Forwards, ToDo(f)'
  PROVE  ToDo(f) \/ wanted[f] = F!Epoch
  <1>1. CASE Kept(f)'
    <2>1. CASE f \in listed' /\ f \notin listed
      <3>1. PICK x \in F!Works : x = <<f, 0>> /\ F!FwdOf(x) = f
        BY WorksOfForwards DEF F!FwdOf
      <3>2. work[x] \in Flying \union {"orphan"}
        BY <2>1, <3>1, Listings DEF Flying
      <3>3. QED
        BY <3>1, <3>2 DEF ToDo
    <2>2. QED
      BY <1>1, <2>1, Keeping DEF ToDo
  <1>2. ASSUME NEW x \in F!Works, F!FwdOf(x) = f, work'[x] \in Flying
        PROVE  ToDo(f) \/ wanted[f] = F!Epoch
    <2>1. CASE work[x] \in Flying
      BY <1>2, <2>1 DEF ToDo
    <2>2. CASE ~F!Moved(x[1])
      BY <1>2, <2>2 DEF F!Moved, F!FwdOf
    <2>3. CASE F!Reattach(x)
      BY <1>2, <2>3 DEF F!Reattach, ToDo, Kept
    <2>4. QED
      BY <1>2, <2>1, <2>2, <2>3, Flies
  <1>3. ASSUME NEW x \in F!Works, F!FwdOf(x) = f, work'[x] = "orphan"
        PROVE  ToDo(f)
    <2>1. work[x] \in Flying \union {"orphan"}
      BY <1>3, WorkMoves DEF Moves, Flying
    <2>2. QED
      BY <1>3, <2>1 DEF ToDo
  <1>4. ASSUME NEW x \in F!Works, F!FwdOf(x) = f, Open(x)'
        PROVE  ToDo(f)
    <2>1. Open(x) \/ work[x] = "landed"
      BY <1>4, Opens
    <2>2. QED
      BY <1>4, <2>1 DEF ToDo, Flying
  <1>5. ASSUME NEW i \in DOMAIN queue', F!FwdOf(queue'[i].of) = f
        PROVE  ToDo(f)
    BY <1>5, QueueAfter
  <1>6. QED
    <2>1. \/ Kept(f)'
          \/ \E x \in F!Works : F!FwdOf(x) = f /\ (work'[x] \in Flying \union {"orphan"} \/ Open(x)')
          \/ \E i \in DOMAIN queue' : F!FwdOf(queue'[i].of) = f
      BY DEF ToDo, F!FwdOf
    <2>2. QED
      BY <1>1, <1>2, <1>3, <1>4, <1>5, <2>1

\* What is to do after a step was asked for in the epoch there is then.
LEMMA EpochStep ==
  ASSUME FTypes, PenInv, ConfirmInv, PhaseInv, EpochInv, F!Next
  PROVE  EpochInv'
  <1> SUFFICES ASSUME NEW f \in Forwards, f \notin late', ToDo(f)'
               PROVE  wanted'[f] = F!Epoch'
    BY DEF EpochInv
  <1>1. f \notin late
    BY LateStays
  <1>2. CASE epochs' = epochs
    <2>1. F!Epoch' = F!Epoch
      BY <1>2 DEF F!Epoch
    <2>2. wanted[f] = F!Epoch
      BY <1>1, ToDoAfter DEF EpochInv
    <2>3. QED
      BY <2>1, <2>2, Wants
  <1>3. CASE F!Apply
    <2>1. /\ ctl.at = "flushed" /\ app = "up" /\ ctl' = F!Nothing
          /\ UNCHANGED <<work, confirm, listed, deferred, queue>>
      BY <1>3 DEF F!Apply, F!coroutines, F!trail
    <2>2. /\ listed = {} /\ deferred = {} /\ \A x \in F!Works : ~Open(x) /\ work[x] # "orphan"
          /\ \A x \in F!Works : work[x] \in Flying => F!FwdOf(x) \in late
          /\ \A j \in DOMAIN queue : F!FwdOf(queue[j].of) \in late
      BY <2>1 DEF PhaseInv, AfterStops
    <2>3. ~Kept(f)'
      BY <2>1, <2>2 DEF Kept, Victims, F!Nothing
    <2>4. \A x \in F!Works : F!FwdOf(x) = f => work'[x] \notin Flying \union {"orphan"} /\ ~Open(x)'
      BY <1>1, <2>1, <2>2 DEF Open
    <2>5. \A i \in DOMAIN queue' : F!FwdOf(queue'[i].of) # f
      BY <1>1, <2>1, <2>2
    <2>6. QED
      BY <2>3, <2>4, <2>5 DEF ToDo, F!FwdOf
  <1>4. QED
    BY <1>2, <1>3, Epochs

\* The append under way has the head of its queue, and its context, after a step.
LEMMA PenStep ==
  ASSUME FTypes, PenInv, PhaseInv, F!Next
  PROVE  PenInv'
  <1> SUFFICES ASSUME pen' # 0
               PROVE  queue' # <<>> /\ (F!FwdOf(Head(queue').of) \notin late' => pen' = F!Epoch')
    BY DEF PenInv, F!FwdOf
  <1>1. F!WriteHead \/ pen' = pen
    BY DEF F!Next, F!DrainEnds, F!Ready, F!Breaks, F!Becomes, F!SwitchClaims,
       F!SwitchGivesUp, F!Teardown, F!LaunchesLanded, F!ReattachesLanded, F!Flushed, F!Apply,
       F!Written,
       F!StrayStops, F!Ask, F!Launch, F!Stop, F!StopAudited, F!Reattach, F!StopAll,
       F!ConfirmationsOver, F!Exit,
       F!Spawned, F!Resume, F!Lands, F!Tracks, F!AuditSafely, F!Audit, F!Enqueue, F!Listen,
       F!Heard, F!trail
  <1>2. CASE F!WriteHead
    BY <1>2 DEF F!WriteHead, F!session, F!Epoch
  <1>3. CASE pen' = pen
    <2>1. /\ queue # <<>> /\ (F!FwdOf(Head(queue).of) \notin late => pen = F!Epoch)
          /\ ~F!Written /\ queue \in Seq(Entries)
      BY <1>3 DEF PenInv, F!Written, FTypes
    <2>2. PICK s \in Seq(Entries) : queue' = queue \o s
      BY <2>1, TrailStep
    <2>3. queue' # <<>> /\ Head(queue') = Head(queue)
      BY <2>1, <2>2
    <2>4. CASE epochs' = epochs
      BY <1>3, <2>1, <2>3, <2>4, LateStays DEF F!Epoch
    <2>5. CASE F!Apply
      <3>1. ctl.at = "flushed"
        BY <2>5 DEF F!Apply
      <3>2. 1 \in DOMAIN queue /\ Head(queue) = queue[1]
        BY <2>1
      <3>3. F!FwdOf(Head(queue).of) \in late
        BY <3>1, <3>2 DEF PhaseInv
      <3>4. QED
        BY <2>3, <3>3, LateStays
    <2>6. QED
      BY <2>4, <2>5, Epochs
  <1>4. QED
    BY <1>1, <1>2, <1>3

\* How the stops that are put off come and go.
LEMMA StopperMoves ==
  ASSUME FTypes, F!Next, NEW f \in Forwards, f \in deferred'
  PROVE  \/ f \in deferred /\ (stopper'[f] = stopper[f] \/ stopper'[f] = {})
         \/ /\ F!Stop(f) /\ stopper'[f] = F!InFlight \union F!Confirming(f)
            /\ f \in listed /\ f \notin listed' /\ UNCHANGED <<work, confirm, ctl>>
  <1>1. CASE \E g \in Forwards : F!Stop(g)
    <2>1. PICK g \in Forwards : F!Stop(g)
      BY <1>1
    <2>2. /\ \/ deferred' = deferred /\ stopper' = stopper
             \/ /\ deferred' = deferred \union {g}
                /\ stopper' = [stopper EXCEPT ![g] = F!InFlight \union F!Confirming(g)]
          /\ g \in listed /\ listed' = listed \ {g} /\ UNCHANGED <<work, confirm, ctl>>
      BY <2>1 DEF F!Stop, F!session
    <2>3. CASE f = g
      BY <2>1, <2>2, <2>3 DEF FTypes
    <2>4. CASE f # g
      BY <2>2, <2>4 DEF FTypes
    <2>5. QED
      BY <2>3, <2>4
  <1>2. CASE \E g \in Forwards : F!StopAudited(g)
    <2>1. PICK g \in Forwards : stopper' = [stopper EXCEPT ![g] = {}] /\ deferred' \subseteq deferred
      BY <1>2 DEF F!StopAudited
    <2>2. QED
      BY <2>1 DEF FTypes
  <1>3. CASE F!Exit
    BY <1>3 DEF F!Exit
  <1>4. CASE ~(\E g \in Forwards : F!Stop(g) \/ F!StopAudited(g)) /\ ~F!Exit
    BY <1>4, AsideRests DEF F!Next, Aside, F!Written, F!StrayStops, F!Ask, F!Launch, F!Reattach,
       F!Spawned, F!Resume, F!Listen, F!Heard, F!StopAll, F!ConfirmationsOver, F!coroutines
  <1>5. QED
    BY <1>1, <1>2, <1>3, <1>4

\* A stop that is put off waits for all that is busy after a step.
LEMMA StopperStep ==
  ASSUME FTypes, StartedInv, PhaseInv, StopperInv, ApartInv, F!Next
  PROVE  StopperInv'
  <1> SUFFICES ASSUME NEW f \in deferred', stopper'[f] # {}, NEW x \in F!Works, F!FwdOf(x) = f,
                      work'[x] \in Flying \/ Open(x)'
               PROVE  x \in stopper'[f]
    BY DEF StopperInv, F!FwdOf
  <1>1. f \in Forwards
    BY WorksOfForwards
  <1>2. CASE F!Stop(f) /\ stopper'[f] = F!InFlight \union F!Confirming(f) /\ UNCHANGED <<work, confirm>>
    <2>1. work[x] \in Flying \/ Open(x)
      BY <1>2 DEF Open
    <2>2. QED
      BY <1>2, <2>1 DEF F!InFlight, F!Confirming, Flying, Open
  <1>3. CASE f \in deferred /\ stopper'[f] = stopper[f]
    <2>1. work[x] \in {"idle", "looking"} => x # <<f, 0>>
      BY <1>1, <1>3 DEF StartedInv, Kept
    <2>2. f \notin listed
      BY <1>3 DEF ApartInv
    <2>3. ~F!Reattach(x)
      BY <2>2 DEF F!Reattach
    <2>4. ~(F!Launch(x[1]) /\ x \in F!Launches)
      <3>1. SUFFICES ASSUME F!Launch(x[1]), x \in F!Launches PROVE FALSE
        OBVIOUS
      <3>2. x = <<f, 0>> /\ x[1] = f
        BY <3>1, WorksOfForwards
      <3>3. work[x] = "looking"
        BY <3>1, <3>2 DEF F!Launch
      <3>4. QED
        BY <2>1, <3>2, <3>3
    <2>5. work[x] \in Flying \/ Open(x)
      <3>1. CASE work'[x] \in Flying
        BY <2>3, <2>4, <3>1, Flies
      <3>2. CASE Open(x)'
        BY <3>2, Opens DEF Flying
      <3>3. QED
        BY <3>1, <3>2
    <2>6. QED
      BY <1>3, <2>5 DEF StopperInv
  <1>4. QED
    BY <1>1, <1>2, <1>3, StopperMoves

\* A stop is put off or owed by the list, never both, after a step.
LEMMA ApartStep ==
  ASSUME FTypes, StartedInv, PhaseInv, ApartInv, F!Next
  PROVE  ApartInv'
  <1> SUFFICES ASSUME NEW f \in deferred', f \in listed' \/ f \in Victims'
               PROVE  FALSE
    BY DEF ApartInv
  <1>1. f \in Forwards
    BY RestTypes
  <1>2. CASE f \in deferred
    <2>1. f \notin listed /\ f \notin Victims
      BY <1>2 DEF ApartInv
    <2>2. f \notin Victims'
      BY <1>1, <2>1, Owing
    <2>3. work[<<f, 0>>] \in {"landed", "over"}
      BY <1>1, <1>2 DEF StartedInv, Kept
    <2>4. f \notin listed'
      BY <1>1, <2>1, <2>3, Listings
    <2>5. QED
      BY <2>2, <2>4
  <1>3. CASE f \in listed /\ f \notin listed' /\ UNCHANGED ctl
    <2>1. ctl.at # "confirming"
      BY <1>3 DEF PhaseInv, AfterStops
    <2>2. QED
      BY <1>3, <2>1 DEF Victims
  <1>4. QED
    BY <1>1, <1>2, <1>3, StopperMoves

\* The entries of the stops of two sets, one after the other.
LEMMA StopsJoin ==
  ASSUME NEW A, NEW B, A \intersect B = {}, NEW t, NEW u, StopsOf(t, A), StopsOf(u, B)
  PROVE  StopsOf(t \o u, A \union B)
  <1> DEFINE s == t \o u
             m == Len(t)
             n == Len(u)
  <1>1. /\ t \in Seq(Entries) /\ u \in Seq(Entries) /\ m \in Nat /\ n \in Nat
    BY DEF StopsOf
  <1>2. /\ s \in Seq(Entries) /\ Len(s) = m + n
        /\ \A i \in 1 .. m : s[i] = t[i] /\ i \in 1 .. Len(s)
        /\ \A i \in m + 1 .. m + n : s[i] = u[i - m] /\ i - m \in 1 .. n
    BY <1>1
  <1>3. \A i \in 1 .. n : s[m + i] = u[i] /\ m + i \in 1 .. Len(s)
    BY <1>1
  <1> HIDE DEF s
  <1>4. /\ \A i \in 1 .. m : t[i].act = "stop" /\ F!FwdOf(t[i].of) \in A
        /\ \A i, j \in 1 .. m : F!FwdOf(t[i].of) = F!FwdOf(t[j].of) => i = j
        /\ \A f \in A : \E i \in 1 .. m : F!FwdOf(t[i].of) = f
        /\ \A i \in 1 .. n : u[i].act = "stop" /\ F!FwdOf(u[i].of) \in B
        /\ \A i, j \in 1 .. n : F!FwdOf(u[i].of) = F!FwdOf(u[j].of) => i = j
        /\ \A f \in B : \E i \in 1 .. n : F!FwdOf(u[i].of) = f
    BY DEF StopsOf
  <1> HIDE DEF m, n
  <1>5. ASSUME NEW i \in 1 .. Len(s)
        PROVE  \/ i \in 1 .. m /\ s[i] = t[i]
               \/ i - m \in 1 .. n /\ s[i] = u[i - m] /\ i \in m + 1 .. m + n
    BY <1>1, <1>2
  <1>6. \A i \in 1 .. Len(s) : s[i].act = "stop" /\ F!FwdOf(s[i].of) \in A \union B
    BY <1>4, <1>5
  <1>7. ASSUME NEW i \in 1 .. Len(s), NEW j \in 1 .. Len(s), F!FwdOf(s[i].of) = F!FwdOf(s[j].of)
        PROVE  i = j
    <2>1. CASE i \in 1 .. m /\ s[i] = t[i] /\ j \in 1 .. m /\ s[j] = t[j]
      BY <1>4, <1>7, <2>1
    <2>2. CASE i - m \in 1 .. n /\ s[i] = u[i - m] /\ j - m \in 1 .. n /\ s[j] = u[j - m]
      <3>1. i - m = j - m
        BY <1>4, <1>7, <2>2
      <3>2. QED
        BY <1>1, <3>1
    <2>3. ~(F!FwdOf(s[i].of) \in A /\ F!FwdOf(s[i].of) \in B)
      OBVIOUS
    <2>4. QED
      BY <1>4, <1>5, <1>7, <2>1, <2>2, <2>3
  <1>8. ASSUME NEW f \in A \union B
        PROVE  \E i \in 1 .. Len(s) : F!FwdOf(s[i].of) = f
    <2>1. CASE f \in A
      <3>1. PICK i \in 1 .. m : F!FwdOf(t[i].of) = f
        BY <1>4, <2>1
      <3>2. QED
        BY <1>2, <3>1
    <2>2. CASE f \in B
      <3>1. PICK i \in 1 .. n : F!FwdOf(u[i].of) = f
        BY <1>4, <2>2
      <3>2. s[m + i] = u[i] /\ m + i \in 1 .. Len(s)
        BY <1>3
      <3>3. QED
        BY <3>1, <3>2
    <2>3. QED
      BY <2>1, <2>2
  <1>9. QED
    BY <1>2, <1>6, <1>7, <1>8 DEF StopsOf, s

\* Who is stopped has nothing left to audit, and is listed no more.
LEMMA StopsWhenOver ==
  ASSUME FTypes, PenInv, ConfirmInv, PhaseInv, StopperInv, ApartInv, F!Next, NEW f \in Forwards \ late,
         NEW s \in Seq(Entries), Adds(s), NEW j \in 1 .. Len(s), s[j].act = "stop", F!FwdOf(s[j].of) = f
  PROVE  /\ \E fs : StopsOf(s, fs)
         /\ Kept(f) /\ ~Kept(f)' /\ UNCHANGED <<work, confirm>>
         /\ \A x \in F!Works : F!FwdOf(x) = f => ~Busy(x)
  <1>1. ASSUME NEW x \in F!Works, Busy(x)
        PROVE  x \in F!Busy
    <2>1. CASE work[x] \in Flying
      BY <2>1 DEF F!Busy, F!InFlight, Flying
    <2>2. CASE Open(x)
      <3>1. x \in F!Confirming(F!FwdOf(x)) /\ F!FwdOf(x) \in Forwards
        BY <2>2, WorksOfForwards DEF F!Confirming, Open
      <3>2. QED
        BY <3>1 DEF F!Busy
    <2>3. QED
      BY <1>1, <2>1, <2>2 DEF Busy
  <1>2. ASSUME NEW g \in Forwards, s = <<F!Entry("stop", <<g, 0>>)>>
        PROVE  f = g /\ StopsOf(s, {f})
    <2>1. Len(s) = 1 /\ s[1].act = "stop" /\ F!FwdOf(s[1].of) = g
      BY <1>2, WorksOfForwards DEF F!Entry, F!FwdOf
    <2>2. f = g
      BY <2>1
    <2>3. QED
      BY <2>1, <2>2 DEF StopsOf
  <1>3. ASSUME F!Stop(f), F!InFlight \union F!Confirming(f) = {}
        PROVE  /\ Kept(f) /\ ~Kept(f)' /\ UNCHANGED <<work, confirm>>
               /\ \A x \in F!Works : F!FwdOf(x) = f => ~Busy(x)
    <2>1. /\ f \in listed /\ f \notin listed' /\ deferred' = deferred /\ ctl' = ctl
          /\ UNCHANGED <<work, confirm>>
      BY <1>3 DEF F!Stop, F!session
    <2>2. f \notin deferred /\ f \notin Victims'
      BY <2>1 DEF ApartInv, PhaseInv, AfterStops, Victims
    <2>3. \A x \in F!Works : F!FwdOf(x) = f => ~Busy(x)
      BY <1>3 DEF Busy, Flying, Open, F!InFlight, F!Confirming
    <2>4. QED
      BY <2>1, <2>2, <2>3 DEF Kept
  <1>4. ASSUME F!StopAudited(f), f \in deferred
        PROVE  /\ Kept(f) /\ ~Kept(f)' /\ UNCHANGED <<work, confirm>>
               /\ \A x \in F!Works : F!FwdOf(x) = f => ~Busy(x)
    <2>1. /\ stopper[f] # {} /\ stopper[f] \intersect F!Busy = {} /\ deferred' = deferred \ {f}
          /\ UNCHANGED <<work, confirm, listed, ctl>>
      BY <1>4 DEF F!StopAudited, F!registry, F!session
    <2>2. f \notin listed' /\ f \notin Victims'
      BY <1>4, <2>1 DEF ApartInv, Victims
    <2>3. \A x \in F!Works : F!FwdOf(x) = f => ~Busy(x)
      BY <1>1, <1>4, <2>1 DEF StopperInv, Busy
    <2>4. QED
      BY <1>4, <2>1, <2>2, <2>3 DEF Kept
  <1>5. CASE F!ConfirmationsOver /\ s = F!Stops(deferred) \o F!Stops(ctl.victims)
    <2>1. /\ ctl.at = "confirming" /\ ctl.waits \intersect F!Busy = {} /\ deferred' = {}
          /\ ctl' = [ctl EXCEPT !.at = "flushing", !.waits = {}]
          /\ UNCHANGED <<work, confirm, listed>>
      BY <1>5 DEF F!ConfirmationsOver, F!Phase, F!registry
    <2>2. ctl'.at = "flushing"
      BY <2>1 DEF FTypes
    <2>3. Victims = ctl.victims /\ Victims' = {}
      BY <2>1, <2>2 DEF Victims
    <2>4. deferred \intersect ctl.victims = {}
      BY <2>3 DEF ApartInv
    <2>5. StopsOf(F!Stops(deferred), deferred) /\ StopsOf(F!Stops(ctl.victims), ctl.victims)
      BY StopsAre DEF FTypes
    <2>6. StopsOf(s, deferred \union ctl.victims)
      BY <1>5, <2>4, <2>5, StopsJoin
    <2>7. f \in deferred \union Victims
      BY <2>3, <2>6 DEF StopsOf
    <2>8. listed = {}
      BY <2>1 DEF PhaseInv, AfterStops
    <2>9. \A x \in F!Works : F!FwdOf(x) = f => ~Busy(x)
      <3>1. SUFFICES ASSUME NEW x \in F!Works, F!FwdOf(x) = f, Busy(x) PROVE FALSE
        OBVIOUS
      <3>2. work[x] \notin Flying
        BY <2>1, <3>1 DEF PhaseInv, AfterStops
      <3>3. x \in ctl.waits
        BY <2>1, <3>1, <3>2 DEF PhaseInv, Busy
      <3>4. QED
        BY <1>1, <2>1, <3>1, <3>3
    <2>10. QED
      BY <2>1, <2>3, <2>6, <2>7, <2>8, <2>9 DEF Kept
  <1>6. CASE s = <<>>
    BY <1>6
  <1>7. ASSUME NEW x \in F!Works, s = <<F!Entry("start", x)>>
        PROVE  FALSE
    BY <1>7 DEF F!Entry
  <1>8. ASSUME NEW cut \in SUBSET F!Works, Leaving(cut, s)
        PROVE  FALSE
    <2>1. PICK t \in Seq(Entries), u \in Seq(Entries) :
             /\ s = t \o u /\ StartsOf(t, cut)
             /\ StartsOf(u, {x \in F!Works : confirm[x] = "waiting"})
      BY <1>8 DEF Leaving
    <2>2. (j \in 1 .. Len(t) /\ s[j] = t[j]) \/ (j - Len(t) \in 1 .. Len(u) /\ s[j] = u[j - Len(t)])
      BY <2>1
    <2>3. QED
      BY <2>1, <2>2 DEF StartsOf
  <1>9. CASE \E g \in Forwards :
               /\ s = <<F!Entry("stop", <<g, 0>>)>>
               /\ \/ F!Stop(g) /\ F!InFlight \union F!Confirming(g) = {}
                  \/ F!StopAudited(g) /\ g \in deferred
    BY <1>2, <1>3, <1>4, <1>9
  <1>10. QED
    BY <1>5, <1>6, <1>7, <1>8, <1>9 DEF Adds

\* After its stop nothing of a forward is left, nor added by a step.
LEMMA StopStep ==
  ASSUME FTypes, PenInv, NewInv, ConfirmInv, StartedInv, PhaseInv, StopperInv, ApartInv, StopInv, F!Next
  PROVE  StopInv'
  <1> SUFFICES ASSUME NEW f \in Forwards, f \notin late', NEW i \in 1 .. Span', StopAt(i, f)'
               PROVE  /\ ~Kept(f)'
                      /\ \A x \in F!Works : F!FwdOf(x) = f => work'[x] \notin Flying /\ ~Open(x)'
                      /\ \A j \in i + 1 .. Span' : ~On(j, f)'
                      /\ F!Dropped(f)' \/ \E j \in 1 .. i - 1 : On(j, f)' /\ Says(j)'.act = "start"
    BY DEF StopInv, Over, F!FwdOf
  <1>1. f \notin late
    BY LateStays
  <1>2. PICK s \in Seq(Entries) : Grows(s) /\ Adds(s)
    BY TrailStep
  <1>3. Span \in Nat /\ Span' = Span + Len(s) /\ Len(s) \in Nat
    BY <1>2 DEF Grows
  <1>4. \A j \in 1 .. Span : Says(j)'.act = Says(j).act /\ (On(j, f)' <=> On(j, f))
    BY <1>2, Lines DEF Grows
  <1>5. PICK x0 \in F!Works : x0 = <<f, 0>>
    BY WorksOfForwards
  <1>6. CASE i \in 1 .. Span
    <2>1. StopAt(i, f)
      BY <1>2, <1>6, Lines
    <2>2. /\ ~Kept(f) /\ \A x \in F!Works : F!FwdOf(x) = f => work[x] \notin Flying /\ ~Open(x)
          /\ \A j \in i + 1 .. Span : ~On(j, f)
          /\ F!Dropped(f) \/ \E j \in 1 .. i - 1 : On(j, f) /\ Says(j).act = "start"
      BY <1>1, <1>6, <2>1 DEF StopInv, Over
    <2>3. work[x0] \notin Unborn
      BY <1>5, <1>6, <2>1 DEF NewInv
    <2>4. ~Kept(f)'
      <3>1. f \in listed' /\ f \notin listed => work[x0] \in Unborn
        BY <1>5, Listings DEF Unborn
      <3>2. QED
        BY <2>2, <2>3, <3>1, Keeping
    <2>5. ASSUME NEW x \in F!Works, F!FwdOf(x) = f
          PROVE  work'[x] \notin Flying /\ ~Open(x)'
      <3>1. work[x] \notin Flying /\ ~Open(x)
        BY <2>2, <2>5
      <3>2. ~F!Reattach(x)
        BY <2>2, <2>5 DEF Kept, F!Reattach
      <3>3. ~(F!Launch(x[1]) /\ x \in F!Launches)
        <4>1. SUFFICES ASSUME F!Launch(x[1]), x \in F!Launches PROVE FALSE
          OBVIOUS
        <4>2. x = x0 /\ x = <<x[1], 0>>
          BY <1>5, <2>5, <4>1, WorksOfForwards
        <4>3. work[x0] = "looking"
          BY <4>1, <4>2 DEF F!Launch
        <4>4. QED
          BY <2>3, <4>3 DEF Unborn
      <3>4. QED
        BY <3>1, <3>2, <3>3, Flies, Opens DEF Flying
    <2>6. ASSUME NEW j \in i + 1 .. Span', On(j, f)'
          PROVE  FALSE
      <3>1. j \in 1 .. Span'
        BY <1>3, <1>6
      <3>2. j \in 1 .. Span
        BY <1>2, <2>2, <2>6, <3>1, NewLines, Added DEF Busy
      <3>3. j \in i + 1 .. Span /\ On(j, f)
        BY <1>3, <1>4, <2>6, <3>2
      <3>4. QED
        BY <2>2, <3>3
    <2>7. CASE F!Dropped(f)
      <3>1. PICK x \in F!Works : F!FwdOf(x) = f /\ confirm[x] = "dropped"
        BY <2>7 DEF F!Dropped
      <3>2. work[x] # "landed"
        BY <3>1 DEF ConfirmInv
      <3>3. confirm'[x] = "dropped"
        BY <3>1, <3>2, ConfirmMoves DEF Confirms
      <3>4. F!Dropped(f)'
        BY <3>1, <3>3 DEF F!Dropped, F!FwdOf
      <3>5. QED
        BY <2>4, <2>5, <2>6, <3>4
    <2>8. CASE \E j \in 1 .. i - 1 : On(j, f) /\ Says(j).act = "start"
      <3>1. PICK j \in 1 .. i - 1 : On(j, f) /\ Says(j).act = "start"
        BY <2>8
      <3>2. j \in 1 .. Span
        BY <1>3, <1>6
      <3>3. On(j, f)' /\ Says(j)'.act = "start"
        BY <1>4, <3>1, <3>2
      <3>4. QED
        BY <2>4, <2>5, <2>6, <3>3
    <2>9. QED
      BY <2>2, <2>7, <2>8
  <1>7. CASE i \notin 1 .. Span
    <2>1. On(i, f)' /\ Says(i)'.act = "stop"
      BY DEF StopAt
    <2>2. PICK k \in 1 .. Len(s) : k = i - Span /\ Says(i)'.act = s[k].act /\ Says(i)'.of = s[k].of
      BY <1>2, <1>7, Lines
    <2>3. s[k].act = "stop" /\ F!FwdOf(s[k].of) = f
      BY <2>1, <2>2 DEF On, F!FwdOf
    <2>4. /\ \E fs : StopsOf(s, fs)
          /\ Kept(f) /\ ~Kept(f)' /\ UNCHANGED <<work, confirm>>
          /\ \A x \in F!Works : F!FwdOf(x) = f => ~Busy(x)
      BY <1>1, <1>2, <2>3, StopsWhenOver
    <2>5. \A x \in F!Works : F!FwdOf(x) = f => work'[x] \notin Flying /\ ~Open(x)'
      BY <2>4 DEF Busy, Open
    <2>6. ASSUME NEW j \in i + 1 .. Span', On(j, f)'
          PROVE  FALSE
      <3>1. j \in 1 .. Span' /\ j \notin 1 .. Span /\ j # i
        BY <1>3, <1>7
      <3>2. PICK l \in 1 .. Len(s) : l = j - Span /\ Says(j)'.of = s[l].of
        BY <1>2, <3>1, Lines
      <3>3. F!FwdOf(s[l].of) = f
        BY <2>6, <3>2 DEF On, F!FwdOf
      <3>4. l = k
        BY <2>3, <2>4, <3>3 DEF StopsOf
      <3>5. QED
        BY <1>3, <2>2, <3>1, <3>2, <3>4
    <2>7. confirm[x0] = "dropped" \/ Started(f)
      <3>1. F!FwdOf(x0) = f
        BY <1>5 DEF F!FwdOf
      <3>2. ~Busy(x0)
        BY <2>4, <3>1
      <3>3. QED
        BY <1>5, <2>4, <3>2 DEF StartedInv, Busy, Flying
    <2>8. CASE confirm[x0] = "dropped"
      <3>1. F!Dropped(f)'
        BY <1>5, <2>4, <2>8 DEF F!Dropped, F!FwdOf
      <3>2. QED
        BY <2>4, <2>5, <2>6, <3>1
    <2>9. CASE Started(f)
      <3>1. PICK j \in 1 .. Span : On(j, f) /\ Says(j).act = "start"
        BY <2>9 DEF Started
      <3>2. On(j, f)' /\ Says(j)'.act = "start"
        BY <1>4, <3>1
      <3>3. j \in 1 .. i - 1
        BY <1>3, <1>7
      <3>4. QED
        BY <2>4, <2>5, <2>6, <3>2, <3>3
    <2>10. QED
      BY <2>7, <2>8, <2>9
  <1>8. QED
    BY <1>6, <1>7

\* Who is stopped was, or is stopped now and will be audited.
LEMMA StoppedMoves ==
  ASSUME FTypes, F!Next, NEW f \in stopped' \ forsaken'
  PROVE  \/ f \in stopped \ forsaken
         \/ F!Stop(f) /\ f \in Forwards
         \/ F!StopAll /\ f \in listed
  <1>1. CASE \E g \in Forwards : F!Stop(g)
    BY <1>1 DEF F!Stop
  <1>2. CASE F!StopAll \/ F!StrayStops \/ F!Exit
    BY <1>2 DEF F!StopAll, F!StrayStops, F!Exit
  <1>3. CASE ~(\E g \in Forwards : F!Stop(g)) /\ ~F!StopAll /\ ~F!StrayStops /\ ~F!Exit
    BY <1>3, AsideRests DEF F!Next, Aside, F!Written, F!Ask, F!Launch, F!StopAudited, F!Reattach,
       F!Spawned, F!Resume, F!Listen, F!Heard, F!ConfirmationsOver, F!ghost
  <1>4. QED
    BY <1>1, <1>2, <1>3

\* A stop that is put off is audited before it is forgotten.
LEMMA DeferredMoves ==
  ASSUME FTypes, F!Next, NEW f \in deferred
  PROVE  f \in deferred' \/ F!StopAudited(f) \/ F!ConfirmationsOver
  <1>1. CASE \E g \in Forwards : F!Stop(g) \/ F!StopAudited(g)
    BY <1>1 DEF F!Stop, F!StopAudited
  <1>2. CASE ~(\E g \in Forwards : F!Stop(g) \/ F!StopAudited(g)) /\ ~F!ConfirmationsOver
    BY <1>2, AsideRests DEF F!Next, Aside, F!Written, F!StrayStops, F!Ask, F!Launch, F!Reattach,
       F!Spawned, F!Resume, F!Listen, F!Heard, F!StopAll, F!Exit, F!coroutines
  <1>3. QED
    BY <1>1, <1>2

\* The trail has a stop of it.
Stopped(f) == \E i \in 1 .. Span : StopAt(i, f)

\* A stop that is enqueued is a line of the trail.
LEMMA StopQueued ==
  ASSUME FTypes, NEW s \in Seq(Entries), queue' = queue \o s, log' = log, NEW f,
         NEW j \in 1 .. Len(s), s[j].act = "stop", F!FwdOf(s[j].of) = f
  PROVE  Stopped(f)'
  <1>1. Grows(s)
    BY Queued
  <1>2. PICK i \in 1 .. Span' : Says(i)'.act = s[j].act /\ Says(i)'.of = s[j].of
    BY <1>1, Lines
  <1>3. StopAt(i, f)'
    BY <1>2 DEF StopAt, On, F!FwdOf
  <1>4. QED
    BY <1>3 DEF Stopped

\* A step forgets no stop.
LEMMA OweStep ==
  ASSUME FTypes, PenInv, OweInv, F!Next
  PROVE  OweInv'
  <1> SUFFICES ASSUME NEW f \in stopped' \ forsaken'
               PROVE  f \in deferred' \/ f \in Victims' \/ Stopped(f)'
    BY DEF OweInv, Stopped
  <1>1. f \in Forwards
    BY RestTypes
  <1>2. ASSUME F!Audit(F!Entry("stop", <<f, 0>>))
        PROVE  Stopped(f)'
    <2> DEFINE e == F!Entry("stop", <<f, 0>>)
               s == <<e>>
    <2>1. e.act = "stop" /\ F!FwdOf(e.of) = f /\ e \in Entries
      BY <1>1, WorksOfForwards DEF F!Entry, Entries, F!FwdOf
    <2>2. \A d : F!Audit(d) => queue' = queue \o <<d>> /\ log' = log
      BY DEF F!Audit, FTypes
    <2>3. queue' = queue \o <<e>> /\ log' = log
      BY <1>2, <2>2
    <2> HIDE DEF e
    <2>4. s \in Seq(Entries) /\ 1 \in 1 .. Len(s) /\ s[1] = e
      BY <2>1
    <2>5. QED
      BY <2>1, <2>3, <2>4, StopQueued
  <1>3. ASSUME F!ConfirmationsOver, f \in deferred \union ctl.victims
        PROVE  Stopped(f)'
    <2> DEFINE t == F!Stops(deferred)
               u == F!Stops(ctl.victims)
    <2>1. StopsOf(t, deferred) /\ StopsOf(u, ctl.victims)
      BY StopsAre DEF FTypes
    <2>2. queue' = queue \o (t \o u) /\ log' = log
      BY <1>3 DEF F!ConfirmationsOver, F!Enqueue
    <2> HIDE DEF t, u
    <2>3. t \in Seq(Entries) /\ u \in Seq(Entries) /\ t \o u \in Seq(Entries)
      BY <2>1 DEF StopsOf
    <2>4. CASE f \in deferred
      <3>1. PICK j \in 1 .. Len(t) : F!FwdOf(t[j].of) = f /\ t[j].act = "stop"
        BY <2>1, <2>4 DEF StopsOf
      <3>2. j \in 1 .. Len(t \o u) /\ (t \o u)[j] = t[j]
        BY <2>3, <3>1
      <3>3. QED
        BY <2>2, <2>3, <3>1, <3>2, StopQueued
    <2>5. CASE f \in ctl.victims
      <3>1. PICK j \in 1 .. Len(u) : F!FwdOf(u[j].of) = f /\ u[j].act = "stop"
        BY <2>1, <2>5 DEF StopsOf
      <3>2. Len(t) + j \in 1 .. Len(t \o u) /\ (t \o u)[Len(t) + j] = u[j]
        BY <2>3, <3>1
      <3>3. QED
        BY <2>2, <2>3, <3>1, <3>2, StopQueued
    <2>6. QED
      BY <1>3, <2>4, <2>5
  <1>4. CASE F!Stop(f)
    <2>1. F!Audit(F!Entry("stop", <<f, 0>>)) \/ f \in deferred'
      BY <1>4 DEF F!Stop
    <2>2. QED
      BY <1>2, <2>1
  <1>5. CASE F!StopAll /\ f \in listed
    BY <1>5 DEF F!StopAll, Victims
  <1>6. CASE f \in stopped \ forsaken /\ Stopped(f)
    BY <1>1, <1>6, LinesAfter DEF After, Stopped
  <1>7. CASE f \in deferred
    <2>1. F!StopAudited(f) => F!Audit(F!Entry("stop", <<f, 0>>))
      BY <1>7 DEF F!StopAudited
    <2>2. QED
      BY <1>2, <1>3, <1>7, <2>1, DeferredMoves
  <1>8. CASE f \in Victims
    <2>1. ctl.at = "confirming" /\ f \in ctl.victims
      BY <1>8 DEF Victims
    <2>2. CASE Rests
      BY <2>1, <2>2 DEF Rests, Victims
    <2>3. CASE F!Exit
      BY <2>1, <2>3 DEF F!Exit
    <2>4. CASE F!ConfirmationsOver
      BY <1>3, <2>1, <2>4
    <2>5. QED
      BY <2>1, <2>2, <2>3, <2>4, CtlMoves DEF Controls, F!Teardown, F!LaunchesLanded,
         F!ReattachesLanded,
         F!StopAll, F!Flushed, F!Apply
  <1>9. QED
    BY <1>4, <1>5, <1>6, <1>7, <1>8, StoppedMoves DEF OweInv, Stopped

\* A step writes an entry under its forward's context, and renames none.
LEMMA EntryStep ==
  ASSUME FTypes, PenInv, NewInv, EpochInv, F!EntryNamesItsCluster, F!Next
  PROVE  F!EntryNamesItsCluster'
  <1> DEFINE Stamped == [act : {"start", "stop"}, of : F!Works, in : Contexts]
  <1>1. log \in Seq(Stamped) /\ queue \in Seq(Entries) /\ Len(log) \in Nat /\ Len(queue) \in Nat
    BY DEF FTypes
  <1> HIDE DEF Stamped
  <1>2. F!Epoch = Len(epochs) /\ F!Epoch \in Nat
    BY DEF F!Epoch, FTypes
  <1>3. ASSUME NEW i \in DOMAIN log
        PROVE  F!FwdOf(log[i].of) \in late' \/ log[i].in = epochs'[wanted'[F!FwdOf(log[i].of)]]
    <2>1. PICK f : f = F!FwdOf(log[i].of)
      OBVIOUS
    <2>2. log[i] \in Stamped
      BY <1>1
    <2>3. f \in Forwards
      BY <2>1, <2>2, WorksOfForwards DEF Stamped
    <2>4. f \in late \/ log[i].in = epochs[wanted[f]]
      BY <2>1 DEF F!EntryNamesItsCluster
    <2>5. wanted'[f] = wanted[f]
      <3>1. i \in 1 .. Span /\ On(i, f)
        BY <1>1, <2>1 DEF Span, On, Says
      <3>2. work[<<f, 0>>] # "idle"
        BY <2>3, <3>1 DEF NewInv
      <3>3. ~F!Ask(f)
        BY <3>2 DEF F!Ask
      <3>4. QED
        BY <2>3, <3>3, Wants
    <2>6. wanted[f] \in 1 .. F!Epoch
      BY <1>2, <2>3 DEF FTypes
    <2>7. epochs'[wanted[f]] = epochs[wanted[f]]
      BY <2>6, Epochs
    <2>8. f \in late \/ log[i].in = epochs'[wanted'[f]]
      BY <2>4, <2>5, <2>7
    <2>9. QED
      BY <2>1, <2>8, LateStays
  <1>4. CASE log' = log
    <2>1. \A i \in DOMAIN log' : F!FwdOf(log'[i].of) \in late' \/ log'[i].in = epochs'[wanted'[F!FwdOf(log'[i].of)]]
      BY <1>3, <1>4
    <2>2. QED
      BY <2>1 DEF F!EntryNamesItsCluster, F!FwdOf
  <1>5. CASE F!Written
    <2>1. /\ pen # 0 /\ queue # <<>> /\ (F!FwdOf(Head(queue).of) \notin late => pen = F!Epoch)
          /\ UNCHANGED <<wanted, epochs, late>>
      BY <1>5 DEF F!Written, PenInv, F!coroutines, F!session, F!ghost
    <2>2. PICK e : e = [act |-> Head(queue).act, of |-> Head(queue).of, in |-> epochs[pen]]
      OBVIOUS
    <2>3. log' = Append(log, e)
      BY <1>5, <2>2 DEF F!Written
    <2>4. e.of = Head(queue).of /\ e.in = epochs[pen]
      BY <2>2
    <2>5. F!FwdOf(e.of) \in late \/ e.in = epochs[wanted[F!FwdOf(e.of)]]
      <3>1. PICK f : f = F!FwdOf(e.of)
        OBVIOUS
      <3>2. 1 \in DOMAIN queue /\ Head(queue) = queue[1] /\ queue[1] \in Entries
        BY <1>1, <2>1
      <3>3. f \in Forwards /\ F!FwdOf(queue[1].of) = f
        BY <2>4, <3>1, <3>2, WorksOfForwards DEF Entries
      <3>4. ToDo(f)
        BY <3>2, <3>3 DEF ToDo
      <3>5. f \in late \/ wanted[f] = F!Epoch
        BY <3>3, <3>4 DEF EpochInv
      <3>6. QED
        BY <2>1, <2>4, <3>1, <3>5
    <2>6. \A i \in DOMAIN log' : (i \in DOMAIN log /\ log'[i] = log[i]) \/ log'[i] = e
      BY <1>1, <2>3
    <2>7. \A i \in DOMAIN log' : F!FwdOf(log'[i].of) \in late' \/ log'[i].in = epochs'[wanted'[F!FwdOf(log'[i].of)]]
      BY <1>3, <2>1, <2>5, <2>6
    <2>8. QED
      BY <2>7 DEF F!EntryNamesItsCluster, F!FwdOf
  <1>6. QED
    BY <1>4, <1>5, TrailStep

\* The invariant holds at the start.
LEMMA InitInv ==
  ASSUME F!Init
  PROVE  ForwardInv
  <1> USE DEF F!Init
  <1>1. epochs \in Seq(Contexts) /\ Len(epochs) = 1
    <2>1. (CHOOSE c \in Contexts : TRUE) \in Contexts
      BY AuditAssumption
    <2>2. QED
      BY <2>1
  <1>2. Len(log) = 0 /\ Len(queue) = 0 /\ Span = 0
    BY DEF Span
  <1>3. \A f : ~Kept(f)
    BY DEF Kept, Victims, F!Nothing
  <1>4. \A x \in F!Works : work[x] = "idle" /\ confirm[x] = "none" /\ ~Open(x)
    BY DEF Open
  <1>5. FTypes
    <2>1. queue \in Seq(Entries) /\ log \in Seq([act : {"start", "stop"}, of : F!Works, in : Contexts])
      OBVIOUS
    <2>2. QED
      BY <1>1, <2>1 DEF FTypes, F!Epoch, F!Nothing
  <1>6. NewInv
    <2>1. ASSUME NEW f \in Forwards
          PROVE  work[<<f, 0>>] = "idle" /\ confirm[<<f, 0>>] = "none"
                 /\ \A k \in 1 .. MaxAgain : work[<<f, k>>] = "idle"
      <3>1. \A k \in 1 .. MaxAgain : k \in 0 .. MaxAgain
        BY ForwardsAssumption
      <3>2. <<f, 0>> \in F!Works /\ \A k \in 1 .. MaxAgain : <<f, k>> \in F!Works
        BY <3>1, WorksOfForwards, Zenon
      <3>3. QED
        BY <1>4, <3>2, Zenon
    <2>2. \A i \in 1 .. Span : FALSE
      BY <1>2
    <2> USE <1>3 DEF NewInv
    <2> HIDE DEF F!Init
    <2>3. QED
      BY <2>1, <2>2, Zenon
  <1>7. ConfirmInv /\ StartedInv
    BY <1>3, <1>4 DEF ConfirmInv, StartedInv
  <1>8. PhaseInv
    BY <1>4 DEF PhaseInv, F!Nothing, AfterStops, Flying
  <1>9. EpochInv /\ PenInv
    BY <1>2, <1>3, <1>4 DEF EpochInv, PenInv, ToDo, Flying
  <1>10. StopperInv /\ ApartInv
    BY DEF StopperInv, ApartInv
  <1>11. StopInv /\ OweInv
    BY <1>2 DEF StopInv, OweInv
  <1>12. F!EntryNamesItsCluster
    BY <1>2 DEF F!EntryNamesItsCluster
  <1>13. QED
    BY <1>5, <1>6, <1>7, <1>8, <1>9, <1>10, <1>11, <1>12 DEF ForwardInv, EntryNamesItsCluster

\* Every step of the forwards keeps the invariant.
LEMMA InvStep ==
  ASSUME ForwardInv, F!Next
  PROVE  ForwardInv'
  <1>1. /\ FTypes /\ NewInv /\ ConfirmInv /\ StartedInv /\ PhaseInv /\ EpochInv /\ PenInv
        /\ StopperInv /\ ApartInv /\ StopInv /\ OweInv /\ F!EntryNamesItsCluster
    BY DEF ForwardInv, EntryNamesItsCluster
  <1>2. FTypes' /\ NewInv' /\ ConfirmInv' /\ StartedInv'
    BY <1>1, FTypesStep, NewStep, ConfirmStep, KeptStep
  <1>3. PhaseInv' /\ EpochInv' /\ PenInv'
    BY <1>1, PhaseStep, EpochStep, PenStep
  <1>4. StopperInv' /\ ApartInv' /\ StopInv' /\ OweInv'
    BY <1>1, StopperStep, ApartStep, StopStep, OweStep
  <1>5. F!EntryNamesItsCluster'
    BY <1>1, EntryStep
  <1>6. QED
    BY <1>2, <1>3, <1>4, <1>5 DEF ForwardInv, EntryNamesItsCluster

\* The log's own steps leave the forwards alone.
LEMMA InvRests ==
  ASSUME ForwardInv, UNCHANGED forwards
  PROVE  ForwardInv'
  <1>1. /\ FTypes /\ NewInv /\ ConfirmInv /\ StartedInv /\ PhaseInv /\ EpochInv /\ PenInv
        /\ StopperInv /\ ApartInv /\ StopInv /\ OweInv /\ F!EntryNamesItsCluster
    BY DEF ForwardInv, EntryNamesItsCluster
  <1>2. /\ Span' = Span /\ \A i : Says(i)' = Says(i)
    BY DEF Span, Says, forwards
  <1>3. \A f : (Kept(f)' <=> Kept(f)) /\ (Started(f)' <=> Started(f)) /\ \A i : (On(i, f)' <=> On(i, f)) /\ (StopAt(i, f)' <=> StopAt(i, f))
    BY <1>2 DEF Kept, Victims, Started, StopAt, On, F!FwdOf, forwards
  <1>4. \A x : (Open(x)' <=> Open(x))
    BY DEF Open, forwards
  <1>5. F!Epoch' = F!Epoch
    BY DEF F!Epoch, forwards
  <1>6. FTypes'
    BY <1>1, <1>5 DEF FTypes, forwards
  <1>7. NewInv'
    BY <1>1, <1>2, <1>3 DEF NewInv, forwards
  <1>8. ConfirmInv' /\ StartedInv'
    BY <1>1, <1>3, <1>4 DEF ConfirmInv, StartedInv, forwards
  <1>9. PhaseInv'
    BY <1>1, <1>4 DEF PhaseInv, F!FwdOf, forwards
  <1>10. EpochInv' /\ PenInv'
    BY <1>1, <1>3, <1>4, <1>5 DEF EpochInv, PenInv, ToDo, F!FwdOf, forwards
  <1>11. StopperInv' /\ ApartInv'
    BY <1>1, <1>4 DEF StopperInv, ApartInv, Victims, F!FwdOf, forwards
  <1>12. StopInv'
    BY <1>1, <1>2, <1>3, <1>4 DEF StopInv, Over, F!Dropped, F!FwdOf, forwards
  <1>13. OweInv'
    BY <1>1, <1>2, <1>3 DEF OweInv, Victims, forwards
  <1>14. F!EntryNamesItsCluster'
    BY <1>1 DEF F!EntryNamesItsCluster, F!FwdOf, forwards
  <1>15. QED
    BY <1>6, <1>7, <1>8, <1>9, <1>10, <1>11, <1>12, <1>13, <1>14 DEF ForwardInv,
       EntryNamesItsCluster

\* The whole invariant of the forwards' trail holds throughout: _on_start, _start, _resume,
\* _stop, _audit_stop_after_confirm, teardown and the drain keep it together.
THEOREM ForwardInvariance == MCSpec => []ForwardInv
  <1>1. MCInit => ForwardInv
    BY InitInv DEF MCInit
  <1>2. ForwardInv /\ [MCNext]_<<part, vars, forwards>> => ForwardInv'
    <2> SUFFICES ASSUME ForwardInv, [MCNext]_<<part, vars, forwards>>
                 PROVE  ForwardInv'
      OBVIOUS
    <2>1. CASE F!Next
      BY <2>1, InvStep
    <2>2. CASE UNCHANGED forwards
      BY <2>2, InvRests
    <2>3. QED
      BY <2>1, <2>2 DEF MCNext
  <1>3. QED
    BY <1>1, <1>2, PTL DEF MCSpec

\* Each entry is written under the context its forward was launched in (_write_head reads
\* the log's context when the drain gets to it).
THEOREM EntriesNameTheirCluster == MCSpec => []EntryNamesItsCluster
  <1>1. ForwardInv => EntryNamesItsCluster
    BY DEF ForwardInv
  <1>2. QED
    BY <1>1, ForwardInvariance, PTL

\* The trail reads start before stop, one stop of a forward at most and no start after it;
\* and once a teardown has flushed, every stop of the user or of stop_all is in the log.
THEOREM StopsReachTheLog == MCSpec => []StopsAreAudited
  <1>1. ASSUME ForwardInv
        PROVE  StopsAreAudited
    <2> DEFINE all == log \o queue
               Stamped == [act : {"start", "stop"}, of : F!Works, in : Contexts]
    <2>1. FTypes /\ StopInv /\ OweInv /\ PhaseInv
      BY <1>1 DEF ForwardInv
    <2>2. log \in Seq(Stamped) /\ queue \in Seq(Entries)
      BY <2>1 DEF FTypes
    <2> HIDE DEF Stamped
    <2>3. /\ Len(log) \in Nat /\ Len(queue) \in Nat /\ Span \in Nat
          /\ Len(all) = Span /\ DOMAIN all = 1 .. Span
          /\ \A i \in 1 .. Span : all[i] = Says(i)
      BY <2>2 DEF Span, Says
    <2> HIDE DEF all
    <2>4. \A i \in 1 .. Span, f \in Forwards :
             /\ F!Says(all[i], "stop", f) <=> StopAt(i, f)
             /\ F!Says(all[i], "start", f) <=> (On(i, f) /\ Says(i).act = "start")
             /\ F!FwdOf(all[i].of) = f <=> On(i, f)
      BY <2>3 DEF F!Says, StopAt, On
    <2>5. ASSUME NEW f \in Forwards \ late, NEW i \in 1 .. Span, StopAt(i, f)
          PROVE  /\ \A j \in i + 1 .. Span : F!FwdOf(all[j].of) # f
                 /\ F!Dropped(f) \/ \E j \in 1 .. i - 1 : F!Says(all[j], "start", f)
      <3>1. /\ \A j \in i + 1 .. Span : ~On(j, f)
            /\ F!Dropped(f) \/ \E j \in 1 .. i - 1 : On(j, f) /\ Says(j).act = "start"
        BY <2>1, <2>5 DEF StopInv
      <3>2. (\A j \in i + 1 .. Span : j \in 1 .. Span) /\ \A j \in 1 .. i - 1 : j \in 1 .. Span
        BY <2>3
      <3>3. QED
        BY <2>4, <3>1, <3>2
    <2>6. F!StartsComeFirst
      BY <2>3, <2>4, <2>5 DEF F!StartsComeFirst, all
    <2>7. ASSUME ctl.at = "flushed", NEW f \in stopped \ forsaken
          PROVE  \E i \in DOMAIN log : F!Says(log[i], "stop", f)
      <3>1. /\ deferred = {} /\ Victims = {}
            /\ \A i \in DOMAIN queue : queue[i].act = "start"
        BY <2>1, <2>7 DEF PhaseInv, Victims
      <3>2. PICK i \in 1 .. Span : StopAt(i, f)
        BY <2>1, <2>7, <3>1 DEF OweInv
      <3>3. i <= Len(log)
        <4>1. SUFFICES ASSUME ~(i <= Len(log)) PROVE FALSE
          OBVIOUS
        <4>2. i - Len(log) \in DOMAIN queue /\ Says(i) = queue[i - Len(log)]
          BY <2>2, <2>3, <4>1 DEF Span, Says
        <4>3. QED
          BY <3>1, <3>2, <4>2 DEF StopAt
      <3>4. i \in DOMAIN log /\ Says(i) = log[i]
        BY <2>2, <2>3, <3>3 DEF Says
      <3>5. QED
        BY <3>2, <3>4 DEF F!Says, StopAt, On
    <2>8. QED
      BY <2>6, <2>7 DEF StopsAreAudited, F!StopsAreAudited
  <1>2. QED
    BY <1>1, ForwardInvariance, PTL
==============================================================================
