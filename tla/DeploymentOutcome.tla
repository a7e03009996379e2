-------------------------- MODULE DeploymentOutcome --------------------------
(***************************************************************************)
(* What korvid says became of an accepted scale or restart, against the    *)
(* cluster it says it of.                                                  *)
(*                                                                         *)
(*   k8s/client.py, k8s/writes.py   the write, tied to a generation        *)
(*   k8s/deployment_outcomes.py     one snapshot, of four reads            *)
(*   core/deployment_outcome.py     the verdict on a snapshot              *)
(*                                                                         *)
(* Between any two requests the Deployment may be changed by somebody      *)
(* else, deleted and made again under its name, and its controller works   *)
(* on.  Replica counts are 0 and 1.  Every controller counter is right     *)
(* when it is written, and stale from then on.  The pace and the end of    *)
(* the polling are OutcomeTrackers'.                                       *)
(***************************************************************************)
EXTENDS Integers, Sequences, FiniteSetsExt

CONSTANT
    MaxGeneration   \* bound: generations of one Deployment

VARIABLES
    spec,       \* the Deployment: uid, generation, replicas
    templates,  \* its pod templates so far: restart marker (0: none), whether it crashes
    sets,       \* its ReplicaSets, each by the template it was made from
    pods,       \* the ReplicaSets that have a pod
    status,     \* the Deployment's status
    write,      \* the user's write
    tracker,    \* intent and outcome of its tracker
    read,       \* the snapshot being collected
    held        \* ghost: it has really converged at the generation that the PATCH made

cluster == <<spec, templates, sets, pods, status>>
vars    == <<cluster, write, tracker, read, held>>

Replicas    == 0..1
Newest      == Len(templates)
Current     == IF sets = {} THEN 0 ELSE Max(sets)
Template    == templates[Newest]
First(bad)  == <<[marker |-> 0, bad |-> bad]>>
AtRest(bad) == [observed |-> 1, total |-> 1, updated |-> 1,
                ready |-> IF bad THEN 0 ELSE 1]
NoRead      == [at |-> "idle", uid |-> 0, generation |-> 0, sets |-> {}, pods |-> {}]
NoOutcome   == [phase |-> "none", blame |-> 0]
Active      == {"accepted", "observing"}

\* Bound: the cluster stands still once the write is refused, once the final verdict on it
\* is out, and once another Deployment has its name.
Watched ==
    /\ spec.uid = 1 /\ write.at # "refused"
    /\ tracker.outcome.phase \in Active \union {"none"}

\* A healthy Deployment at rest; an edit may break it before the user acts.
Init ==
    /\ spec = [uid |-> 1, generation |-> 1, replicas |-> 1]
    /\ templates = First(FALSE) /\ status = AtRest(FALSE)
    /\ sets = {1} /\ pods = {1}
    /\ write = [at |-> "none"]
    /\ tracker = [generation |-> 0, outcome |-> NoOutcome]
    /\ read = NoRead /\ held = FALSE

-----------------------------------------------------------------------------
(* The cluster: other people, and the Deployment controller.               *)

ScaleTo(r) ==
    /\ spec' = [spec EXCEPT !.replicas = r,
                            !.generation = IF r = spec.replicas THEN @ ELSE @ + 1]
    /\ UNCHANGED templates

\* A new template: an edit keeps the marker of the old one, a restart has its own.
NewTemplate(marker) ==
    /\ spec' = [spec EXCEPT !.generation = @ + 1]
    /\ \E bad \in BOOLEAN :
         templates' = Append(templates, [marker |-> marker, bad |-> bad])

Restarted == Newest + 1

OtherChanges ==
    /\ Watched /\ spec.generation < MaxGeneration
    /\ \/ \E r \in Replicas \ {spec.replicas} : ScaleTo(r)
       \/ \E marker \in {Template.marker, Restarted} : NewTemplate(marker)
    /\ UNCHANGED <<sets, pods, status, write, tracker, read>>

\* (Before the user acts, this would change nothing but the uid.)  The new one is met
\* once it is at rest.
OtherRecreates ==
    /\ Watched /\ write.at # "none"
    /\ spec' = [uid |-> 2, generation |-> 1, replicas |-> 1]
    /\ sets' = {1} /\ pods' = {1}
    /\ \E bad \in BOOLEAN : templates' = First(bad) /\ status' = AtRest(bad)
    /\ UNCHANGED <<write, tracker, read>>

MakeSet ==
    /\ Watched /\ Newest \notin sets /\ sets' = sets \union {Newest}
    /\ UNCHANGED <<spec, templates, pods, status, write, tracker, read>>

AddPod ==
    /\ Watched /\ spec.replicas = 1 /\ Current \in sets \ pods
    /\ pods' = pods \union {Current}
    /\ UNCHANGED <<spec, templates, sets, status, write, tracker, read>>

DropPod(s) ==
    /\ Watched /\ s \in pods /\ (s # Current \/ spec.replicas = 0)
    /\ pods' = pods \ {s}
    /\ UNCHANGED <<spec, templates, sets, status, write, tracker, read>>

Ready     == {s \in pods : ~templates[s].bad}
Converged == IF spec.replicas = 0 THEN pods = {} ELSE pods = {Newest} /\ Ready = pods

\* A generation is reported once the set for its template is there.
WriteStatus ==
    /\ Watched /\ Newest \in sets
    /\ status' = [observed |-> spec.generation, total |-> Cardinality(pods),
                  updated |-> Cardinality(pods \intersect {Newest}),
                  ready |-> Cardinality(Ready)]
    /\ status' # status
    /\ UNCHANGED <<spec, templates, sets, pods, write, tracker, read>>

-----------------------------------------------------------------------------
(* The write, and the generation it is known by.                           *)

Look    == [uid |-> spec.uid, generation |-> spec.generation, replicas |-> spec.replicas]
Unknown == [uid |-> 0, generation |-> 0, replicas |-> 0]

\* The user approved; a scale reads the Deployment first.
Approve ==
    /\ write.at = "none"
    /\ \/ \E r \in Replicas :
            write' = [at |-> "approved", kind |-> "scale", uid |-> spec.uid,
                      replicas |-> r, before |-> Look, landed |-> 0]
       \/ write' = [at |-> "approved", kind |-> "restart", uid |-> spec.uid, marker |-> 0,
                    landed |-> 0]
    /\ UNCHANGED <<cluster, tracker, read>>

\* The uid is a precondition of the request.
Conflict ==
    /\ write.at = "approved" /\ spec.uid # write.uid
    /\ write' = [at |-> "refused"]
    /\ UNCHANGED <<cluster, tracker, read>>

Start(generation) ==
    tracker' = [generation |-> generation,
                outcome |-> [NoOutcome EXCEPT !.phase = IF generation = 0 THEN "incomplete"
                                                                         ELSE "accepted"]]

Scale ==
    /\ write.at = "approved" /\ write.kind = "scale" /\ spec.uid = write.uid
    /\ write.replicas = spec.replicas \/ spec.generation < MaxGeneration
    /\ ScaleTo(write.replicas)
    /\ write' = [write EXCEPT !.at = "patched", !.landed = spec'.generation]
    /\ UNCHANGED <<sets, pods, status, tracker, read>>

\* The answer to the PATCH carries the generation that it made.
Restart ==
    /\ write.at = "approved" /\ write.kind = "restart" /\ spec.uid = write.uid
    /\ spec.generation < MaxGeneration
    /\ NewTemplate(Restarted)
    /\ write' = [write EXCEPT !.at = "done", !.landed = spec'.generation, !.marker = Restarted]
    /\ Start(spec'.generation)
    /\ UNCHANGED <<sets, pods, status, read>>

FromTheSecondRead(before, after, replicas) ==
    IF after.replicas = replicas THEN after.generation ELSE 0
\* Two reads around the PATCH prove its generation, or nothing does.
FromSnapshots(before, after, replicas) ==
    IF /\ before.uid # 0 /\ after.uid = before.uid
       /\ after.generation = before.generation + (IF before.replicas = replicas THEN 0 ELSE 1)
       /\ after.replicas = replicas
    THEN after.generation
    ELSE 0

\* Either read may have failed.
Correlate ==
    /\ write.at = "patched"
    /\ \E before \in {write.before, Unknown}, after \in {Look, Unknown} :
         Start(FromSnapshots(before, after, write.replicas))
    /\ write' = [write EXCEPT !.at = "done", !.before = Unknown]
    /\ UNCHANGED <<cluster, read>>

-----------------------------------------------------------------------------
(* The verdict on one snapshot.                                            *)

\* A pod in trouble that the newest listed ReplicaSet owns; 0 when there is none, or when
\* the ownership is not certain.
Ambiguous(seen) ==
    \/ ~(seen.pods \subseteq seen.sets)
    \/ /\ seen.sets # {} /\ Template.marker # 0
       /\ templates[Max(seen.sets)].marker # Template.marker
Blocker(seen) ==
    IF /\ ~Ambiguous(seen)
       /\ \E s \in seen.pods : s = Max(seen.sets) /\ templates[s].bad
    THEN Max(seen.sets) ELSE 0

GenerationCurrent == status.observed >= spec.generation

\* A zero counter is left out of the status, and counted for a current count of zero only.
Counted(n) == n > 0 \/ (spec.replicas = 0 /\ GenerationCurrent)

ReplicasConverged(desired) ==
    /\ spec.replicas = desired
    /\ \A n \in {status.total, status.updated, status.ready} : Counted(n) /\ n = desired

Phase(phase) == [NoOutcome EXCEPT !.phase = phase]
Stalled(blame) == [phase |-> "stalled", blame |-> blame]

\* A scale blames no pod while there are more of them than it asked for.
EvaluateScale(seen, failed) ==
    LET desired == write.replicas
        done    == GenerationCurrent /\ ReplicasConverged(desired)
        surplus == ~Counted(status.total) \/ status.total > desired
    IN  IF spec.replicas # desired THEN Phase("superseded")
        ELSE IF GenerationCurrent /\ failed THEN Stalled(0)
        ELSE IF desired = 0 /\ done THEN Phase("completed")
        ELSE IF GenerationCurrent /\ ~surplus /\ Blocker(seen) # 0 THEN Stalled(Blocker(seen))
        ELSE IF done THEN Phase("completed") ELSE Phase("observing")

EvaluateRestart(seen, failed) ==
    CASE Template.marker = 0                     -> Phase("incomplete")
      [] Template.marker > write.marker          -> Phase("superseded")
      [] Template.marker \in 1..write.marker - 1 -> Phase("observing")
      [] OTHER ->
         IF GenerationCurrent /\ failed THEN Stalled(0)
         ELSE IF GenerationCurrent /\ Blocker(seen) # 0 THEN Stalled(Blocker(seen))
         ELSE IF GenerationCurrent /\ ReplicasConverged(spec.replicas)
              THEN Phase("completed") ELSE Phase("observing")

Evaluate(seen, failed) ==
    IF spec.uid # write.uid THEN Phase("replaced")
    ELSE IF spec.generation > tracker.generation THEN Phase("superseded")
    ELSE IF spec.generation < tracker.generation THEN Phase("observing")
    ELSE IF write.kind = "scale" THEN EvaluateScale(seen, failed)
    ELSE EvaluateRestart(seen, failed)

-----------------------------------------------------------------------------
(* One snapshot: the Deployment, its ReplicaSets, their pods, and the      *)
(* Deployment again.                                                       *)

Reading == UNCHANGED <<cluster, write>>

GetDeployment ==
    /\ read.at = "idle" /\ tracker.outcome.phase \in Active
    /\ read' = [NoRead EXCEPT !.at = "sets", !.uid = spec.uid, !.generation = spec.generation]
    /\ Reading /\ UNCHANGED tracker

ListSets ==
    /\ read.at = "sets"
    /\ read' = [read EXCEPT !.at = "pods", !.sets = sets]
    /\ Reading /\ UNCHANGED tracker

ListPods ==
    /\ read.at = "pods"
    /\ read' = [read EXCEPT !.at = "again", !.pods = pods]
    /\ Reading /\ UNCHANGED tracker

\* The lists are dropped when the Deployment was changed while they were read.  They may be
\* cut off at their limit: without all the sets no owner is certain, and they say nothing.
\* (A cut list of pods just names fewer of them.)
Evidence(cut) ==
    IF spec.uid = read.uid /\ spec.generation = read.generation /\ ~cut THEN read ELSE NoRead

GetAgain ==
    /\ read.at = "again"
    /\ read' = NoRead
    /\ \E cut, failed \in BOOLEAN :
         tracker' = [tracker EXCEPT !.outcome = Evaluate(Evidence(cut), failed)]
    /\ Reading

ReadFails ==
    /\ read.at # "idle"
    /\ read' = NoRead /\ tracker' = [tracker EXCEPT !.outcome.phase = "incomplete"]
    /\ Reading

-----------------------------------------------------------------------------

Step ==
    \/ OtherChanges \/ OtherRecreates
    \/ MakeSet \/ AddPod \/ (\E s \in pods : DropPod(s)) \/ WriteStatus
    \/ Approve \/ Conflict \/ Scale \/ Restart \/ Correlate
    \/ GetDeployment \/ ListSets \/ ListPods \/ GetAgain \/ ReadFails

Hit  == write.at \in {"patched", "done"} /\ <<spec.uid, spec.generation>> = <<write.uid, write.landed>>
Next == Step /\ held' = (held \/ (Hit /\ Converged)')

Spec == Init /\ [][Next]_vars

-----------------------------------------------------------------------------
(* Properties.                                                             *)

\* A final verdict is true of the user's own write: "completed" only when the object that
\* the PATCH hit did converge at the generation it made, whoever changed it around the
\* PATCH and however old the counters were; "superseded" and "replaced" only once it has
\* left that generation, or its name.
VerdictIsTrue ==
    LET phase == tracker.outcome.phase
    IN  /\ phase = "completed"  => held
        /\ phase = "superseded" => ~Hit
        /\ phase = "replaced"   => spec.uid # write.uid

\* A rollout is called stalled for a pod only if the Deployment's current ReplicaSet owns
\* that pod when the verdict is made.
BlockersAreCurrent ==
    [][tracker'.outcome.blame # tracker.outcome.blame =>
         tracker'.outcome.blame \in {0, Current}]_vars

=============================================================================
