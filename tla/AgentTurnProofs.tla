--------------------------- MODULE AgentTurnProofs ---------------------------
(***************************************************************************)
(* Theorems of AgentTurn, for any number of prompts, rounds, tool calls,   *)
(* kept turns and context switches.                                        *)
(***************************************************************************)
EXTENDS AgentTurn, SequenceTheorems, TLAPS

Messages == [role : Roles, turn : 1 .. MaxPrompts, calls : Nat]

\* Only an assistant's message stores calls.
Sound(h) == /\ h \in Seq(Messages)
            /\ \A i \in 1 .. Len(h) : h[i].calls # 0 => h[i].role = "assistant"

\* Types, of what TypeOK leaves out as well.
Types ==
    /\ TypeOK /\ Sound(history)
    /\ cost \in Nat /\ total \in Nat /\ sent \in Nat /\ submitted \in 0 .. MaxPrompts
    /\ snapshot \in [of : Nat, reached : BOOLEAN] /\ context \in [of : Nat, switching : BOOLEAN]

\* A turn at work is open and the session's; one at rest is neither, unless it was left open.
TaskInv ==
    /\ at \in {"none", "spawned", "settled"} => ~active /\ (awaiting <=> open)
    /\ at \in {"streaming", "tool", "mirroring", "unwinding"} => active /\ open /\ ~awaiting
    /\ live # "none" => open /\ at \in {"streaming", "unwinding"} /\ iterationBase = Len(history)
    /\ at = "streaming" => live # "none"
    /\ at = "spawned" => ~finalized /\ turn # 0
    /\ closed => app = "gone"

\* What the open turn was charged, and the request under way, are not in the totals yet.
ChargeInv == sent = IF open THEN total + cost + Charge ELSE total

\* The turn's own context is what the model saw last, once a request of it was handed off.
NoteInv == seen = IF active /\ snapshot.reached THEN snapshot.of ELSE last

\* No interrupt is flagged without the cancellation that goes with it.
QuietInv == \/ swallowed
            \/ /\ at \in {"none", "spawned", "settled"} => ~open
               /\ at \in {"spawned", "streaming", "tool", "mirroring"} => cancel # "raised"
               /\ at \in {"streaming", "tool", "mirroring"} /\ halted => cancel = "asked"
               /\ at \in {"none", "settled"} /\ app = "up" /\ running =>
                    at = "settled" /\ ended = "cancelled" /\ ~finalized

\* Before the turn, and before its last round, the history is whole; a round in its tools
\* lacks the results that are left.
PairInv ==
    /\ ~open => Paired(history)
    /\ open => /\ Paired(Truncated(iterationBase))
               /\ turnBase = 0 \/ history[turnBase + 1].role = "user"
    /\ at \in {"tool", "mirroring"} =>
         /\ left > 0 /\ iterationBase < Len(history)
         /\ history[iterationBase + 1].role = "assistant"
         /\ iterationBase + 1 + history[iterationBase + 1].calls = Len(history) + left
         /\ \A j \in iterationBase + 2 .. Len(history) : history[j].role = "tool"

Inv == Types /\ TaskInv /\ ChargeInv /\ NoteInv /\ QuietInv /\ PairInv

-----------------------------------------------------------------------------
(* Histories.                                                              *)

\* The bounds are numbers.
LEMMA Bounds == /\ MaxPrompts \in Nat /\ MaxRounds \in Nat /\ MaxCalls \in Nat /\ MaxRounds > 0
                /\ MaxKept \in Nat /\ MaxKept > 1
  BY AgentAssumption

\* The first n messages are the first n messages.
LEMMA Cutting ==
  ASSUME NEW h, Sound(h), NEW n \in 0 .. Len(h)
  PROVE  /\ Sound(SubSeq(h, 1, n)) /\ Len(SubSeq(h, 1, n)) = n
         /\ \A i \in 1 .. n : SubSeq(h, 1, n)[i] = h[i]
  <1>1. h \in Seq(Messages) /\ Len(h) \in Nat
    BY LenProperties DEF Sound
  <1>2. 1 \in 1 .. Len(h) + 1 /\ n \in 0 .. Len(h)
    BY <1>1
  <1>3. /\ SubSeq(h, 1, n) \in Seq(Messages)
        /\ Len(SubSeq(h, 1, n)) = IF 1 <= n THEN n - 1 + 1 ELSE 0
        /\ \A i \in 1 .. n - 1 + 1 : SubSeq(h, 1, n)[i] = h[1 + i - 1]
    BY <1>1, <1>2, SubSeqProperties
  <1>4. Len(SubSeq(h, 1, n)) = n /\ \A i \in 1 .. n : SubSeq(h, 1, n)[i] = h[i]
    BY <1>1, <1>2, <1>3
  <1>5. QED
    BY <1>1, <1>3, <1>4 DEF Sound

\* The messages from the i-th on.
LEMMA Keeping ==
  ASSUME NEW h, Sound(h), NEW kept \in Trimmed(h)
  PROVE  /\ Sound(kept)
         /\ \E i \in 1 .. Len(h) : /\ h[i].role = "user" /\ Len(kept) = Len(h) - i + 1
                                   /\ \A j \in 1 .. Len(kept) : kept[j] = h[j + i - 1]
  <1>1. h \in Seq(Messages) /\ Len(h) \in Nat /\ DOMAIN h = 1 .. Len(h)
    BY LenProperties DEF Sound
  <1>2. PICK i \in 1 .. Len(h) : h[i].role = "user" /\ kept = SubSeq(h, i, Len(h))
    BY <1>1 DEF Trimmed, Users
  <1>3. i \in 1 .. Len(h) + 1 /\ Len(h) \in i - 1 .. Len(h)
    BY <1>1, <1>2
  <1>4. /\ kept \in Seq(Messages)
        /\ Len(kept) = IF i <= Len(h) THEN Len(h) - i + 1 ELSE 0
        /\ \A j \in 1 .. Len(h) - i + 1 : kept[j] = h[i + j - 1]
    BY <1>1, <1>2, <1>3, SubSeqProperties
  <1>5. Len(kept) = Len(h) - i + 1 /\ \A j \in 1 .. Len(kept) : kept[j] = h[j + i - 1]
    BY <1>1, <1>4
  <1>6. QED
    BY <1>1, <1>2, <1>4, <1>5 DEF Sound

\* One message more.
LEMMA Adding ==
  ASSUME NEW h, Sound(h), NEW m \in Messages, m.calls # 0 => m.role = "assistant"
  PROVE  /\ Sound(Append(h, m)) /\ Len(Append(h, m)) = Len(h) + 1 /\ Len(h) \in Nat
         /\ \A i \in 1 .. Len(h) : Append(h, m)[i] = h[i]
         /\ Append(h, m)[Len(h) + 1] = m
  <1>1. h \in Seq(Messages) /\ Len(h) \in Nat
    BY LenProperties DEF Sound
  <1>2. /\ Append(h, m) \in Seq(Messages) /\ Len(Append(h, m)) = Len(h) + 1
        /\ \A i \in 1 .. Len(h) : Append(h, m)[i] = h[i]
        /\ Append(h, m)[Len(h) + 1] = m
    BY <1>1, AppendProperties
  <1>3. QED
    BY <1>1, <1>2 DEF Sound

\* What Paired says of a history, message by message.
Whole(h) ==
    \A i \in 1 .. Len(h) :
        /\ h[i].role = "assistant" => /\ i + h[i].calls <= Len(h)
                                      /\ \A j \in i + 1 .. i + h[i].calls : h[j].role = "tool"
        /\ h[i].role = "tool" => \E j \in 1 .. i - 1 : j + h[j].calls >= i

\* Both are the same.
LEMMA Wholeness == ASSUME NEW h, Sound(h) PROVE Paired(h) <=> Whole(h)
  <1>1. DOMAIN h = 1 .. Len(h)
    BY LenProperties DEF Sound
  <1>2. QED
    BY <1>1 DEF Paired, Whole

\* A message is what it is.
LEMMA Elements ==
  ASSUME NEW h, Sound(h), NEW i \in 1 .. Len(h)
  PROVE  /\ h[i].role \in Roles /\ h[i].calls \in Nat /\ h[i].turn \in 1 .. MaxPrompts
         /\ h[i] \in Messages /\ Len(h) \in Nat
  <1>1. h \in Seq(Messages) /\ Len(h) \in Nat
    BY LenProperties DEF Sound
  <1>2. h[i] \in Messages
    BY <1>1, ElementOfSeq
  <1>3. QED
    BY <1>1, <1>2 DEF Messages

\* Before a prompt, a whole history is whole.
LEMMA PrefixIsWhole ==
  ASSUME NEW h, Sound(h), Paired(h), NEW n \in 0 .. Len(h),
         n = 0 \/ n = Len(h) \/ h[n + 1].role = "user"
  PROVE  Paired(SubSeq(h, 1, n))
  <1> DEFINE g == SubSeq(h, 1, n)
  <1>1. Sound(g) /\ Len(g) = n /\ Len(h) \in Nat /\ \A i \in 1 .. n : g[i] = h[i]
    BY Cutting, LenProperties DEF Sound
  <1> HIDE DEF g
  <1>2. Whole(h)
    BY Wholeness
  <1>3. SUFFICES ASSUME NEW i \in 1 .. n
                 PROVE  /\ g[i].role = "assistant" =>
                             i + g[i].calls <= n /\ \A j \in i + 1 .. i + g[i].calls : g[j].role = "tool"
                        /\ g[i].role = "tool" => \E j \in 1 .. i - 1 : j + g[j].calls >= i
    BY <1>1, Wholeness DEF Whole, g
  <1>4. i \in 1 .. Len(h) /\ g[i] = h[i] /\ h[i].calls \in Nat
    BY <1>1, Elements
  <1>5. ASSUME h[i].role = "assistant"
        PROVE  i + h[i].calls <= n /\ \A j \in i + 1 .. i + h[i].calls : g[j].role = "tool"
    <2>1. i + h[i].calls <= Len(h) /\ \A j \in i + 1 .. i + h[i].calls : h[j].role = "tool"
      BY <1>2, <1>4, <1>5 DEF Whole
    <2>2. i + h[i].calls <= n
      <3>1. CASE n < Len(h) /\ i + h[i].calls > n
        <4>1. n + 1 \in i + 1 .. i + h[i].calls
          BY <1>1, <1>4, <3>1
        <4>2. h[n + 1].role = "tool"
          BY <2>1, <4>1
        <4>3. QED
          BY <1>1, <3>1, <4>2
      <3>2. QED
        BY <1>1, <1>4, <2>1, <3>1
    <2>3. QED
      BY <1>1, <1>4, <2>1, <2>2
  <1>6. ASSUME h[i].role = "tool"
        PROVE  \E j \in 1 .. i - 1 : j + g[j].calls >= i
    <2>1. PICK j \in 1 .. i - 1 : j + h[j].calls >= i
      BY <1>2, <1>4, <1>6 DEF Whole
    <2>2. g[j] = h[j]
      BY <1>1
    <2>3. QED
      BY <2>1, <2>2
  <1>7. QED
    BY <1>4, <1>5, <1>6

\* From a prompt on, too.
LEMMA SuffixIsWhole ==
  ASSUME NEW h, Sound(h), Paired(h), NEW g \in Trimmed(h)
  PROVE  Paired(g)
  <1>1. PICK s \in 1 .. Len(h) : /\ h[s].role = "user" /\ Len(g) = Len(h) - s + 1
                                 /\ \A j \in 1 .. Len(g) : g[j] = h[j + s - 1]
    BY Keeping
  <1>2. Sound(g) /\ Len(h) \in Nat /\ Len(g) \in Nat
    BY Keeping, LenProperties DEF Sound
  <1>3. Whole(h)
    BY Wholeness
  <1>4. SUFFICES ASSUME NEW i \in 1 .. Len(g)
                 PROVE  /\ g[i].role = "assistant" =>
                             i + g[i].calls <= Len(g) /\ \A j \in i + 1 .. i + g[i].calls : g[j].role = "tool"
                        /\ g[i].role = "tool" => \E j \in 1 .. i - 1 : j + g[j].calls >= i
    BY <1>2, Wholeness DEF Whole
  <1>5. /\ i + s - 1 \in 1 .. Len(h) /\ g[i] = h[i + s - 1] /\ h[i + s - 1].calls \in Nat
        /\ i \in Nat /\ s \in Nat
    BY <1>1, <1>2, Elements
  <1>6. ASSUME g[i].role = "assistant"
        PROVE  i + g[i].calls <= Len(g) /\ \A j \in i + 1 .. i + g[i].calls : g[j].role = "tool"
    <2> DEFINE k == g[i].calls
    <2>1. /\ k \in Nat /\ i + s - 1 + k <= Len(h)
          /\ \A j \in i + s - 1 + 1 .. i + s - 1 + k : h[j].role = "tool"
      BY <1>3, <1>5, <1>6 DEF Whole
    <2> HIDE DEF k
    <2>2. i + k <= Len(g)
      BY <1>1, <1>2, <1>5, <2>1
    <2>3. ASSUME NEW j \in i + 1 .. i + k
          PROVE  g[j].role = "tool"
      <3>1. j \in 1 .. Len(g) /\ j + s - 1 \in i + s - 1 + 1 .. i + s - 1 + k
        BY <1>2, <1>5, <2>1, <2>2
      <3>2. QED
        BY <1>1, <2>1, <3>1
    <2>4. QED
      BY <2>2, <2>3 DEF k
  <1>7. ASSUME g[i].role = "tool"
        PROVE  \E j \in 1 .. i - 1 : j + g[j].calls >= i
    <2>1. PICK j \in 1 .. i + s - 1 - 1 : j + h[j].calls >= i + s - 1
      BY <1>3, <1>5, <1>7 DEF Whole
    <2>2. j \in 1 .. Len(h) /\ h[j].calls \in Nat /\ (h[j].calls # 0 => h[j].role = "assistant")
      <3>1. j \in 1 .. Len(h)
        BY <1>2, <1>5
      <3>2. QED
        BY <3>1, Elements DEF Sound
    <2>3. j >= s
      <3>1. SUFFICES ASSUME j < s PROVE FALSE
        BY <1>5, <2>2
      <3>2. h[j].role = "assistant"
        BY <1>5, <2>1, <2>2
      <3>3. s \in j + 1 .. j + h[j].calls
        BY <1>5, <2>1, <2>2, <3>1
      <3>4. h[s].role = "tool"
        BY <1>3, <2>2, <3>2, <3>3 DEF Whole
      <3>5. QED
        BY <1>1, <3>4
    <2>4. j - s + 1 \in 1 .. i - 1 /\ g[j - s + 1] = h[j]
      <3>1. j - s + 1 \in 1 .. i - 1 /\ j - s + 1 \in 1 .. Len(g) /\ j - s + 1 + s - 1 = j
        BY <1>2, <1>5, <2>2, <2>3
      <3>2. QED
        BY <1>1, <3>1
    <2>5. j - s + 1 + g[j - s + 1].calls >= i
      BY <1>5, <2>1, <2>2, <2>4
    <2>6. QED
      BY <2>4, <2>5
  <1>8. QED
    BY <1>6, <1>7

\* A message without calls that is no result adds to a whole history.
LEMMA NoteIsWhole ==
  ASSUME NEW h, Sound(h), Paired(h), NEW m \in Messages, m.calls = 0, m.role # "tool"
  PROVE  Paired(Append(h, m))
  <1> DEFINE g == Append(h, m)
  <1>1. /\ Sound(g) /\ Len(g) = Len(h) + 1 /\ Len(h) \in Nat
        /\ \A i \in 1 .. Len(h) : g[i] = h[i]
        /\ g[Len(h) + 1] = m
    BY Adding
  <1> HIDE DEF g
  <1>2. Whole(h)
    BY Wholeness
  <1>3. SUFFICES ASSUME NEW i \in 1 .. Len(g)
                 PROVE  /\ g[i].role = "assistant" =>
                             i + g[i].calls <= Len(g) /\ \A j \in i + 1 .. i + g[i].calls : g[j].role = "tool"
                        /\ g[i].role = "tool" => \E j \in 1 .. i - 1 : j + g[j].calls >= i
    BY <1>1, Wholeness DEF Whole, g
  <1>4. CASE i = Len(h) + 1
    BY <1>1, <1>4
  <1>5. CASE i \in 1 .. Len(h)
    <2>1. g[i] = h[i] /\ h[i].calls \in Nat
      BY <1>1, <1>5, Elements
    <2>2. /\ h[i].role = "assistant" => /\ i + h[i].calls <= Len(h)
                                        /\ \A j \in i + 1 .. i + h[i].calls : h[j].role = "tool"
          /\ h[i].role = "tool" => \E j \in 1 .. i - 1 : j + h[j].calls >= i
      BY <1>2, <1>5 DEF Whole
    <2>3. ASSUME h[i].role = "assistant", NEW j \in i + 1 .. i + h[i].calls
          PROVE  g[j].role = "tool"
      <3>1. j \in 1 .. Len(h)
        BY <1>1, <1>5, <2>1, <2>2, <2>3
      <3>2. QED
        BY <1>1, <2>2, <2>3, <3>1
    <2>4. ASSUME h[i].role = "tool"
          PROVE  \E j \in 1 .. i - 1 : j + g[j].calls >= i
      <3>1. PICK j \in 1 .. i - 1 : j + h[j].calls >= i
        BY <2>2, <2>4
      <3>2. g[j] = h[j]
        BY <1>1, <1>5
      <3>3. QED
        BY <3>1, <3>2
    <2>5. h[i].role = "assistant" => i + h[i].calls <= Len(g)
      BY <1>1, <2>1, <2>2
    <2>6. QED
      BY <2>1, <2>3, <2>4, <2>5
  <1>6. QED
    BY <1>1, <1>4, <1>5

\* So do an assistant's message and the results of all its calls.
LEMMA RoundIsWhole ==
  ASSUME NEW h, Sound(h), NEW b \in 0 .. Len(h) - 1, Paired(SubSeq(h, 1, b)),
         h[b + 1].role = "assistant", b + 1 + h[b + 1].calls = Len(h),
         \A j \in b + 2 .. Len(h) : h[j].role = "tool"
  PROVE  Paired(h)
  <1> DEFINE g == SubSeq(h, 1, b)
  <1>1. Len(h) \in Nat /\ b \in 0 .. Len(h)
    BY LenProperties DEF Sound
  <1>2. Sound(g) /\ Len(g) = b /\ \A i \in 1 .. b : g[i] = h[i]
    BY <1>1, Cutting
  <1>3. Whole(g)
    BY <1>2, Wholeness
  <1> HIDE DEF g
  <1>4. SUFFICES ASSUME NEW i \in 1 .. Len(h)
                 PROVE  /\ h[i].role = "assistant" =>
                             i + h[i].calls <= Len(h) /\ \A j \in i + 1 .. i + h[i].calls : h[j].role = "tool"
                        /\ h[i].role = "tool" => \E j \in 1 .. i - 1 : j + h[j].calls >= i
    BY Wholeness DEF Whole
  <1>5. h[i].calls \in Nat /\ h[b + 1].calls \in Nat
    BY <1>1, Elements
  <1>6. CASE i <= b
    <2>1. i \in 1 .. b /\ g[i] = h[i] /\ \A j \in 1 .. i - 1 : g[j] = h[j]
      BY <1>1, <1>2, <1>6
    <2>2. /\ h[i].role = "assistant" => /\ i + h[i].calls <= b
                                        /\ \A j \in i + 1 .. i + h[i].calls : g[j].role = "tool"
          /\ h[i].role = "tool" => \E j \in 1 .. i - 1 : j + g[j].calls >= i
      BY <1>2, <1>3, <2>1 DEF Whole
    <2>3. ASSUME h[i].role = "assistant", NEW j \in i + 1 .. i + h[i].calls
          PROVE  h[j].role = "tool"
      <3>1. j \in 1 .. b
        BY <1>1, <1>5, <2>2, <2>3
      <3>2. QED
        BY <1>2, <2>2, <2>3, <3>1
    <2>4. ASSUME h[i].role = "tool"
          PROVE  \E j \in 1 .. i - 1 : j + h[j].calls >= i
      <3>1. PICK j \in 1 .. i - 1 : j + g[j].calls >= i
        BY <2>2, <2>4
      <3>2. QED
        BY <2>1, <3>1
    <2>5. h[i].role = "assistant" => i + h[i].calls <= Len(h)
      BY <1>1, <1>5, <2>2
    <2>6. QED
      BY <2>3, <2>4, <2>5
  <1>7. CASE i = b + 1
    BY <1>1, <1>5, <1>7
  <1>8. CASE i > b + 1
    <2>1. h[i].role = "tool" /\ b + 1 \in 1 .. i - 1 /\ b + 1 + h[b + 1].calls >= i
      BY <1>1, <1>5, <1>8
    <2>2. QED
      BY <2>1
  <1>9. QED
    BY <1>1, <1>6, <1>7, <1>8

-----------------------------------------------------------------------------
(* What a step does to the history.                                        *)

\* A message carries the prompt it belongs to.
LEMMA NewMessage ==
  ASSUME Types, open \/ turn # 0, NEW role \in Roles, NEW calls \in Nat
  PROVE  /\ Message(role, calls) \in Messages
         /\ Message(role, calls).role = role /\ Message(role, calls).calls = calls
  <1>1. Current \in 1 .. MaxPrompts
    <2>1. CASE open
      <3>1. turnBase + 1 \in 1 .. Len(history)
        BY <2>1, LenProperties DEF Types, TypeOK, Sound
      <3>2. QED
        BY <2>1, <3>1, Elements DEF Types, Current
    <2>2. CASE ~open
      <3>1. turn \in 0 .. submitted /\ submitted \in 0 .. MaxPrompts /\ turn # 0
        BY <2>2 DEF Types, TypeOK
      <3>2. QED
        BY <2>2, <3>1, Bounds DEF Current
    <2>3. QED
      BY <2>1, <2>2
  <1>2. QED
    BY <1>1 DEF Message, Messages

\* How far the open turn has come.
LEMMA Bases ==
  ASSUME Types, open
  PROVE  /\ turnBase \in Nat /\ iterationBase \in Nat /\ Len(history) \in Nat
         /\ turnBase < iterationBase /\ iterationBase <= Len(history)
         /\ Sound(Truncated(iterationBase)) /\ Len(Truncated(iterationBase)) = iterationBase
         /\ \A i \in 1 .. iterationBase : Truncated(iterationBase)[i] = history[i]
  <1>1. /\ turnBase \in Nat /\ iterationBase \in Nat /\ Len(history) \in Nat
        /\ turnBase < iterationBase /\ iterationBase <= Len(history) /\ Sound(history)
    BY LenProperties DEF Types, TypeOK, Sound
  <1>2. QED
    BY <1>1, Cutting DEF Truncated

\* A turn that is over leaves a whole history, and the totals are right.
Over == /\ Sound(history') /\ Paired(history') /\ ~open' /\ live' = "none"
        /\ total' = sent /\ total' \in Nat /\ cost' = cost

\* The open turn's requests are known.
LEMMA Charges == ASSUME Inv, open
                 PROVE  /\ sent = total + cost + Charge /\ Charge \in {0, 1} /\ Charge \in Nat
                        /\ total \in Nat /\ cost \in Nat /\ sent \in Nat
                        /\ live = "sent" => Charge = 1
                        /\ live # "sent" => Charge = 0
  BY DEF Inv, ChargeInv, Charge, Types

\* An interrupted turn keeps a note.
LEMMA InterruptedIsOver == ASSUME Inv, open, Interrupted PROVE Over
  <1>1. Message("assistant", 0) \in Messages /\ Message("assistant", 0).calls = 0
        /\ Message("assistant", 0).role = "assistant"
    BY NewMessage DEF Inv, Roles
  <1>2. Paired(Truncated(iterationBase)) /\ Sound(Truncated(iterationBase))
    BY Bases DEF Inv, PairInv
  <1>3. Sound(history') /\ Paired(history')
    BY <1>1, <1>2, Adding, NoteIsWhole DEF Interrupted
  <1>4. QED
    BY <1>3, Charges DEF Interrupted, Over

\* A failed round leaves what came before it.
LEMMA AbandonIsOver == ASSUME Inv, open, Abandon PROVE Over
  <1>1. Sound(history') /\ Paired(history')
    BY Bases DEF Inv, PairInv, Abandon
  <1>2. QED
    BY <1>1, Charges DEF Abandon, Over

\* A rolled back turn leaves what came before it.
LEMMA RollbackIsOver ==
  ASSUME Inv, open, NEW h, Sound(h), NEW n \in 0 .. Len(h), NEW base \in 0 .. n,
         Paired(SubSeq(h, 1, n)), base = 0 \/ (base < n /\ h[base + 1].role = "user"),
         RolledBack(h, base)
  PROVE  Over
  <1> DEFINE g == SubSeq(h, 1, n)
  <1>1. /\ Sound(g) /\ Len(g) = n /\ Len(h) \in Nat /\ n \in Nat /\ base \in Nat
        /\ \A i \in 1 .. n : g[i] = h[i]
    BY Cutting, LenProperties DEF Sound
  <1>2. base \in 0 .. Len(h)
    BY <1>1
  <1>3. Sound(SubSeq(h, 1, base)) /\ Sound(SubSeq(g, 1, base))
    BY <1>1, <1>2, Cutting
  <1>4. Paired(SubSeq(g, 1, base))
    <2>1. base = 0 \/ g[base + 1].role = "user"
      BY <1>1
    <2>2. base \in 0 .. Len(g)
      BY <1>1
    <2> HIDE DEF g
    <2>3. Sound(g) /\ Paired(g)
      BY <1>1 DEF g
    <2>4. QED
      BY <2>1, <2>2, <2>3, PrefixIsWhole
  <1>5. SubSeq(h, 1, base) = SubSeq(g, 1, base)
    <2>1. /\ Len(SubSeq(h, 1, base)) = base /\ Len(SubSeq(g, 1, base)) = base
          /\ \A i \in 1 .. base : SubSeq(h, 1, base)[i] = h[i]
          /\ \A i \in 1 .. base : SubSeq(g, 1, base)[i] = g[i]
      BY <1>1, <1>2, Cutting
    <2>2. \A i \in 1 .. base : g[i] = h[i]
      BY <1>1
    <2>3. SubSeq(h, 1, base) \in Seq(Messages) /\ SubSeq(g, 1, base) \in Seq(Messages)
      BY <1>3 DEF Sound
    <2> HIDE DEF g
    <2>4. QED
      BY <2>1, <2>2, <2>3, SeqEqual
  <1>6. Sound(history') /\ Paired(history')
    BY <1>3, <1>4, <1>5 DEF RolledBack
  <1>7. QED
    BY <1>6, Charges DEF RolledBack, Over

\* A round in its tools: the result that is stored now, and what it leaves to come.
LEMMA Storing ==
  ASSUME Inv, at = "mirroring"
  PROVE  /\ Sound(Stored) /\ Len(Stored) = Len(history) + 1 /\ Len(history) \in Nat
         /\ \A i \in 1 .. Len(history) : Stored[i] = history[i]
         /\ Stored[Len(history) + 1].role = "tool"
         /\ left = 1 => Paired(Stored)
  <1>1. open /\ Sound(history)
    BY DEF Inv, TaskInv, Types
  <1>2. /\ Message("tool", 0) \in Messages
        /\ Message("tool", 0).role = "tool" /\ Message("tool", 0).calls = 0
    BY <1>1, NewMessage DEF Inv, Roles
  <1>3. /\ Sound(Stored) /\ Len(Stored) = Len(history) + 1 /\ Len(history) \in Nat
        /\ \A i \in 1 .. Len(history) : Stored[i] = history[i]
        /\ Stored[Len(history) + 1].role = "tool"
    BY <1>1, <1>2, Adding DEF Stored
  <1>4. ASSUME left = 1
        PROVE  Paired(Stored)
    <2> DEFINE b == iterationBase
    <2>1. /\ b \in Nat /\ b < Len(history)
          /\ history[b + 1].role = "assistant"
          /\ b + 1 + history[b + 1].calls = Len(history) + 1
          /\ \A j \in b + 2 .. Len(history) : history[j].role = "tool"
          /\ Paired(Truncated(b)) /\ Sound(Truncated(b)) /\ Len(Truncated(b)) = b
          /\ \A i \in 1 .. b : Truncated(b)[i] = history[i]
      BY <1>1, <1>4, Bases DEF Inv, PairInv
    <2> HIDE DEF b
    <2>2. b \in 0 .. Len(Stored) - 1 /\ b \in 0 .. Len(Stored) /\ b + 1 \in 1 .. Len(history)
      BY <1>3, <2>1
    <2>3. /\ Stored[b + 1].role = "assistant" /\ b + 1 + Stored[b + 1].calls = Len(Stored)
      BY <1>3, <2>1, <2>2
    <2>4. \A j \in b + 2 .. Len(Stored) : Stored[j].role = "tool"
      BY <1>3, <2>1
    <2>5. SubSeq(Stored, 1, b) = Truncated(b)
      <3>1. /\ Sound(SubSeq(Stored, 1, b)) /\ Len(SubSeq(Stored, 1, b)) = b
            /\ \A i \in 1 .. b : SubSeq(Stored, 1, b)[i] = Stored[i]
        BY <1>3, <2>2, Cutting
      <3>2. \A i \in 1 .. b : Stored[i] = history[i]
        BY <1>3, <2>1
      <3>3. SubSeq(Stored, 1, b) \in Seq(Messages) /\ Truncated(b) \in Seq(Messages)
        BY <2>1, <3>1 DEF Sound
      <3>4. QED
        BY <2>1, <3>1, <3>2, <3>3, SeqEqual
    <2>6. Paired(SubSeq(Stored, 1, b)) /\ Sound(Stored)
      BY <1>3, <2>1, <2>5
    <2> HIDE DEF Stored
    <2>7. QED
      BY <2>2, <2>3, <2>4, <2>6, RoundIsWhole
  <1>5. QED
    BY <1>3, <1>4

\* A history that grows keeps its beginning.
LEMMA Beginnings ==
  ASSUME Sound(history), Sound(history'), NEW n \in 0 .. Len(history),
         Len(history) <= Len(history'),
         \A i \in 1 .. Len(history) : history'[i] = history[i]
  PROVE  SubSeq(history', 1, n) = SubSeq(history, 1, n)
  <1>1. Len(history) \in Nat /\ Len(history') \in Nat
    BY LenProperties DEF Sound
  <1>2. /\ Sound(SubSeq(history, 1, n)) /\ Len(SubSeq(history, 1, n)) = n
        /\ \A i \in 1 .. n : SubSeq(history, 1, n)[i] = history[i]
    BY <1>1, Cutting
  <1>3. /\ Sound(SubSeq(history', 1, n)) /\ Len(SubSeq(history', 1, n)) = n
        /\ \A i \in 1 .. n : SubSeq(history', 1, n)[i] = history'[i]
    <2>1. n \in 0 .. Len(history')
      BY <1>1
    <2>2. QED
      BY <2>1, Cutting
  <1>4. \A i \in 1 .. n : history'[i] = history[i]
    BY <1>1
  <1>5. /\ SubSeq(history', 1, n) \in Seq(Messages) /\ SubSeq(history, 1, n) \in Seq(Messages)
    BY <1>2, <1>3 DEF Sound
  <1>6. QED
    BY <1>2, <1>3, <1>4, <1>5, SeqEqual

\* Dropping turns from the front moves the turn's base along, or drops it with them.
LEMMA Shifting ==
  ASSUME NEW h, Sound(h), Paired(h), NEW base \in 0 .. Len(h) - 1,
         base = 0 \/ h[base + 1].role = "user", NEW kept \in Trimmed(h)
  PROVE  /\ Sound(kept) /\ Paired(kept) /\ Len(kept) \in Nat
         /\ Shifted(base, Len(h) - Len(kept)) \in Nat /\ Shifted(base, Len(h) - Len(kept)) < Len(kept)
         /\ \/ Shifted(base, Len(h) - Len(kept)) = 0
            \/ kept[Shifted(base, Len(h) - Len(kept)) + 1].role = "user"
  <1> DEFINE b == Shifted(base, Len(h) - Len(kept))
  <1>1. Sound(kept) /\ Paired(kept) /\ Len(h) \in Nat /\ Len(kept) \in Nat
    BY Keeping, SuffixIsWhole, LenProperties DEF Sound
  <1>2. PICK s \in 1 .. Len(h) : /\ Len(kept) = Len(h) - s + 1
                                 /\ \A j \in 1 .. Len(kept) : kept[j] = h[j + s - 1]
    BY Keeping
  <1>3. b = IF s - 1 < base THEN base - (s - 1) ELSE 0
    BY <1>1, <1>2 DEF Shifted
  <1> HIDE DEF b
  <1>4. b \in Nat /\ b < Len(kept)
    BY <1>1, <1>2, <1>3
  <1>5. b = 0 \/ kept[b + 1].role = "user"
    <2>1. CASE s - 1 < base
      <3>1. b + 1 \in 1 .. Len(kept) /\ b + 1 + s - 1 = base + 1 /\ base # 0
        BY <1>1, <1>2, <1>3, <1>4, <2>1
      <3>2. kept[b + 1] = h[b + 1 + s - 1]
        BY <1>2, <3>1
      <3>3. QED
        BY <3>1, <3>2
    <2>2. CASE ~(s - 1 < base)
      BY <1>3, <2>2
    <2>3. QED
      BY <2>1, <2>2
  <1>6. QED
    BY <1>1, <1>4, <1>5 DEF b

\* The next request goes out with a whole history, of which the turn still is a part.
LEMMA Preparing ==
  ASSUME NEW h, Sound(h), Paired(h), NEW base \in 0 .. Len(h) - 1, NEW r,
         base = 0 \/ h[base + 1].role = "user",
         Prepare(h, base, r)
  PROVE  /\ Sound(history') /\ Paired(history') /\ Truncated(iterationBase)' = history'
         /\ turnBase' \in Nat /\ turnBase' < iterationBase' /\ iterationBase' = Len(history')
         /\ iterationBase' \in Nat
         /\ turnBase' = 0 \/ history'[turnBase' + 1].role = "user"
         /\ live' = "open" /\ at' = "streaming" /\ round' = r /\ left' = 0
  <1>1. PICK kept \in Trimmed(h) :
          /\ history' = kept /\ turnBase' = Shifted(base, Len(h) - Len(kept))
          /\ iterationBase' = Len(kept) /\ live' = "open"
          /\ at' = "streaming" /\ round' = r /\ left' = 0
    BY DEF Prepare
  <1>2. /\ Sound(kept) /\ Paired(kept) /\ Len(kept) \in Nat
        /\ turnBase' \in Nat /\ turnBase' < Len(kept)
        /\ turnBase' = 0 \/ kept[turnBase' + 1].role = "user"
    BY <1>1, Shifting
  <1>3. SubSeq(kept, 1, Len(kept)) = kept
    <2>1. kept \in Seq(Messages)
      BY <1>2 DEF Sound
    <2>2. QED
      BY <2>1, SubSeqFull
  <1>4. QED
    BY <1>1, <1>2, <1>3 DEF Truncated

\* What the provider is sent is whole.
LEMMA LiveIsWhole == ASSUME Inv, live # "none" PROVE open /\ iterationBase = Len(history) /\ Paired(history)
  <1>1. open /\ iterationBase = Len(history) /\ history \in Seq(Messages)
    BY DEF Inv, TaskInv, Types, Sound
  <1>2. Truncated(iterationBase) = history
    BY <1>1, SubSeqFull DEF Truncated
  <1>3. QED
    BY <1>1, <1>2 DEF Inv, PairInv

\* An answer ends a turn.
LEMMA AnswerIsOver == ASSUME Inv, Answer PROVE Over /\ open
  <1>1. live = "sent" /\ open /\ Paired(history) /\ Sound(history)
    BY LiveIsWhole DEF Answer, Inv, Types
  <1>2. /\ Message("assistant", 0) \in Messages /\ Message("assistant", 0).calls = 0
        /\ Message("assistant", 0).role = "assistant"
    BY <1>1, NewMessage DEF Inv, Roles
  <1>3. Sound(history') /\ Paired(history')
    BY <1>1, <1>2, Adding, NoteIsWhole DEF Answer
  <1>4. QED
    BY <1>1, <1>3, Charges DEF Answer, Over

\* So does a limit, after the last result of a round.
LEMMA CompleteIsOver ==
  ASSUME Inv, at = "mirroring", left = 1,
         NEW h \in {Stored, Append(Stored, Message("assistant", 0))}, Complete(h)
  PROVE  Over /\ open
  <1>1. open /\ live = "none"
    BY DEF Inv, TaskInv
  <1>2. /\ Message("assistant", 0) \in Messages /\ Message("assistant", 0).calls = 0
        /\ Message("assistant", 0).role = "assistant"
    BY <1>1, NewMessage DEF Inv, Roles
  <1>3. Sound(h) /\ Paired(h)
    <2>1. Sound(Stored) /\ Paired(Stored)
      BY Storing
    <2> HIDE DEF Stored
    <2>2. Sound(Append(Stored, Message("assistant", 0))) /\ Paired(Append(Stored, Message("assistant", 0)))
      BY <1>2, <2>1, Adding, NoteIsWhole
    <2>3. QED
      BY <2>1, <2>2
  <1>4. QED
    BY <1>1, <1>3, Charges DEF Complete, Over

\* The first request of a turn.
LEMMA Beginning ==
  ASSUME Inv, at = "spawned", ~open, NEW h \in TrimmedForTurn
  PROVE  /\ Sound(h) /\ Paired(h) /\ Len(h) \in Nat \ {0}
         /\ Base(h) \in 0 .. Len(h) - 1 /\ h[Base(h) + 1].role = "user"
         /\ Sound(Front(h)) /\ Paired(Front(h))
  <1> DEFINE m == Message("user", 0)
             g == Append(history, m)
  <1>1. m \in Messages /\ m.role = "user" /\ m.calls = 0 /\ Sound(history) /\ Paired(history)
    BY NewMessage DEF Inv, Roles, TaskInv, PairInv, Types
  <1>2. /\ Sound(g) /\ Paired(g) /\ Len(g) = Len(history) + 1 /\ Len(history) \in Nat
        /\ g[Len(history) + 1] = m
    BY <1>1, Adding, NoteIsWhole
  <1>3. h \in Trimmed(g)
    BY DEF TrimmedForTurn
  <1> HIDE DEF m, g
  <1>4. Sound(h) /\ Paired(h)
    BY <1>2, <1>3, Keeping, SuffixIsWhole
  <1>5. PICK s \in 1 .. Len(g) : /\ Len(h) = Len(g) - s + 1
                                 /\ \A j \in 1 .. Len(h) : h[j] = g[j + s - 1]
    BY <1>2, <1>3, Keeping
  <1>6. Len(h) \in Nat \ {0} /\ Len(h) + s - 1 = Len(history) + 1 /\ Len(h) \in 1 .. Len(h)
    BY <1>2, <1>5
  <1>7. h[Len(h)] = m
    BY <1>2, <1>5, <1>6
  <1>8. Base(h) \in 0 .. Len(h) - 1 /\ Base(h) + 1 = Len(h) /\ Base(h) \in 0 .. Len(h)
    BY <1>6 DEF Base
  <1>9. Front(h) = SubSeq(h, 1, Base(h))
    BY DEF Front, Base
  <1>10. h[Base(h) + 1].role = "user"
    BY <1>1, <1>7, <1>8
  <1>11. QED
    BY <1>4, <1>6, <1>8, <1>9, <1>10, Cutting, PrefixIsWhole

\* A prompt that is sent opens its turn; one that is refused leaves no trace.
LEMMA Begins ==
  ASSUME Inv, Begin
  PROVE  \/ UNCHANGED <<conversation, session, panel>> /\ Settle("badly") /\ (awaiting \/ active \/ closed)
         \/ /\ ~open /\ open' /\ cost' = 0 /\ total' = total /\ live' = "open"
            /\ Sound(history') /\ Paired(Truncated(iterationBase)') /\ iterationBase' = Len(history')
            /\ turnBase' \in Nat /\ turnBase' < iterationBase' /\ iterationBase' \in Nat
            /\ turnBase' = 0 \/ history'[turnBase' + 1].role = "user"
            /\ at' = "streaming" /\ round' = 1 /\ left' = 0 /\ active' /\ ~halted'
            /\ snapshot' = [of |-> context.of, reached |-> FALSE]
            /\ UNCHANGED <<awaiting, last, closed, cancel, ended, panel>>
         \/ /\ ~open /\ Sound(history') /\ Paired(history') /\ at' = "settled" /\ ended' = "well" /\ Shown
            /\ snapshot' = [of |-> context.of, reached |-> FALSE] /\ ~halted'
            /\ UNCHANGED <<open, live, turnBase, iterationBase, cost, total, active, awaiting, last,
                           closed, cancel, round, left>>
  <1>1. CASE awaiting \/ active \/ closed
    BY <1>1 DEF Begin
  <1>2. CASE ~(awaiting \/ active \/ closed)
    <2>1. ~open /\ at = "spawned"
      BY <1>2 DEF Begin, Inv, TaskInv
    <2>2. halted' = FALSE /\ UNCHANGED <<closed, cancel>>
      BY <1>2 DEF Begin
    <2>3. ASSUME NEW h \in TrimmedForTurn, StartTurn, active' = TRUE, Prepare(h, Base(h), 1),
                 snapshot' = [of |-> context.of, reached |-> FALSE],
                 UNCHANGED <<awaiting, last, ended, panel>>
          PROVE  /\ open' /\ cost' = 0 /\ total' = total /\ live' = "open"
                 /\ Sound(history') /\ Paired(Truncated(iterationBase)') /\ iterationBase' = Len(history')
                 /\ turnBase' \in Nat /\ turnBase' < iterationBase' /\ iterationBase' \in Nat
                 /\ turnBase' = 0 \/ history'[turnBase' + 1].role = "user"
                 /\ at' = "streaming" /\ round' = 1 /\ left' = 0
      <3>1. /\ Sound(h) /\ Paired(h) /\ Base(h) \in 0 .. Len(h) - 1 /\ h[Base(h) + 1].role = "user"
        BY <2>1, Beginning
      <3>2. /\ Sound(history') /\ Paired(history') /\ Truncated(iterationBase)' = history'
            /\ turnBase' \in Nat /\ turnBase' < iterationBase' /\ iterationBase' = Len(history')
            /\ iterationBase' \in Nat
            /\ turnBase' = 0 \/ history'[turnBase' + 1].role = "user"
            /\ live' = "open" /\ at' = "streaming" /\ round' = 1 /\ left' = 0
        BY <2>3, <3>1, Preparing
      <3>3. Paired(Truncated(iterationBase)')
        BY <3>2
      <3>4. QED
        BY <2>3, <3>2, <3>3 DEF StartTurn
    <2>4. ASSUME NEW h \in TrimmedForTurn, history' = Front(h)
          PROVE  Sound(history') /\ Paired(history')
      BY <2>1, <2>4, Beginning
    <2>5. \/ \E h \in TrimmedForTurn :
                /\ StartTurn /\ active' = TRUE
                /\ Prepare(h, Base(h), 1)
                /\ snapshot' = [of |-> context.of, reached |-> FALSE]
                /\ UNCHANGED <<awaiting, last, ended, panel>>
          \/ \E h \in TrimmedForTurn :
                /\ history' = Front(h) /\ at' = "settled" /\ ended' = "well" /\ Shown
                /\ snapshot' = [of |-> context.of, reached |-> FALSE]
                /\ UNCHANGED <<open, live, turnBase, iterationBase, cost, total, active,
                               awaiting, last, round, left>>
      BY <1>2 DEF Begin
    <2>6. QED
      BY <2>1, <2>2, <2>3, <2>4, <2>5
  <1>3. QED
    BY <1>1, <1>2

\* A model that calls tools begins a round of results.
LEMMA CallsBegin ==
  ASSUME Inv, Calls
  PROVE  /\ open /\ Sound(history') /\ iterationBase < Len(history')
         /\ left' \in 1 .. MaxCalls /\ Len(history') = Len(history) + 1
         /\ history'[iterationBase + 1].role = "assistant"
         /\ iterationBase + 1 + history'[iterationBase + 1].calls = Len(history') + left'
         /\ iterationBase + 2 > Len(history')
         /\ \A i \in 1 .. Len(history) : history'[i] = history[i]
         /\ Truncated(iterationBase)' = Truncated(iterationBase)
  <1>1. /\ live = "sent" /\ open /\ iterationBase = Len(history) /\ Sound(history)
        /\ UNCHANGED <<open, turnBase, iterationBase>>
    BY LiveIsWhole DEF Calls, Inv, Types
  <1>2. PICK k \in 1 .. MaxCalls : history' = Append(history, Message("assistant", k)) /\ left' = k
    BY DEF Calls
  <1>3. /\ k \in Nat /\ Message("assistant", k) \in Messages /\ Message("assistant", k).calls = k
        /\ Message("assistant", k).role = "assistant"
    BY <1>1, <1>2, Bounds, NewMessage DEF Inv, Roles
  <1>4. /\ Sound(history') /\ Len(history') = Len(history) + 1 /\ Len(history) \in Nat
        /\ \A i \in 1 .. Len(history) : history'[i] = history[i]
        /\ history'[Len(history) + 1] = Message("assistant", k)
    BY <1>1, <1>2, <1>3, Adding
  <1>5. Truncated(iterationBase)' = Truncated(iterationBase)
    <2>1. iterationBase \in 0 .. Len(history) /\ Len(history) <= Len(history')
      BY <1>1, <1>4
    <2>2. SubSeq(history', 1, iterationBase) = SubSeq(history, 1, iterationBase)
      BY <1>1, <1>4, <2>1, Beginnings
    <2>3. iterationBase' = iterationBase
      BY <1>1
    <2>4. QED
      BY <2>2, <2>3 DEF Truncated
  <1>6. QED
    BY <1>1, <1>2, <1>3, <1>4, <1>5

\* The result of the last call ends a round, that of an earlier one does not.
LEMMA Stores ==
  ASSUME Inv, StoreResult
  PROVE  \/ /\ halted /\ history' = Stored /\ Release /\ Settle("well")
            /\ UNCHANGED <<open, live, turnBase, iterationBase, cost, total, panel>>
         \/ /\ ~halted /\ left > 1 /\ history' = Stored /\ left' = left - 1 /\ at' = "tool"
            /\ UNCHANGED <<open, live, turnBase, iterationBase, cost, total, session, round, snapshot,
                           cancel, ended, panel>>
         \/ /\ ~halted /\ round < MaxRounds
            /\ Sound(history') /\ Paired(Truncated(iterationBase)') /\ iterationBase' = Len(history')
            /\ turnBase' \in Nat /\ turnBase' < iterationBase' /\ iterationBase' \in Nat
            /\ turnBase' = 0 \/ history'[turnBase' + 1].role = "user"
            /\ live' = "open" /\ at' = "streaming" /\ round' = round + 1 /\ left' = 0
            /\ UNCHANGED <<open, cost, total, session, snapshot, cancel, ended, panel>>
         \/ ~halted /\ Over /\ Ends
  <1>1. at = "mirroring" /\ open
    BY DEF StoreResult, Inv, TaskInv
  <1>2. ASSUME left = 1
        PROVE  /\ turnBase \in 0 .. Len(Stored) - 1
               /\ turnBase = 0 \/ Stored[turnBase + 1].role = "user"
               /\ Sound(Stored) /\ Paired(Stored)
    <2>1. /\ Sound(Stored) /\ Paired(Stored) /\ Len(Stored) = Len(history) + 1 /\ Len(history) \in Nat
          /\ \A i \in 1 .. Len(history) : Stored[i] = history[i]
      BY <1>1, <1>2, Storing
    <2>2. /\ turnBase \in Nat /\ turnBase < Len(history)
          /\ turnBase = 0 \/ history[turnBase + 1].role = "user"
      <3>1. turnBase \in Nat /\ iterationBase \in Nat /\ turnBase < iterationBase /\ iterationBase <= Len(history)
        BY <1>1, Bases DEF Inv
      <3>2. QED
        BY <1>1, <2>1, <3>1 DEF Inv, PairInv
    <2>3. QED
      BY <2>1, <2>2
  <1>3. ASSUME left = 1, Prepare(Stored, turnBase, round + 1)
        PROVE  /\ Sound(history') /\ Paired(Truncated(iterationBase)') /\ iterationBase' = Len(history')
               /\ turnBase' \in Nat /\ turnBase' < iterationBase' /\ iterationBase' \in Nat
               /\ turnBase' = 0 \/ history'[turnBase' + 1].role = "user"
               /\ live' = "open" /\ at' = "streaming" /\ round' = round + 1 /\ left' = 0
    BY <1>2, <1>3, Preparing
  <1>4. ASSUME left = 1, NEW h \in {Stored, Append(Stored, Message("assistant", 0))}, Complete(h)
        PROVE  Over
    BY <1>1, <1>4, CompleteIsOver
  <1>5. ASSUME left = 1, NEW kept \in Trimmed(Stored),
               RolledBack(kept, Shifted(turnBase, Len(Stored) - Len(kept)))
        PROVE  Over
    <2>1. /\ turnBase \in 0 .. Len(Stored) - 1
          /\ turnBase = 0 \/ Stored[turnBase + 1].role = "user"
          /\ Sound(Stored) /\ Paired(Stored)
      BY <1>2, <1>5
    <2> DEFINE n == Len(kept)
               b == Shifted(turnBase, Len(Stored) - Len(kept))
    <2>2. /\ Sound(kept) /\ Paired(kept) /\ n \in Nat /\ b \in Nat /\ b < n
          /\ b = 0 \/ kept[b + 1].role = "user"
      BY <1>5, <2>1, Shifting
    <2>3. SubSeq(kept, 1, n) = kept
      BY <2>2, SubSeqFull DEF Sound
    <2>4. n \in 0 .. Len(kept) /\ b \in 0 .. n /\ (b = 0 \/ (b < n /\ kept[b + 1].role = "user"))
      BY <2>2
    <2>5. Paired(SubSeq(kept, 1, n)) /\ Sound(kept) /\ RolledBack(kept, b)
      BY <1>5, <2>2, <2>3
    <2> HIDE DEF n, b
    <2>6. QED
      BY <1>1, <2>4, <2>5, RollbackIsOver
  <1>6. QED
    BY <1>3, <1>4, <1>5 DEF StoreResult

-----------------------------------------------------------------------------
(* What each step does to the conversation, and to the requests it counts. *)

AtTool == at \in {"tool", "mirroring"}

\* Nothing, and a round in its tools goes on as it was.
Untouched == UNCHANGED <<conversation, sent>> /\ (AtTool' => AtTool /\ left' = left)
\* It ends the turn.
EndsTurn  == open /\ Over /\ sent' = sent /\ ~AtTool'
\* It refuses a prompt.
Refuses   == /\ ~open /\ ~AtTool' /\ Sound(history') /\ Paired(history')
             /\ UNCHANGED <<open, live, turnBase, iterationBase, cost, total, sent>>
\* It prepares a request, of a new turn or of the next round.
Prepares  == /\ open' /\ live' = "open" /\ at' = "streaming" /\ sent' = sent
             /\ cost' \in Nat /\ total' \in Nat /\ sent = total' + cost'
             /\ Sound(history') /\ Paired(Truncated(iterationBase)') /\ iterationBase' = Len(history')
             /\ turnBase' \in Nat /\ turnBase' < iterationBase' /\ iterationBase' \in Nat
             /\ turnBase' = 0 \/ history'[turnBase' + 1].role = "user"
\* It stores a result.
Grows     == /\ at = "mirroring" /\ history' = Stored
             /\ UNCHANGED <<open, live, turnBase, iterationBase, cost, total, sent>>
             /\ AtTool' => at' = "tool" /\ ~halted /\ left > 1 /\ left' = left - 1

\* The ways a turn ends.
LEMMA Endings ==
  ASSUME Inv, \/ Answer \/ ProviderFails \/ Unsendable \/ PanelFails \/ Unwound
  PROVE  EndsTurn
  <1>1. CASE Answer
    <2>1. Over /\ open
      BY <1>1, AnswerIsOver
    <2>2. sent' = sent /\ ~AtTool'
      BY <1>1 DEF Answer, Ends, Settle, ghost, AtTool
    <2>3. QED
      BY <2>1, <2>2 DEF EndsTurn
  <1>2. CASE ProviderFails
    <2>1. open /\ Abandon /\ sent' = sent /\ ~AtTool'
      BY <1>2 DEF ProviderFails, Ends, Settle, ghost, AtTool, Inv, TaskInv
    <2>2. QED
      BY <2>1, AbandonIsOver DEF EndsTurn
  <1>3. CASE Unsendable
    <2>1. open /\ RolledBack(history, turnBase) /\ sent' = sent /\ ~AtTool'
      BY <1>3 DEF Unsendable, Rollback, Ends, Settle, ghost, AtTool, Inv, TaskInv
    <2>2. /\ turnBase \in Nat /\ iterationBase \in Nat /\ Len(history) \in Nat
          /\ turnBase < iterationBase /\ iterationBase <= Len(history)
      BY <2>1, Bases DEF Inv
    <2>3. /\ iterationBase \in 0 .. Len(history) /\ turnBase \in 0 .. iterationBase
      BY <2>2
    <2>4. /\ Paired(SubSeq(history, 1, iterationBase)) /\ Sound(history)
          /\ turnBase = 0 \/ (turnBase < iterationBase /\ history[turnBase + 1].role = "user")
      BY <2>1, <2>2 DEF Inv, PairInv, Truncated, Types
    <2>5. Over
      BY <2>1, <2>3, <2>4, RollbackIsOver
    <2>6. QED
      BY <2>1, <2>5 DEF EndsTurn
  <1>4. CASE PanelFails
    <2>1. open /\ Interrupted /\ sent' = sent /\ ~AtTool'
      BY <1>4 DEF PanelFails, Settle, ghost, AtTool, Inv, TaskInv
    <2>2. QED
      BY <2>1, InterruptedIsOver DEF EndsTurn
  <1>5. CASE Unwound
    <2>1. open /\ Interrupted /\ sent' = sent /\ ~AtTool'
      BY <1>5 DEF Unwound, Settle, ghost, AtTool, Inv, TaskInv
    <2>2. QED
      BY <2>1, InterruptedIsOver DEF EndsTurn
  <1>6. QED
    BY <1>1, <1>2, <1>3, <1>4, <1>5

\* What a prompt does at its first step.
LEMMA BeginKinds == ASSUME Inv, Begin PROVE Untouched \/ Refuses \/ Prepares
  <1>1. sent' = sent
    BY DEF Begin, ghost
  <1>2. CASE UNCHANGED <<conversation, session, panel>> /\ Settle("badly")
    BY <1>1, <1>2 DEF Untouched, Settle, AtTool
  <1>3. CASE /\ ~open /\ open' /\ cost' = 0 /\ total' = total /\ live' = "open"
             /\ Sound(history') /\ Paired(Truncated(iterationBase)') /\ iterationBase' = Len(history')
             /\ turnBase' \in Nat /\ turnBase' < iterationBase' /\ iterationBase' \in Nat
             /\ turnBase' = 0 \/ history'[turnBase' + 1].role = "user"
             /\ at' = "streaming"
    <2>1. sent = total /\ total \in Nat
      BY <1>3 DEF Inv, ChargeInv, Types
    <2>2. cost' \in Nat /\ total' \in Nat /\ sent = total' + cost'
      BY <1>3, <2>1
    <2>3. QED
      BY <1>1, <1>3, <2>2 DEF Prepares
  <1>4. CASE /\ ~open /\ Sound(history') /\ Paired(history') /\ at' = "settled"
             /\ UNCHANGED <<open, live, turnBase, iterationBase, cost, total>>
    BY <1>1, <1>4 DEF Refuses, AtTool
  <1>5. QED
    BY <1>2, <1>3, <1>4, Begins

\* What storing a result does.
LEMMA StoreKinds == ASSUME Inv, StoreResult PROVE EndsTurn \/ Prepares \/ Grows
  <1>1. sent' = sent /\ at = "mirroring" /\ open /\ live = "none"
    BY DEF StoreResult, ghost, Inv, TaskInv
  <1>2. CASE /\ history' = Stored /\ Settle("well")
             /\ UNCHANGED <<open, live, turnBase, iterationBase, cost, total>>
    BY <1>1, <1>2 DEF Grows, Settle, AtTool
  <1>3. CASE /\ ~halted /\ left > 1 /\ history' = Stored /\ left' = left - 1 /\ at' = "tool"
             /\ UNCHANGED <<open, live, turnBase, iterationBase, cost, total>>
    BY <1>1, <1>3 DEF Grows
  <1>4. CASE /\ Sound(history') /\ Paired(Truncated(iterationBase)') /\ iterationBase' = Len(history')
             /\ turnBase' \in Nat /\ turnBase' < iterationBase' /\ iterationBase' \in Nat
             /\ turnBase' = 0 \/ history'[turnBase' + 1].role = "user"
             /\ live' = "open" /\ at' = "streaming"
             /\ UNCHANGED <<open, cost, total>>
    <2>1. Charge = 0 /\ sent = total + cost + Charge /\ total \in Nat /\ cost \in Nat
      BY <1>1, Charges
    <2>2. cost' \in Nat /\ total' \in Nat /\ sent = total' + cost'
      BY <1>4, <2>1
    <2>3. QED
      BY <1>1, <1>4, <2>2 DEF Prepares
  <1>5. CASE Over /\ Ends
    BY <1>1, <1>5 DEF EndsTurn, Ends, Settle, AtTool
  <1>6. QED
    BY <1>2, <1>3, <1>4, <1>5, Stores

\* Every step is of one of these kinds, or hands a request off, or begins a round of calls.
LEMMA Kinds ==
  ASSUME Inv, Next
  PROVE  Untouched \/ EndsTurn \/ Refuses \/ Prepares \/ Grows \/ HandOff \/ Calls
  <1>1. CASE Submit
    BY <1>1 DEF Submit, Untouched, AtTool, Spawn, CancelTask, ghost
  <1>2. CASE Stop \/ ShutdownCancels
    BY <1>2 DEF Stop, ShutdownCancels, Untouched, AtTool, CancelTask, ghost
  <1>3. CASE Drain
    <2>1. sent' = sent /\ ~AtTool'
      BY <1>3 DEF Drain, ghost, Spawn, AtTool
    <2>2. CASE ended = "cancelled" /\ ~finalized /\ awaiting
      <3>1. open /\ Interrupted
        BY <1>3, <2>2 DEF Drain, Inv, TaskInv
      <3>2. QED
        BY <2>1, <3>1, InterruptedIsOver DEF EndsTurn
    <2>3. CASE ~(ended = "cancelled" /\ ~finalized /\ awaiting)
      <3>1. UNCHANGED conversation
        BY <1>3, <2>3 DEF Drain
      <3>2. QED
        BY <2>1, <3>1 DEF Untouched
    <2>4. QED
      BY <2>2, <2>3
  <1>4. CASE Begin
    BY <1>4, BeginKinds
  <1>5. CASE Answer \/ ProviderFails \/ Unsendable \/ PanelFails \/ Unwound
    BY <1>5, Endings
  <1>6. CASE ToolReturns
    BY <1>6 DEF ToolReturns, Untouched, AtTool, ghost
  <1>7. CASE Swallow
    BY <1>7 DEF Swallow, Untouched, AtTool
  <1>8. CASE StoreResult
    BY <1>8, StoreKinds
  <1>9. CASE CancelUnstarted \/ CancelRaised
    BY <1>9 DEF CancelUnstarted, CancelRaised, Untouched, AtTool, ghost
  <1>10. CASE SwitchStarts \/ SwitchEnds \/ Leave
    BY <1>10 DEF SwitchStarts, SwitchEnds, Leave, Untouched, AtTool, ghost, task
  <1>11. CASE Close
    <2>1. sent' = sent /\ ~AtTool'
      BY <1>11 DEF Close, ghost, task, AtTool, Busy
    <2>2. CASE open
      <3>1. Interrupted
        BY <1>11, <2>2 DEF Close
      <3>2. QED
        BY <2>1, <2>2, <3>1, InterruptedIsOver DEF EndsTurn
    <2>3. CASE ~open
      BY <1>11, <2>1, <2>3 DEF Close, Untouched
    <2>4. QED
      BY <2>2, <2>3
  <1>12. CASE HandOff \/ Calls
    BY <1>12
  <1>13. QED
    BY <1>1, <1>2, <1>3, <1>4, <1>5, <1>6, <1>7, <1>8, <1>9, <1>10, <1>11, <1>12 DEF Next

-----------------------------------------------------------------------------
(* Each part of the invariant is kept.                                     *)

\* No end of a turn moves its bases.
LEMMA ConversationBases ==
  ASSUME Inv, Next, EndsTurn
  PROVE  turnBase' \in Nat /\ iterationBase' \in Nat
  <1>1. turnBase \in Nat /\ iterationBase \in Nat
    BY DEF Inv, Types, TypeOK
  <1>2. CASE Answer \/ ProviderFails \/ Unsendable \/ PanelFails \/ Unwound
    BY <1>1, <1>2 DEF Answer, ProviderFails, Abandon, Unsendable, Rollback, RolledBack, PanelFails,
      Unwound, Interrupted
  <1>3. CASE Drain \/ Close
    BY <1>1, <1>3 DEF Drain, Close, Interrupted, conversation
  <1>4. CASE StoreResult
    BY <1>1, <1>4, StoreKinds, Stores DEF StoreResult, Complete, RolledBack, Over, EndsTurn
  <1>5. CASE Submit \/ Stop \/ ToolReturns \/ Swallow \/ CancelUnstarted \/ CancelRaised
             \/ SwitchStarts \/ SwitchEnds \/ Leave \/ ShutdownCancels
    BY <1>1, <1>5 DEF Submit, Stop, ToolReturns, Swallow, CancelUnstarted, CancelRaised, SwitchStarts,
      SwitchEnds, Leave, ShutdownCancels, conversation
  <1>6. CASE Begin
    BY <1>1, <1>6, Begins DEF conversation, EndsTurn
  <1>7. CASE HandOff \/ Calls
    BY <1>1, <1>7 DEF HandOff, Calls
  <1>8. QED
    BY <1>2, <1>3, <1>4, <1>5, <1>6, <1>7 DEF Next

\* The conversation keeps its types.
LEMMA ConversationTypes ==
  ASSUME Inv, Next
  PROVE  /\ Sound(history') /\ live' \in {"none", "open", "sent"}
         /\ {turnBase', iterationBase'} \subseteq Nat
         /\ open' => turnBase' < iterationBase' /\ iterationBase' <= Len(history')
         /\ cost' \in Nat /\ total' \in Nat /\ sent' \in Nat
  <1>1. /\ Sound(history) /\ live \in {"none", "open", "sent"}
        /\ turnBase \in Nat /\ iterationBase \in Nat /\ Len(history) \in Nat
        /\ open => turnBase < iterationBase /\ iterationBase <= Len(history)
        /\ cost \in Nat /\ total \in Nat /\ sent \in Nat
    BY LenProperties DEF Inv, Types, TypeOK, Sound
  <1>2. CASE Untouched
    BY <1>1, <1>2 DEF Untouched, conversation
  <1>3. CASE EndsTurn
    <2>1. turnBase' \in Nat /\ iterationBase' \in Nat
      BY <1>1, <1>3, ConversationBases
    <2>2. QED
      BY <1>1, <1>3, <2>1 DEF EndsTurn, Over
  <1>4. CASE Refuses
    BY <1>1, <1>4 DEF Refuses
  <1>5. CASE Prepares
    <2>1. iterationBase' <= Len(history')
      BY <1>5 DEF Prepares
    <2>2. QED
      BY <1>1, <1>5, <2>1 DEF Prepares
  <1>6. CASE Grows
    <2>1. Sound(history') /\ Len(history') = Len(history) + 1
      BY <1>6, Storing DEF Grows
    <2>2. open' => iterationBase' <= Len(history')
      BY <1>1, <1>6, <2>1 DEF Grows
    <2>3. QED
      BY <1>1, <1>6, <2>1, <2>2 DEF Grows
  <1>7. CASE HandOff
    BY <1>1, <1>7 DEF HandOff
  <1>8. CASE Calls
    <2>1. Sound(history') /\ Len(history') = Len(history) + 1
      BY <1>8, CallsBegin
    <2>2. /\ UNCHANGED <<open, turnBase, iterationBase, total, sent>>
          /\ cost' = cost + 1 /\ live' = "none"
      BY <1>8 DEF Calls, ghost
    <2>3. cost' \in Nat
      BY <1>1, <2>2
    <2>4. open' => iterationBase' <= Len(history')
      BY <1>1, <2>1, <2>2
    <2>5. QED
      BY <1>1, <2>1, <2>2, <2>3, <2>4
  <1>9. QED
    BY <1>2, <1>3, <1>4, <1>5, <1>6, <1>7, <1>8, Kinds

\* So do the task, the panel and the world.
LEMMA TaskTypes ==
  ASSUME Inv, Next
  PROVE  /\ at' \in {"none", "spawned", "streaming", "tool", "mirroring", "unwinding", "settled"}
         /\ round' \in 0 .. MaxRounds /\ left' \in 0 .. MaxCalls
         /\ cancel' \in {"none", "asked", "raised"} /\ ended' \in {"well", "cancelled", "badly"}
         /\ snapshot' \in [of : Nat, reached : BOOLEAN]
  <1>1. /\ at \in {"none", "spawned", "streaming", "tool", "mirroring", "unwinding", "settled"}
        /\ round \in 0 .. MaxRounds /\ left \in 0 .. MaxCalls
        /\ cancel \in {"none", "asked", "raised"} /\ ended \in {"well", "cancelled", "badly"}
        /\ snapshot \in [of : Nat, reached : BOOLEAN] /\ context.of \in Nat
    BY DEF Inv, Types, TypeOK
  <1>2. CASE Submit \/ Stop \/ Drain \/ ShutdownCancels
    BY <1>1, <1>2 DEF Submit, Stop, Drain, ShutdownCancels, Spawn, CancelTask
  <1>3. CASE Begin
    <2>1. [of |-> context.of, reached |-> FALSE] \in [of : Nat, reached : BOOLEAN]
      BY <1>1
    <2>2. 1 \in 0 .. MaxRounds /\ 0 \in 0 .. MaxCalls
      BY Bounds
    <2>3. cancel' = cancel
      BY <1>3 DEF Begin, Settle
    <2>4. QED
      BY <1>1, <1>3, <2>1, <2>2, <2>3, Begins DEF Settle
  <1>4. CASE HandOff
    <2>1. [snapshot EXCEPT !.reached = TRUE] \in [of : Nat, reached : BOOLEAN]
      BY <1>1
    <2>2. QED
      BY <1>1, <1>4, <2>1 DEF HandOff
  <1>5. CASE Calls
    <2>1. left' \in 1 .. MaxCalls
      BY <1>5, CallsBegin
    <2>2. left' \in 0 .. MaxCalls
      BY <2>1, Bounds
    <2>3. QED
      BY <1>1, <1>5, <2>2 DEF Calls
  <1>6. CASE Answer \/ ProviderFails \/ Unsendable \/ PanelFails \/ Unwound
    BY <1>1, <1>6 DEF Answer, ProviderFails, Unsendable, PanelFails, Unwound, Ends, Settle
  <1>7. CASE ToolReturns \/ Swallow \/ CancelUnstarted \/ CancelRaised
    BY <1>1, <1>7 DEF ToolReturns, Swallow, CancelUnstarted, CancelRaised
  <1>8. CASE StoreResult
    <2>1. round < MaxRounds => round + 1 \in 0 .. MaxRounds
      BY <1>1, Bounds
    <2>2. left > 1 => left - 1 \in 0 .. MaxCalls
      BY <1>1, Bounds
    <2>3. 0 \in 0 .. MaxCalls
      BY Bounds
    <2>4. QED
      BY <1>1, <1>8, <2>1, <2>2, <2>3, Stores DEF Ends, Settle
  <1>9. CASE SwitchStarts \/ SwitchEnds \/ Leave \/ Close
    BY <1>1, <1>9 DEF SwitchStarts, SwitchEnds, Leave, Close, task
  <1>10. QED
    BY <1>2, <1>3, <1>4, <1>5, <1>6, <1>7, <1>8, <1>9 DEF Next

\* And the panel and the world.
LEMMA PanelTypes ==
  ASSUME Inv, Next
  PROVE  /\ submitted' \in 0 .. MaxPrompts
         /\ replacement' \in 0 .. submitted' /\ turn' \in 0 .. submitted'
         /\ app' \in {"up", "leaving", "gone"}
         /\ context' \in [of : Nat, switching : BOOLEAN]
  <1>1. /\ submitted \in 0 .. MaxPrompts /\ replacement \in 0 .. submitted /\ turn \in 0 .. submitted
        /\ app \in {"up", "leaving", "gone"} /\ context \in [of : Nat, switching : BOOLEAN]
    BY DEF Inv, Types, TypeOK
  <1>2. CASE Submit
    <2>1. /\ submitted' = submitted + 1 /\ submitted < MaxPrompts
          /\ (replacement' = submitted' /\ turn' = turn) \/ (replacement' = 0 /\ turn' = submitted')
          /\ UNCHANGED world
      BY <1>2 DEF Submit, Spawn
    <2>2. submitted' \in 0 .. MaxPrompts /\ turn \in 0 .. submitted' /\ 0 \in 0 .. submitted'
          /\ submitted' \in 0 .. submitted'
      BY <1>1, <2>1, Bounds
    <2>3. QED
      BY <1>1, <2>1, <2>2 DEF world
  <1>3. CASE Stop \/ Drain
    <2>1. 0 \in 0 .. submitted
      BY <1>1, Bounds
    <2>2. /\ submitted' = submitted /\ replacement' = 0 /\ turn' \in {turn, replacement}
          /\ UNCHANGED world
      BY <1>3 DEF Stop, Drain, Spawn
    <2>3. QED
      BY <1>1, <2>1, <2>2 DEF world
  <1>4. CASE Begin
    <2>1. UNCHANGED <<replacement, submitted, turn, world>>
      BY <1>4, Begins DEF Begin, panel, Shown
    <2>2. QED
      BY <1>1, <2>1 DEF world
  <1>5. CASE StoreResult
    <2>1. UNCHANGED <<replacement, submitted, turn, world>>
      BY <1>5 DEF StoreResult, panel, Ends, Shown
    <2>2. QED
      BY <1>1, <2>1 DEF world
  <1>6. CASE Answer \/ ProviderFails \/ Unsendable \/ PanelFails \/ Unwound
    BY <1>1, <1>6 DEF Answer, ProviderFails, Unsendable, PanelFails, Unwound, Ends, Shown, world
  <1>7. CASE HandOff \/ Calls \/ ToolReturns \/ Swallow \/ CancelUnstarted \/ CancelRaised \/ ShutdownCancels
    BY <1>1, <1>7 DEF HandOff, Calls, ToolReturns, Swallow, CancelUnstarted, CancelRaised,
      ShutdownCancels, panel, world
  <1>8. CASE SwitchStarts
    <2>1. [context EXCEPT !.switching = TRUE] \in [of : Nat, switching : BOOLEAN]
      BY <1>1
    <2>2. QED
      BY <1>1, <1>8, <2>1 DEF SwitchStarts, panel
  <1>9. CASE SwitchEnds
    <2>1. PICK c \in {context.of, context.of + 1} : context' = [of |-> c, switching |-> FALSE]
      BY <1>9 DEF SwitchEnds
    <2>2. c \in Nat
      BY <1>1
    <2>3. QED
      BY <1>1, <1>9, <2>1, <2>2 DEF SwitchEnds, panel
  <1>10. CASE Leave \/ Close
    BY <1>1, <1>10 DEF Leave, Close, panel
  <1>11. QED
    BY <1>2, <1>3, <1>4, <1>5, <1>6, <1>7, <1>8, <1>9, <1>10 DEF Next

\* Together they keep TypeOK.
LEMMA TypesStep == ASSUME Inv, Next PROVE Types'
  <1>1. \A i \in DOMAIN history' : history'[i].role \in Roles /\ history'[i].turn \in 1 .. MaxPrompts
    <2>1. Sound(history') /\ DOMAIN history' = 1 .. Len(history')
      BY ConversationTypes, LenProperties DEF Sound
    <2>2. QED
      BY <2>1, Elements
  <1>2. TypeOK'
    BY <1>1, ConversationTypes, TaskTypes, PanelTypes DEF TypeOK
  <1>3. QED
    BY <1>2, ConversationTypes, TaskTypes, PanelTypes DEF Types, Sound

\* A turn at work is open and the session's.
LEMMA TaskStep == ASSUME Inv, Next PROVE TaskInv'
  <1>1. TaskInv /\ at \in {"none", "spawned", "streaming", "tool", "mirroring", "unwinding", "settled"}
    BY DEF Inv, Types, TypeOK
  <1>2. CASE Submit
    <2>1. submitted' # 0
      BY <1>2 DEF Submit, Inv, Types
    <2>2. UNCHANGED <<conversation, active, awaiting, closed, app>>
      BY <1>2 DEF Submit, CancelTask, session, world
    <2>3. \/ Busy /\ UNCHANGED <<at, finalized, turn>>
          \/ ~Busy /\ at' = "spawned" /\ finalized' = FALSE /\ turn' = submitted'
      BY <1>2 DEF Submit, Spawn
    <2>4. QED
      BY <1>1, <2>1, <2>2, <2>3 DEF TaskInv, conversation, Busy
  <1>3. CASE Stop \/ ShutdownCancels
    <2>1. UNCHANGED <<conversation, active, awaiting, closed, app, at, finalized, turn>>
      BY <1>3 DEF Stop, ShutdownCancels, CancelTask, world, panel
    <2>2. QED
      BY <1>1, <2>1 DEF TaskInv, conversation
  <1>4. CASE Drain
    <2>1. at = "settled" /\ UNCHANGED <<active, closed, app>>
      BY <1>4 DEF Drain, world
    <2>2. \/ at' = "spawned" /\ finalized' = FALSE /\ turn' = replacement /\ replacement # 0
          \/ at' = "none"
      BY <1>4 DEF Drain, Spawn
    <2>3. live' = "none" /\ (awaiting' <=> open')
      <3>1. live = "none" /\ (awaiting <=> open)
        BY <1>1, <2>1 DEF TaskInv
      <3>2. \/ Interrupted /\ awaiting' = FALSE
            \/ UNCHANGED <<conversation, awaiting>>
        BY <1>4 DEF Drain
      <3>3. QED
        BY <3>1, <3>2 DEF Interrupted, conversation
    <2>4. QED
      BY <1>1, <2>1, <2>2, <2>3 DEF TaskInv
  <1>5. CASE Begin
    <2>1. at = "spawned" /\ UNCHANGED <<app>>
      BY <1>5 DEF Begin, world
    <2>2. CASE UNCHANGED <<conversation, session, panel>> /\ Settle("badly")
      BY <1>1, <2>1, <2>2 DEF TaskInv, conversation, session, panel, Settle
    <2>3. CASE /\ ~open /\ open' /\ iterationBase' = Len(history')
               /\ at' = "streaming" /\ active' /\ live' = "open"
               /\ UNCHANGED <<awaiting, closed>>
      BY <1>1, <2>1, <2>3 DEF TaskInv
    <2>4. CASE /\ at' = "settled"
               /\ UNCHANGED <<open, live, active, awaiting, closed>>
      BY <1>1, <2>1, <2>4 DEF TaskInv
    <2>5. QED
      BY <1>5, <2>2, <2>3, <2>4, Begins
  <1>6. CASE HandOff
    BY <1>1, <1>6 DEF HandOff, TaskInv, session, panel, world
  <1>7. CASE Calls
    BY <1>1, <1>7 DEF Calls, TaskInv, session, panel, world
  <1>8. CASE ToolReturns \/ Swallow \/ CancelUnstarted \/ CancelRaised
    BY <1>1, <1>8 DEF ToolReturns, Swallow, CancelUnstarted, CancelRaised, TaskInv, conversation,
      session, panel, world
  <1>9. CASE Answer \/ ProviderFails \/ Unsendable \/ PanelFails \/ Unwound
    <2>1. /\ at' = "settled" /\ active' = FALSE /\ awaiting' = open'
          /\ UNCHANGED <<closed, app>>
      BY <1>9 DEF Answer, ProviderFails, Unsendable, PanelFails, Unwound, Ends, Settle, Release, world
    <2>2. ~open' /\ live' = "none"
      BY <1>9, Endings DEF EndsTurn, Over
    <2>3. QED
      BY <1>1, <2>1, <2>2 DEF TaskInv
  <1>10. CASE StoreResult
    <2>1. live = "none" /\ open /\ active /\ ~awaiting /\ app' = app /\ at = "mirroring"
      BY <1>1, <1>10 DEF StoreResult, TaskInv, world
    <2>2. CASE Release /\ Settle("well") /\ UNCHANGED <<open, live>>
      BY <1>1, <2>1, <2>2 DEF Release, Settle, TaskInv
    <2>3. CASE at' = "tool" /\ UNCHANGED <<open, live, session>>
      BY <1>1, <2>1, <2>3 DEF TaskInv, session
    <2>4. CASE /\ iterationBase' = Len(history') /\ live' = "open" /\ at' = "streaming"
               /\ UNCHANGED <<open, session>>
      BY <1>1, <2>1, <2>4 DEF TaskInv, session
    <2>5. CASE Over /\ Ends
      BY <1>1, <2>1, <2>5 DEF Over, Ends, Release, Settle, TaskInv
    <2>6. QED
      BY <1>10, <2>2, <2>3, <2>4, <2>5, Stores
  <1>11. CASE SwitchStarts \/ SwitchEnds \/ Leave
    <2>1. UNCHANGED <<conversation, session, task, panel>> /\ (app = "gone" => app' = "gone")
      BY <1>11 DEF SwitchStarts, SwitchEnds, Leave
    <2>2. QED
      BY <1>1, <2>1 DEF TaskInv, conversation, session, task, panel
  <1>12. CASE Close
    <2>1. /\ ~Busy /\ app' = "gone" /\ awaiting' = FALSE
          /\ UNCHANGED <<active, at, finalized, turn>>
      BY <1>12 DEF Close, task, panel
    <2>2. at \in {"none", "settled"} /\ live = "none"
      BY <1>1, <2>1 DEF Busy, TaskInv
    <2>3. ~open' /\ live' = "none"
      BY <1>12, <2>2 DEF Close, Interrupted, conversation
    <2>4. QED
      BY <1>1, <2>1, <2>2, <2>3 DEF TaskInv
  <1>13. QED
    BY <1>2, <1>3, <1>4, <1>5, <1>6, <1>7, <1>8, <1>9, <1>10, <1>11, <1>12 DEF Next

\* The books balance.
LEMMA ChargeStep == ASSUME Inv, Next PROVE ChargeInv'
  <1>1. /\ sent = IF open THEN total + cost + Charge ELSE total
        /\ sent \in Nat /\ total \in Nat /\ cost \in Nat
    BY DEF Inv, ChargeInv, Types
  <1>2. CASE Untouched
    BY <1>1, <1>2 DEF Untouched, conversation, ChargeInv, Charge
  <1>3. CASE EndsTurn
    BY <1>3 DEF EndsTurn, Over, ChargeInv
  <1>4. CASE Refuses
    BY <1>1, <1>4 DEF Refuses, ChargeInv
  <1>5. CASE Prepares
    <2>1. Charge' = 0
      BY <1>5 DEF Prepares, Charge
    <2>2. QED
      BY <1>5, <2>1 DEF Prepares, ChargeInv
  <1>6. CASE Grows
    BY <1>1, <1>6 DEF Grows, ChargeInv, Charge
  <1>7. CASE HandOff
    <2>1. /\ live = "open" /\ open /\ live' = "sent" /\ sent' = sent + 1
          /\ UNCHANGED <<open, total, cost>>
      BY <1>7 DEF HandOff, Inv, TaskInv
    <2>2. Charge = 0 /\ Charge' = 1
      BY <2>1 DEF Charge
    <2>3. QED
      BY <1>1, <2>1, <2>2 DEF ChargeInv
  <1>8. CASE Calls
    <2>1. /\ live = "sent" /\ open /\ live' = "none" /\ sent' = sent /\ cost' = cost + 1
          /\ UNCHANGED <<open, total>>
      BY <1>8 DEF Calls, Inv, TaskInv, ghost
    <2>2. Charge = 1 /\ Charge' = 0
      BY <2>1 DEF Charge
    <2>3. QED
      BY <1>1, <2>1, <2>2 DEF ChargeInv
  <1>9. QED
    BY <1>2, <1>3, <1>4, <1>5, <1>6, <1>7, <1>8, Kinds

\* The note stays what the model saw.
LEMMA NoteStep == ASSUME Inv, Next PROVE NoteInv'
  <1>1. NoteInv /\ TaskInv
    BY DEF Inv
  <1>2. CASE Submit \/ Stop \/ Drain \/ ShutdownCancels
    <2>1. UNCHANGED <<active, last, seen>>
      BY <1>2 DEF Submit, Stop, Drain, ShutdownCancels, CancelTask, session, ghost
    <2>2. snapshot' = snapshot
      BY <1>2 DEF Submit, Stop, Drain, ShutdownCancels, Spawn
    <2>3. QED
      BY <1>1, <2>1, <2>2 DEF NoteInv
  <1>3. CASE Begin
    <2>1. ~active /\ UNCHANGED ghost
      BY <1>1, <1>3 DEF Begin, TaskInv
    <2>2. CASE UNCHANGED session
      BY <1>1, <2>1, <2>2 DEF NoteInv, session, ghost
    <2>3. CASE snapshot' = [of |-> context.of, reached |-> FALSE] /\ UNCHANGED last
      BY <1>1, <2>1, <2>3 DEF NoteInv, ghost
    <2>4. QED
      BY <1>3, <2>2, <2>3, Begins
  <1>4. CASE HandOff
    <2>1. active /\ UNCHANGED session
      BY <1>1, <1>4 DEF HandOff, TaskInv
    <2>2. snapshot'.reached = TRUE /\ snapshot'.of = snapshot.of /\ seen' = snapshot.of
      BY <1>4 DEF HandOff, Inv, Types
    <2>3. QED
      BY <2>1, <2>2 DEF NoteInv, session
  <1>5. CASE Calls \/ ToolReturns \/ Swallow \/ CancelUnstarted \/ CancelRaised
    BY <1>1, <1>5 DEF Calls, ToolReturns, Swallow, CancelUnstarted, CancelRaised, session, ghost, NoteInv
  <1>6. ASSUME active, Release, Settle("well") \/ Settle("cancelled"), seen' = seen
        PROVE  NoteInv'
    BY <1>1, <1>6 DEF Release, Settle, NoteInv
  <1>7. CASE Answer \/ ProviderFails \/ Unsendable \/ PanelFails \/ Unwound
    BY <1>1, <1>6, <1>7 DEF Answer, ProviderFails, Unsendable, PanelFails, Unwound, Ends, ghost, TaskInv
  <1>8. CASE StoreResult
    <2>1. active /\ UNCHANGED ghost
      BY <1>1, <1>8 DEF StoreResult, TaskInv
    <2>2. CASE UNCHANGED <<session, snapshot>>
      BY <1>1, <2>1, <2>2 DEF NoteInv, session, ghost
    <2>3. QED
      BY <1>6, <1>8, <2>1, <2>2, Stores DEF Ends, ghost
  <1>9. CASE SwitchStarts \/ SwitchEnds \/ Leave \/ Close
    BY <1>1, <1>9 DEF SwitchStarts, SwitchEnds, Leave, Close, session, task, ghost, NoteInv
  <1>10. QED
    BY <1>2, <1>3, <1>4, <1>5, <1>7, <1>8, <1>9 DEF Next

\* Quiet stays quiet.
LEMMA QuietStep == ASSUME Inv, Next PROVE QuietInv'
  <1> DEFINE Quiet ==
        /\ at \in {"none", "spawned", "settled"} => ~open
        /\ at \in {"spawned", "streaming", "tool", "mirroring"} => cancel # "raised"
        /\ at \in {"streaming", "tool", "mirroring"} /\ halted => cancel = "asked"
        /\ at \in {"none", "settled"} /\ app = "up" /\ running =>
             at = "settled" /\ ended = "cancelled" /\ ~finalized
  <1>1. /\ TaskInv /\ QuietInv
        /\ at \in {"none", "spawned", "streaming", "tool", "mirroring", "unwinding", "settled"}
        /\ cancel \in {"none", "asked", "raised"}
    BY DEF Inv, Types, TypeOK
  <1>2. CASE swallowed
    <2>1. swallowed' = swallowed \/ swallowed' = TRUE
      <3>1. CASE Swallow
        BY <3>1 DEF Swallow
      <3>2. CASE HandOff
        BY <3>2 DEF HandOff
      <3>3. CASE ~Swallow /\ ~HandOff
        BY <3>3 DEF Next, Submit, Stop, Drain, Begin, Answer, Calls, ProviderFails, Unsendable,
          ToolReturns, StoreResult, PanelFails, CancelUnstarted, CancelRaised, Unwound, SwitchStarts,
          SwitchEnds, Leave, ShutdownCancels, Close, Ends, ghost
      <3>4. QED
        BY <3>1, <3>2, <3>3
    <2>2. QED
      BY <1>2, <2>1 DEF QuietInv
  <1>3. CASE ~swallowed
    <2>1. Quiet
      BY <1>1, <1>3 DEF QuietInv
    <2>2. SUFFICES ASSUME ~Swallow PROVE Quiet'
      BY DEF QuietInv, Swallow
    <2>3. CASE Submit
      <3>1. UNCHANGED <<open, app>>
        BY <2>3 DEF Submit, conversation, world
      <3>2. CASE Busy
        <4>1. CancelTask /\ UNCHANGED <<at, ended, finalized, running>>
          BY <2>3, <3>2 DEF Submit
        <4>2. QED
          BY <1>1, <2>1, <3>1, <4>1 DEF CancelTask
      <3>3. CASE ~Busy
        <4>1. ~open
          BY <1>1, <2>1, <3>3 DEF Busy
        <4>2. at' = "spawned" /\ cancel' = "none"
          BY <2>3, <3>3 DEF Submit, Spawn
        <4>3. QED
          BY <3>1, <4>1, <4>2
      <3>4. QED
        BY <3>2, <3>3
    <2>4. CASE Stop \/ ShutdownCancels
      <3>1. CancelTask /\ UNCHANGED <<open, app, at, ended, finalized, running>>
        BY <2>4 DEF Stop, ShutdownCancels, conversation, world, panel
      <3>2. QED
        BY <1>1, <2>1, <3>1 DEF CancelTask
    <2>5. CASE Drain
      <3>1. at = "settled" /\ ~open /\ ~awaiting /\ app' = app
        BY <1>1, <2>1, <2>5 DEF Drain, TaskInv, world
      <3>2. open' = open
        BY <2>5, <3>1 DEF Drain, conversation
      <3>3. CASE at' = "spawned" /\ cancel' = "none"
        BY <3>1, <3>2, <3>3
      <3>4. CASE /\ at' = "none"
                 /\ running' = (running /\ ~((ended = "cancelled" /\ ~finalized) /\ app = "up"))
        BY <2>1, <3>1, <3>2, <3>4
      <3>5. QED
        BY <2>5, <3>3, <3>4 DEF Drain, Spawn
    <2>6. CASE Begin
      <3>1. at = "spawned" /\ ~open /\ ~active /\ ~awaiting /\ app' = app /\ cancel # "raised"
        BY <1>1, <2>1, <2>6 DEF Begin, TaskInv, world
      <3>2. CASE UNCHANGED conversation /\ Settle("badly") /\ (awaiting \/ active \/ closed)
        <4>1. app' = "gone" /\ at' = "settled" /\ ~open'
          BY <1>1, <3>1, <3>2 DEF TaskInv, conversation, Settle
        <4>2. QED
          BY <4>1
      <3>3. CASE at' = "streaming" /\ ~halted' /\ UNCHANGED cancel
        BY <3>1, <3>3
      <3>4. CASE at' = "settled" /\ Shown /\ UNCHANGED open
        BY <3>1, <3>4 DEF Shown
      <3>5. QED
        BY <2>6, <3>2, <3>3, <3>4, Begins
    <2>7. CASE HandOff \/ Calls
      <3>1. /\ UNCHANGED <<open, cancel, halted>> /\ at = "streaming"
            /\ at' \in {"streaming", "tool"}
        BY <2>7 DEF HandOff, Calls, session
      <3>2. QED
        BY <2>1, <3>1
    <2>8. CASE Answer \/ ProviderFails \/ Unsendable \/ PanelFails
      <3>1. at' = "settled" /\ running' = FALSE
        BY <2>8 DEF Answer, ProviderFails, Unsendable, PanelFails, Ends, Settle, Shown
      <3>2. ~open'
        BY <2>8, Endings DEF EndsTurn, Over
      <3>3. QED
        BY <3>1, <3>2
    <2>9. CASE Unwound
      <3>1. /\ at' = "settled" /\ running' = (running /\ app # "up") /\ app' = app
        BY <2>9 DEF Unwound, Settle, world
      <3>2. ~open'
        BY <2>9, Endings DEF EndsTurn, Over
      <3>3. QED
        BY <3>1, <3>2
    <2>10. CASE ToolReturns
      <3>1. at = "tool" /\ at' = "mirroring" /\ UNCHANGED <<open, cancel, halted>>
        BY <2>10 DEF ToolReturns, conversation, session
      <3>2. QED
        BY <2>1, <3>1
    <2>11. CASE StoreResult
      <3>1. at = "mirroring" /\ cancel # "asked" /\ ~halted
        BY <2>1, <2>11 DEF StoreResult, Alive
      <3>2. CASE at' \in {"tool", "streaming"} /\ UNCHANGED <<session, cancel>>
        BY <2>1, <3>1, <3>2 DEF session
      <3>3. CASE Over /\ Ends
        BY <3>3 DEF Over, Ends, Settle, Shown
      <3>4. QED
        BY <2>11, <3>1, <3>2, <3>3, Stores
    <2>12. CASE CancelUnstarted
      <3>1. at = "spawned" /\ ~finalized /\ ~open
        BY <1>1, <2>1, <2>12 DEF CancelUnstarted, TaskInv
      <3>2. at' = "settled" /\ ended' = "cancelled" /\ UNCHANGED <<open, finalized>>
        BY <2>12 DEF CancelUnstarted, conversation, panel
      <3>3. QED
        BY <3>1, <3>2
    <2>13. CASE CancelRaised
      BY <2>13 DEF CancelRaised
    <2>14. CASE SwitchStarts \/ SwitchEnds \/ Leave
      <3>1. UNCHANGED <<conversation, session, task, panel>> /\ (app' = "up" => app = "up")
        BY <2>14 DEF SwitchStarts, SwitchEnds, Leave
      <3>2. QED
        BY <2>1, <3>1 DEF conversation, session, task, panel
    <2>15. CASE Close
      <3>1. at \in {"none", "settled"} /\ ~open
        BY <1>1, <2>1, <2>15 DEF Close, Busy
      <3>2. app' = "gone" /\ UNCHANGED <<at, open>>
        BY <2>15, <3>1 DEF Close, conversation, task
      <3>3. QED
        BY <3>1, <3>2
    <2>16. QED
      BY <2>2, <2>3, <2>4, <2>5, <2>6, <2>7, <2>8, <2>9, <2>10, <2>11, <2>12, <2>13, <2>14, <2>15 DEF Next
  <1>4. QED
    BY <1>2, <1>3

\* What is before the last round stays whole, and a round of results stays one.
LEMMA PairStep == ASSUME Inv, Next PROVE PairInv'
  <1>1. PairInv /\ TaskInv /\ TaskInv'
    BY TaskStep DEF Inv
  <1>2. CASE Untouched
    BY <1>1, <1>2 DEF Untouched, conversation, PairInv, AtTool, Truncated
  <1>3. CASE EndsTurn
    BY <1>3 DEF EndsTurn, Over, PairInv, AtTool
  <1>4. CASE Refuses
    BY <1>4 DEF Refuses, PairInv, AtTool
  <1>5. CASE Prepares
    BY <1>5 DEF Prepares, PairInv
  <1>6. CASE Grows
    <2>1. /\ open /\ Paired(Truncated(iterationBase)) /\ (turnBase = 0 \/ history[turnBase + 1].role = "user")
          /\ left > 0 /\ iterationBase < Len(history)
          /\ history[iterationBase + 1].role = "assistant"
          /\ iterationBase + 1 + history[iterationBase + 1].calls = Len(history) + left
          /\ \A j \in iterationBase + 2 .. Len(history) : history[j].role = "tool"
      BY <1>1, <1>6 DEF Grows, TaskInv, PairInv
    <2>2. /\ turnBase \in Nat /\ iterationBase \in Nat /\ turnBase < iterationBase
      BY <2>1, Bases DEF Inv
    <2>3. /\ Sound(history') /\ Sound(history) /\ Len(history') = Len(history) + 1 /\ Len(history) \in Nat
          /\ \A i \in 1 .. Len(history) : history'[i] = history[i]
          /\ history'[Len(history) + 1].role = "tool"
          /\ UNCHANGED <<open, turnBase, iterationBase>>
      BY <1>6, Storing DEF Grows, Inv, Types
    <2>4. Truncated(iterationBase)' = Truncated(iterationBase)
      <3>1. iterationBase \in 0 .. Len(history) /\ Len(history) <= Len(history')
        BY <2>1, <2>2, <2>3
      <3>2. SubSeq(history', 1, iterationBase) = SubSeq(history, 1, iterationBase)
        BY <2>3, <3>1, Beginnings
      <3>3. QED
        BY <2>3, <3>2 DEF Truncated
    <2>5. turnBase' = 0 \/ history'[turnBase' + 1].role = "user"
      BY <2>1, <2>2, <2>3
    <2>6. ASSUME AtTool'
          PROVE  /\ left' > 0 /\ iterationBase' < Len(history')
                 /\ history'[iterationBase' + 1].role = "assistant"
                 /\ iterationBase' + 1 + history'[iterationBase' + 1].calls = Len(history') + left'
      <3>1. left > 1 /\ left' = left - 1 /\ left \in 0 .. MaxCalls
        BY <1>6, <2>6 DEF Grows, Inv, Types, TypeOK
      <3>2. iterationBase + 1 \in 1 .. Len(history)
        BY <2>1, <2>2, <2>3
      <3>3. history'[iterationBase' + 1] = history[iterationBase + 1]
        BY <2>3, <3>2
      <3>4. history[iterationBase + 1].calls \in Nat
        BY <2>3, <3>2, Elements
      <3>5. QED
        BY <2>1, <2>2, <2>3, <3>1, <3>3, <3>4, Bounds
    <2>7. \A j \in iterationBase' + 2 .. Len(history') : history'[j].role = "tool"
      BY <2>1, <2>2, <2>3
    <2>8. open' /\ Paired(Truncated(iterationBase)')
      BY <2>1, <2>3, <2>4
    <2>9. QED
      BY <2>5, <2>6, <2>7, <2>8 DEF PairInv, AtTool
  <1>7. CASE HandOff
    BY <1>1, <1>7 DEF HandOff, PairInv, Truncated
  <1>8. CASE Calls
    <2>1. /\ open /\ Sound(history') /\ iterationBase < Len(history')
          /\ left' \in 1 .. MaxCalls /\ Len(history') = Len(history) + 1
          /\ history'[iterationBase + 1].role = "assistant"
          /\ iterationBase + 1 + history'[iterationBase + 1].calls = Len(history') + left'
          /\ iterationBase + 2 > Len(history')
          /\ \A i \in 1 .. Len(history) : history'[i] = history[i]
          /\ Truncated(iterationBase)' = Truncated(iterationBase)
      BY <1>8, CallsBegin
    <2>2. UNCHANGED <<open, turnBase, iterationBase>>
      BY <1>8 DEF Calls
    <2>3. /\ turnBase \in Nat /\ iterationBase \in Nat /\ Len(history) \in Nat
          /\ turnBase < iterationBase /\ iterationBase <= Len(history)
      BY <2>1, Bases DEF Inv
    <2>4. Paired(Truncated(iterationBase)) /\ (turnBase = 0 \/ history[turnBase + 1].role = "user")
      BY <1>1, <2>1 DEF PairInv
    <2>5. turnBase' = 0 \/ history'[turnBase' + 1].role = "user"
      <3>1. turnBase + 1 \in 1 .. Len(history) /\ turnBase' = turnBase
        BY <2>2, <2>3
      <3>2. history'[turnBase + 1] = history[turnBase + 1]
        BY <2>1, <3>1
      <3>3. QED
        BY <2>4, <3>1, <3>2
    <2>6. left' > 0
      BY <2>1, Bounds
    <2>7. \A j \in iterationBase' + 2 .. Len(history') : history'[j].role = "tool"
      BY <2>1, <2>2, <2>3
    <2>8. open' /\ Paired(Truncated(iterationBase)')
      BY <2>1, <2>2, <2>4
    <2>9. /\ iterationBase' < Len(history') /\ history'[iterationBase' + 1].role = "assistant"
          /\ iterationBase' + 1 + history'[iterationBase' + 1].calls = Len(history') + left'
      BY <2>1, <2>2
    <2>10. QED
      BY <2>5, <2>6, <2>7, <2>8, <2>9 DEF PairInv
  <1>9. QED
    BY <1>2, <1>3, <1>4, <1>5, <1>6, <1>7, <1>8, Kinds

-----------------------------------------------------------------------------
(* The invariant, and what follows from it.                                *)

\* It holds before the first prompt.
LEMMA InvInit == Init => Inv
  <1> SUFFICES ASSUME Init PROVE Inv
    OBVIOUS
  <1>1. history = <<>> /\ history \in Seq(Messages) /\ Len(history) = 0 /\ DOMAIN history = {}
    BY EmptySeq DEF Init
  <1>2. Sound(history) /\ Paired(history)
    BY <1>1 DEF Sound, Paired
  <1>3. Types
    <2>1. [of |-> 0, reached |-> FALSE] \in [of : Nat, reached : BOOLEAN]
          /\ [of |-> 1, switching |-> FALSE] \in [of : Nat, switching : BOOLEAN]
      OBVIOUS
    <2>2. TypeOK
      BY <1>1, Bounds DEF Init, TypeOK
    <2>3. QED
      BY <1>2, <2>1, <2>2, Bounds DEF Init, Types
  <1>4. TaskInv /\ QuietInv
    BY DEF Init, TaskInv, QuietInv
  <1>5. ChargeInv /\ NoteInv
    BY DEF Init, ChargeInv, NoteInv
  <1>6. PairInv
    BY <1>2 DEF Init, PairInv
  <1>7. QED
    BY <1>3, <1>4, <1>5, <1>6 DEF Inv

\* Every step keeps it, a stutter too.
LEMMA InvNext == Inv /\ [Next]_vars => Inv'
  <1> SUFFICES ASSUME Inv, [Next]_vars PROVE Inv'
    OBVIOUS
  <1>1. CASE Next
    BY <1>1, TypesStep, TaskStep, ChargeStep, NoteStep, QuietStep, PairStep DEF Inv
  <1>2. CASE UNCHANGED vars
    <2>1. UNCHANGED <<conversation, session, task, panel, world, ghost>>
      BY <1>2 DEF vars
    <2>2. Types'
      BY <2>1 DEF Inv, Types, TypeOK, Sound, conversation, session, task, panel, world, ghost
    <2>3. TaskInv' /\ QuietInv'
      BY <2>1 DEF Inv, TaskInv, QuietInv, conversation, session, task, panel, world, ghost
    <2>4. ChargeInv' /\ NoteInv'
      BY <2>1 DEF Inv, ChargeInv, Charge, NoteInv, conversation, session, task, ghost
    <2>5. PairInv'
      BY <2>1 DEF Inv, PairInv, Paired, Truncated, conversation, task
    <2>6. QED
      BY <2>2, <2>3, <2>4, <2>5 DEF Inv
  <1>3. QED
    BY <1>1, <1>2

\* So it always holds.
THEOREM Invariance == Spec => []Inv
  BY InvInit, InvNext, PTL DEF Spec

\* The types of the state.
THEOREM TypeCorrect == Spec => []TypeOK
  <1>1. Inv => TypeOK
    BY DEF Inv, Types
  <1>2. QED
    BY <1>1, Invariance, PTL

\* What a provider is sent, and what a turn leaves behind, however it ended and whatever was
\* dropped to make room for it, is a history the provider accepts (ConversationState).
THEOREM HistoriesAreSendable == Spec => []HistoryIsSendable
  <1>1. Inv => HistoryIsSendable
    BY LiveIsWhole DEF HistoryIsSendable, Inv, PairInv
  <1>2. QED
    BY <1>1, Invariance, PTL

\* Between turns the totals count every request the provider got, each of them once
\* (ConversationState's usage).
THEOREM RequestsAreChargedOnce == Spec => []ChargedOnce
  <1>1. Inv => ChargedOnce
    BY DEF ChargedOnce, Inv, ChargeInv
  <1>2. QED
    BY <1>1, Invariance, PTL

\* Between turns the session knows which context the model saw last (AgentSession._last_started).
THEOREM NotesAreOwed == Spec => []NoteIsOwed
  <1>1. Inv => NoteIsOwed
    BY DEF NoteIsOwed, Inv, NoteInv
  <1>2. QED
    BY <1>1, Invariance, PTL

\* Unless a tool absorbed the cancellation of a turn, an agent at rest owes nothing, has no turn
\* open, and its panel is out of its running state.
THEOREM NoTurnWedgesTheAgent == Spec => []NothingWedges
  <1>1. Inv => NothingWedges
    <2>1. ASSUME Inv, ~swallowed
          PROVE  /\ ~Busy => ~active /\ ~awaiting /\ ~open
                 /\ at = "none" /\ app = "up" => ~running
      BY <2>1 DEF Inv, TaskInv, QuietInv, Busy
    <2>2. QED
      BY <2>1 DEF NothingWedges
  <1>2. QED
    BY <1>1, Invariance, PTL
==============================================================================
