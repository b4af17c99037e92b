------------------------ MODULE FollowupQueueProofs ------------------------
(***************************************************************************)
(* Proofs about FollowupQueue, for any messages, routes, settings and queue *)
(* objects, and any number of clears.                                       *)
(*                                                                          *)
(* The inductive invariant, QueueInv, says where a message can be: a queued *)
(* message has one place in one object, what was counted as dropped is not  *)
(* queued, and the prompt of a turn in flight is a prefix of what is left   *)
(* of the items the drain had read.  `Held` takes the queues as parameters, *)
(* for a message is delivered in two stages: an object may be made, or made *)
(* anew, before anything is put in it.                                      *)
(***************************************************************************)
EXTENDS FollowupQueue, SequenceTheorems, TLAPS

Queues == [Object -> Seq(Message)]
Counts == [Object -> SUBSET Message]
Turn == [prompt : SUBSET Message, report : SUBSET Message, take : Nat]
Standing == {"idle", "debounce", "turn"}

-----------------------------------------------------------------------------
(***************************************************************************)
(* The invariant.                                                           *)
(***************************************************************************)
\* A message that has been seen is in the recent-id cache.
Seen(fte, rcn) == \A m \in Message : fte[m] # "new" => m \in rcn

\* Everything in a queue waits for an answer.
Waiting(its, fte) ==
    \A q \in Object : \A i \in 1 .. Len(its[q]) : fte[its[q][i]] = "queued"

\* No message is queued twice, in one object or in two.
InOnePlace(its) ==
    \A q, r \in Object : \A i \in 1 .. Len(its[q]), j \in 1 .. Len(its[r]) :
        its[q][i] = its[r][j] => q = r /\ i = j

\* What a queue counts as dropped has left it.
CountedGone(drp, fte) ==
    \A q \in Object : \A m \in drp[q] : fte[m] \notin {"new", "queued"}

\* A turn is asked about messages that were accepted.
PromptSeen(trn, fte) ==
    \A q \in Object : \A m \in trn[q].prompt : fte[m] # "new"

\* What is still queued of a turn's prompt is at the head of the queue the turn
\* was taken from, among the items that will be removed when it returns.
PromptAhead(its, trn) ==
    \A q, r \in Object : \A i \in 1 .. Len(its[r]) :
        its[r][i] \in trn[q].prompt =>
            /\ q = r /\ i <= trn[q].take
            /\ \A h \in 1 .. i : its[r][h] \in trn[q].prompt

\* A turn without a prompt takes one item at most.  One with a prompt takes
\* nothing else, as long as the whole of the prompt is still queued.
TakesPrompt(its, trn) ==
    \A q \in Object :
        /\ trn[q].prompt = {} => trn[q].take <= 1
        /\ trn[q].prompt # {} => trn[q].take >= 1
        /\ trn[q].prompt # {} /\ trn[q].prompt \subseteq Range(its[q]) =>
               \A i \in 1 .. trn[q].take :
                   i <= Len(its[q]) /\ its[q][i] \in trn[q].prompt

Held(its, drp, trn, fte, rcn) ==
    /\ Seen(fte, rcn)
    /\ Waiting(its, fte)
    /\ InOnePlace(its)
    /\ CountedGone(drp, fte)
    /\ PromptSeen(trn, fte)
    /\ PromptAhead(its, trn)
    /\ TakesPrompt(its, trn)

\* A drain that is not at runFollowup has no turn in flight.
OneTurnEach == \A q \in Object : pc[q] # "turn" => turn[q] = NoTurn

QueueInv ==
    /\ TypeOK
    /\ Held(items, dropped, turn, fate, recent)
    /\ OneTurnEach

-----------------------------------------------------------------------------
(***************************************************************************)
(* Lemmas about sequences.                                                  *)
(***************************************************************************)
\* What the range of a sequence holds.
LEMMA RangeIndexed ==
    ASSUME NEW S, NEW s \in Seq(S)
    PROVE  /\ \A i \in 1 .. Len(s) : s[i] \in Range(s)
           /\ \A x \in Range(s) : \E i \in 1 .. Len(s) : s[i] = x
<1>1. Range(s) = {s[i] : i \in 1 .. Len(s)}
  BY RangeEquality
<1> QED
  BY <1>1

\* Removing items at the head moves the others up (shift and splice).
LEMMA TakenShifts ==
    ASSUME NEW S, NEW s \in Seq(S), NEW k \in Nat
    PROVE  /\ SubSeq(s, k + 1, Len(s)) \in Seq(S)
           /\ Len(SubSeq(s, k + 1, Len(s))) = IF k <= Len(s) THEN Len(s) - k ELSE 0
           /\ \A i \in 1 .. Len(SubSeq(s, k + 1, Len(s))) :
                  i + k \in 1 .. Len(s) /\ SubSeq(s, k + 1, Len(s))[i] = s[i + k]
<1> DEFINE e == SubSeq(s, k + 1, Len(s))
<1>1. Len(s) \in Nat
  BY LenProperties
<1>2. \A i \in k + 1 .. Len(s) : s[i] \in S
  <2> SUFFICES ASSUME NEW i \in k + 1 .. Len(s) PROVE s[i] \in S
    OBVIOUS
  <2>1. i \in 1 .. Len(s)
    BY <1>1
  <2> QED
    BY <2>1, ElementOfSeq
<1>3. /\ e \in Seq(S)
      /\ Len(e) = IF k + 1 <= Len(s) THEN Len(s) - (k + 1) + 1 ELSE 0
      /\ \A i \in 1 .. Len(s) - (k + 1) + 1 : e[i] = s[k + 1 + i - 1]
  <2>1. k + 1 \in Int /\ Len(s) \in Int
    BY <1>1
  <2> QED
    BY <1>2, <2>1, SubSeqProperties
<1> HIDE DEF e
<1>4. Len(e) = IF k <= Len(s) THEN Len(s) - k ELSE 0
  BY <1>1, <1>3
<1>5. ASSUME NEW i \in 1 .. Len(e)
      PROVE  i + k \in 1 .. Len(s) /\ e[i] = s[i + k]
  <2>1. i \in 1 .. Len(s) - (k + 1) + 1 /\ i + k \in 1 .. Len(s) /\ k + 1 + i - 1 = i + k
    BY <1>1, <1>4, <1>5
  <2> QED
    BY <1>3, <2>1
<1> QED
  BY <1>3, <1>4, <1>5 DEF e

\* Without its first n items, and with m at the end, s is e.
MovedUp(s, n, m, e) ==
    /\ Len(e) = Len(s) - n + 1
    /\ e[Len(e)] = m
    /\ \A i \in 1 .. Len(e) : i < Len(e) => i + n \in 1 .. Len(s) /\ e[i] = s[i + n]

\* Evicting items at the head and putting one at the end (enqueueFollowupRun).
LEMMA EvictedAndAppended ==
    ASSUME NEW S, NEW s \in Seq(S), NEW n \in 0 .. Len(s), NEW m \in S, NEW e,
           e = Append(SubSeq(s, n + 1, Len(s)), m)
    PROVE  e \in Seq(S) /\ MovedUp(s, n, m, e)
<1> DEFINE b == SubSeq(s, n + 1, Len(s))
<1>1. Len(s) \in Nat
  BY LenProperties
<1>2. /\ b \in Seq(S)
      /\ Len(b) = IF n <= Len(s) THEN Len(s) - n ELSE 0
      /\ \A i \in 1 .. Len(b) : i + n \in 1 .. Len(s) /\ b[i] = s[i + n]
  <2>1. n \in Nat
    BY <1>1
  <2> QED
    BY <2>1, TakenShifts
<1>3. e = Append(b, m)
  OBVIOUS
<1> HIDE DEF b
<1>4. /\ e \in Seq(S) /\ Len(e) = Len(b) + 1
      /\ \A i \in 1 .. Len(b) : e[i] = b[i]
      /\ e[Len(b) + 1] = m
  <2>1. b \in Seq(S)
    BY <1>2
  <2>2. /\ Append(b, m) \in Seq(S) /\ Len(Append(b, m)) = Len(b) + 1
        /\ \A i \in 1 .. Len(b) : Append(b, m)[i] = b[i]
        /\ Append(b, m)[Len(b) + 1] = m
    BY <2>1, AppendProperties
  <2> DEFINE a == Append(b, m)
  <2>3. /\ a \in Seq(S) /\ Len(a) = Len(b) + 1
        /\ \A i \in 1 .. Len(b) : a[i] = b[i]
        /\ a[Len(b) + 1] = m
    BY <2>2
  <2>4. e = a
    BY <1>3
  <2> HIDE DEF a
  <2> QED
    BY <2>3, <2>4
<1>5. Len(b) = Len(s) - n /\ Len(b) \in Nat
  BY <1>1, <1>2
<1>6. ASSUME NEW i \in 1 .. Len(e), i < Len(e)
      PROVE  i + n \in 1 .. Len(s) /\ e[i] = s[i + n]
  <2>1. i \in 1 .. Len(b)
    BY <1>4, <1>5, <1>6
  <2> QED
    BY <1>2, <1>4, <2>1
<1> QED
  BY <1>4, <1>5, <1>6 DEF MovedUp

\* How many items the cap evicts: none, or at least the one at the head, and
\* never more than there are.
LEMMA OverflowBound ==
    ASSUME NEW s \in Seq(Message), NEW c \in Nat \ {0}
    PROVE  Overflow(s, c) \in 0 .. Len(s)
<1>1. Len(s) \in Nat
  BY LenProperties
<1> QED
  BY <1>1 DEF Overflow

-----------------------------------------------------------------------------
(***************************************************************************)
(* What each handler does to the queues, the turns and the messages.        *)
(***************************************************************************)
\* The queues a message finds: the object under the key, or one made for it.
ItemsFor(q) == IF current = None THEN [items EXCEPT ![q] = <<>>] ELSE items
CountsFor(q) == IF current = None THEN [dropped EXCEPT ![q] = {}] ELSE dropped

Receives(q) == q \in (IF current = None THEN Garbage ELSE {current})

LEMMA MadeHeld ==
    ASSUME QueueInv, NEW q \in Object, Receives(q)
    PROVE  /\ ItemsFor(q) \in Queues
           /\ CountsFor(q) \in Counts
           /\ Held(ItemsFor(q), CountsFor(q), turn, fate, recent)
<1>1. CASE current # None
  BY <1>1 DEF QueueInv, TypeOK, ItemsFor, CountsFor, Queues, Counts
<1>2. CASE current = None
  <2> DEFINE its == ItemsFor(q)
             drp == CountsFor(q)
  <2>1. items \in Queues /\ dropped \in Counts
    BY DEF QueueInv, TypeOK, Queues, Counts
  <2>2. its \in Queues /\ drp \in Counts
    BY <1>2, <2>1 DEF ItemsFor, CountsFor, Queues, Counts
  <2>3. /\ its[q] = <<>> /\ \A r \in Object \ {q} : its[r] = items[r]
        /\ drp[q] = {} /\ \A r \in Object \ {q} : drp[r] = dropped[r]
    BY <1>2, <2>1 DEF ItemsFor, CountsFor, Queues, Counts
  <2>4. Len(its[q]) = 0
    BY <2>3
  <2>5. turn[q] = NoTurn
    BY <1>2 DEF Receives, Garbage, QueueInv, OneTurnEach
  <2>6. \A r \in Object : \A i \in 1 .. Len(its[r]) : r # q /\ its[r] = items[r]
    BY <2>3, <2>4
  <2>7. Held(items, dropped, turn, fate, recent)
    BY DEF QueueInv
  <2> HIDE DEF its, drp
  <2>8. Seen(fate, recent) /\ PromptSeen(turn, fate)
    BY <2>7 DEF Held
  <2>9. Waiting(its, fate)
    BY <2>6, <2>7 DEF Held, Waiting
  <2>10. InOnePlace(its)
    BY <2>6, <2>7 DEF Held, InOnePlace
  <2>11. CountedGone(drp, fate)
    <3> SUFFICES ASSUME NEW r \in Object, NEW m \in drp[r]
                 PROVE  fate[m] \notin {"new", "queued"}
      BY DEF CountedGone
    <3>1. r # q /\ m \in dropped[r]
      BY <2>3
    <3> QED
      BY <3>1, <2>7 DEF Held, CountedGone
  <2>12. PromptAhead(its, turn)
    <3> SUFFICES ASSUME NEW p \in Object, NEW r \in Object, NEW i \in 1 .. Len(its[r]),
                        its[r][i] \in turn[p].prompt
                 PROVE  /\ p = r /\ i <= turn[p].take
                        /\ \A h \in 1 .. i : its[r][h] \in turn[p].prompt
      BY DEF PromptAhead
    <3>1. its[r] = items[r]
      BY <2>6
    <3> QED
      BY <3>1, <2>7 DEF Held, PromptAhead
  <2>13. TakesPrompt(its, turn)
    <3> SUFFICES ASSUME NEW r \in Object
                 PROVE  /\ turn[r].prompt = {} => turn[r].take <= 1
                        /\ turn[r].prompt # {} => turn[r].take >= 1
                        /\ turn[r].prompt # {} /\ turn[r].prompt \subseteq Range(its[r]) =>
                               \A i \in 1 .. turn[r].take :
                                   i <= Len(its[r]) /\ its[r][i] \in turn[r].prompt
      BY DEF TakesPrompt
    <3>1. CASE r = q
      BY <3>1, <2>5 DEF NoTurn
    <3>2. CASE r # q
      <4>1. its[r] = items[r]
        BY <2>3, <3>2
      <4> QED
        BY <4>1, <2>7 DEF Held, TakesPrompt
    <3> QED
      BY <3>1, <3>2
  <2>14. Held(its, drp, turn, fate, recent)
    BY <2>8, <2>9, <2>10, <2>11, <2>12, <2>13 DEF Held
  <2> QED
    BY <2>2, <2>14 DEF its, drp
<1> QED
  BY <1>1, <1>2

\* enqueueFollowupRun takes a message: the cap evicts from the head, and the
\* message goes to the end.
LEMMA AcceptHeld ==
    ASSUME NEW its \in Queues, NEW drp \in Counts,
           TypeOK, Held(its, drp, turn, fate, recent),
           NEW q \in Object, NEW m \in Message, NEW s \in Settings,
           m \notin recent, Accept(q, m, its, drp, s)
    PROVE  /\ items' \in Queues /\ dropped' \in Counts
           /\ recent' \subseteq Message /\ fate' \in [Message -> Fates]
           /\ Held(items', dropped', turn, fate', recent')
           /\ \A r \in Object : \A x \in Range(its[r]) :
                  fate'[x] = "queued" => x \in Range(items'[r])
           /\ \A x \in Message : fate[x] \in {"answered", "cleared"} => fate'[x] = fate[x]
           /\ \A x \in Message : fate'[x] # "answered" \/ fate[x] = "answered"
           /\ m \in Range(items'[q])
<1> DEFINE n == Overflow(its[q], s.cap)
           out == {its[q][i] : i \in 1 .. n}
           gone == IF s.drop = "summarize" THEN "evicted" ELSE "discarded"
<1>1. s.cap \in Nat \ {0}
  BY SettingsAssumption
<1>2. its[q] \in Seq(Message) /\ its \in [Object -> Seq(Message)]
  BY DEF Queues
<1>3. n \in 0 .. Len(its[q]) /\ Len(its[q]) \in Nat
  BY <1>1, <1>2, OverflowBound, LenProperties
<1>4. /\ items' = [its EXCEPT ![q] = Append(SubSeq(@, n + 1, Len(@)), m)]
      /\ dropped' = IF s.drop = "summarize" THEN [drp EXCEPT ![q] = @ \cup out] ELSE drp
      /\ recent' = recent \cup {m}
      /\ fate' = [x \in Message |-> IF x = m THEN "queued"
                                    ELSE IF x \in out THEN gone ELSE fate[x]]
  BY DEF Accept
<1>5. gone \in {"evicted", "discarded"}
  OBVIOUS
<1>6. \A i \in 1 .. n : its[q][i] \in Message
  <2> SUFFICES ASSUME NEW i \in 1 .. n PROVE its[q][i] \in Message
    OBVIOUS
  <2>1. i \in 1 .. Len(its[q])
    BY <1>3
  <2> QED
    BY <1>2, <2>1, ElementOfSeq
<1>7. out \subseteq Message
  BY <1>6
<1>8. \A x \in out : \E i \in 1 .. n : its[q][i] = x
  OBVIOUS
<1>9. \A i \in 1 .. n : its[q][i] \in out
  OBVIOUS
<1> HIDE DEF n, out, gone
<1>10. /\ items'[q] = Append(SubSeq(its[q], n + 1, Len(its[q])), m)
       /\ \A r \in Object \ {q} : items'[r] = its[r]
       /\ DOMAIN items' = Object
  BY <1>2, <1>4
<1>11. /\ items'[q] \in Seq(Message)
       /\ Len(items'[q]) = Len(its[q]) - n + 1
       /\ items'[q][Len(items'[q])] = m
       /\ \A i \in 1 .. Len(items'[q]) :
             i < Len(items'[q]) => i + n \in 1 .. Len(its[q]) /\ items'[q][i] = its[q][i + n]
  <2> DEFINE e == items'[q]
             b == its[q]
  <2>1. b \in Seq(Message) /\ n \in 0 .. Len(b) /\ e = Append(SubSeq(b, n + 1, Len(b)), m)
    BY <1>2, <1>3, <1>10
  <2> HIDE DEF e, b
  <2>2. e \in Seq(Message) /\ MovedUp(b, n, m, e)
    BY <2>1, EvictedAndAppended
  <2> QED
    BY <2>2 DEF e, b, MovedUp
<1>12. items' \in Queues
  BY <1>2, <1>4, <1>10, <1>11 DEF Queues
<1>13. fate \in [Message -> Fates] /\ recent \subseteq Message
  BY DEF TypeOK
<1>14. recent' \subseteq Message /\ fate' \in [Message -> Fates]
  BY <1>4, <1>5, <1>13 DEF Fates
<1>15. dropped' \in Counts
  BY <1>4, <1>7 DEF Counts
<1>16. fate[m] = "new"
  BY DEF Held, Seen
<1>17. \A r \in Object : \A i \in 1 .. Len(its[r]) : its[r][i] # m /\ fate[its[r][i]] = "queued"
  BY <1>16 DEF Held, Waiting
<1>18. /\ fate'[m] = "queued"
       /\ \A x \in Message : x # m /\ x \notin out => fate'[x] = fate[x]
       /\ \A x \in out : x # m => fate'[x] \in {"evicted", "discarded"}
  BY <1>4, <1>5, <1>7
<1>19. \A x \in out : fate[x] = "queued"
  <2> SUFFICES ASSUME NEW x \in out PROVE fate[x] = "queued"
    OBVIOUS
  <2>1. PICK i \in 1 .. n : its[q][i] = x
    BY <1>8
  <2>2. i \in 1 .. Len(its[q])
    BY <1>3
  <2> QED
    BY <1>17, <2>1, <2>2
\* Where an item stood before: all but the last moved up by k places.
<1> DEFINE k == [r \in Object |-> IF r = q THEN n ELSE 0]
<1>20. ASSUME NEW r \in Object, NEW i \in 1 .. Len(items'[r])
       PROVE  \/ r = q /\ i = Len(items'[r]) /\ items'[r][i] = m
              \/ /\ i + k[r] \in 1 .. Len(its[r])
                 /\ items'[r][i] = its[r][i + k[r]]
  <2>1. CASE r # q
    <3>1. items'[r] = its[r] /\ Len(its[r]) \in Nat
      BY <1>2, <1>10, <2>1, LenProperties
    <3> QED
      BY <2>1, <3>1
  <2>2. CASE r = q
    <3>1. Len(items'[q]) \in Nat
      BY <1>11, LenProperties
    <3>2. i = Len(items'[q]) \/ i < Len(items'[q])
      BY <2>2, <3>1
    <3> QED
      BY <1>11, <2>2, <3>2
  <2> QED
    BY <2>1, <2>2
<1>21. \A r \in Object : k[r] \in Nat
  BY <1>3
<1>22. k[q] = n
  OBVIOUS
<1> HIDE DEF k
<1>23. Seen(fate', recent')
  BY <1>4, <1>13, <1>18, <1>7, <1>19 DEF Held, Seen
<1>24. Waiting(items', fate')
  <2> SUFFICES ASSUME NEW r \in Object, NEW i \in 1 .. Len(items'[r])
               PROVE  fate'[items'[r][i]] = "queued"
    BY DEF Waiting
  <2>1. CASE items'[r][i] = m
    BY <2>1, <1>18
  <2>2. CASE items'[r][i] # m
    <3> DEFINE j == i + k[r]
    <3>1. j \in 1 .. Len(its[r]) /\ items'[r][i] = its[r][j]
      BY <1>20, <2>2
    <3>2. its[r][j] \in Message
      BY <1>2, <3>1, ElementOfSeq DEF Queues
    <3>3. its[r][j] \notin out
      <4> SUFFICES ASSUME its[r][j] \in out PROVE FALSE
        OBVIOUS
      <4>1. PICK h \in 1 .. n : its[q][h] = its[r][j]
        BY <1>8
      <4>2. h \in 1 .. Len(its[q])
        BY <1>3
      <4>3. r = q /\ h = j
        BY <3>1, <4>1, <4>2 DEF Held, InOnePlace
      <4> QED
        BY <1>3, <1>22, <4>3
    <3>4. fate'[its[r][j]] = fate[its[r][j]]
      BY <1>18, <2>2, <3>1, <3>2, <3>3
    <3> QED
      BY <1>17, <3>1, <3>4
  <2> QED
    BY <2>1, <2>2
<1>25. InOnePlace(items')
  <2> SUFFICES ASSUME NEW r \in Object, NEW t \in Object,
                      NEW i \in 1 .. Len(items'[r]), NEW j \in 1 .. Len(items'[t]),
                      items'[r][i] = items'[t][j]
               PROVE  r = t /\ i = j
    BY DEF InOnePlace
  <2>1. CASE items'[r][i] = m
    <3>1. ASSUME NEW p \in Object, NEW h \in 1 .. Len(items'[p]), items'[p][h] = m
          PROVE  p = q /\ h = Len(items'[q])
      <4>1. CASE p = q /\ h = Len(items'[p])
        BY <4>1
      <4>2. CASE h + k[p] \in 1 .. Len(its[p]) /\ items'[p][h] = its[p][h + k[p]]
        BY <1>17, <3>1, <4>2
      <4> QED
        BY <1>20, <4>1, <4>2
    <3>2. r = q /\ i = Len(items'[q])
      BY <2>1, <3>1
    <3>3. t = q /\ j = Len(items'[q])
      BY <2>1, <3>1
    <3> QED
      BY <3>2, <3>3
  <2>2. CASE items'[r][i] # m
    <3>1. /\ i + k[r] \in 1 .. Len(its[r]) /\ items'[r][i] = its[r][i + k[r]]
          /\ j + k[t] \in 1 .. Len(its[t]) /\ items'[t][j] = its[t][j + k[t]]
      BY <1>20, <2>2
    <3>2. r = t /\ i + k[r] = j + k[t]
      <4>1. InOnePlace(its)
        BY DEF Held
      <4>2. its[r][i + k[r]] = its[t][j + k[t]]
        BY <3>1
      <4> QED
        BY <3>1, <4>1, <4>2 DEF InOnePlace
    <3> QED
      BY <1>21, <3>2
  <2> QED
    BY <2>1, <2>2
<1>26. CountedGone(dropped', fate')
  <2> SUFFICES ASSUME NEW r \in Object, NEW x \in dropped'[r]
               PROVE  fate'[x] \notin {"new", "queued"}
    BY DEF CountedGone
  <2>1. x \in drp[r] \/ x \in out
    BY <1>4 DEF Counts
  <2>2. CASE x \in out
    <3>1. x # m
      BY <1>16, <1>19, <2>2
    <3> QED
      BY <1>18, <2>2, <3>1
  <2>3. CASE x \in drp[r] /\ x \notin out
    <3>1. fate[x] \notin {"new", "queued"} /\ x \in Message
      BY <2>3 DEF Held, CountedGone, Counts
    <3> QED
      BY <1>16, <1>18, <2>3, <3>1
  <2> QED
    BY <2>1, <2>2, <2>3
<1>27. PromptSeen(turn, fate')
  <2> SUFFICES ASSUME NEW r \in Object, NEW x \in turn[r].prompt
               PROVE  fate'[x] # "new"
    BY DEF PromptSeen
  <2>1. fate[x] # "new"
    BY DEF Held, PromptSeen
  <2>2. x \in Message
    BY DEF TypeOK
  <2> QED
    BY <1>18, <2>1, <2>2
<1>28. \A p \in Object : m \notin turn[p].prompt
  BY <1>16 DEF Held, PromptSeen
<1>29. PromptAhead(items', turn)
  <2> SUFFICES ASSUME NEW p \in Object, NEW r \in Object, NEW i \in 1 .. Len(items'[r]),
                      items'[r][i] \in turn[p].prompt
               PROVE  /\ p = r /\ i <= turn[p].take
                      /\ \A h \in 1 .. i : items'[r][h] \in turn[p].prompt
    BY DEF PromptAhead
  <2>1. i + k[r] \in 1 .. Len(its[r]) /\ items'[r][i] = its[r][i + k[r]]
    BY <1>20, <1>28
  <2>2. /\ p = r /\ i + k[r] <= turn[p].take
        /\ \A h \in 1 .. i + k[r] : its[r][h] \in turn[p].prompt
    BY <2>1 DEF Held, PromptAhead
  <2>3. turn[p].take \in Nat
    BY DEF TypeOK
  <2>4. ASSUME NEW h \in 1 .. i
        PROVE  items'[r][h] \in turn[p].prompt
    <3>1. h + k[r] \in 1 .. i + k[r]
      BY <1>21
    <3>2. CASE h = i
      BY <3>2
    <3>3. CASE h # i
      <4>1. h \in 1 .. Len(items'[r]) /\ h # Len(items'[r])
        BY <3>3
      <4>2. items'[r][h] = its[r][h + k[r]]
        BY <1>20, <4>1
      <4> QED
        BY <2>2, <3>1, <4>2
    <3> QED
      BY <3>2, <3>3
  <2>5. i <= turn[p].take
    BY <1>21, <2>2, <2>3
  <2> QED
    BY <2>2, <2>4, <2>5
<1>30. TakesPrompt(items', turn)
  <2> SUFFICES ASSUME NEW p \in Object
               PROVE  /\ turn[p].prompt = {} => turn[p].take <= 1
                      /\ turn[p].prompt # {} => turn[p].take >= 1
                      /\ turn[p].prompt # {} /\ turn[p].prompt \subseteq Range(items'[p]) =>
                             \A i \in 1 .. turn[p].take :
                                 i <= Len(items'[p]) /\ items'[p][i] \in turn[p].prompt
    BY DEF TakesPrompt
  <2>1. /\ turn[p].prompt = {} => turn[p].take <= 1
        /\ turn[p].prompt # {} => turn[p].take >= 1
        /\ turn[p].prompt # {} /\ turn[p].prompt \subseteq Range(its[p]) =>
               \A i \in 1 .. turn[p].take :
                   i <= Len(its[p]) /\ its[p][i] \in turn[p].prompt
    BY DEF Held, TakesPrompt
  <2>2. CASE p # q
    BY <1>10, <2>1, <2>2
  <2>3. ASSUME p = q, turn[p].prompt # {}, turn[p].prompt \subseteq Range(items'[p]),
               NEW i \in 1 .. turn[p].take
        PROVE  i <= Len(items'[p]) /\ items'[p][i] \in turn[p].prompt
    <3>1. items'[p] \in Seq(Message) /\ its[p] \in Seq(Message)
      BY <1>2, <1>11, <2>3
    <3>2. \A x \in turn[p].prompt : \E h \in 1 .. Len(items'[p]) :
             h + n \in 1 .. Len(its[p]) /\ its[p][h + n] = x /\ items'[p][h] = x
      <4> SUFFICES ASSUME NEW x \in turn[p].prompt
                   PROVE  \E h \in 1 .. Len(items'[p]) :
                             h + n \in 1 .. Len(its[p]) /\ its[p][h + n] = x /\ items'[p][h] = x
        OBVIOUS
      <4>1. PICK h \in 1 .. Len(items'[p]) : items'[p][h] = x
        BY <2>3, <3>1, RangeIndexed
      <4>2. h + k[p] \in 1 .. Len(its[p]) /\ items'[p][h] = its[p][h + k[p]]
        BY <1>20, <1>28, <4>1
      <4> QED
        BY <1>22, <2>3, <4>1, <4>2
    <3>3. turn[p].prompt \subseteq Range(its[p])
      BY <3>1, <3>2, RangeIndexed
    <3>4. /\ turn[p].take >= 1 /\ turn[p].take \in Nat
          /\ \A h \in 1 .. turn[p].take : h <= Len(its[p]) /\ its[p][h] \in turn[p].prompt
      BY <2>1, <2>3, <3>3 DEF TypeOK
    <3>5. its[p][1] \in turn[p].prompt /\ 1 \in 1 .. Len(its[p])
      <4>1. 1 \in 1 .. turn[p].take
        BY <3>4
      <4>2. 1 <= Len(its[p]) /\ its[p][1] \in turn[p].prompt
        BY <3>4, <4>1
      <4> QED
        BY <1>3, <2>3, <4>2
    <3>6. PICK h \in 1 .. Len(items'[p]) :
             h + n \in 1 .. Len(its[p]) /\ its[p][h + n] = its[p][1]
      BY <3>2, <3>5
    <3>7. h + n = 1
      BY <3>5, <3>6 DEF Held, InOnePlace
    <3>8. n = 0
      BY <1>3, <3>7
    <3>9. i <= Len(its[p]) /\ its[p][i] \in turn[p].prompt
      BY <3>4
    <3>10. i <= Len(items'[p]) /\ i < Len(items'[p]) /\ i \in 1 .. Len(items'[p])
      BY <1>3, <1>11, <2>3, <3>8, <3>9
    <3>11. items'[p][i] = its[p][i + n] /\ i + n = i
      BY <1>11, <2>3, <3>8, <3>10
    <3> QED
      BY <3>9, <3>10, <3>11
  <2> QED
    BY <2>1, <2>2, <2>3
<1>31. Held(items', dropped', turn, fate', recent')
  BY <1>23, <1>24, <1>25, <1>26, <1>27, <1>29, <1>30 DEF Held
<1>32. ASSUME NEW r \in Object, NEW x \in Range(its[r]), fate'[x] = "queued"
       PROVE  x \in Range(items'[r])
  <2>1. CASE r # q
    BY <1>10, <2>1, <1>32
  <2>2. CASE r = q
    <3>1. PICK j \in 1 .. Len(its[q]) : its[q][j] = x
      BY <1>2, <1>32, <2>2, RangeIndexed
    <3>2. x # m
      BY <1>17, <3>1
    <3>3. x \notin out
      BY <1>18, <1>32, <3>2
    <3>4. ~(j <= n)
      BY <1>3, <1>9, <3>1, <3>3
    <3> DEFINE i == j - n
    <3>5. /\ i \in 1 .. Len(items'[q]) /\ i < Len(items'[q]) /\ i + n = j
      BY <1>3, <1>11, <3>4
    <3> HIDE DEF i
    <3>6. items'[q][i] = x
      BY <1>11, <3>1, <3>5
    <3> QED
      BY <1>11, <2>2, <3>5, <3>6, RangeIndexed
  <2> QED
    BY <2>1, <2>2
<1>33. \A x \in Message : fate[x] \in {"answered", "cleared"} => fate'[x] = fate[x]
  BY <1>16, <1>18, <1>19
<1>34. \A x \in Message : fate'[x] # "answered" \/ fate[x] = "answered"
  BY <1>4, <1>5
<1>35. m \in Range(items'[q])
  <2>1. Len(items'[q]) \in 1 .. Len(items'[q])
    BY <1>3, <1>11
  <2> QED
    BY <1>11, <2>1, RangeIndexed
<1> QED
  BY <1>12, <1>14, <1>15, <1>31, <1>32, <1>33, <1>34, <1>35

\* What a drain hands out: the items at the head, or none of them and a
\* summary in their place.
TurnFor(q, t) ==
    /\ t \in Turn
    /\ t.take <= Len(items[q])
    /\ \/ t.prompt = {} /\ t.take <= 1
       \/ t.take >= 1 /\ t.prompt = {items[q][i] : i \in 1 .. t.take}

LEMMA OneByOneTurn ==
    ASSUME TypeOK, NEW q \in Object, NEW t \in OneByOne(q)
    PROVE  TurnFor(q, t)
<1>1. items[q] \in Seq(Message) /\ items[q] # <<>>
  BY DEF TypeOK, OneByOne
<1>2. t = [prompt |-> {Head(items[q])}, report |-> {}, take |-> 1]
  BY <1>1 DEF OneByOne
<1>3. Len(items[q]) \in Nat \ {0} /\ Head(items[q]) = items[q][1]
  BY <1>1, EmptySeq
<1>4. items[q][1] \in Message
  BY <1>1, <1>3, ElementOfSeq
<1>5. {items[q][i] : i \in 1 .. 1} = {items[q][1]}
  OBVIOUS
<1>6. t.prompt = {items[q][1]} /\ t.take = 1 /\ t \in Turn
  BY <1>2, <1>3, <1>4 DEF Turn
<1>7. t.prompt = {items[q][i] : i \in 1 .. t.take}
  BY <1>5, <1>6
<1> QED
  BY <1>3, <1>6, <1>7 DEF TurnFor

LEMMA TurnHandedOut ==
    ASSUME TypeOK, NEW q \in Object, NEW t \in CollectTurns(q) \cup FollowupTurns(q)
    PROVE  TurnFor(q, t)
<1>1. items[q] \in Seq(Message) /\ Summary(q) \subseteq Message
  BY DEF TypeOK, Summary
<1>2. Len(items[q]) \in Nat /\ Range(items[q]) = {items[q][i] : i \in 1 .. Len(items[q])}
  BY <1>1, LenProperties, RangeEquality
<1>3. Range(items[q]) \subseteq Message
  BY <1>1, RangeOfSeq
<1>4. CASE t \in OneByOne(q)
  BY <1>4, OneByOneTurn
<1>5. CASE t = Batch(q)
  <2>1. t \in Turn /\ t.take = Len(items[q]) /\ t.prompt = Range(items[q])
    BY <1>1, <1>2, <1>3, <1>5 DEF Batch, Turn
  <2>2. CASE Len(items[q]) = 0
    <3>1. 1 .. Len(items[q]) = {}
      BY <2>2
    <3>2. t.prompt = {}
      BY <1>2, <2>1, <3>1
    <3> QED
      BY <2>1, <2>2, <3>2 DEF TurnFor
  <2>3. CASE Len(items[q]) # 0
    BY <1>2, <2>1, <2>3 DEF TurnFor
  <2> QED
    BY <2>2, <2>3
<1>6. CASE items[q] # <<>> /\ t = [prompt |-> {}, report |-> Summary(q), take |-> 1]
  <2>1. Len(items[q]) \in Nat \ {0}
    BY <1>1, <1>6, EmptySeq
  <2>2. t \in Turn /\ t.prompt = {} /\ t.take = 1
    BY <1>1, <1>6 DEF Turn
  <2> QED
    BY <2>1, <2>2 DEF TurnFor
<1> QED
  BY <1>4, <1>5, <1>6 DEF CollectTurns, FollowupTurns

\* A turn begins: its prompt is the head of the queue.
LEMMA TurnBeginsHeld ==
    ASSUME QueueInv, NEW q \in Object, NEW t, TurnFor(q, t)
    PROVE  /\ [turn EXCEPT ![q] = t] \in [Object -> Turn]
           /\ Held(items, dropped, [turn EXCEPT ![q] = t], fate, recent)
<1> DEFINE trn == [turn EXCEPT ![q] = t]
<1>1. turn \in [Object -> Turn] /\ items \in [Object -> Seq(Message)]
  BY DEF QueueInv, TypeOK, Turn
<1>2. trn \in [Object -> Turn] /\ trn[q] = t /\ \A r \in Object \ {q} : trn[r] = turn[r]
  BY <1>1 DEF TurnFor
<1>3. Held(items, dropped, turn, fate, recent)
  BY DEF QueueInv
<1> HIDE DEF trn
<1>4. Len(items[q]) \in Nat
  BY <1>1, LenProperties
<1>5. \A x \in t.prompt : \E i \in 1 .. t.take : i \in 1 .. Len(items[q]) /\ items[q][i] = x
  BY <1>4 DEF TurnFor, Turn
<1>6. Seen(fate, recent) /\ Waiting(items, fate) /\ InOnePlace(items) /\ CountedGone(dropped, fate)
  BY <1>3 DEF Held
<1>7. PromptSeen(trn, fate)
  <2> SUFFICES ASSUME NEW r \in Object, NEW x \in trn[r].prompt PROVE fate[x] # "new"
    BY DEF PromptSeen
  <2>1. CASE r = q
    <3>1. PICK i \in 1 .. Len(items[q]) : items[q][i] = x
      BY <1>2, <1>5, <2>1
    <3> QED
      BY <1>6, <3>1 DEF Waiting
  <2>2. CASE r # q
    BY <1>2, <1>3, <2>2 DEF Held, PromptSeen
  <2> QED
    BY <2>1, <2>2
<1>8. PromptAhead(items, trn)
  <2> SUFFICES ASSUME NEW p \in Object, NEW r \in Object, NEW i \in 1 .. Len(items[r]),
                      items[r][i] \in trn[p].prompt
               PROVE  /\ p = r /\ i <= trn[p].take
                      /\ \A h \in 1 .. i : items[r][h] \in trn[p].prompt
    BY DEF PromptAhead
  <2>1. CASE p # q
    <3>1. trn[p] = turn[p]
      BY <1>2, <2>1
    <3> QED
      BY <1>3, <3>1 DEF Held, PromptAhead
  <2>2. CASE p = q
    <3>1. PICK j \in 1 .. t.take : j \in 1 .. Len(items[q]) /\ items[q][j] = items[r][i]
      BY <1>2, <1>5, <2>2
    <3>2. r = q /\ i = j
      BY <1>6, <3>1 DEF InOnePlace
    <3>3. t.prompt = {items[q][h] : h \in 1 .. t.take} /\ t.take \in Nat
      BY <1>2, <2>2 DEF TurnFor, Turn
    <3>4. ASSUME NEW h \in 1 .. i PROVE items[q][h] \in t.prompt
      <4>1. h \in 1 .. t.take
        BY <3>1, <3>2, <3>3
      <4> QED
        BY <3>3, <4>1
    <3>5. p = r /\ i <= t.take
      BY <2>2, <3>1, <3>2, <3>3
    <3> QED
      BY <1>2, <2>2, <3>2, <3>4, <3>5
  <2> QED
    BY <2>1, <2>2
<1>9. TakesPrompt(items, trn)
  <2> SUFFICES ASSUME NEW r \in Object
               PROVE  /\ trn[r].prompt = {} => trn[r].take <= 1
                      /\ trn[r].prompt # {} => trn[r].take >= 1
                      /\ trn[r].prompt # {} /\ trn[r].prompt \subseteq Range(items[r]) =>
                             \A i \in 1 .. trn[r].take :
                                 i <= Len(items[r]) /\ items[r][i] \in trn[r].prompt
    BY DEF TakesPrompt
  <2>1. CASE r # q
    <3>1. trn[r] = turn[r]
      BY <1>2, <2>1
    <3> QED
      BY <1>3, <3>1 DEF Held, TakesPrompt
  <2>2. CASE r = q
    <3>1. t.take \in Nat /\ t.take <= Len(items[q])
      BY DEF TurnFor, Turn
    <3>2. CASE t.prompt = {} /\ t.take <= 1
      BY <1>2, <2>2, <3>2
    <3>3. CASE t.take >= 1 /\ t.prompt = {items[q][i] : i \in 1 .. t.take}
      <4>1. items[q][1] \in t.prompt
        BY <3>1, <3>3
      <4>2. \A i \in 1 .. t.take : i <= Len(items[q]) /\ items[q][i] \in t.prompt
        BY <1>4, <3>1, <3>3
      <4> QED
        BY <1>2, <2>2, <3>3, <4>1, <4>2
    <3> QED
      BY <3>2, <3>3 DEF TurnFor
  <2> QED
    BY <2>1, <2>2
<1>10. Held(items, dropped, trn, fate, recent)
  BY <1>6, <1>7, <1>8, <1>9 DEF Held
<1> QED
  BY <1>2, <1>10 DEF trn

\* A turn that is over leaves no prompt behind.
LEMMA TurnOverHeld ==
    ASSUME QueueInv, NEW q \in Object
    PROVE  /\ [turn EXCEPT ![q] = NoTurn] \in [Object -> Turn]
           /\ Held(items, dropped, [turn EXCEPT ![q] = NoTurn], fate, recent)
<1>1. NoTurn \in Turn /\ NoTurn.prompt = {} /\ NoTurn.take = 0
  BY DEF NoTurn, Turn
<1>2. items[q] \in Seq(Message)
  BY DEF QueueInv, TypeOK
<1>3. Len(items[q]) \in Nat
  BY <1>2, LenProperties
<1>4. TurnFor(q, NoTurn)
  BY <1>1, <1>3 DEF TurnFor
<1> QED
  BY <1>4, TurnBeginsHeld

\* A turn returns: what it took leaves the queue, and its prompt is answered.
LEMMA TurnReturnsHeld ==
    ASSUME QueueInv, NEW q \in Object, TurnReturns(q)
    PROVE  /\ items' \in Queues /\ dropped' \in Counts
           /\ turn' \in [Object -> Turn] /\ fate' \in [Message -> Fates]
           /\ Held(items', dropped', turn', fate', recent')
           /\ \A r \in Object \ {q} : items'[r] = items[r]
           /\ \A i \in 1 .. Len(items[q]) :
                  i > turn[q].take => items[q][i] \in Range(items'[q])
<1> DEFINE k == [r \in Object |-> IF r = q THEN turn[q].take ELSE 0]
<1>1. turn \in [Object -> Turn] /\ items \in [Object -> Seq(Message)]
  BY DEF QueueInv, TypeOK, Turn
<1>2. turn[q].take \in Nat /\ turn[q].prompt \subseteq Message
  BY <1>1 DEF Turn
<1>3. /\ items' = [items EXCEPT ![q] = Taken(q)]
      /\ dropped' = IF turn[q].report = {} THEN dropped ELSE [dropped EXCEPT ![q] = {}]
      /\ fate' = [m \in Message |->
                IF m \in turn[q].prompt /\ fate[m] # "cleared" THEN "answered" ELSE fate[m]]
      /\ turn' = [turn EXCEPT ![q] = NoTurn]
      /\ recent' = recent
  BY DEF TurnReturns
<1>4. /\ Taken(q) \in Seq(Message)
      /\ Len(Taken(q)) = IF turn[q].take <= Len(items[q]) THEN Len(items[q]) - turn[q].take
                                                          ELSE 0
      /\ \A i \in 1 .. Len(Taken(q)) :
            /\ i + turn[q].take \in 1 .. Len(items[q])
            /\ Taken(q)[i] = items[q][i + turn[q].take]
  <2> DEFINE b == items[q]
             c == turn[q].take
  <2>1. b \in Seq(Message) /\ c \in Nat
    BY <1>1, <1>2
  <2> HIDE DEF b, c
  <2>2. /\ SubSeq(b, c + 1, Len(b)) \in Seq(Message)
        /\ Len(SubSeq(b, c + 1, Len(b))) = IF c <= Len(b) THEN Len(b) - c ELSE 0
        /\ \A i \in 1 .. Len(SubSeq(b, c + 1, Len(b))) :
              i + c \in 1 .. Len(b) /\ SubSeq(b, c + 1, Len(b))[i] = b[i + c]
    BY <2>1, TakenShifts
  <2> QED
    BY <2>2 DEF b, c, Taken
<1>5. items'[q] = Taken(q) /\ \A r \in Object \ {q} : items'[r] = items[r]
  BY <1>1, <1>3
<1>6. items' \in Queues
  BY <1>1, <1>3, <1>4 DEF Queues
<1>7. fate \in [Message -> Fates] /\ dropped \in Counts
  BY DEF QueueInv, TypeOK, Counts
<1>8. dropped' \in Counts /\ \A r \in Object : dropped'[r] \subseteq dropped[r]
  BY <1>3, <1>7 DEF Counts
<1>9. fate' \in [Message -> Fates]
  BY <1>3, <1>7 DEF Fates
<1>10. Held(items, dropped, turn', fate, recent) /\ turn' \in [Object -> Turn]
  BY <1>3, TurnOverHeld
<1>11. Held(items, dropped, turn, fate, recent)
  BY DEF QueueInv
<1>12. /\ \A m \in Message : fate'[m] = fate[m] \/ fate'[m] = "answered"
       /\ \A m \in Message : m \notin turn[q].prompt => fate'[m] = fate[m]
  BY <1>3, <1>7
<1>13. turn'[q] = NoTurn /\ \A r \in Object \ {q} : turn'[r] = turn[r]
  BY <1>1, <1>3
<1>14. ASSUME NEW r \in Object, NEW i \in 1 .. Len(items'[r])
       PROVE  /\ i + k[r] \in 1 .. Len(items[r])
              /\ items'[r][i] = items[r][i + k[r]]
  <2>1. CASE r # q
    <3>1. items'[r] = items[r] /\ Len(items[r]) \in Nat
      BY <1>1, <1>5, <2>1, LenProperties
    <3> QED
      BY <2>1, <3>1
  <2>2. CASE r = q
    BY <1>4, <1>5, <2>2
  <2> QED
    BY <2>1, <2>2
<1>15. k[q] = turn[q].take /\ \A r \in Object : k[r] \in Nat /\ (r # q => k[r] = 0)
  BY <1>2
<1> HIDE DEF k
<1>16. Seen(fate', recent')
  BY <1>2, <1>3, <1>11, <1>12 DEF Held, Seen, PromptSeen
<1>17. Waiting(items', fate')
  <2> SUFFICES ASSUME NEW r \in Object, NEW i \in 1 .. Len(items'[r])
               PROVE  fate'[items'[r][i]] = "queued"
    BY DEF Waiting
  <2> DEFINE j == i + k[r]
  <2>1. j \in 1 .. Len(items[r]) /\ items'[r][i] = items[r][j]
    BY <1>14
  <2>2. items[r][j] \in Message /\ fate[items[r][j]] = "queued"
    BY <1>1, <1>11, <2>1, ElementOfSeq DEF Held, Waiting
  <2>3. items[r][j] \notin turn[q].prompt
    <3> SUFFICES ASSUME items[r][j] \in turn[q].prompt PROVE FALSE
      OBVIOUS
    <3>1. q = r /\ j <= turn[q].take
      BY <1>11, <2>1 DEF Held, PromptAhead
    <3> QED
      BY <1>2, <1>15, <3>1
  <2> QED
    BY <1>12, <2>1, <2>2, <2>3
<1>18. InOnePlace(items')
  <2> SUFFICES ASSUME NEW r \in Object, NEW t \in Object,
                      NEW i \in 1 .. Len(items'[r]), NEW j \in 1 .. Len(items'[t]),
                      items'[r][i] = items'[t][j]
               PROVE  r = t /\ i = j
    BY DEF InOnePlace
  <2>1. /\ i + k[r] \in 1 .. Len(items[r]) /\ items'[r][i] = items[r][i + k[r]]
        /\ j + k[t] \in 1 .. Len(items[t]) /\ items'[t][j] = items[t][j + k[t]]
    BY <1>14
  <2>2. r = t /\ i + k[r] = j + k[t]
    <3>1. InOnePlace(items) /\ items[r][i + k[r]] = items[t][j + k[t]]
      BY <1>11, <2>1 DEF Held
    <3> QED
      BY <2>1, <3>1 DEF InOnePlace
  <2> QED
    BY <1>15, <2>2
<1>19. CountedGone(dropped', fate')
  <2> SUFFICES ASSUME NEW r \in Object, NEW x \in dropped'[r]
               PROVE  fate'[x] \notin {"new", "queued"}
    BY DEF CountedGone
  <2>1. x \in Message /\ fate[x] \notin {"new", "queued"}
    BY <1>7, <1>8, <1>11 DEF Held, CountedGone, Counts
  <2> QED
    BY <1>12, <2>1
<1>20. PromptSeen(turn', fate')
  <2> SUFFICES ASSUME NEW r \in Object, NEW x \in turn'[r].prompt
               PROVE  fate'[x] # "new"
    BY DEF PromptSeen
  <2>1. x \in Message /\ fate[x] # "new"
    BY <1>10 DEF Held, PromptSeen, Turn
  <2> QED
    BY <1>12, <2>1
<1>21. PromptAhead(items', turn')
  <2> SUFFICES ASSUME NEW p \in Object, NEW r \in Object, NEW i \in 1 .. Len(items'[r]),
                      items'[r][i] \in turn'[p].prompt
               PROVE  /\ p = r /\ i <= turn'[p].take
                      /\ \A h \in 1 .. i : items'[r][h] \in turn'[p].prompt
    BY DEF PromptAhead
  <2>1. i + k[r] \in 1 .. Len(items[r]) /\ items'[r][i] = items[r][i + k[r]]
    BY <1>14
  <2>2. p = r
    <3>1. PromptAhead(items, turn') /\ items[r][i + k[r]] \in turn'[p].prompt
      BY <1>10, <2>1 DEF Held
    <3> QED
      BY <2>1, <3>1 DEF PromptAhead
  <2>3. p # q
    BY <1>13 DEF NoTurn
  <2>4. items'[r] = items[r]
    BY <1>5, <2>2, <2>3
  <2> QED
    BY <1>10, <2>2, <2>4 DEF Held, PromptAhead
<1>22. TakesPrompt(items', turn')
  <2> SUFFICES ASSUME NEW r \in Object
               PROVE  /\ turn'[r].prompt = {} => turn'[r].take <= 1
                      /\ turn'[r].prompt # {} => turn'[r].take >= 1
                      /\ turn'[r].prompt # {} /\ turn'[r].prompt \subseteq Range(items'[r]) =>
                             \A i \in 1 .. turn'[r].take :
                                 i <= Len(items'[r]) /\ items'[r][i] \in turn'[r].prompt
    BY DEF TakesPrompt
  <2>1. CASE r = q
    <3>1. turn'[r].prompt = {} /\ turn'[r].take = 0
      BY <1>13, <2>1 DEF NoTurn
    <3> QED
      BY <3>1
  <2>2. CASE r # q
    <3>1. items'[r] = items[r]
      BY <1>5, <2>2
    <3> QED
      BY <1>10, <3>1 DEF Held, TakesPrompt
  <2> QED
    BY <2>1, <2>2
<1>23. Held(items', dropped', turn', fate', recent')
  BY <1>16, <1>17, <1>18, <1>19, <1>20, <1>21, <1>22 DEF Held
<1>24. ASSUME NEW i \in 1 .. Len(items[q]), i > turn[q].take
       PROVE  items[q][i] \in Range(items'[q])
  <2> DEFINE h == i - turn[q].take
  <2>1. Len(items[q]) \in Nat
    BY <1>1, LenProperties
  <2>2. h \in 1 .. Len(Taken(q)) /\ h + turn[q].take = i
    BY <1>2, <1>4, <1>24, <2>1
  <2> HIDE DEF h
  <2>3. Taken(q)[h] = items[q][i]
    BY <1>4, <2>2
  <2> QED
    BY <1>4, <1>5, <2>2, <2>3, RangeIndexed
<1> QED
  BY <1>5, <1>6, <1>8, <1>9, <1>10, <1>23, <1>24

\* clearSessionQueues empties the object under the key in place.
LEMMA ClearHeld ==
    ASSUME QueueInv, Clear
    PROVE  /\ items' \in Queues /\ dropped' \in Counts /\ fate' \in [Message -> Fates]
           /\ Held(items', dropped', turn', fate', recent')
           /\ \A q \in Object : q # current => items'[q] = items[q]
           /\ \A q \in Object, m \in Message :
                  q = current /\ m \in Range(items[q]) => fate'[m] = "cleared"
           /\ \A m \in Message : fate'[m] = fate[m] \/ fate[m] \in {"queued", "evicted"}
           /\ \A m \in Message : fate'[m] = fate[m] \/ fate'[m] = "cleared"
<1>1. /\ items' = [q \in Object |-> IF q = current THEN <<>> ELSE items[q]]
      /\ dropped' = [q \in Object |-> IF q = current THEN {} ELSE dropped[q]]
      /\ fate' = [m \in Message |->
            IF current # None /\ m \in Range(items[current]) \cup dropped[current]
               /\ fate[m] \in {"queued", "evicted"}
            THEN "cleared" ELSE fate[m]]
      /\ turn' = turn /\ recent' = recent
  BY DEF Clear
<1>2. /\ items \in [Object -> Seq(Message)] /\ dropped \in [Object -> SUBSET Message]
      /\ fate \in [Message -> Fates] /\ current \in Object \cup {None}
  BY DEF QueueInv, TypeOK
<1>3. Held(items, dropped, turn, fate, recent)
  BY DEF QueueInv
<1>4. <<>> \in Seq(Message) /\ Len(<<>>) = 0
  BY EmptySeq
<1>5. items' \in Queues /\ dropped' \in Counts /\ fate' \in [Message -> Fates]
  <2>1. items' \in Queues
    BY <1>1, <1>2, <1>4 DEF Queues
  <2>2. dropped' \in Counts
    BY <1>1, <1>2 DEF Counts
  <2>3. fate' \in [Message -> Fates]
    BY <1>1, <1>2 DEF Fates
  <2> QED
    BY <2>1, <2>2, <2>3
<1>6. \A q \in Object : q # current => items'[q] = items[q] /\ dropped'[q] = dropped[q]
  BY <1>1
<1>7. \A q \in Object : q = current => items'[q] = <<>> /\ dropped'[q] = {}
  BY <1>1
<1>8. \A q \in Object : \A i \in 1 .. Len(items'[q]) : q # current /\ items'[q] = items[q]
  BY <1>4, <1>6, <1>7
<1>9. /\ \A m \in Message : fate'[m] = fate[m] \/ fate[m] \in {"queued", "evicted"}
      /\ \A m \in Message : fate'[m] = fate[m] \/ fate'[m] = "cleared"
  BY <1>1
<1>10. ASSUME NEW q \in Object, NEW m \in Message, q = current, m \in Range(items[q])
       PROVE  fate'[m] = "cleared"
  <2>1. PICK i \in 1 .. Len(items[q]) : items[q][i] = m
    BY <1>2, <1>10, RangeIndexed
  <2>2. fate[m] = "queued"
    BY <1>3, <2>1 DEF Held, Waiting
  <2>3. current # None
    BY <1>10, ObjectAssumption
  <2> QED
    BY <1>1, <1>10, <2>2, <2>3
<1>11. Seen(fate', recent')
  <2> SUFFICES ASSUME NEW m \in Message, fate'[m] # "new" PROVE m \in recent'
    BY DEF Seen
  <2>1. fate[m] # "new"
    BY <1>9
  <2> QED
    BY <1>1, <1>3, <2>1 DEF Held, Seen
<1>12. Waiting(items', fate')
  <2> SUFFICES ASSUME NEW q \in Object, NEW i \in 1 .. Len(items'[q])
               PROVE  fate'[items'[q][i]] = "queued"
    BY DEF Waiting
  <2>1. q # current /\ items'[q] = items[q]
    BY <1>8
  <2>2. items[q][i] \in Message /\ fate[items[q][i]] = "queued"
    BY <1>2, <1>3, <2>1, ElementOfSeq DEF Held, Waiting
  <2>3. ASSUME current # None
        PROVE  items[q][i] \notin Range(items[current]) \cup dropped[current]
    <3>1. current \in Object
      BY <1>2, <2>3
    <3>2. items[q][i] \notin dropped[current]
      BY <1>3, <2>2, <3>1 DEF Held, CountedGone
    <3>3. ASSUME items[q][i] \in Range(items[current]) PROVE FALSE
      <4> DEFINE b == items[current]
                 x == items[q][i]
      <4>0. b \in Seq(Message) /\ x \in Range(b)
        BY <1>2, <3>1, <3>3
      <4>1. PICK j \in 1 .. Len(b) : b[j] = x
        <5> HIDE DEF b, x
        <5> QED
          BY <4>0, RangeIndexed
      <4> QED
        BY <1>3, <2>1, <3>1, <4>1 DEF Held, InOnePlace
    <3> QED
      BY <3>2, <3>3
  <2>4. fate'[items[q][i]] = fate[items[q][i]]
    BY <1>1, <2>2, <2>3
  <2> QED
    BY <2>1, <2>2, <2>4
<1>13. InOnePlace(items')
  BY <1>3, <1>8 DEF Held, InOnePlace
<1>14. CountedGone(dropped', fate')
  <2> SUFFICES ASSUME NEW q \in Object, NEW m \in dropped'[q]
               PROVE  fate'[m] \notin {"new", "queued"}
    BY DEF CountedGone
  <2>1. m \in dropped[q] /\ m \in Message
    BY <1>2, <1>6, <1>7
  <2>2. fate[m] \notin {"new", "queued"}
    BY <1>3, <2>1 DEF Held, CountedGone
  <2> QED
    BY <1>9, <2>1, <2>2
<1>15. PromptSeen(turn', fate')
  <2> SUFFICES ASSUME NEW q \in Object, NEW m \in turn[q].prompt PROVE fate'[m] # "new"
    BY <1>1 DEF PromptSeen
  <2>1. fate[m] # "new" /\ m \in Message
    BY <1>3 DEF Held, PromptSeen, QueueInv, TypeOK
  <2> QED
    BY <1>9, <2>1
<1>16. PromptAhead(items', turn')
  <2> SUFFICES ASSUME NEW p \in Object, NEW r \in Object, NEW i \in 1 .. Len(items'[r]),
                      items'[r][i] \in turn[p].prompt
               PROVE  /\ p = r /\ i <= turn[p].take
                      /\ \A h \in 1 .. i : items'[r][h] \in turn[p].prompt
    BY <1>1 DEF PromptAhead
  <2>1. items'[r] = items[r]
    BY <1>8
  <2> QED
    BY <1>3, <2>1 DEF Held, PromptAhead
<1>17. TakesPrompt(items', turn')
  <2> SUFFICES ASSUME NEW q \in Object
               PROVE  /\ turn[q].prompt = {} => turn[q].take <= 1
                      /\ turn[q].prompt # {} => turn[q].take >= 1
                      /\ turn[q].prompt # {} /\ turn[q].prompt \subseteq Range(items'[q]) =>
                             \A i \in 1 .. turn[q].take :
                                 i <= Len(items'[q]) /\ items'[q][i] \in turn[q].prompt
    BY <1>1 DEF TakesPrompt
  <2>1. CASE q # current
    <3>1. items'[q] = items[q]
      BY <1>6, <2>1
    <3> QED
      BY <1>3, <3>1 DEF Held, TakesPrompt
  <2>2. CASE q = current
    <3>1. items'[q] = <<>>
      BY <1>7, <2>2
    <3>2. \A m \in Range(items'[q]) : FALSE
      <4> DEFINE e == items'[q]
      <4>1. e \in Seq(Message) /\ Len(e) = 0
        BY <1>4, <3>1
      <4> HIDE DEF e
      <4>2. 1 .. Len(e) = {}
        BY <4>1
      <4>3. \A m \in Range(e) : FALSE
        BY <4>1, <4>2, RangeIndexed
      <4> QED
        BY <4>3 DEF e
    <3> QED
      BY <1>3, <3>2 DEF Held, TakesPrompt
  <2> QED
    BY <2>1, <2>2
<1>18. Held(items', dropped', turn', fate', recent')
  BY <1>11, <1>12, <1>13, <1>14, <1>15, <1>16, <1>17 DEF Held
<1> QED
  BY <1>5, <1>6, <1>9, <1>10, <1>18

-----------------------------------------------------------------------------
(***************************************************************************)
(* What starting and ending a drain does to the key and to the drains.      *)
(***************************************************************************)
Draining ==
    /\ current \in Object \cup {None}
    /\ pc \in [Object -> Standing]
    /\ forced \in [Object -> BOOLEAN]

\* The key may be given up, an idle object may begin to drain, and an object
\* with something in it stays where it was found.
Scheduled(cur, pcs, its, drp) ==
    /\ Draining'
    /\ current' \in {cur, None}
    /\ \A r \in Object : pc'[r] = pcs[r] \/ (pcs[r] = "idle" /\ pc'[r] = "debounce")
    /\ cur \in Object /\ ~Empty(cur, its, drp) => current' = cur

LEMMA ScheduleKeeps ==
    ASSUME Draining, NEW cur \in Object \cup {None}, NEW pcs \in [Object -> Standing],
           NEW its, NEW drp, Schedule(cur, pcs, its, drp)
    PROVE  Scheduled(cur, pcs, its, drp)
<1>1. CASE /\ cur = None \/ (cur \in Object /\ pcs[cur] # "idle")
           /\ current' = cur /\ pc' = pcs
           /\ UNCHANGED forced
  BY <1>1 DEF Draining, Scheduled
<1>2. CASE /\ cur \in Object /\ pcs[cur] = "idle" /\ ~Empty(cur, its, drp)
           /\ current' = cur
           /\ pc' = [pcs EXCEPT ![cur] = "debounce"]
           /\ forced' = [forced EXCEPT ![cur] = FALSE]
  <2>1. pc' \in [Object -> Standing]
    BY <1>2 DEF Standing
  <2>2. forced' \in [Object -> BOOLEAN]
    BY <1>2 DEF Draining
  <2>3. \A r \in Object : pc'[r] = pcs[r] \/ (pcs[r] = "idle" /\ pc'[r] = "debounce")
    BY <1>2
  <2> QED
    BY <1>2, <2>1, <2>2, <2>3 DEF Draining, Scheduled
<1>3. CASE /\ cur \in Object /\ pcs[cur] = "idle" /\ Empty(cur, its, drp)
           /\ current' = None /\ pc' = pcs
           /\ UNCHANGED forced
  BY <1>3 DEF Draining, Scheduled
<1> QED
  BY <1>1, <1>2, <1>3 DEF Schedule

\* After the `finally` of the drain of q: no other drain is disturbed, q is idle
\* or has begun anew, and the key is given up only when q or the object under
\* the key is empty.
Ended(q, its, drp) ==
    /\ Draining'
    /\ current' \in {current, None}
    /\ \A r \in Object \ {q} : pc'[r] = pc[r] \/ (pc[r] = "idle" /\ pc'[r] = "debounce")
    /\ pc'[q] \in {"idle", "debounce"}
    /\ Empty(q, its, drp) => pc'[q] = "idle" /\ current' = None
    /\ ~Empty(q, its, drp) /\ current \in Object /\ ~Empty(current, its, drp)
          => current' = current

LEMMA EndDrainKeeps ==
    ASSUME Draining, NEW q \in Object, NEW its, NEW drp, EndDrain(q, its, drp)
    PROVE  Ended(q, its, drp)
<1> DEFINE pcs == [pc EXCEPT ![q] = "idle"]
<1>1. pcs \in [Object -> Standing] /\ pcs[q] = "idle" /\ \A r \in Object \ {q} : pcs[r] = pc[r]
  BY DEF Draining, Standing
<1>2. CASE Empty(q, its, drp)
  <2>1. current' = None /\ pc' = pcs /\ forced' = forced
    BY <1>2 DEF EndDrain
  <2> HIDE DEF pcs
  <2> QED
    BY <1>1, <1>2, <2>1 DEF Draining, Ended
<1>3. CASE ~Empty(q, its, drp)
  <2>1. Schedule(current, pcs, its, drp)
    BY <1>3 DEF EndDrain
  <2> HIDE DEF pcs
  <2>2. Scheduled(current, pcs, its, drp)
    BY <1>1, <2>1, ScheduleKeeps DEF Draining
  <2> QED
    BY <1>1, <1>3, <2>2 DEF Scheduled, Ended
<1> QED
  BY <1>2, <1>3

LEMMA LoopKeeps ==
    ASSUME Draining, NEW q \in Object, NEW its, NEW drp, Loop(q, its, drp)
    PROVE  Ended(q, its, drp) /\ (~Empty(q, its, drp) => pc'[q] = "debounce")
<1>1. CASE Empty(q, its, drp)
  <2>1. EndDrain(q, its, drp)
    BY <1>1 DEF Loop
  <2> QED
    BY <1>1, <2>1, EndDrainKeeps
<1>2. CASE ~Empty(q, its, drp)
  <2>1. pc' = [pc EXCEPT ![q] = "debounce"] /\ UNCHANGED <<current, forced>>
    BY <1>2 DEF Loop
  <2>2. pc' \in [Object -> Standing] /\ pc'[q] = "debounce"
        /\ \A r \in Object \ {q} : pc'[r] = pc[r]
    BY <2>1 DEF Draining, Standing
  <2> QED
    BY <1>2, <2>1, <2>2 DEF Draining, Ended
<1> QED
  BY <1>1, <1>2

LEMMA QueueDrains ==
    ASSUME TypeOK
    PROVE  Draining
BY DEF TypeOK, Draining, Standing

-----------------------------------------------------------------------------
(***************************************************************************)
(* The steps.  Each is split into what it does to the queues, about which   *)
(* the lemmas above speak, and what it does to the drains.                  *)
(***************************************************************************)
\* The parts of a delivery.
Delivered(q, m, s) ==
    /\ Receives(q)
    /\ settings' = [settings EXCEPT ![q] = s]
    /\ \/ Reject(ItemsFor(q), CountsFor(q))
       \/ /\ m \notin recent
          /\ ~(Overflow(ItemsFor(q)[q], s.cap) > 0 /\ s.drop = "new")
          /\ Accept(q, m, ItemsFor(q), CountsFor(q), s)
    /\ \/ current' = q /\ UNCHANGED <<pc, forced>>
       \/ Schedule(q, pc, items', dropped')
    /\ UNCHANGED <<turn, main, clears>>

LEMMA DeliverParts ==
    ASSUME TypeOK, NEW m \in Message, NEW s \in Settings, Deliver(m, s)
    PROVE  \E q \in Object : Delivered(q, m, s)
<1> DEFINE home == IF current = None THEN Garbage ELSE {current}
           its(q) == IF current = None THEN [items EXCEPT ![q] = <<>>] ELSE items
           drp(q) == IF current = None THEN [dropped EXCEPT ![q] = {}] ELSE dropped
           full(q) == Overflow(its(q)[q], s.cap) > 0 /\ s.drop = "new"
           refused(q) == IsDuplicate(m, its(q)[q]) \/ full(q)
<1>1. PICK q \in home :
         /\ settings' = [settings EXCEPT ![q] = s]
         /\ \/ refused(q) /\ Reject(its(q), drp(q))
            \/ ~refused(q) /\ Accept(q, m, its(q), drp(q), s)
         /\ \/ /\ MayBeActive
               /\ current' = q
               /\ UNCHANGED <<pc, forced>>
            \/ /\ MayBeInactive
               /\ Schedule(q, pc, items', dropped')
         /\ UNCHANGED <<turn, main, clears>>
  BY Zenon DEF Deliver
<1>2. q \in Object
  BY DEF TypeOK, Garbage
<1>3. Receives(q)
  BY DEF Receives
<1>4. its(q) = ItemsFor(q) /\ drp(q) = CountsFor(q)
  BY DEF ItemsFor, CountsFor
<1>5. ~refused(q) => /\ m \notin recent
                     /\ ~(Overflow(ItemsFor(q)[q], s.cap) > 0 /\ s.drop = "new")
  BY <1>4 DEF IsDuplicate
<1> HIDE DEF home, its, drp, full, refused
<1>6. \/ Reject(ItemsFor(q), CountsFor(q))
      \/ /\ m \notin recent
         /\ ~(Overflow(ItemsFor(q)[q], s.cap) > 0 /\ s.drop = "new")
         /\ Accept(q, m, ItemsFor(q), CountsFor(q), s)
  BY <1>1, <1>4, <1>5
<1>7. Delivered(q, m, s)
  BY <1>1, <1>3, <1>6 DEF Delivered
<1> QED
  BY <1>2, <1>7

\* The invariant from its parts: a message that has one place is queued once.
Typed ==
    /\ items \in Queues /\ dropped \in Counts
    /\ settings \in [Object -> Settings]
    /\ turn \in [Object -> Turn]
    /\ recent \subseteq Message
    /\ main \in {"idle", "active", "finishing"}
    /\ clears \in 0 .. MaxClears
    /\ fate \in [Message -> Fates]

LEMMA InvFromParts ==
    ASSUME Typed, Draining, Held(items, dropped, turn, fate, recent), OneTurnEach
    PROVE  QueueInv
<1>1. ASSUME NEW q \in Object PROVE IsInjective(items[q])
  <2>1. DOMAIN items[q] = 1 .. Len(items[q])
    <3>1. items[q] \in Seq(Message)
      BY DEF Typed, Queues
    <3> QED
      BY <3>1, LenProperties
  <2>2. InOnePlace(items)
    BY DEF Held
  <2> QED
    BY <2>1, <2>2 DEF InOnePlace, IsInjective
<1>2. TypeOK
  BY <1>1 DEF TypeOK, Typed, Draining, Queues, Counts, Turn, Standing
<1> QED
  BY <1>2 DEF QueueInv

LEMMA InvParts ==
    ASSUME QueueInv
    PROVE  Typed /\ Draining /\ Held(items, dropped, turn, fate, recent) /\ OneTurnEach
BY DEF QueueInv, TypeOK, Typed, Draining, Queues, Counts, Turn, Standing

\* A turn stays in flight while the drains only begin.
LEMMA TurnsStay ==
    ASSUME OneTurnEach, turn' = turn,
           \A r \in Object : pc'[r] = pc[r] \/ (pc[r] = "idle" /\ pc'[r] = "debounce")
    PROVE  OneTurnEach'
<1> SUFFICES ASSUME NEW r \in Object, pc'[r] # "turn" PROVE turn'[r] = NoTurn
  BY DEF OneTurnEach
<1>1. pc[r] # "turn"
  OBVIOUS
<1> QED
  BY <1>1 DEF OneTurnEach

\* A delivery keeps what was kept and answers nothing.
LEMMA DeliveredKeeps ==
    ASSUME QueueInv, NEW m \in Message, NEW s \in Settings, NEW q \in Object,
           Delivered(q, m, s)
    PROVE  /\ Typed' /\ Draining'
           /\ Held(items', dropped', turn', fate', recent')
           /\ \A r \in Object : \A x \in Range(ItemsFor(q)[r]) :
                  fate'[x] = "queued" => x \in Range(items'[r])
           /\ \A x \in Message : fate[x] \in {"answered", "cleared"} => fate'[x] = fate[x]
           /\ \A x \in Message : fate'[x] # "answered" \/ fate[x] = "answered"
           /\ \A r \in Object : pc'[r] = pc[r] \/ (pc[r] = "idle" /\ pc'[r] = "debounce")
           /\ current' \in {q, None}
           /\ ~Empty(q, items', dropped') => current' = q
<1>1. Typed /\ Draining /\ Held(items, dropped, turn, fate, recent) /\ OneTurnEach
  BY InvParts
<1>2. /\ ItemsFor(q) \in Queues /\ CountsFor(q) \in Counts
      /\ Held(ItemsFor(q), CountsFor(q), turn, fate, recent)
  BY MadeHeld DEF Delivered
<1>3. /\ items' \in Queues /\ dropped' \in Counts
      /\ recent' \subseteq Message /\ fate' \in [Message -> Fates]
      /\ Held(items', dropped', turn, fate', recent')
      /\ \A r \in Object : \A x \in Range(ItemsFor(q)[r]) :
             fate'[x] = "queued" => x \in Range(items'[r])
      /\ \A x \in Message : fate[x] \in {"answered", "cleared"} => fate'[x] = fate[x]
      /\ \A x \in Message : fate'[x] # "answered" \/ fate[x] = "answered"
  <2>1. CASE Reject(ItemsFor(q), CountsFor(q))
    <3>1. items' = ItemsFor(q) /\ dropped' = CountsFor(q) /\ recent' = recent /\ fate' = fate
      BY <2>1 DEF Reject
    <3> QED
      BY <1>1, <1>2, <3>1 DEF Typed
  <2>2. CASE m \notin recent /\ Accept(q, m, ItemsFor(q), CountsFor(q), s)
    <3>1. TypeOK
      BY DEF QueueInv
    <3> QED
      BY <1>2, <2>2, <3>1, AcceptHeld
  <2> QED
    BY <2>1, <2>2 DEF Delivered
<1>4. turn' = turn /\ main' = main /\ clears' = clears
  BY DEF Delivered
<1>5. settings' \in [Object -> Settings]
  BY <1>1 DEF Delivered, Typed
<1>6. Typed'
  BY <1>1, <1>3, <1>4, <1>5 DEF Typed
<1>7. /\ Draining'
      /\ \A r \in Object : pc'[r] = pc[r] \/ (pc[r] = "idle" /\ pc'[r] = "debounce")
      /\ current' \in {q, None}
      /\ ~Empty(q, items', dropped') => current' = q
  <2>1. CASE current' = q /\ UNCHANGED <<pc, forced>>
    BY <1>1, <2>1 DEF Draining
  <2>2. CASE Schedule(q, pc, items', dropped')
    <3>1. pc \in [Object -> Standing]
      BY <1>1 DEF Draining
    <3>2. Scheduled(q, pc, items', dropped')
      BY <1>1, <2>2, <3>1, ScheduleKeeps
    <3> QED
      BY <3>2 DEF Scheduled
  <2> QED
    BY <2>1, <2>2 DEF Delivered
<1> QED
  BY <1>3, <1>4, <1>6, <1>7

\* What the steps of a drain do: its queue is the only one that changes, and
\* only a turn that returns changes it.
LEMMA BeginKeeps ==
    ASSUME QueueInv, NEW q \in Object, BeginTurn(q)
    PROVE  /\ Typed' /\ Draining' /\ OneTurnEach'
           /\ Held(items', dropped', turn', fate', recent')
           /\ items' = items /\ fate' = fate
           /\ pc[q] = "debounce"
           /\ \/ pc'[q] = "turn" /\ TurnFor(q, turn'[q])
                 /\ current' = current /\ \A r \in Object \ {q} : pc'[r] = pc[r]
              \/ items[q] = <<>> /\ Ended(q, items, dropped)
<1>1. Typed /\ Draining /\ Held(items, dropped, turn, fate, recent) /\ OneTurnEach
  BY InvParts
<1> DEFINE collect == settings[q].mode = "collect"
           next == IF collect THEN CollectTurns(q) ELSE FollowupTurns(q)
<1>2. /\ pc[q] = "debounce"
      /\ items' = items /\ dropped' = dropped /\ settings' = settings /\ recent' = recent
      /\ main' = main /\ clears' = clears /\ fate' = fate
  BY DEF BeginTurn
<1>3. turn[q] = NoTurn
  BY <1>1, <1>2 DEF OneTurnEach
<1>4. CASE next = {} /\ EndDrain(q, items, dropped) /\ UNCHANGED turn
  <2>1. items[q] = <<>>
    <3>1. OneByOne(q) = {} => items[q] = <<>>
      BY DEF OneByOne
    <3>2. {Batch(q)} # {} /\ {[prompt |-> {}, report |-> Summary(q), take |-> 1]} # {}
      OBVIOUS
    <3>3. CollectTurns(q) = {} => items[q] = <<>>
      BY <3>1, <3>2 DEF CollectTurns, Empty
    <3>4. FollowupTurns(q) = {} => items[q] = <<>>
      BY <3>1, <3>2 DEF FollowupTurns
    <3> QED
      BY <1>4, <3>3, <3>4
  <2>2. Ended(q, items, dropped)
    BY <1>1, <1>4, EndDrainKeeps
  <2>3. Typed' /\ Held(items', dropped', turn', fate', recent')
    BY <1>1, <1>2, <1>4 DEF Typed
  <2>4. OneTurnEach'
    <3> SUFFICES ASSUME NEW r \in Object, pc'[r] # "turn" PROVE turn'[r] = NoTurn
      BY DEF OneTurnEach
    <3>1. CASE r = q
      BY <1>3, <1>4, <3>1
    <3>2. CASE r # q
      <4>1. pc[r] # "turn"
        BY <2>2, <3>2 DEF Ended
      <4> QED
        BY <1>1, <1>4, <4>1 DEF OneTurnEach
    <3> QED
      BY <3>1, <3>2
  <2> QED
    BY <1>2, <2>1, <2>2, <2>3, <2>4 DEF Ended
<1>5. CASE /\ \E t \in next : turn' = [turn EXCEPT ![q] = t]
           /\ pc' = [pc EXCEPT ![q] = "turn"]
           /\ forced' = [forced EXCEPT ![q] = @ \/ (collect /\ CrossChannel(items[q]))]
           /\ UNCHANGED current
  <2>1. PICK t \in CollectTurns(q) \cup FollowupTurns(q) : turn' = [turn EXCEPT ![q] = t]
    BY <1>5
  <2> HIDE DEF collect, next
  <2>2. TurnFor(q, t)
    BY <2>1, TurnHandedOut DEF QueueInv
  <2>3. turn' \in [Object -> Turn] /\ Held(items, dropped, turn', fate, recent)
    BY <2>1, <2>2, TurnBeginsHeld
  <2>4. turn'[q] = t /\ \A r \in Object \ {q} : turn'[r] = turn[r]
    BY <1>1, <2>1 DEF Typed
  <2>5. Typed' /\ Held(items', dropped', turn', fate', recent')
    BY <1>1, <1>2, <2>3 DEF Typed
  <2>6. pc' \in [Object -> Standing] /\ pc'[q] = "turn" /\ \A r \in Object \ {q} : pc'[r] = pc[r]
    BY <1>1, <1>5 DEF Draining, Standing
  <2>7. forced' \in [Object -> BOOLEAN]
    <3> DEFINE f == forced[q] \/ (collect /\ CrossChannel(items[q]))
    <3>1. forced' = [forced EXCEPT ![q] = f] /\ forced \in [Object -> BOOLEAN]
      BY <1>1, <1>5 DEF Draining
    <3>2. f \in BOOLEAN
      BY Zenon
    <3> HIDE DEF f
    <3> QED
      BY <3>1, <3>2
  <2>8. Draining'
    BY <1>1, <1>5, <2>6, <2>7 DEF Draining
  <2>9. OneTurnEach'
    BY <1>1, <2>4, <2>6 DEF OneTurnEach
  <2> QED
    BY <1>2, <1>5, <2>2, <2>4, <2>5, <2>6, <2>8, <2>9
<1> QED
  BY <1>4, <1>5, Zenon DEF BeginTurn

LEMMA ReturnKeeps ==
    ASSUME QueueInv, NEW q \in Object, TurnReturns(q)
    PROVE  /\ Typed' /\ Draining' /\ OneTurnEach'
           /\ Held(items', dropped', turn', fate', recent')
           /\ pc[q] = "turn"
           /\ Ended(q, items', dropped')
           /\ ~Empty(q, items', dropped') => pc'[q] = "debounce"
<1>1. Typed /\ Draining /\ Held(items, dropped, turn, fate, recent) /\ OneTurnEach
  BY InvParts
<1>2. /\ items' \in Queues /\ dropped' \in Counts
      /\ turn' \in [Object -> Turn] /\ fate' \in [Message -> Fates]
      /\ Held(items', dropped', turn', fate', recent')
  BY TurnReturnsHeld
<1>3. /\ pc[q] = "turn" /\ turn' = [turn EXCEPT ![q] = NoTurn]
      /\ settings' = settings /\ recent' = recent /\ main' = main /\ clears' = clears
      /\ Loop(q, items', dropped')
  BY DEF TurnReturns
<1>4. Typed'
  BY <1>1, <1>2, <1>3 DEF Typed
<1>5. Ended(q, items', dropped') /\ (~Empty(q, items', dropped') => pc'[q] = "debounce")
  BY <1>1, <1>3, LoopKeeps
<1>6. OneTurnEach'
  BY <1>1, <1>3, <1>5 DEF OneTurnEach, Ended, Typed
<1> QED
  BY <1>2, <1>3, <1>4, <1>5, <1>6 DEF Ended

LEMMA ThrowKeeps ==
    ASSUME QueueInv, NEW q \in Object, TurnThrows(q)
    PROVE  /\ Typed' /\ Draining' /\ OneTurnEach'
           /\ Held(items', dropped', turn', fate', recent')
           /\ items' = items /\ dropped' = dropped /\ fate' = fate
           /\ pc[q] = "turn"
           /\ Ended(q, items, dropped)
<1>1. Typed /\ Draining /\ Held(items, dropped, turn, fate, recent) /\ OneTurnEach
  BY InvParts
<1>2. /\ pc[q] = "turn" /\ turn' = [turn EXCEPT ![q] = NoTurn]
      /\ EndDrain(q, items, dropped)
      /\ items' = items /\ dropped' = dropped /\ settings' = settings /\ recent' = recent
      /\ main' = main /\ clears' = clears /\ fate' = fate
  BY DEF TurnThrows
<1>3. turn' \in [Object -> Turn] /\ Held(items, dropped, turn', fate, recent)
  BY <1>2, TurnOverHeld
<1>4. Typed' /\ Held(items', dropped', turn', fate', recent')
  BY <1>1, <1>2, <1>3 DEF Typed
<1>5. Ended(q, items, dropped)
  BY <1>1, <1>2, EndDrainKeeps
<1>6. OneTurnEach'
  BY <1>1, <1>2, <1>5 DEF OneTurnEach, Ended, Typed
<1> QED
  BY <1>2, <1>4, <1>5, <1>6 DEF Ended

\* The ordinary run of the session, and a clear, leave the drains where they are.
LEMMA ClearKeeps ==
    ASSUME QueueInv, Clear
    PROVE  /\ Typed' /\ Draining' /\ OneTurnEach'
           /\ Held(items', dropped', turn', fate', recent')
<1>1. Typed /\ Draining /\ Held(items, dropped, turn, fate, recent) /\ OneTurnEach
  BY InvParts
<1>2. /\ clears' = clears + 1 /\ clears < MaxClears
      /\ current' = None /\ pc' = pc /\ forced' = forced
      /\ settings' = settings /\ turn' = turn /\ recent' = recent /\ main' = main
  BY DEF Clear
<1>3. /\ items' \in Queues /\ dropped' \in Counts /\ fate' \in [Message -> Fates]
      /\ Held(items', dropped', turn', fate', recent')
  BY ClearHeld
<1>4. clears' \in 0 .. MaxClears
  <2>1. MaxClears \in Nat /\ clears \in 0 .. MaxClears
    BY <1>1, ObjectAssumption DEF Typed
  <2> QED
    BY <1>2, <2>1
<1>5. Typed' /\ Draining' /\ OneTurnEach'
  BY <1>1, <1>2, <1>3, <1>4 DEF Typed, Draining, OneTurnEach
<1> QED
  BY <1>3, <1>5

Main == MainStarts \/ MainEnds \/ MainFinalizes

LEMMA MainKeeps ==
    ASSUME QueueInv, Main
    PROVE  /\ Typed' /\ Draining' /\ OneTurnEach'
           /\ Held(items', dropped', turn', fate', recent')
           /\ items' = items /\ dropped' = dropped /\ fate' = fate
           /\ \A r \in Object : pc'[r] = pc[r] \/ (pc[r] = "idle" /\ pc'[r] = "debounce")
           /\ current' \in {current, None}
           /\ current \in Object /\ ~Empty(current, items, dropped) => current' = current
<1>1. Typed /\ Draining /\ Held(items, dropped, turn, fate, recent) /\ OneTurnEach
  BY InvParts
<1>2. /\ items' = items /\ dropped' = dropped /\ settings' = settings /\ turn' = turn
      /\ recent' = recent /\ clears' = clears /\ fate' = fate
      /\ main' \in {"idle", "active", "finishing"}
  BY DEF Main, MainStarts, MainEnds, MainFinalizes
<1>3. /\ Draining'
      /\ \A r \in Object : pc'[r] = pc[r] \/ (pc[r] = "idle" /\ pc'[r] = "debounce")
      /\ current' \in {current, None}
      /\ current \in Object /\ ~Empty(current, items, dropped) => current' = current
  <2>1. CASE MainStarts \/ MainEnds
    BY <1>1, <2>1 DEF MainStarts, MainEnds, Draining, drainVars
  <2>2. CASE MainFinalizes
    <3>1. Schedule(current, pc, items, dropped)
      BY <2>2 DEF MainFinalizes
    <3>2. current \in Object \cup {None} /\ pc \in [Object -> Standing]
      BY <1>1 DEF Draining
    <3>3. Scheduled(current, pc, items, dropped)
      BY <1>1, <3>1, <3>2, ScheduleKeeps
    <3> QED
      BY <3>3 DEF Scheduled
  <2> QED
    BY <2>1, <2>2 DEF Main
<1>4. Typed' /\ Held(items', dropped', turn', fate', recent')
  BY <1>1, <1>2 DEF Typed
<1>5. OneTurnEach'
  BY <1>1, <1>2, <1>3, TurnsStay
<1> QED
  BY <1>2, <1>3, <1>4, <1>5

LEMMA QueueInvInit == Init => QueueInv
<1> SUFFICES ASSUME Init PROVE QueueInv
  OBVIOUS
<1>1. <<>> \in Seq(Message) /\ Len(<<>>) = 0
  BY EmptySeq
<1>2. NoTurn \in Turn /\ NoTurn.prompt = {} /\ NoTurn.take = 0
  BY DEF NoTurn, Turn
<1>3. (CHOOSE s \in Settings : TRUE) \in Settings
  BY SettingsAssumption
<1>4. 0 \in 0 .. MaxClears
  BY ObjectAssumption
<1>5. Typed
  BY <1>1, <1>2, <1>3, <1>4 DEF Init, Typed, Queues, Counts, Fates
<1>6. Draining
  BY DEF Init, Draining, Standing
<1>7. OneTurnEach
  BY DEF Init, OneTurnEach
<1>8. \A q \in Object : \A i \in 1 .. Len(items[q]) : FALSE
  BY <1>1 DEF Init
<1>9. \A q \in Object : dropped[q] = {} /\ turn[q].prompt = {} /\ turn[q].take = 0
  BY <1>2 DEF Init
<1>10. \A m \in Message : fate[m] = "new"
  BY DEF Init
<1>11. Seen(fate, recent) /\ Waiting(items, fate) /\ InOnePlace(items)
  BY <1>8, <1>10 DEF Seen, Waiting, InOnePlace
<1>12. CountedGone(dropped, fate) /\ PromptSeen(turn, fate)
  BY <1>9 DEF CountedGone, PromptSeen
<1>13. PromptAhead(items, turn) /\ TakesPrompt(items, turn)
  BY <1>8, <1>9 DEF PromptAhead, TakesPrompt
<1>14. Held(items, dropped, turn, fate, recent)
  BY <1>11, <1>12, <1>13 DEF Held
<1> QED
  BY <1>5, <1>6, <1>7, <1>14, InvFromParts

\* The steps of the system, in the groups the lemmas are about.
LEMMA QueueSteps ==
    ASSUME QueueInv, Next
    PROVE  \/ \E m \in Message, s \in Settings, q \in Object : Delivered(q, m, s)
           \/ \E q \in Object : BeginTurn(q)
           \/ \E q \in Object : TurnReturns(q)
           \/ \E q \in Object : TurnThrows(q)
           \/ Clear
           \/ Main
<1>1. CASE \E m \in Message, s \in Settings : Deliver(m, s)
  BY <1>1, DeliverParts DEF QueueInv
<1>2. CASE \E q \in Object : BeginTurn(q) \/ TurnReturns(q) \/ TurnThrows(q)
  BY <1>2
<1>3. CASE Clear
  BY <1>3
<1>4. CASE MainStarts \/ MainEnds \/ MainFinalizes
  BY <1>4 DEF Main
<1> QED
  BY <1>1, <1>2, <1>3, <1>4 DEF Next

LEMMA QueueInvNext == QueueInv /\ [Next]_vars => QueueInv'
<1> SUFFICES ASSUME QueueInv, [Next]_vars PROVE QueueInv'
  OBVIOUS
<1>1. CASE UNCHANGED vars
  BY <1>1 DEF vars, drainVars, QueueInv, TypeOK, OneTurnEach
<1>2. ASSUME Next
      PROVE  /\ Typed' /\ Draining' /\ OneTurnEach'
             /\ Held(items', dropped', turn', fate', recent')
  <2>1. ASSUME NEW m \in Message, NEW s \in Settings, NEW q \in Object, Delivered(q, m, s)
        PROVE  /\ Typed' /\ Draining' /\ OneTurnEach'
               /\ Held(items', dropped', turn', fate', recent')
    <3>1. OneTurnEach'
      <4>1. turn' = turn
        BY <2>1 DEF Delivered
      <4>2. \A r \in Object : pc'[r] = pc[r] \/ (pc[r] = "idle" /\ pc'[r] = "debounce")
        BY <2>1, DeliveredKeeps
      <4> QED
        BY <4>1, <4>2, TurnsStay DEF QueueInv
    <3> QED
      BY <2>1, <3>1, DeliveredKeeps
  <2>2. CASE \E q \in Object : BeginTurn(q)
    BY <2>2, BeginKeeps
  <2>3. CASE \E q \in Object : TurnReturns(q)
    BY <2>3, ReturnKeeps
  <2>4. CASE \E q \in Object : TurnThrows(q)
    BY <2>4, ThrowKeeps
  <2>5. CASE Clear
    BY <2>5, ClearKeeps
  <2>6. CASE Main
    BY <2>6, MainKeeps
  <2> QED
    BY <1>2, <2>1, <2>2, <2>3, <2>4, <2>5, <2>6, QueueSteps
<1>3. CASE Next
  <2>1. /\ Typed' /\ Draining' /\ OneTurnEach'
        /\ Held(items, dropped, turn, fate, recent)'
    BY <1>2, <1>3
  <2>2. (Typed /\ Draining /\ Held(items, dropped, turn, fate, recent) /\ OneTurnEach
           => QueueInv)'
    BY InvFromParts, PTL
  <2> QED
    BY <2>1, <2>2
<1> QED
  BY <1>1, <1>3

LEMMA QueueInvariance == Spec => []QueueInv
BY QueueInvInit, QueueInvNext, PTL DEF Spec

\* The types of the follow-up queue's state: no message is queued twice in one
\* object, whatever is redelivered, evicted, retried or cleared.
THEOREM FollowupTypeCorrect == Spec => []TypeOK
<1>1. QueueInv => TypeOK
  BY DEF QueueInv
<1> QED
  BY <1>1, QueueInvariance, PTL

-----------------------------------------------------------------------------
(***************************************************************************)
(* Nothing is asked again, and nothing overtakes.                           *)
(***************************************************************************)
Settled == \A m \in Message : fate[m] \in {"answered", "cleared"} => fate'[m] = fate[m]

NeverAskedStep ==
    /\ Settled
    /\ \A q \in Object : pc[q] = "debounce" /\ pc'[q] = "turn" =>
           \A m \in turn'[q].prompt : fate[m] = "queued"

\* What a turn that returns does to the messages: its prompt is answered.
LEMMA ReturnAnswers ==
    ASSUME QueueInv, NEW q \in Object, TurnReturns(q), NEW m \in Message
    PROVE  /\ fate[m] # "cleared" /\ m \in turn[q].prompt => fate'[m] = "answered"
           /\ fate[m] = "cleared" \/ m \notin turn[q].prompt => fate'[m] = fate[m]
<1>1. fate' = [x \in Message |->
                IF x \in turn[q].prompt /\ fate[x] # "cleared" THEN "answered" ELSE fate[x]]
  BY DEF TurnReturns
<1> QED
  BY <1>1

LEMMA NeverAskedHolds ==
    ASSUME QueueInv, [Next]_vars
    PROVE  NeverAskedStep
<1>1. ASSUME \A r \in Object : pc'[r] = pc[r] \/ pc'[r] \in {"idle", "debounce"}, Settled
      PROVE  NeverAskedStep
  BY <1>1 DEF NeverAskedStep
<1>2. CASE UNCHANGED vars
  <2>1. fate' = fate /\ pc' = pc
    BY <1>2 DEF vars, drainVars
  <2> QED
    BY <1>1, <2>1 DEF Settled
<1>3. CASE Next
  <2>1. ASSUME NEW m \in Message, NEW s \in Settings, NEW q \in Object, Delivered(q, m, s)
        PROVE  NeverAskedStep
    <3>1. \A x \in Message : fate[x] \in {"answered", "cleared"} => fate'[x] = fate[x]
      BY <2>1, DeliveredKeeps
    <3>2. \A r \in Object : pc'[r] = pc[r] \/ (pc[r] = "idle" /\ pc'[r] = "debounce")
      BY <2>1, DeliveredKeeps
    <3> QED
      BY <1>1, <3>1, <3>2 DEF Settled
  <2>2. ASSUME NEW q \in Object, BeginTurn(q)
        PROVE  NeverAskedStep
    <3>1. fate' = fate
      BY <2>2, BeginKeeps
    <3>2. Settled
      BY <3>1 DEF Settled
    <3>3. CASE /\ pc'[q] = "turn" /\ TurnFor(q, turn'[q])
               /\ current' = current /\ \A r \in Object \ {q} : pc'[r] = pc[r]
      <4>1. ASSUME NEW m \in turn'[q].prompt PROVE fate[m] = "queued"
        <5>1. Len(items[q]) \in Nat
          BY LenProperties DEF QueueInv, TypeOK
        <5>2. PICK i \in 1 .. Len(items[q]) : items[q][i] = m
          BY <3>3, <4>1, <5>1 DEF TurnFor, Turn
        <5> QED
          BY <5>2 DEF QueueInv, Held, Waiting
      <4>2. \A r \in Object : pc[r] = "debounce" /\ pc'[r] = "turn" => r = q
        BY <3>3
      <4> QED
        BY <3>2, <4>1, <4>2 DEF NeverAskedStep
    <3>4. CASE items[q] = <<>> /\ Ended(q, items, dropped)
      BY <1>1, <3>2, <3>4 DEF Ended
    <3> QED
      BY <2>2, <3>3, <3>4, BeginKeeps
  <2>3. ASSUME NEW q \in Object, TurnReturns(q)
        PROVE  NeverAskedStep
    <3>1. Settled
      BY <2>3, ReturnAnswers DEF Settled
    <3>2. Ended(q, items', dropped')
      BY <2>3, ReturnKeeps
    <3> QED
      BY <1>1, <3>1, <3>2 DEF Ended
  <2>4. ASSUME NEW q \in Object, TurnThrows(q)
        PROVE  NeverAskedStep
    <3>1. fate' = fate /\ Ended(q, items, dropped)
      BY <2>4, ThrowKeeps
    <3> QED
      BY <1>1, <3>1 DEF Ended, Settled
  <2>5. CASE Clear
    <3>1. \A m \in Message : fate'[m] = fate[m] \/ fate[m] \in {"queued", "evicted"}
      BY <2>5, ClearHeld
    <3>2. pc' = pc
      BY <2>5 DEF Clear
    <3> QED
      BY <1>1, <3>1, <3>2 DEF Settled
  <2>6. CASE Main
    <3>1. /\ fate' = fate
          /\ \A r \in Object : pc'[r] = pc[r] \/ (pc[r] = "idle" /\ pc'[r] = "debounce")
      BY <2>6, MainKeeps
    <3> QED
      BY <1>1, <3>1 DEF Settled
  <2> QED
    BY <1>3, <2>1, <2>2, <2>3, <2>4, <2>5, <2>6, QueueSteps
<1> QED
  BY <1>2, <1>3

\* A message that was answered or cleared is not queued again, and no turn is
\* begun with one: every message is in one queue at most, and what is in a queue
\* waits.
THEOREM FollowupNeverAskedAgain == Spec => NeverAskedAgain
<1>1. QueueInv /\ [Next]_vars => [NeverAskedStep]_vars
  BY NeverAskedHolds
<1>2. ASSUME [][NeverAskedStep]_vars PROVE NeverAskedAgain
  BY <1>2, PTL DEF NeverAskedAgain, NeverAskedStep, Settled
<1> QED
  BY <1>1, <1>2, QueueInvariance, PTL DEF Spec

InOrderStep ==
    \A q \in Object : \A i, j \in 1 .. Len(items[q]) :
        i < j /\ fate[items[q][j]] = "queued" /\ fate'[items[q][j]] = "answered"
        => fate'[items[q][i]] # "queued"

LEMMA InOrderHolds ==
    ASSUME QueueInv, [Next]_vars
    PROVE  InOrderStep
<1> SUFFICES ASSUME NEW q \in Object,
                    NEW i \in 1 .. Len(items[q]), NEW j \in 1 .. Len(items[q]),
                    i < j, fate[items[q][j]] = "queued", fate'[items[q][j]] = "answered"
             PROVE  fate'[items[q][i]] # "queued"
  BY DEF InOrderStep
<1>1. items[q][i] \in Message /\ items[q][j] \in Message
  <2>1. items[q] \in Seq(Message)
    BY DEF QueueInv, TypeOK
  <2> QED
    BY <2>1, ElementOfSeq
<1>2. CASE fate' = fate
  BY <1>2
<1>3. CASE \E m \in Message, s \in Settings, r \in Object : Delivered(r, m, s)
  <2>1. fate'[items[q][j]] # "answered" \/ fate[items[q][j]] = "answered"
    BY <1>1, <1>3, DeliveredKeeps
  <2> QED
    BY <2>1
<1>4. ASSUME NEW r \in Object, TurnReturns(r)
      PROVE  fate'[items[q][i]] # "queued"
  <2>1. items[q][j] \in turn[r].prompt
    BY <1>1, <1>4, ReturnAnswers
  <2>2. r = q /\ \A h \in 1 .. j : items[q][h] \in turn[q].prompt
    BY <2>1 DEF QueueInv, Held, PromptAhead
  <2>3. i \in 1 .. j
    OBVIOUS
  <2>4. items[q][i] \in turn[q].prompt /\ fate[items[q][i]] = "queued"
    BY <2>2, <2>3 DEF QueueInv, Held, Waiting
  <2>5. fate'[items[q][i]] = "answered"
    BY <1>1, <1>4, <2>2, <2>4, ReturnAnswers
  <2> QED
    BY <2>5
<1>5. CASE Clear
  <2>1. fate'[items[q][j]] = fate[items[q][j]] \/ fate'[items[q][j]] = "cleared"
    BY <1>1, <1>5, ClearHeld
  <2> QED
    BY <2>1
<1>6. CASE Next
  <2>1. ASSUME \/ \E r \in Object : BeginTurn(r)
               \/ \E r \in Object : TurnThrows(r)
               \/ Main
        PROVE  fate' = fate
    BY <2>1, BeginKeeps, ThrowKeeps, MainKeeps
  <2> QED
    BY <1>2, <1>3, <1>4, <1>5, <1>6, <2>1, QueueSteps
<1>7. CASE UNCHANGED vars
  BY <1>2, <1>7 DEF vars
<1> QED
  BY <1>6, <1>7

\* A message is not answered while one ahead of it still waits: whatever was
\* evicted, cleared or queued since the turn began, the part of its prompt that
\* is still queued is the head of the queue.
THEOREM FollowupInOrder == Spec => InOrder
<1>1. QueueInv /\ [Next]_vars => [InOrderStep]_vars
  BY InOrderHolds
<1>2. ASSUME [][InOrderStep]_vars PROVE InOrder
  BY <1>2, PTL DEF InOrder, InOrderStep
<1> QED
  BY <1>1, <1>2, QueueInvariance, PTL DEF Spec

-----------------------------------------------------------------------------
(***************************************************************************)
(* How a message can be lost.                                               *)
(***************************************************************************)
\* A drain that lost its key ends.
Orphaned == \E q \in Object : q # current /\ pc[q] # "idle" /\ pc'[q] = "idle"

\* A turn takes more than it was asked about.
Overtaken(m) ==
    \E q \in Object :
        /\ pc[q] = "turn" /\ pc'[q] # "turn"
        /\ \/ ~(turn[q].prompt \subseteq Range(items[q]))
           \/ turn[q].prompt = {} /\ m = Head(items[q])

LostStep ==
    \A m \in Message :
        fate[m] = "queued" /\ fate'[m] = "queued" /\ Kept(m) /\ ~Kept(m)' =>
            Orphaned \/ Overtaken(m)

LEMMA HolderNotEmpty ==
    ASSUME NEW s \in Seq(Message), NEW m \in Range(s)
    PROVE  s # <<>>
<1>1. PICK i \in 1 .. Len(s) : s[i] = m
  BY RangeIndexed
<1>2. Len(<<>>) = 0
  BY EmptySeq
<1> QED
  BY <1>1, <1>2

\* When a drain ends, a message that is still in its object, or in another, is
\* lost only with a drain that does not have the key.
LEMMA EndedLoses ==
    ASSUME QueueInv, NEW q \in Object, pc[q] # "idle",
           items' \in Queues, NEW drp, Ended(q, items', drp),
           NEW m \in Message, NEW h \in Object, h = current \/ pc[h] # "idle",
           m \in Range(items'[h]), ~Kept(m)'
    PROVE  Orphaned
<1>1. h # current' /\ pc'[h] = "idle"
  BY DEF Kept
<1>2. ~Empty(h, items', drp)
  <2>1. items'[h] \in Seq(Message)
    BY DEF Queues
  <2> QED
    BY <2>1, HolderNotEmpty DEF Empty
<1>3. CASE h = q
  <2>1. q # current
    BY <1>1, <1>2, <1>3 DEF Ended
  <2> QED
    BY <1>1, <1>3, <2>1 DEF Orphaned
<1>4. CASE h # q
  <2>1. h = current
    BY <1>1, <1>4 DEF Ended
  <2>2. Empty(q, items', drp)
    BY <1>1, <1>2, <2>1 DEF Ended
  <2>3. pc'[q] = "idle" /\ q # current
    BY <1>4, <2>1, <2>2 DEF Ended
  <2> QED
    BY <2>3 DEF Orphaned
<1> QED
  BY <1>3, <1>4

LEMMA LostHolds ==
    ASSUME QueueInv, [Next]_vars
    PROVE  LostStep
<1> SUFFICES ASSUME NEW m \in Message, fate[m] = "queued", fate'[m] = "queued",
                    Kept(m), ~Kept(m)'
             PROVE  Orphaned \/ Overtaken(m)
  BY DEF LostStep
<1>1. PICK h \in Object : (h = current \/ pc[h] # "idle") /\ m \in Range(items[h])
  BY DEF Kept
<1>2. m \in Range(items'[h]) => h # current' /\ pc'[h] = "idle"
  BY DEF Kept
<1>3. items \in Queues /\ items[h] \in Seq(Message)
  BY DEF QueueInv, TypeOK, Queues
<1>4. items[h] # <<>>
  BY <1>1, <1>3, HolderNotEmpty
<1>5. CASE UNCHANGED vars
  BY <1>1, <1>2, <1>5 DEF vars, drainVars
<1>6. ASSUME NEW x \in Message, NEW s \in Settings, NEW q \in Object, Delivered(q, x, s)
      PROVE  FALSE
  <2>1. m \in Range(ItemsFor(q)[h])
    <3>1. CASE current # None
      BY <1>1, <3>1 DEF ItemsFor
    <3>2. CASE current = None
      <4>1. h # q
        BY <1>1, <1>6, <3>2, ObjectAssumption DEF Delivered, Receives, Garbage
      <4>2. ItemsFor(q)[h] = items[h]
        BY <1>3, <3>2, <4>1 DEF ItemsFor, Queues
      <4> QED
        BY <1>1, <4>2
    <3> QED
      BY <3>1, <3>2
  <2>2. m \in Range(items'[h])
    BY <1>6, <2>1, DeliveredKeeps
  <2>3. \A r \in Object : pc'[r] = pc[r] \/ (pc[r] = "idle" /\ pc'[r] = "debounce")
    BY <1>6, DeliveredKeeps
  <2>4. h = current
    BY <1>1, <1>2, <2>2, <2>3
  <2>5. h = q
    BY <1>6, <2>4, ObjectAssumption DEF Delivered, Receives
  <2>6. items'[q] # <<>>
    <3>1. items' \in Queues
      BY <1>6, DeliveredKeeps DEF Typed
    <3>2. items'[q] \in Seq(Message)
      BY <3>1 DEF Queues
    <3> QED
      BY <2>2, <2>5, <3>2, HolderNotEmpty
  <2>7. current' = q
    <3>1. ~Empty(q, items', dropped')
      BY <2>6 DEF Empty
    <3> QED
      BY <1>6, <3>1, DeliveredKeeps
  <2> QED
    BY <1>2, <2>2, <2>5, <2>7
<1>7. ASSUME NEW q \in Object, BeginTurn(q)
      PROVE  Orphaned
  <2>1. items' = items /\ pc[q] = "debounce"
    BY <1>7, BeginKeeps
  <2>2. CASE /\ pc'[q] = "turn" /\ TurnFor(q, turn'[q])
             /\ current' = current /\ \A r \in Object \ {q} : pc'[r] = pc[r]
    BY <1>1, <1>2, <2>1, <2>2
  <2>3. CASE items[q] = <<>> /\ Ended(q, items, dropped)
    <3>1. Ended(q, items', dropped) /\ items' \in Queues /\ m \in Range(items'[h])
      BY <1>1, <1>3, <2>1, <2>3
    <3> QED
      BY <1>1, <2>1, <3>1, EndedLoses
  <2> QED
    BY <1>7, <2>2, <2>3, BeginKeeps
<1>8. ASSUME NEW q \in Object, TurnReturns(q)
      PROVE  Orphaned \/ Overtaken(m)
  <2>1. /\ pc[q] = "turn" /\ Ended(q, items', dropped')
        /\ ~Empty(q, items', dropped') => pc'[q] = "debounce"
    BY <1>8, ReturnKeeps
  <2>2. /\ items' \in Queues
        /\ \A r \in Object \ {q} : items'[r] = items[r]
        /\ \A i \in 1 .. Len(items[q]) : i > turn[q].take => items[q][i] \in Range(items'[q])
    BY <1>8, TurnReturnsHeld
  <2>3. CASE m \in Range(items'[h])
    BY <1>1, <2>1, <2>2, <2>3, EndedLoses
  <2>4. CASE m \notin Range(items'[h])
    <3>1. h = q
      BY <1>1, <2>2, <2>4
    <3>2. PICK i \in 1 .. Len(items[q]) : items[q][i] = m
      BY <1>1, <1>3, <3>1, RangeIndexed
    <3>3. ~(i > turn[q].take)
      BY <2>2, <2>4, <3>1, <3>2
    <3>4. turn[q].take \in Nat /\ Len(items[q]) \in Nat
      BY <1>3, <3>1, LenProperties DEF QueueInv, TypeOK
    <3>5. m \notin turn[q].prompt
      BY <1>8, ReturnAnswers
    <3>6. /\ turn[q].prompt = {} => turn[q].take <= 1
          /\ turn[q].prompt # {} /\ turn[q].prompt \subseteq Range(items[q]) =>
                \A j \in 1 .. turn[q].take : items[q][j] \in turn[q].prompt
      BY DEF QueueInv, Held, TakesPrompt
    <3>7. i \in 1 .. turn[q].take
      BY <3>3, <3>4
    <3>8. turn[q].prompt # {} => ~(turn[q].prompt \subseteq Range(items[q]))
      BY <3>2, <3>5, <3>6, <3>7
    <3>9. turn[q].prompt = {} => m = Head(items[q])
      <4> SUFFICES ASSUME turn[q].prompt = {} PROVE m = Head(items[q])
        OBVIOUS
      <4>1. i = 1
        BY <3>4, <3>6, <3>7
      <4>2. Head(items[q]) = items[q][1]
        BY <1>3, <1>4, <3>1
      <4> QED
        BY <3>2, <4>1, <4>2
    <3>10. pc'[q] # "turn"
      BY <2>1 DEF Ended
    <3> QED
      BY <2>1, <3>8, <3>9, <3>10 DEF Overtaken
  <2> QED
    BY <2>3, <2>4
<1>9. ASSUME NEW q \in Object, TurnThrows(q)
      PROVE  Orphaned
  <2>1. items' = items /\ pc[q] = "turn" /\ Ended(q, items, dropped)
    BY <1>9, ThrowKeeps
  <2>2. Ended(q, items', dropped) /\ items' \in Queues /\ m \in Range(items'[h])
    BY <1>1, <1>3, <2>1
  <2> QED
    BY <1>1, <2>1, <2>2, EndedLoses
<1>10. CASE Clear
  <2>1. h # current
    <3>1. h = current /\ m \in Range(items[h]) => fate'[m] = "cleared"
      BY <1>10, ClearHeld
    <3> QED
      BY <1>1, <3>1
  <2>2. items'[h] = items[h] /\ pc' = pc
    BY <1>10, <2>1, ClearHeld DEF Clear
  <2> QED
    BY <1>1, <1>2, <2>1, <2>2
<1>11. CASE Main
  <2>1. /\ items' = items
        /\ \A r \in Object : pc'[r] = pc[r] \/ (pc[r] = "idle" /\ pc'[r] = "debounce")
        /\ current \in Object /\ ~Empty(current, items, dropped) => current' = current
    BY <1>11, MainKeeps
  <2>2. h = current => current' = current
    BY <1>4, <2>1 DEF Empty
  <2> QED
    BY <1>1, <1>2, <2>1, <2>2
<1>12. CASE Next
  BY <1>6, <1>7, <1>8, <1>9, <1>10, <1>11, <1>12, QueueSteps
<1> QED
  BY <1>5, <1>12

\* A queued message is lost in three cases only, whatever the settings and the
\* clears: a drain without the key ends, and deletes the newer queue's entry;
\* the cap evicted items of the turn in flight; or a turn that reports a summary
\* takes the item at the head with it.
THEOREM FollowupLostOnlyBy == Spec => LostOnlyBy
<1>1. QueueInv /\ [Next]_vars => [LostStep]_vars
  BY LostHolds
<1>2. ASSUME [][LostStep]_vars PROVE LostOnlyBy
  <2>1. LostStep =>
            \A m \in Message :
                fate[m] = "queued" /\ fate'[m] = "queued" /\ Kept(m) /\ ~Kept(m)' =>
                    \E q \in Object :
                        \/ q # current /\ pc[q] # "idle" /\ pc'[q] = "idle"
                        \/ /\ pc[q] = "turn" /\ pc'[q] # "turn"
                           /\ \/ ~(turn[q].prompt \subseteq Range(items[q]))
                              \/ turn[q].prompt = {} /\ m = Head(items[q])
    BY DEF LostStep, Orphaned, Overtaken
  <2> QED
    BY <1>2, <2>1, PTL DEF LostOnlyBy
<1> QED
  BY <1>1, <1>2, QueueInvariance, PTL DEF Spec

-----------------------------------------------------------------------------
(***************************************************************************)
(* Without evictions and clears no message is lost.                         *)
(***************************************************************************)
\* Nothing is evicted, for a message that finds the queue full is turned away,
\* and the session's queues are not cleared.
Undisturbed == MaxClears = 0 /\ \A s \in Settings : s.drop = "new"

\* The object that drains is the one under the key.
OneDrain(cur, pcs) == \A r \in Object : pcs[r] # "idle" => r = cur

NothingDropped == \A q \in Object : dropped[q] = {}

\* The prompt of a turn in flight is still queued.
PromptStays ==
    \A q \in Object : pc[q] = "turn" =>
        turn[q].prompt # {} /\ turn[q].prompt \subseteq Range(items[q])

QuietInv == OneDrain(current, pc) /\ NothingDropped /\ PromptStays /\ NoneLost

LEMMA ScheduleOne ==
    ASSUME NEW cur \in Object \cup {None}, NEW pcs \in [Object -> Standing],
           NEW its, NEW drp, Schedule(cur, pcs, its, drp), OneDrain(cur, pcs)
    PROVE  OneDrain(current', pc')
<1>1. CASE current' = cur /\ pc' = pcs
  BY <1>1
<1>2. CASE cur \in Object /\ current' = cur /\ pc' = [pcs EXCEPT ![cur] = "debounce"]
  BY <1>2 DEF OneDrain
<1>3. CASE cur \in Object /\ pcs[cur] = "idle" /\ current' = None /\ pc' = pcs
  BY <1>3 DEF OneDrain
<1> QED
  BY <1>1, <1>2, <1>3 DEF Schedule

LEMMA EndDrainOne ==
    ASSUME Draining, NEW q \in Object, pc[q] # "idle",
           NEW its, NEW drp, EndDrain(q, its, drp), OneDrain(current, pc)
    PROVE  OneDrain(current', pc')
<1> DEFINE pcs == [pc EXCEPT ![q] = "idle"]
<1>1. pcs \in [Object -> Standing] /\ pcs[q] = "idle" /\ \A r \in Object \ {q} : pcs[r] = pc[r]
  BY DEF Draining, Standing
<1>2. \A r \in Object : pcs[r] = "idle"
  BY <1>1 DEF OneDrain
<1>3. CASE Empty(q, its, drp)
  BY <1>2, <1>3 DEF EndDrain, OneDrain
<1>4. CASE ~Empty(q, its, drp)
  <2>1. Schedule(current, pcs, its, drp)
    BY <1>4 DEF EndDrain
  <2> HIDE DEF pcs
  <2>2. OneDrain(current, pcs) /\ current \in Object \cup {None}
    BY <1>2 DEF OneDrain, Draining
  <2> QED
    BY <1>1, <2>1, <2>2, ScheduleOne
<1> QED
  BY <1>3, <1>4

LEMMA LoopOne ==
    ASSUME Draining, NEW q \in Object, pc[q] # "idle",
           NEW its, NEW drp, Loop(q, its, drp), OneDrain(current, pc)
    PROVE  OneDrain(current', pc')
<1>1. CASE EndDrain(q, its, drp)
  BY <1>1, EndDrainOne
<1>2. CASE pc' = [pc EXCEPT ![q] = "debounce"] /\ UNCHANGED <<current, forced>>
  BY <1>2 DEF OneDrain, Draining
<1> QED
  BY <1>1, <1>2 DEF Loop

\* A turn begins with what is queued, and with something.
LEMMA BeginPrompts ==
    ASSUME QueueInv, NEW q \in Object, dropped[q] = {},
           NEW t \in CollectTurns(q) \cup FollowupTurns(q)
    PROVE  t.prompt # {} /\ t.prompt \subseteq Range(items[q])
<1>1. items[q] \in Seq(Message) /\ Len(items[q]) \in Nat
  BY LenProperties DEF QueueInv, TypeOK
<1>2. Summary(q) = {}
  BY DEF Summary
<1>3. t \in OneByOne(q) \/ (items[q] # <<>> /\ t = Batch(q))
  BY <1>2 DEF CollectTurns, FollowupTurns, Empty
<1>4. items[q] # <<>>
  BY <1>3 DEF OneByOne
<1>5. 1 \in 1 .. Len(items[q]) /\ Head(items[q]) = items[q][1]
  BY <1>1, <1>4, EmptySeq
<1>6. Head(items[q]) \in Range(items[q])
  BY <1>1, <1>5, RangeIndexed
<1>7. CASE t \in OneByOne(q)
  BY <1>4, <1>6, <1>7 DEF OneByOne
<1>8. CASE t = Batch(q)
  BY <1>6, <1>8 DEF Batch
<1> QED
  BY <1>3, <1>7, <1>8

\* Only an accepted message comes to be queued, and it is kept.
LEMMA NewlyQueuedKept ==
    ASSUME QueueInv, NEW m \in Message, NEW s \in Settings, NEW q \in Object,
           Delivered(q, m, s), NEW x \in Message, fate[x] # "queued", fate'[x] = "queued"
    PROVE  Kept(x)'
<1>1. m \notin recent /\ Accept(q, m, ItemsFor(q), CountsFor(q), s)
  BY DEF Delivered, Reject
<1>2. x = m
  BY <1>1 DEF Accept
<1>3. /\ ItemsFor(q) \in Queues /\ CountsFor(q) \in Counts
      /\ Held(ItemsFor(q), CountsFor(q), turn, fate, recent)
  BY MadeHeld DEF Delivered
<1>4. items' \in Queues /\ m \in Range(items'[q])
  BY <1>1, <1>3, AcceptHeld DEF QueueInv
<1>5. items'[q] # <<>>
  <2>1. items'[q] \in Seq(Message)
    BY <1>4 DEF Queues
  <2> QED
    BY <1>4, <2>1, HolderNotEmpty
<1>6. current' = q
  <2>1. ~Empty(q, items', dropped')
    BY <1>5 DEF Empty
  <2> QED
    BY <2>1, DeliveredKeeps
<1> QED
  BY <1>2, <1>4, <1>6 DEF Kept

LEMMA DeliveredQuiet ==
    ASSUME Undisturbed, QueueInv, QuietInv,
           NEW m \in Message, NEW s \in Settings, NEW q \in Object, Delivered(q, m, s)
    PROVE  OneDrain(current', pc') /\ NothingDropped' /\ PromptStays'
<1>1. OneDrain(q, pc)
  <2>1. CASE current # None
    BY <2>1 DEF QuietInv, Delivered, Receives
  <2>2. CASE current = None
    BY <2>2, ObjectAssumption DEF QuietInv, OneDrain
  <2> QED
    BY <2>1, <2>2
<1>2. OneDrain(current', pc')
  <2>1. CASE current' = q /\ UNCHANGED <<pc, forced>>
    BY <1>1, <2>1
  <2>2. CASE Schedule(q, pc, items', dropped')
    <3>1. pc \in [Object -> Standing]
      BY InvParts DEF Draining
    <3> QED
      BY <1>1, <2>2, <3>1, ScheduleOne
  <2> QED
    BY <2>1, <2>2 DEF Delivered
<1>3. \A r \in Object : CountsFor(q)[r] = {}
  BY DEF QuietInv, NothingDropped, CountsFor, QueueInv, TypeOK
<1>4. s.drop = "new"
  BY DEF Undisturbed
<1>5. dropped' = CountsFor(q)
  BY <1>4 DEF Delivered, Reject, Accept
<1>6. \A x \in Message : fate[x] = "queued" => fate'[x] = "queued"
  <2>1. CASE Reject(ItemsFor(q), CountsFor(q))
    BY <2>1 DEF Reject
  <2>2. CASE /\ m \notin recent
             /\ ~(Overflow(ItemsFor(q)[q], s.cap) > 0 /\ s.drop = "new")
             /\ Accept(q, m, ItemsFor(q), CountsFor(q), s)
    <3> DEFINE n == Overflow(ItemsFor(q)[q], s.cap)
               out == {ItemsFor(q)[q][i] : i \in 1 .. n}
               gone == IF s.drop = "summarize" THEN "evicted" ELSE "discarded"
    <3>1. ItemsFor(q)[q] \in Seq(Message)
      BY MadeHeld DEF Delivered, Queues
    <3>2. s.cap \in Nat \ {0}
      BY SettingsAssumption
    <3>3. n \in 0 .. Len(ItemsFor(q)[q])
      BY <3>1, <3>2, OverflowBound
    <3>4. n = 0
      BY <1>4, <2>2, <3>1, <3>3, LenProperties
    <3>5. 1 .. n = {}
      BY <3>4
    <3>6. out = {}
      BY <3>5
    <3>7. fate' = [x \in Message |-> IF x = m THEN "queued"
                                     ELSE IF x \in out THEN gone ELSE fate[x]]
      BY <2>2 DEF Accept
    <3> HIDE DEF n, out, gone
    <3> QED
      BY <3>6, <3>7
  <2> QED
    BY <2>1, <2>2 DEF Delivered
<1>7. PromptStays'
  <2> SUFFICES ASSUME NEW r \in Object, pc'[r] = "turn"
               PROVE  turn'[r].prompt # {} /\ turn'[r].prompt \subseteq Range(items'[r])
    BY DEF PromptStays
  <2>1. pc[r] = "turn" /\ turn' = turn
    BY DeliveredKeeps DEF Delivered
  <2>2. turn[r].prompt # {} /\ turn[r].prompt \subseteq Range(items[r])
    BY <2>1 DEF QuietInv, PromptStays
  <2>3. r = current /\ current # None
    BY <2>1, ObjectAssumption DEF QuietInv, OneDrain
  <2>4. ItemsFor(q) = items
    BY <2>3 DEF ItemsFor
  <2>5. items[r] \in Seq(Message)
    BY DEF QueueInv, TypeOK
  <2>6. ASSUME NEW x \in Range(items[r]) PROVE x \in Range(items'[r])
    <3>1. PICK i \in 1 .. Len(items[r]) : items[r][i] = x
      BY <2>5, RangeIndexed
    <3>2. x \in Message /\ fate[x] = "queued"
      BY <2>5, <3>1, ElementOfSeq DEF QueueInv, Held, Waiting
    <3> QED
      BY <1>6, <2>4, <3>2, DeliveredKeeps
  <2> QED
    BY <2>1, <2>2, <2>6
<1> QED
  BY <1>2, <1>3, <1>5, <1>7 DEF NothingDropped

LEMMA DrainQuiet ==
    ASSUME QueueInv, QuietInv, NEW q \in Object, BeginTurn(q) \/ TurnReturns(q) \/ TurnThrows(q)
    PROVE  OneDrain(current', pc') /\ NothingDropped' /\ PromptStays'
<1>1. Typed /\ Draining
  BY InvParts
<1>2. pc[q] # "idle"
  BY DEF BeginTurn, TurnReturns, TurnThrows
<1>3. \A r \in Object \ {q} : pc[r] = "idle"
  BY <1>2 DEF QuietInv, OneDrain
<1>4. NothingDropped'
  <2>1. dropped' = dropped \/ dropped' = [dropped EXCEPT ![q] = {}]
    BY DEF BeginTurn, TurnReturns, TurnThrows
  <2> QED
    BY <1>1, <2>1 DEF QuietInv, NothingDropped, Typed, Counts
<1>5. ASSUME pc'[q] # "turn", \A r \in Object \ {q} : pc'[r] \in {pc[r], "debounce"}
      PROVE  PromptStays'
  BY <1>3, <1>5 DEF PromptStays
<1>6. CASE BeginTurn(q)
  <2> DEFINE collect == settings[q].mode = "collect"
             next == IF collect THEN CollectTurns(q) ELSE FollowupTurns(q)
  <2>1. CASE EndDrain(q, items, dropped)
    <3>1. Ended(q, items, dropped)
      BY <1>1, <2>1, EndDrainKeeps
    <3>2. OneDrain(current', pc')
      BY <1>1, <1>2, <2>1, EndDrainOne DEF QuietInv
    <3> QED
      BY <1>4, <1>5, <3>1, <3>2 DEF Ended
  <2>2. CASE /\ \E t \in next : turn' = [turn EXCEPT ![q] = t]
             /\ pc' = [pc EXCEPT ![q] = "turn"]
             /\ UNCHANGED current
    <3>1. PICK t \in CollectTurns(q) \cup FollowupTurns(q) : turn' = [turn EXCEPT ![q] = t]
      BY <2>2
    <3> HIDE DEF collect, next
    <3>2. turn'[q] = t
      BY <1>1, <3>1 DEF Typed
    <3>3. t.prompt # {} /\ t.prompt \subseteq Range(items[q])
      BY <3>1, BeginPrompts DEF QuietInv, NothingDropped
    <3>4. pc'[q] = "turn" /\ \A r \in Object \ {q} : pc'[r] = pc[r]
      BY <1>1, <2>2 DEF Draining
    <3>5. items' = items
      BY <1>6, BeginKeeps
    <3>6. PromptStays'
      BY <1>3, <3>2, <3>3, <3>4, <3>5 DEF PromptStays
    <3>7. OneDrain(current', pc')
      BY <1>2, <2>2, <3>4 DEF QuietInv, OneDrain
    <3> QED
      BY <1>4, <3>6, <3>7
  <2> QED
    BY <1>6, <2>1, <2>2, Zenon DEF BeginTurn
<1>7. CASE TurnReturns(q)
  <2>1. Loop(q, items', dropped')
    BY <1>7 DEF TurnReturns
  <2>2. OneDrain(current', pc')
    BY <1>1, <1>2, <2>1, LoopOne DEF QuietInv
  <2>3. Ended(q, items', dropped')
    BY <1>7, ReturnKeeps
  <2> QED
    BY <1>4, <1>5, <2>2, <2>3 DEF Ended
<1>8. CASE TurnThrows(q)
  <2>1. EndDrain(q, items, dropped)
    BY <1>8 DEF TurnThrows
  <2>2. OneDrain(current', pc')
    BY <1>1, <1>2, <2>1, EndDrainOne DEF QuietInv
  <2>3. Ended(q, items, dropped)
    BY <1>8, ThrowKeeps
  <2> QED
    BY <1>4, <1>5, <2>2, <2>3 DEF Ended
<1> QED
  BY <1>6, <1>7, <1>8

LEMMA MainQuiet ==
    ASSUME QueueInv, QuietInv, Main
    PROVE  OneDrain(current', pc') /\ NothingDropped' /\ PromptStays'
<1>1. /\ items' = items /\ dropped' = dropped
      /\ \A r \in Object : pc'[r] = pc[r] \/ (pc[r] = "idle" /\ pc'[r] = "debounce")
  BY MainKeeps
<1>2. turn' = turn
  BY DEF Main, MainStarts, MainEnds, MainFinalizes
<1>3. OneDrain(current', pc')
  <2>1. CASE MainStarts \/ MainEnds
    BY <2>1 DEF MainStarts, MainEnds, drainVars, QuietInv
  <2>2. CASE MainFinalizes
    <3>1. Schedule(current, pc, items, dropped)
      BY <2>2 DEF MainFinalizes
    <3>2. current \in Object \cup {None} /\ pc \in [Object -> Standing]
      BY InvParts DEF Draining
    <3> QED
      BY <3>1, <3>2, ScheduleOne DEF QuietInv
  <2> QED
    BY <2>1, <2>2 DEF Main
<1>4. NothingDropped' /\ PromptStays'
  BY <1>1, <1>2 DEF QuietInv, NothingDropped, PromptStays
<1> QED
  BY <1>3, <1>4

LEMMA QuietNext ==
    ASSUME Undisturbed
    PROVE  QueueInv /\ QuietInv /\ [Next]_vars => QuietInv'
<1> SUFFICES ASSUME QueueInv, QuietInv, [Next]_vars PROVE QuietInv'
  OBVIOUS
<1>1. ~Clear
  BY DEF Undisturbed, Clear, QueueInv, TypeOK
<1>2. ASSUME Next
      PROVE  OneDrain(current', pc') /\ NothingDropped' /\ PromptStays'
  BY <1>1, <1>2, DeliveredQuiet, DrainQuiet, MainQuiet, QueueSteps
<1>3. ASSUME Next, NEW m \in Message, fate'[m] = "queued"
      PROVE  Kept(m)'
  <2>1. CASE fate[m] = "queued"
    <3>1. Kept(m)
      BY <2>1 DEF QuietInv, NoneLost
    <3>2. ~Orphaned
      BY DEF QuietInv, OneDrain, Orphaned
    <3>3. ~Overtaken(m)
      BY DEF QuietInv, PromptStays, Overtaken
    <3> QED
      BY <1>3, <2>1, <3>1, <3>2, <3>3, LostHolds DEF LostStep
  <2>2. CASE fate[m] # "queued"
    <3>1. ASSUME NEW r \in Object, TurnReturns(r) PROVE FALSE
      <4>1. fate'[m] = "answered" \/ fate'[m] = fate[m]
        BY <3>1, ReturnAnswers
      <4> QED
        BY <1>3, <2>2, <4>1
    <3>2. ASSUME \/ \E r \in Object : BeginTurn(r)
                 \/ \E r \in Object : TurnThrows(r)
                 \/ Main
          PROVE  FALSE
      <4>1. fate' = fate
        BY <3>2, BeginKeeps, ThrowKeeps, MainKeeps
      <4> QED
        BY <1>3, <2>2, <4>1
    <3>3. ASSUME NEW x \in Message, NEW s \in Settings, NEW q \in Object, Delivered(q, x, s)
          PROVE  Kept(m)'
      BY <1>3, <2>2, <3>3, NewlyQueuedKept
    <3> QED
      BY <1>1, <1>3, <3>1, <3>2, <3>3, QueueSteps
  <2> QED
    BY <2>1, <2>2
<1>4. CASE Next
  BY <1>2, <1>3, <1>4 DEF QuietInv, NoneLost
<1>5. CASE UNCHANGED vars
  BY <1>5 DEF vars, drainVars, QuietInv, OneDrain, NothingDropped, PromptStays, NoneLost, Kept
<1> QED
  BY <1>4, <1>5

LEMMA QuietInit == Init => QuietInv
<1> SUFFICES ASSUME Init PROVE QuietInv
  OBVIOUS
<1>1. \A q \in Object : pc[q] = "idle" /\ dropped[q] = {}
  BY DEF Init
<1>2. \A m \in Message : fate[m] = "new"
  BY DEF Init
<1> QED
  BY <1>1, <1>2 DEF QuietInv, OneDrain, NothingDropped, PromptStays, NoneLost

\* Where messages that find the queue full are turned away and the session is
\* not cleared, no accepted message is lost, whatever throws, is retried, or
\* arrives while a turn is in flight.  With evictions or clears this is false of
\* the code, and FollowupLostOnlyBy says how it fails.
THEOREM FollowupNoneLost ==
    ASSUME Undisturbed
    PROVE  Spec => []NoneLost
<1>1. QuietInv => NoneLost
  BY DEF QuietInv
<1>2. QueueInv /\ QuietInv /\ [Next]_vars => QuietInv'
  BY QuietNext
<1> QED
  BY <1>1, <1>2, QuietInit, QueueInvariance, PTL DEF Spec
=============================================================================
