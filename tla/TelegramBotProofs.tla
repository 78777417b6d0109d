--------------------------- MODULE TelegramBotProofs ---------------------------
(***************************************************************************)
(* The safety properties of TelegramBot, proved for every number of        *)
(* updates and restarts and every size of an answer.                       *)
(*                                                                         *)
(* The invariant says what an answer is worth while it travels and while   *)
(* it is handled (Answer: rising ids that the API still keeps, with none   *)
(* left out in between), that every command below the offset is accounted  *)
(* for, and that what this life has handled or skipped lies below the      *)
(* offset, what it has skipped below all that it has handled.              *)
(***************************************************************************)
EXTENDS TelegramBot, FiniteSetTheorems, SequenceTheorems, TLAPS

\* A set of naturals that is not empty and finite has a greatest element,
\* which Max finds.
LEMMA MaxOfSequence ==
  ASSUME NEW s \in Seq(Nat), s # <<>>,
         \A m, n \in DOMAIN s : m < n => s[m] < s[n]
  PROVE  /\ Max(ToSet(s)) \in ToSet(s)
         /\ \A n \in DOMAIN s : s[n] <= Max(ToSet(s))
<1>1. Len(s) \in DOMAIN s /\ DOMAIN s = 1..Len(s) /\ Len(s) \in Nat
  BY EmptySeq, LenProperties
<1>2. ASSUME NEW n \in DOMAIN s PROVE s[n] <= s[Len(s)]
  <2>1. n = Len(s) \/ n < Len(s)
    BY <1>1
  <2>2. s[n] \in Nat /\ s[Len(s)] \in Nat
    BY <1>1
  <2> QED BY <1>1, <2>1, <2>2
<1>3. \E m \in ToSet(s) : \A n \in ToSet(s) : m >= n
  <2>1. s[Len(s)] \in ToSet(s)
    BY <1>1 DEF ToSet
  <2>2. \A n \in ToSet(s) : s[Len(s)] >= n
    <3> SUFFICES ASSUME NEW n \in DOMAIN s PROVE s[Len(s)] >= s[n]
      BY DEF ToSet
    <3>1. s[n] \in Nat /\ s[Len(s)] \in Nat
      BY <1>1
    <3> QED BY <1>2, <3>1
  <2> QED BY <2>1, <2>2
<1>4. Max(ToSet(s)) \in ToSet(s) /\ \A n \in ToSet(s) : Max(ToSet(s)) >= n
  BY <1>3 DEF Max
<1>5. \A n \in DOMAIN s : s[n] \in ToSet(s) /\ s[n] \in Nat
  BY DEF ToSet
<1>6. Max(ToSet(s)) \in Nat
  BY <1>4, <1>5 DEF ToSet
<1> QED BY <1>4, <1>5, <1>6

\* The rank of an id grows with it.
LEMMA UpToGrows ==
  ASSUME NEW ids \in SUBSET Nat, IsFiniteSet(ids), NEW i \in ids
  PROVE  /\ IsFiniteSet(upTo(ids, i))
         /\ Cardinality(upTo(ids, i)) \in 1..Cardinality(ids)
         /\ \A k \in ids : i < k => Cardinality(upTo(ids, i)) < Cardinality(upTo(ids, k))
<1>1. upTo(ids, i) \in SUBSET ids /\ i \in upTo(ids, i)
  BY DEF upTo
<1>2. /\ IsFiniteSet(upTo(ids, i)) /\ Cardinality(upTo(ids, i)) <= Cardinality(ids)
      /\ Cardinality(ids) \in Nat
  BY <1>1, FS_Subset, FS_CardinalityType
<1>3. Cardinality(upTo(ids, i)) \in Nat /\ Cardinality(upTo(ids, i)) # 0
  BY <1>1, <1>2, FS_CardinalityType, FS_EmptySet
<1>4. ASSUME NEW k \in ids, i < k
      PROVE  Cardinality(upTo(ids, i)) < Cardinality(upTo(ids, k))
  <2> i \in Nat /\ k \in Nat
    OBVIOUS
  <2>1. upTo(ids, i) \in SUBSET upTo(ids, k)
    <3> SUFFICES ASSUME NEW j \in ids, j <= i PROVE j <= k
      BY DEF upTo
    <3>1. j \in Nat
      OBVIOUS
    <3> QED BY <1>4, <3>1
  <2>2. k \in upTo(ids, k) /\ k \notin upTo(ids, i)
    BY <1>4 DEF upTo
  <2>3. upTo(ids, k) \in SUBSET ids
    BY DEF upTo
  <2>4. IsFiniteSet(upTo(ids, k)) /\ Cardinality(upTo(ids, k)) \in Nat
    BY <2>3, FS_Subset, FS_CardinalityType
  <2>5. /\ Cardinality(upTo(ids, i)) <= Cardinality(upTo(ids, k))
        /\ Cardinality(upTo(ids, k)) # Cardinality(upTo(ids, i))
    BY <2>1, <2>2, <2>4, FS_Subset
  <2> QED BY <1>3, <2>4, <2>5
<1> QED BY <1>2, <1>3, <1>4

\* Every rank that a finite set of naturals has belongs to one of its elements.
LEMMA NthOfSet ==
  ASSUME NEW ids \in SUBSET Nat, IsFiniteSet(ids), NEW n \in 1..Cardinality(ids)
  PROVE  nth(ids, n) \in ids /\ Cardinality(upTo(ids, nth(ids, n))) = n
<1> DEFINE rank == [i \in ids |-> Cardinality(upTo(ids, i))]
<1> DEFINE Ranks == 1..Cardinality(ids)
<1>1. Cardinality(ids) \in Nat
  BY FS_CardinalityType
<1>2. rank \in Injection(ids, Ranks)
  <2>1. rank \in [ids -> Ranks]
    BY UpToGrows
  <2>2. ASSUME NEW i \in ids, NEW k \in ids, rank[i] = rank[k] PROVE i = k
    <3>1. /\ Cardinality(upTo(ids, i)) = Cardinality(upTo(ids, k))
          /\ i \in Nat /\ k \in Nat /\ Cardinality(upTo(ids, i)) \in Nat
      BY <1>1, <2>2, UpToGrows
    <3>2. ~(i < k) /\ ~(k < i)
      BY <3>1, UpToGrows
    <3> QED BY <3>1, <3>2
  <2>3. IsInjective(rank)
    BY <2>2 DEF IsInjective
  <2> QED BY <2>1, <2>3 DEF Injection
<1>3. IsFiniteSet(Ranks) /\ Cardinality(Ranks) = Cardinality(ids)
  BY <1>1, FS_Interval
<1>4. rank \in Surjection(ids, Ranks)
  BY <1>2, <1>3, FS_Injection
<1>5. \E i \in ids : Cardinality(upTo(ids, i)) = n
  BY <1>4 DEF Surjection
<1> QED BY <1>5 DEF nth

----------------------------------------------------------------------------
Labels == {"starting", "dropping", "idle", "polling", "handling"}

IDs == 1..Len(kind)

Entries == [id : Nat, life : Nat]

Types ==
    /\ kind \in Seq(Kinds) /\ Len(kind) <= MaxUpdates
    /\ stored \subseteq IDs
    /\ reply = NoReply \/ reply \in Seq(Nat)
    /\ dropPending \in BOOLEAN
    /\ pc \in Labels
    /\ offset \in 0..(Len(kind) + 1)
    /\ batch \in Seq(Nat)
    /\ life \in 0..MaxRestarts
    /\ handled \in Seq(Entries)
    /\ \A n \in DOMAIN handled : handled[n].id \in IDs /\ handled[n].life <= life
    /\ dropped \subseteq Entries
    /\ \A d \in dropped : d.id \in IDs /\ d.life <= life

\* A sequence of ids from the offset on, in order and without a gap.
Answer(s) ==
    /\ \A m, n \in DOMAIN s : m < n => s[m] < s[n]
    /\ \A n \in DOMAIN s : s[n] \in stored /\ offset <= s[n]
    /\ \A n \in DOMAIN s, i \in stored :
         offset <= i /\ i <= s[n] => \E m \in DOMAIN s : s[m] = i

Shape ==
    /\ reply # NoReply => pc \in {"dropping", "polling"} /\ Answer(reply)
    /\ Answer(batch)
    /\ pc = "handling" <=> batch # <<>>
    /\ pc \in {"starting", "dropping"} => offset = 0

\* A command that is deleted, or below the offset and so soon to be deleted.
Confirmed ==
    \A i \in IDs : (i \notin stored \/ i < offset) /\ kind[i] = "command" =>
        i \in handledIDs \cup droppedIDs

\* What this life has handled or skipped lies below the offset.
Now ==
    /\ \A n \in DOMAIN handled : handled[n].life = life => handled[n].id < offset
    /\ \A d \in dropped : d.life = life => d.id < offset

Inv == Types /\ Shape /\ Confirmed /\ Now /\ HandledOncePerLife /\ DroppedIsNotHandled

LEMMA InvInit == Init => Inv
<1> SUFFICES ASSUME Init PROVE Inv
  OBVIOUS
<1>1. kind \in Seq(Kinds) /\ Len(kind) \in Nat /\ Len(kind) <= MaxUpdates
  <2>1. PICK m \in 0..MaxUpdates : kind \in [1..m -> Kinds]
    BY DEF Init, BoundedSeq, SeqOf
  <2>2. m \in Nat /\ m <= MaxUpdates
    BY BotAssumption
  <2>3. kind \in Seq(Kinds) /\ Len(kind) = m
    BY <2>1, <2>2
  <2> QED BY <2>2, <2>3
<1>2. DOMAIN kind = IDs
  BY <1>1, LenProperties DEF IDs
<1>3. <<>> \in Seq(Nat) /\ <<>> \in Seq(Entries) /\ DOMAIN <<>> = {}
  OBVIOUS
<1>4. Types
  BY <1>1, <1>2, <1>3, BotAssumption DEF Init, Types, Labels
<1>5. Shape
  BY <1>3 DEF Init, Shape, Answer
<1>6. Confirmed
  <2>1. offset = 0 /\ stored = IDs
    BY <1>2 DEF Init
  <2>2. \A i \in IDs : ~(i < 0)
    BY <1>1 DEF IDs
  <2> QED BY <2>1, <2>2 DEF Confirmed
<1>7. Now /\ HandledOncePerLife /\ DroppedIsNotHandled
  BY <1>3 DEF Init, Now, HandledOncePerLife, DroppedIsNotHandled
<1> QED BY <1>4, <1>5, <1>6, <1>7 DEF Inv

\* A new update comes after all the others.
LEMMA ArriveStep ==
  ASSUME Inv, NEW k \in Kinds, Arrive(k)
  PROVE  Inv'
<1>1. /\ Len(kind) < MaxUpdates /\ kind' = Append(kind, k)
      /\ stored' = stored \cup {Len(kind) + 1}
      /\ UNCHANGED <<reply, dropPending, pc, offset, batch, life, handled, dropped>>
  BY DEF Arrive, botVars, histVars
<1>2. kind \in Seq(Kinds) /\ Len(kind) \in Nat /\ DOMAIN kind = IDs
  BY LenProperties DEF Inv, Types, IDs
<1>3. /\ kind' \in Seq(Kinds) /\ Len(kind') = Len(kind) + 1
      /\ \A i \in IDs : kind'[i] = kind[i]
  BY <1>1, <1>2 DEF IDs
<1>4. IDs' = IDs \cup {Len(kind) + 1} /\ IDs \subseteq IDs'
  BY <1>2, <1>3 DEF IDs
<1>5. Types'
  <2>1. Len(kind') <= MaxUpdates
    BY <1>1, <1>2, <1>3, BotAssumption
  <2>2. offset' \in 0..(Len(kind') + 1)
    BY <1>1, <1>2, <1>3 DEF Inv, Types
  <2> QED BY <1>1, <1>3, <1>4, <2>1, <2>2 DEF Inv, Types
<1>6. ASSUME NEW s \in Seq(Nat), Answer(s) PROVE Answer(s)'
  <2>1. \A n \in DOMAIN s : s[n] \in IDs
    BY <1>6 DEF Answer, Inv, Types
  <2>2. \A n \in DOMAIN s : ~(Len(kind) + 1 <= s[n])
    BY <1>2, <2>1 DEF IDs
  <2> QED BY <1>1, <1>6, <2>2 DEF Answer
<1>7. Shape'
  <2>1. Answer(batch)'
    <3>1. PICK s \in Seq(Nat) : s = batch
      BY DEF Inv, Types
    <3>2. Answer(s)'
      BY <1>6, <3>1 DEF Inv, Shape
    <3> QED BY <1>1, <3>1, <3>2 DEF Answer
  <2>2. ASSUME reply # NoReply PROVE Answer(reply)'
    <3>1. PICK s \in Seq(Nat) : s = reply
      BY <2>2 DEF Inv, Types
    <3>2. Answer(s)'
      BY <1>6, <2>2, <3>1 DEF Inv, Shape
    <3> QED BY <1>1, <3>1, <3>2 DEF Answer
  <2> QED BY <1>1, <2>1, <2>2 DEF Inv, Shape
<1>8. Confirmed'
  <2>1. handledIDs' = handledIDs /\ droppedIDs' = droppedIDs
    BY <1>1 DEF handledIDs, droppedIDs
  <2>2. ASSUME NEW i \in IDs', i \notin stored' \/ i < offset', kind'[i] = "command"
        PROVE  i \in handledIDs \cup droppedIDs
    <3>1. CASE i \in IDs
      BY <1>1, <1>3, <2>2, <3>1 DEF Inv, Confirmed
    <3>2. CASE i = Len(kind) + 1
      <4>1. i \in stored' /\ ~(i < offset')
        BY <1>1, <1>2, <3>2 DEF Inv, Types
      <4> QED BY <2>2, <4>1
    <3> QED BY <1>4, <3>1, <3>2
  <2> QED BY <2>1, <2>2 DEF Confirmed
<1>9. Now' /\ HandledOncePerLife' /\ DroppedIsNotHandled'
  BY <1>1 DEF Inv, Now, HandledOncePerLife, DroppedIsNotHandled
<1> QED BY <1>5, <1>7, <1>8, <1>9 DEF Inv

\* The first Limit ids of a set, in order and without a gap.
LEMMA FirstIsAnswer ==
  ASSUME NEW ids \in SUBSET Nat, IsFiniteSet(ids)
  PROVE  /\ firstOf(ids) \in Seq(Nat)
         /\ \A m, n \in DOMAIN firstOf(ids) : m < n => firstOf(ids)[m] < firstOf(ids)[n]
         /\ \A n \in DOMAIN firstOf(ids) : firstOf(ids)[n] \in ids
         /\ \A n \in DOMAIN firstOf(ids), i \in ids : i <= firstOf(ids)[n] =>
              \E m \in DOMAIN firstOf(ids) : firstOf(ids)[m] = i
<1>1. Cardinality(ids) \in Nat
  BY FS_CardinalityType
<1>2. PICK size \in Nat : /\ size <= Cardinality(ids)
                          /\ firstOf(ids) = [n \in 1..size |-> nth(ids, n)]
  BY <1>1, BotAssumption DEF firstOf
<1>3. PICK s : s = firstOf(ids)
  OBVIOUS
<1>4. ASSUME NEW n \in 1..size
      PROVE  s[n] \in ids /\ s[n] \in Nat /\ Cardinality(upTo(ids, s[n])) = n
  <2>1. n \in 1..Cardinality(ids)
    BY <1>1, <1>2
  <2>2. s[n] = nth(ids, n)
    BY <1>2, <1>3
  <2> QED BY <2>1, <2>2, NthOfSet
<1>5. DOMAIN s = 1..size /\ s \in [1..size -> Nat]
  BY <1>2, <1>3, <1>4
<1>6. s \in Seq(Nat)
  BY <1>5
<1>7. ASSUME NEW m \in 1..size, NEW n \in 1..size, m < n PROVE s[m] < s[n]
  <2>1. s[n] < s[m] => n < m
    BY <1>4, UpToGrows
  <2>2. s[n] # s[m]
    BY <1>4, <1>7
  <2> QED BY <1>4, <1>7, <2>1, <2>2
<1>8. ASSUME NEW n \in 1..size, NEW i \in ids, i <= s[n]
      PROVE  \E m \in 1..size : s[m] = i
  <2>1. PICK r \in 1..Cardinality(ids) : r = Cardinality(upTo(ids, i))
    BY UpToGrows
  <2>2. r <= n
    <3>1. i = s[n] \/ i < s[n]
      BY <1>4, <1>8
    <3> QED BY <1>1, <1>4, <2>1, <3>1, UpToGrows
  <2>3. r \in 1..size
    BY <2>2
  <2>4. Cardinality(upTo(ids, s[r])) = r /\ s[r] \in ids
    BY <1>4, <2>3
  <2>5. s[r] \in Nat /\ i \in Nat
    BY <2>4
  <2>6. ~(s[r] < i) /\ ~(i < s[r])
    <3>1. PICK x \in ids : x = s[r] /\ Cardinality(upTo(ids, x)) = r
      BY <2>4
    <3>2. x < i => r < r
      BY <2>1, <3>1, UpToGrows
    <3>3. i < x => r < r
      BY <2>1, <3>1, UpToGrows
    <3> QED BY <3>1, <3>2, <3>3
  <2>7. s[r] = i
    BY <2>5, <2>6
  <2> QED BY <2>3, <2>7
<1> QED BY <1>3, <1>4, <1>5, <1>6, <1>7, <1>8

\* An answer is taken from what the API keeps from the offset on.
LEMMA ServeStep ==
  ASSUME Inv, Serve
  PROVE  Inv'
<1>1. /\ pc \in {"dropping", "polling"} /\ reply = NoReply
      /\ stored' = {i \in stored : i >= offset}
      /\ reply' = firstOf(stored')
      /\ UNCHANGED <<kind, dropPending, pc, offset, batch, life, handled, dropped>>
  BY DEF Serve, botVars, histVars
<1>2. PICK ids : ids = stored'
  OBVIOUS
<1>3. ids \in SUBSET IDs /\ ids \in SUBSET Nat /\ IsFiniteSet(ids)
  <2>1. ids \in SUBSET IDs
    BY <1>1, <1>2 DEF Inv, Types
  <2>2. IsFiniteSet(IDs) /\ IDs \subseteq Nat
    <3>1. Len(kind) \in Nat
      BY LenProperties DEF Inv, Types
    <3>2. IsFiniteSet(1..Len(kind)) /\ 1..Len(kind) \subseteq Nat
      BY <3>1, FS_Interval
    <3> QED BY <3>2 DEF IDs
  <2> QED BY <2>1, <2>2, FS_Subset
<1>4. PICK s \in Seq(Nat) :
        /\ s = firstOf(ids)
        /\ \A m, n \in DOMAIN s : m < n => s[m] < s[n]
        /\ \A n \in DOMAIN s : s[n] \in ids
        /\ \A n \in DOMAIN s, i \in ids : i <= s[n] => \E m \in DOMAIN s : s[m] = i
  BY <1>3, FirstIsAnswer
<1>5. reply' = s
  BY <1>1, <1>2, <1>4
<1>6. Types'
  BY <1>1, <1>2, <1>3, <1>5 DEF Inv, Types, IDs
<1>7. \A i \in stored' : i \in stored /\ offset <= i
  BY <1>1 DEF Inv, Types, IDs
<1>8. Answer(reply)'
  <2>1. \A m, n \in DOMAIN reply' : m < n => reply'[m] < reply'[n]
    BY <1>4, <1>5
  <2>2. \A n \in DOMAIN reply' : reply'[n] \in stored' /\ offset' <= reply'[n]
    BY <1>1, <1>2, <1>4, <1>5, <1>7
  <2>3. \A n \in DOMAIN reply', i \in stored' :
          offset' <= i /\ i <= reply'[n] => \E m \in DOMAIN reply' : reply'[m] = i
    BY <1>2, <1>4, <1>5
  <2> QED BY <2>1, <2>2, <2>3 DEF Answer
<1>9. batch' = <<>> /\ DOMAIN <<>> = {}
  BY <1>1 DEF Inv, Shape
<1>10. Shape'
  BY <1>1, <1>8, <1>9 DEF Inv, Shape, Answer
<1>11. Confirmed'
  <2>1. handledIDs' = handledIDs /\ droppedIDs' = droppedIDs /\ IDs' = IDs
    BY <1>1 DEF handledIDs, droppedIDs, IDs
  <2>2. ASSUME NEW i \in IDs, i \notin stored' PROVE i \notin stored \/ i < offset
    BY <1>1, <2>2 DEF Inv, Types, IDs
  <2> QED BY <1>1, <2>1, <2>2 DEF Inv, Confirmed
<1>12. Now' /\ HandledOncePerLife' /\ DroppedIsNotHandled'
  BY <1>1 DEF Inv, Now, HandledOncePerLife, DroppedIsNotHandled
<1> QED BY <1>6, <1>10, <1>11, <1>12 DEF Inv

\* A step that only moves the program counter or forgets an answer.
LEMMA QuietStep ==
  ASSUME Inv, pc' \in Labels, pc' # "handling", pc # "handling",
         pc' \in {"starting", "dropping"} => offset = 0,
         reply' = NoReply,
         UNCHANGED <<kind, stored, dropPending, offset, batch, life, handled, dropped>>
  PROVE  Inv'
<1>1. Types'
  BY DEF Inv, Types, IDs
<1>2. Shape'
  <2>1. Answer(batch)'
    BY DEF Inv, Shape, Answer
  <2> QED BY <2>1 DEF Inv, Shape
<1>3. Confirmed'
  BY DEF Inv, Confirmed, IDs, handledIDs, droppedIDs
<1>4. Now' /\ HandledOncePerLife' /\ DroppedIsNotHandled'
  BY DEF Inv, Now, HandledOncePerLife, DroppedIsNotHandled
<1> QED BY <1>1, <1>2, <1>3, <1>4 DEF Inv

LEMMA ReceiveUpdatesStep ==
  ASSUME Inv, ReceiveUpdates
  PROVE  Inv'
<1>1. /\ pc = "polling" /\ reply # NoReply /\ batch' = reply
      /\ pc' = IF reply = <<>> THEN "idle" ELSE "handling"
      /\ reply' = NoReply
      /\ UNCHANGED <<kind, stored, dropPending, offset, life, handled, dropped>>
  BY DEF ReceiveUpdates, histVars
<1>2. Types'
  BY <1>1 DEF Inv, Types, IDs, Labels
<1>3. Shape'
  <2>1. Answer(batch)'
    BY <1>1 DEF Inv, Shape, Answer
  <2> QED BY <1>1, <2>1 DEF Shape
<1>4. Confirmed'
  BY <1>1 DEF Inv, Confirmed, IDs, handledIDs, droppedIDs
<1>5. Now' /\ HandledOncePerLife' /\ DroppedIsNotHandled'
  BY <1>1 DEF Inv, Now, HandledOncePerLife, DroppedIsNotHandled
<1> QED BY <1>2, <1>3, <1>4, <1>5 DEF Inv

\* The updates skipped at the start, and all below the last of them, are
\* recorded as dropped.
LEMMA ReceiveDroppedStep ==
  ASSUME Inv, ReceiveDropped
  PROVE  Inv'
<1> DEFINE new == {[id |-> i, life |-> life] : i \in ToSet(reply)}
<1>1. /\ pc = "dropping" /\ reply # NoReply
      /\ offset' = afterDropped(reply) /\ dropped' = dropped \cup new
      /\ pc' = "idle" /\ reply' = NoReply
      /\ UNCHANGED <<kind, stored, dropPending, batch, life, handled>>
  BY DEF ReceiveDropped
<1>2. /\ offset = 0 /\ Answer(reply) /\ reply \in Seq(Nat)
      /\ batch = <<>> /\ DOMAIN <<>> = {}
      /\ life \in Nat /\ Len(kind) \in Nat
  BY <1>1, BotAssumption, LenProperties DEF Inv, Shape, Types
<1>3. \A i \in ToSet(reply) : i \in IDs /\ i \in Nat
  BY <1>2 DEF ToSet, Answer, Inv, Types, IDs
<1>4. \A n \in DOMAIN handled : handled[n].life # life
  <2> SUFFICES ASSUME NEW n \in DOMAIN handled, handled[n].life = life PROVE FALSE
    OBVIOUS
  <2>1. handled[n].id < 0 /\ handled[n].id \in IDs
    BY <1>2 DEF Inv, Now, Types
  <2> QED BY <1>2, <2>1 DEF IDs
<1>5. \A d \in dropped : d.life # life
  <2> SUFFICES ASSUME NEW d \in dropped, d.life = life PROVE FALSE
    OBVIOUS
  <2>1. d.id < 0 /\ d.id \in IDs
    BY <1>2 DEF Inv, Now, Types
  <2> QED BY <1>2, <2>1 DEF IDs
<1>6. PICK o \in 0..(Len(kind) + 1) :
        /\ o = offset'
        /\ \A i \in ToSet(reply) : i < o
        /\ \A i \in IDs : i < o => \E n \in DOMAIN reply : i <= reply[n]
  <2>1. CASE reply = <<>>
    <3>1. offset' = 0 /\ ToSet(reply) = {}
      BY <1>1, <1>2, <2>1 DEF afterDropped, ToSet
    <3>2. \A i \in IDs : ~(i < 0)
      BY <1>2 DEF IDs
    <3> QED BY <1>2, <3>1, <3>2
  <2>2. CASE reply # <<>>
    <3>1. PICK m : m = Max(ToSet(reply)) /\ offset' = m + 1
      BY <1>1, <2>2 DEF afterDropped
    <3>2. m \in ToSet(reply) /\ \A n \in DOMAIN reply : reply[n] <= m
      BY <1>2, <2>2, <3>1, MaxOfSequence DEF Answer
    <3>3. m \in 1..Len(kind) /\ \A i \in ToSet(reply) : i \in Nat /\ i <= m
      BY <1>3, <3>2 DEF IDs, ToSet
    <3>4. m + 1 \in 0..(Len(kind) + 1) /\ \A i \in ToSet(reply) : i < m + 1
      BY <1>2, <3>3
    <3>5. PICK n \in DOMAIN reply : reply[n] = m
      BY <3>2 DEF ToSet
    <3>6. \A i \in IDs : i < m + 1 => i <= reply[n]
      BY <1>2, <3>3, <3>5 DEF IDs
    <3> QED BY <3>1, <3>4, <3>6
  <2> QED BY <2>1, <2>2
<1>7. Types'
  <2>1. \A d \in new : d \in Entries /\ d.id \in IDs /\ d.life <= life
    BY <1>2, <1>3 DEF Entries
  <2>2. /\ dropped' \subseteq Entries
        /\ \A d \in dropped' : d.id \in IDs /\ d.life <= life
    BY <1>1, <2>1 DEF Inv, Types
  <2> QED BY <1>1, <1>6, <2>2 DEF Inv, Types, IDs, Labels
<1>8. Shape'
  BY <1>1, <1>2 DEF Shape, Answer
<1>9. \A i \in droppedIDs \cup ToSet(reply) : i \in droppedIDs'
  <2>1. \A i \in ToSet(reply) : [id |-> i, life |-> life] \in dropped'
    BY <1>1
  <2>2. \A d \in dropped : d \in dropped'
    BY <1>1
  <2>3. ASSUME NEW i \in ToSet(reply) PROVE i \in droppedIDs'
    <3>1. PICK d \in dropped' : d = [id |-> i, life |-> life]
      BY <2>1
    <3>2. d.id = i
      BY <3>1
    <3> QED BY <3>2 DEF droppedIDs
  <2>4. \A i \in droppedIDs : i \in droppedIDs'
    BY <2>2 DEF droppedIDs
  <2> QED BY <2>3, <2>4
<1>10. Confirmed'
  <2> SUFFICES ASSUME NEW i \in IDs, i \notin stored \/ i < o, kind[i] = "command"
               PROVE  i \in handledIDs \cup droppedIDs'
    BY <1>1, <1>6 DEF Confirmed, IDs, handledIDs
  <2>1. CASE i \notin stored
    BY <1>9, <2>1 DEF Inv, Confirmed
  <2>2. CASE i \in stored
    <3>1. PICK n \in DOMAIN reply : i <= reply[n]
      BY <1>6, <2>2
    <3>2. 0 <= i
      BY <1>2 DEF IDs
    <3>3. i \in ToSet(reply)
      BY <1>2, <2>2, <3>1, <3>2 DEF Answer, ToSet
    <3> QED BY <1>9, <3>3
  <2> QED BY <2>1, <2>2
<1>11. Now'
  <2>1. \A d \in dropped' : d.life = life => d.id < o
    BY <1>1, <1>5, <1>6
  <2> QED BY <1>1, <1>4, <1>6, <2>1 DEF Now
<1>13. DroppedIsNotHandled'
  <2>1. \A d \in new : d.life = life
    OBVIOUS
  <2> HIDE DEF new
  <2> QED BY <1>1, <1>4, <2>1 DEF Inv, DroppedIsNotHandled
<1>12. HandledOncePerLife'
  BY <1>1 DEF Inv, HandledOncePerLife
<1> QED BY <1>7, <1>8, <1>10, <1>11, <1>12, <1>13 DEF Inv

\* One round of the loop takes the next update in order.
LEMMA HandleUpdateStep ==
  ASSUME Inv, HandleUpdate
  PROVE  Inv'
<1>1. PICK id : id = Head(batch)
  OBVIOUS
<1>2. /\ pc = "handling" /\ batch \in Seq(Nat) /\ batch # <<>> /\ Answer(batch)
      /\ reply = NoReply
  BY DEF HandleUpdate, Inv, Shape, Types
<1>3. /\ Len(batch) \in Nat /\ 1 \in DOMAIN batch /\ id = batch[1]
      /\ DOMAIN batch = 1..Len(batch)
  BY <1>1, <1>2, EmptySeq, LenProperties
<1>4. /\ id \in stored /\ id \in IDs /\ id \in Nat /\ offset <= id
      /\ offset \in Nat /\ Len(kind) \in Nat /\ life \in Nat
  BY <1>2, <1>3, BotAssumption, LenProperties DEF Answer, Inv, Types, IDs
<1>5. PICK o \in 0..(Len(kind) + 1) : o = id + 1 /\ offset' = o
  BY <1>1, <1>4 DEF HandleUpdate, nextOffset, IDs
<1>6. /\ batch' = Tail(batch)
      /\ pc' = IF Len(batch) = 1 THEN "idle" ELSE "handling"
      /\ UNCHANGED <<kind, stored, reply, dropPending, life, dropped>>
  BY DEF HandleUpdate, apiVars
<1>7. PICK rest \in Seq(Nat) :
        /\ rest = Tail(batch) /\ Len(rest) = Len(batch) - 1
        /\ \A n \in 1..Len(rest) : rest[n] = batch[n + 1]
  BY <1>2, HeadTailProperties
<1>8. DOMAIN rest = 1..Len(rest) /\ Len(rest) \in Nat
  BY LenProperties
<1>9. Answer(rest)'
  <2>1. \A n \in DOMAIN rest : n + 1 \in DOMAIN batch /\ rest[n] = batch[n + 1]
    BY <1>3, <1>7, <1>8
  <2>2. ASSUME NEW m \in DOMAIN rest, NEW n \in DOMAIN rest, m < n
        PROVE  rest[m] < rest[n]
    <3>1. m + 1 < n + 1
      BY <1>8, <2>2
    <3> QED BY <1>2, <2>1, <3>1 DEF Answer
  <2>3. ASSUME NEW n \in DOMAIN rest PROVE rest[n] \in stored /\ o <= rest[n]
    <3>1. 1 < n + 1
      BY <1>8
    <3>2. batch[1] < batch[n + 1] /\ batch[n + 1] \in stored
      BY <1>2, <1>3, <2>1, <3>1 DEF Answer
    <3>3. rest[n] \in Nat
      BY <1>8
    <3> QED BY <1>3, <1>4, <1>5, <2>1, <3>2, <3>3
  <2>4. ASSUME NEW n \in DOMAIN rest, NEW i \in stored, o <= i, i <= rest[n]
        PROVE  \E m \in DOMAIN rest : rest[m] = i
    <3>1. i \in Nat
      BY DEF Inv, Types, IDs
    <3>2. offset <= i /\ i # id
      BY <1>4, <1>5, <2>4, <3>1
    <3>3. PICK k \in DOMAIN batch : batch[k] = i
      BY <1>2, <2>1, <2>4, <3>2 DEF Answer
    <3>4. k # 1
      BY <1>3, <3>2, <3>3
    <3>5. k - 1 \in DOMAIN rest /\ (k - 1) + 1 = k
      BY <1>3, <1>7, <1>8, <3>4
    <3>6. rest[k - 1] = i
      BY <1>7, <1>8, <3>3, <3>5
    <3> QED BY <3>5, <3>6
  <2> QED BY <1>5, <1>6, <2>2, <2>3, <2>4 DEF Answer
<1>10. Answer(batch)'
  BY <1>6, <1>7, <1>9 DEF Answer
<1>11. Shape'
  <2>1. rest = <<>> <=> Len(batch) = 1
    <3>1. rest # <<>> => Len(rest) \in Nat \ {0}
      BY <1>7, EmptySeq
    <3>2. Len(<<>>) = 0
      BY EmptySeq
    <3>3. Len(rest) = Len(batch) - 1 /\ Len(batch) \in Nat
      BY <1>3, <1>7
    <3>4. CASE rest = <<>>
      BY <3>2, <3>3, <3>4
    <3>5. CASE rest # <<>>
      BY <3>1, <3>3, <3>5
    <3> QED BY <3>4, <3>5
  <2> QED BY <1>2, <1>6, <1>7, <1>10, <2>1 DEF Shape
<1>12. \A n \in DOMAIN handled : handled[n].id \in Nat
  BY <1>4 DEF Inv, Types, IDs
<1>13. \A d \in dropped : d.id \in Nat
  BY DEF Inv, Types, Entries
<1>14. CASE kind[id] = "command"
  <2>1. PICK e \in Entries : e = [id |-> id, life |-> life] /\ e.id = id /\ e.life = life
    <3>1. [id |-> id, life |-> life] \in Entries
      BY <1>4 DEF Entries
    <3> QED BY <3>1
  <2>2. handled' = Append(handled, e)
    BY <1>1, <1>14, <2>1 DEF HandleUpdate
  <2>3. /\ handled \in Seq(Entries) /\ Len(handled) \in Nat
        /\ DOMAIN handled = 1..Len(handled)
    BY LenProperties DEF Inv, Types
  <2>4. /\ handled' \in Seq(Entries) /\ DOMAIN handled' = 1..(Len(handled) + 1)
        /\ \A n \in DOMAIN handled : handled'[n] = handled[n]
        /\ handled'[Len(handled) + 1] = e
    BY <2>2, <2>3, AppendProperties, LenProperties
  <2>5. \A n \in DOMAIN handled' : n \in DOMAIN handled \/ n = Len(handled) + 1
    BY <2>3, <2>4
  <2>6. Types'
    <3>1. \A n \in DOMAIN handled' : handled'[n].id \in IDs /\ handled'[n].life <= life
      <4>1. \A n \in DOMAIN handled : handled'[n].id \in IDs /\ handled'[n].life <= life
        BY <2>4 DEF Inv, Types
      <4>2. handled'[Len(handled) + 1].id \in IDs /\ handled'[Len(handled) + 1].life <= life
        BY <1>4, <2>1, <2>4
      <4> QED BY <2>5, <4>1, <4>2
    <3> QED BY <1>5, <1>6, <1>7, <2>4, <3>1 DEF Inv, Types, IDs, Labels
  <2>7. id \in handledIDs' /\ \A i \in handledIDs : i \in handledIDs'
    <3>1. Len(handled) + 1 \in DOMAIN handled' /\ \A n \in DOMAIN handled : n \in DOMAIN handled'
      BY <2>3, <2>4
    <3> QED BY <2>1, <2>4, <3>1 DEF handledIDs
  <2>8. Now'
    <3>1. ASSUME NEW n \in DOMAIN handled', handled'[n].life = life
          PROVE  handled'[n].id < o
      BY <1>4, <1>5, <1>12, <2>1, <2>4, <2>5, <3>1 DEF Inv, Now
    <3>2. ASSUME NEW d \in dropped, d.life = life PROVE d.id < o
      BY <1>4, <1>5, <1>13, <3>2 DEF Inv, Now
    <3> QED BY <1>5, <1>6, <3>1, <3>2 DEF Now
  <2>11. DroppedIsNotHandled'
    <3> SUFFICES ASSUME NEW d \in dropped, NEW n \in DOMAIN handled',
                        handled'[n].life = d.life
                 PROVE  d.id < handled'[n].id
      BY <1>6 DEF DroppedIsNotHandled
    <3>1. CASE n \in DOMAIN handled
      BY <2>4, <3>1 DEF Inv, DroppedIsNotHandled
    <3>2. CASE n = Len(handled) + 1
      <4>1. d.life = life /\ handled'[n].id = id
        BY <2>1, <2>4, <3>2
      <4>2. d.id < offset
        BY <4>1 DEF Inv, Now
      <4> QED BY <1>4, <1>13, <4>1, <4>2
    <3> QED BY <2>5, <3>1, <3>2
  <2>9. HandledOncePerLife'
    <3> SUFFICES ASSUME NEW m \in DOMAIN handled', NEW n \in DOMAIN handled',
                        m < n, handled'[m].life = handled'[n].life
                 PROVE  handled'[m].id < handled'[n].id
      BY DEF HandledOncePerLife
    <3>1. m \in DOMAIN handled
      BY <2>3, <2>4
    <3>2. CASE n \in DOMAIN handled
      BY <2>4, <3>1, <3>2 DEF Inv, HandledOncePerLife
    <3>3. CASE n = Len(handled) + 1
      <4>1. handled[m].life = life
        BY <2>1, <2>4, <3>1, <3>3
      <4>2. handled[m].id < offset
        BY <3>1, <4>1 DEF Inv, Now
      <4> QED BY <1>4, <1>12, <2>1, <2>4, <3>1, <3>3, <4>2
    <3> QED BY <2>5, <3>2, <3>3
  <2>10. Confirmed'
    <3> SUFFICES ASSUME NEW i \in IDs, i \notin stored \/ i < o, kind[i] = "command"
                 PROVE  i \in handledIDs' \cup droppedIDs
      BY <1>5, <1>6 DEF Confirmed, IDs, droppedIDs
    <3>1. CASE i \notin stored \/ i < offset
      BY <2>7, <3>1 DEF Inv, Confirmed
    <3>2. CASE i \in stored /\ offset <= i
      <4>1. i <= id /\ i \in Nat
        BY <1>4, <1>5, <3>2 DEF IDs
      <4>2. PICK m \in DOMAIN batch : batch[m] = i
        BY <1>2, <1>3, <3>2, <4>1 DEF Answer
      <4>3. m = 1
        <5>1. 1 < m => batch[1] < batch[m]
          BY <1>2, <1>3 DEF Answer
        <5> QED BY <1>3, <1>4, <4>1, <4>2, <5>1
      <4> QED BY <1>3, <2>7, <4>2, <4>3
    <3> QED BY <1>4, <3>1, <3>2 DEF IDs
  <2> QED BY <1>11, <2>6, <2>8, <2>9, <2>10, <2>11 DEF Inv
<1>15. CASE kind[id] # "command"
  <2>1. handled' = handled
    BY <1>1, <1>15 DEF HandleUpdate
  <2>2. Types'
    BY <1>5, <1>6, <1>7, <2>1 DEF Inv, Types, IDs, Labels
  <2>3. Now'
    <3>1. \A n \in DOMAIN handled : handled[n].life = life => handled[n].id < o
      BY <1>4, <1>5, <1>12 DEF Inv, Now
    <3>2. \A d \in dropped : d.life = life => d.id < o
      BY <1>4, <1>5, <1>13 DEF Inv, Now
    <3> QED BY <1>5, <1>6, <2>1, <3>1, <3>2 DEF Inv, Now
  <2>4. HandledOncePerLife' /\ DroppedIsNotHandled'
    BY <1>6, <2>1 DEF Inv, HandledOncePerLife, DroppedIsNotHandled
  <2>5. Confirmed'
    <3> SUFFICES ASSUME NEW i \in IDs, i \notin stored \/ i < o, kind[i] = "command"
                 PROVE  i \in handledIDs \cup droppedIDs
      BY <1>5, <1>6, <2>1 DEF Confirmed, IDs, handledIDs, droppedIDs
    <3>1. CASE i \notin stored \/ i < offset
      BY <3>1 DEF Inv, Confirmed
    <3>2. CASE i \in stored /\ offset <= i
      <4>1. i <= id /\ i \in Nat
        BY <1>4, <1>5, <3>2 DEF IDs
      <4>2. PICK m \in DOMAIN batch : batch[m] = i
        BY <1>2, <1>3, <3>2, <4>1 DEF Answer
      <4>3. m = 1
        <5>1. 1 < m => batch[1] < batch[m]
          BY <1>2, <1>3 DEF Answer
        <5> QED BY <1>3, <1>4, <4>1, <4>2, <5>1
      <4> QED BY <1>3, <1>15, <4>2, <4>3
    <3> QED BY <1>4, <3>1, <3>2 DEF IDs
  <2> QED BY <1>11, <2>2, <2>3, <2>4, <2>5 DEF Inv
<1> QED BY <1>14, <1>15

\* A new life has handled and skipped nothing yet.
LEMMA RestartStep ==
  ASSUME Inv, Restart
  PROVE  Inv'
<1>1. /\ life < MaxRestarts /\ life' = life + 1
      /\ pc' = "starting" /\ offset' = 0 /\ batch' = <<>> /\ reply' = NoReply
      /\ UNCHANGED <<kind, stored, dropPending, handled, dropped>>
  BY DEF Restart
<1>2. life \in Nat /\ Len(kind) \in Nat
  BY BotAssumption, LenProperties DEF Inv, Types
<1>3. /\ \A n \in DOMAIN handled : handled[n].life \in Nat /\ handled[n].life <= life
      /\ \A d \in dropped : d.life \in Nat /\ d.life <= life
  <2>1. \A n \in DOMAIN handled : handled[n] \in Entries
    BY DEF Inv, Types
  <2> QED BY <2>1 DEF Inv, Types, Entries
<1>4. <<>> \in Seq(Nat) /\ DOMAIN <<>> = {}
  OBVIOUS
<1>5. Types'
  <2>1. life' \in 0..MaxRestarts
    BY <1>1, <1>2, BotAssumption
  <2>2. /\ \A n \in DOMAIN handled : handled[n].life <= life'
        /\ \A d \in dropped : d.life <= life'
    BY <1>1, <1>2, <1>3
  <2> QED BY <1>1, <1>2, <1>4, <2>1, <2>2 DEF Inv, Types, IDs, Labels
<1>6. Shape'
  BY <1>1, <1>4 DEF Shape, Answer
<1>7. Confirmed'
  <2>1. \A i \in IDs : ~(i < 0)
    BY <1>2 DEF IDs
  <2> QED BY <1>1, <2>1 DEF Inv, Confirmed, IDs, handledIDs, droppedIDs
<1>8. Now'
  <2>1. /\ \A n \in DOMAIN handled : handled[n].life # life'
        /\ \A d \in dropped : d.life # life'
    BY <1>1, <1>2, <1>3
  <2> QED BY <1>1, <2>1 DEF Now
<1>9. HandledOncePerLife' /\ DroppedIsNotHandled'
  BY <1>1 DEF Inv, HandledOncePerLife, DroppedIsNotHandled
<1> QED BY <1>5, <1>6, <1>7, <1>8, <1>9 DEF Inv

LEMMA InvStep == Inv /\ [Next]_vars => Inv'
<1> SUFFICES ASSUME Inv, [Next]_vars PROVE Inv'
  OBVIOUS
<1>1. CASE UNCHANGED vars
  <2>1. UNCHANGED <<kind, stored, reply, dropPending, pc, offset, batch, life,
                    handled, dropped>>
    BY <1>1 DEF vars, apiVars, botVars, histVars
  <2> QED BY <2>1 DEF Inv, Types, Shape, Answer, Confirmed, Now, IDs, handledIDs,
                      droppedIDs, HandledOncePerLife, DroppedIsNotHandled
<1>2. CASE Start
  <2>1. reply = NoReply
    BY <1>2 DEF Start, Inv, Shape
  <2> QED BY <1>2, <2>1, QuietStep
       DEF Start, apiVars, histVars, Labels, Inv, Shape
<1>3. CASE FailDrop
  BY <1>3, QuietStep DEF FailDrop, histVars, Labels
<1>4. CASE Poll
  <2>1. reply = NoReply
    BY <1>4 DEF Poll, Inv, Shape
  <2> QED BY <1>4, <2>1, QuietStep DEF Poll, apiVars, histVars, Labels
<1>5. CASE FailPoll
  BY <1>5, QuietStep DEF FailPoll, histVars, Labels
<1> QED
  BY <1>1, <1>2, <1>3, <1>4, <1>5, ArriveStep, ServeStep, ReceiveDroppedStep,
     ReceiveUpdatesStep, HandleUpdateStep, RestartStep DEF Next

\* Answers have no gaps, and what is confirmed was handled or skipped.
THEOREM TelegramInvariant == Spec => []Inv
BY InvInit, InvStep, PTL DEF Spec

\* Every variable keeps its type.
THEOREM TypeCorrect == Spec => []TypeOK
<1>1. Inv => TypeOK
  <2> SUFFICES ASSUME Inv PROVE TypeOK
    OBVIOUS
  <2>1. DOMAIN kind = IDs /\ Len(kind) \in Nat
    BY LenProperties DEF Inv, Types, IDs
  <2>2. reply # NoReply => ToSet(reply) \subseteq stored
    BY DEF Inv, Shape, Answer, ToSet
  <2>3. ToSet(batch) \subseteq stored
    BY DEF Inv, Shape, Answer, ToSet
  <2>4. offset \in 0..(MaxUpdates + 1)
    BY <2>1, BotAssumption DEF Inv, Types
  <2>5. \A n \in DOMAIN handled : handled[n].id \in DOMAIN kind /\ handled[n].life \in 0..life
    <3>1. \A n \in DOMAIN handled : handled[n].life \in Nat
      <4>1. \A n \in DOMAIN handled : handled[n] \in Entries
        BY DEF Inv, Types
      <4> QED BY <4>1 DEF Entries
    <3>2. life \in Nat
      BY BotAssumption DEF Inv, Types
    <3> QED BY <2>1, <3>1, <3>2 DEF Inv, Types
  <2>6. {d.id : d \in dropped} \subseteq DOMAIN kind
    BY <2>1 DEF Inv, Types
  <2> QED BY <2>1, <2>2, <2>3, <2>4, <2>5, <2>6 DEF TypeOK, Inv, Types, Shape, Labels
<1> QED BY <1>1, TelegramInvariant, PTL

\* In one life the commands are handled in order, and none of them twice.
THEOREM NoneHandledTwice == Spec => []HandledOncePerLife
<1>1. Inv => HandledOncePerLife
  BY DEF Inv
<1> QED BY <1>1, TelegramInvariant, PTL

\* A command that the API has deleted was handled or skipped.
THEOREM NoneLostInSilence == Spec => []DeletedWasHandled
<1>1. Inv => DeletedWasHandled
  <2>1. Inv => DOMAIN kind = IDs
    BY LenProperties DEF Inv, Types, IDs
  <2> QED BY <2>1 DEF Inv, Confirmed, DeletedWasHandled
<1> QED BY <1>1, TelegramInvariant, PTL

\* What a life of the bot has skipped it does not handle, nor anything before it.
THEOREM SkippedIsNotHandled == Spec => []DroppedIsNotHandled
<1>1. Inv => DroppedIsNotHandled
  BY DEF Inv
<1> QED BY <1>1, TelegramInvariant, PTL
=============================================================================
