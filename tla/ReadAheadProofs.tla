---------------------------- MODULE ReadAheadProofs ----------------------------
(***************************************************************************)
(* Machine-checked proofs about ReadAhead, for every number of workers and *)
(* buffers and all miss lists: the loader gets the rows of its group in    *)
(* order, whoever dies, and owner and workers agree on what is outstanding.*)
(*                                                                         *)
(* The inductive invariant counts: the k-th entry of what a worker has     *)
(* answered and still has to do belongs to the k-th row of the window that *)
(* was asked of it, and holds the row of the layer the group is of.        *)
(***************************************************************************)
EXTENDS ReadAhead, TLAPS, FiniteSetTheorems, SequenceTheorems

\* The window and the channels belong to the current group.
Settled == started /\ pc \notin {"join", "stop"}

Reading == {"next", "fill", "lent"}

\* Which rows have been lent, by where the owner is.
Lending ==
    /\ status = "open" <=> pc \in Reading \union {"direct"}
    /\ status = "open" => missing \in Groups
    /\ pc \in Reading => started
    /\ pc \in {"next", "lent", "direct"} => Len(given) = next
    /\ pc = "next" => next < Len(missing)
    /\ pc \in {"fill", "lent"} => next >= 1
    /\ pc = "fill" => Len(given) = next - 1 /\ current = <<layer, missing[next]>>

\* The window is the continuation of the miss list, at most its last row has
\* no request behind it, and every buffer is spare or asked for.
Window ==
    /\ Settled => spare + Len(pending) = NumRows + (IF broken THEN 1 ELSE 0)
    /\ Settled /\ broken => pending # <<>> /\ pending[Len(pending)].failed
    /\ Settled => \A i \in 1 .. Len(pending) : pending[i].failed => i = Len(pending) /\ broken
    /\ pc \in Reading =>
          /\ next + Len(pending) <= Len(missing)
          /\ \A i \in 1 .. Len(pending) : pending[i].expert = missing[next + i]
    /\ pc \in {"idle", "direct", "stop", "shut"} => pending = <<>>
    /\ pc = "next" /\ next = 0 => pending = <<>>
    /\ pc \in {"join", "stop", "shut"} => broken
    /\ ~started => pending = <<>> /\ alive = {} /\ replies = Nothing

\* What worker w has answered and has to do is, place by place, what is
\* pending on it, with the row of this layer; all of it when it lives.
Matches(w) ==
    /\ Len(replies[w]) + Len(jobs[w]) <= Cardinality(Asked(pending, w))
    /\ w \in alive => Len(replies[w]) + Len(jobs[w]) = Cardinality(Asked(pending, w))
    /\ \A i \in Asked(pending, w) :
          LET k == Turn(pending, w, i) IN
          /\ k <= Len(replies[w]) =>
                /\ replies[w][k].expert = pending[i].expert
                /\ replies[w][k].ok => replies[w][k].row = <<layer, pending[i].expert>>
          /\ k > Len(replies[w]) /\ k - Len(replies[w]) <= Len(jobs[w]) =>
                jobs[w][k - Len(replies[w])].row = <<layer, pending[i].expert>>

Channels ==
    /\ \A w \in WorkerIds : w \notin alive => jobs[w] = <<>>
    /\ Settled => \A w \in WorkerIds : Matches(w)

IndInv == TypeOK /\ Lending /\ Window /\ Channels

-----------------------------------------------------------------------------
(* Sequences, and the rows of a window that were asked of one worker *)

\* recv: what is left of a channel, or of the window, after its first entry.
LEMMA TailFacts ==
    ASSUME NEW S, NEW s \in Seq(S), s # <<>>
    PROVE  /\ Head(s) = s[1] /\ s[1] \in S
           /\ Len(s) \in Nat \ {0}
           /\ Tail(s) \in Seq(S)
           /\ Len(Tail(s)) = Len(s) - 1
           /\ \A i \in 1 .. Len(s) - 1 : Tail(s)[i] = s[i + 1]
<1>1. Len(s) \in Nat \ {0}
  BY EmptySeq
<1> QED
  BY <1>1, HeadTailProperties

\* send: one more entry at the end.
LEMMA AppendFacts ==
    ASSUME NEW S, NEW s \in Seq(S), NEW e \in S
    PROVE  /\ Append(s, e) \in Seq(S) /\ Append(s, e) # <<>>
           /\ Len(s) \in Nat
           /\ Len(Append(s, e)) = Len(s) + 1
           /\ \A i \in 1 .. Len(s) : Append(s, e)[i] = s[i]
           /\ Append(s, e)[Len(s) + 1] = e
<1>1. Len(s) \in Nat
  OBVIOUS
<1>2. /\ Append(s, e) \in Seq(S)
      /\ Len(Append(s, e)) = Len(s) + 1
      /\ \A i \in 1 .. Len(s) : Append(s, e)[i] = s[i]
      /\ Append(s, e)[Len(s) + 1] = e
  OBVIOUS
<1>3. Append(s, e) # <<>>
  BY <1>1, <1>2, EmptySeq
<1> QED
  BY <1>1, <1>2, <1>3

\* The rows asked of a worker are finitely many rows of the window, and the
\* turn of each is its place among them.
LEMMA AskedFacts ==
    ASSUME NEW list \in Seq(PendingRow), NEW w
    PROVE  /\ Asked(list, w) \subseteq 1 .. Len(list)
           /\ IsFiniteSet(Asked(list, w))
           /\ Cardinality(Asked(list, w)) \in Nat
           /\ Cardinality(Asked(list, w)) <= Len(list)
           /\ \A i \in Asked(list, w) :
                 /\ Turn(list, w, i) \in 1 .. Cardinality(Asked(list, w))
                 /\ i = 1 => Turn(list, w, i) = 1
<1>1. Len(list) \in Nat
  OBVIOUS
<1>2. Asked(list, w) \subseteq 1 .. Len(list)
  BY DEF Asked
<1>3. IsFiniteSet(1 .. Len(list)) /\ Cardinality(1 .. Len(list)) = Len(list)
  BY SMTT(15), <1>1, FS_Interval
<1>4. IsFiniteSet(Asked(list, w)) /\ Cardinality(Asked(list, w)) <= Len(list)
  BY <1>2, <1>3, FS_Subset
<1>5. Cardinality(Asked(list, w)) \in Nat
  BY <1>4, FS_CardinalityType
<1>6. ASSUME NEW i \in Asked(list, w)
      PROVE  /\ Turn(list, w, i) \in 1 .. Cardinality(Asked(list, w))
             /\ i = 1 => Turn(list, w, i) = 1
  <2> DEFINE U == {j \in Asked(list, w) : j <= i}
  <2>1. U \in SUBSET Asked(list, w)
    OBVIOUS
  <2>2. IsFiniteSet(U) /\ Cardinality(U) <= Cardinality(Asked(list, w))
    BY <1>4, <2>1, FS_Subset
  <2>3. Cardinality(U) \in Nat
    BY <2>2, FS_CardinalityType
  <2>4. i \in Nat /\ i \in U
    BY <1>2, <1>6
  <2>5. Cardinality(U) # 0
    BY <2>2, <2>4, FS_EmptySet
  <2>6. ASSUME i = 1 PROVE Cardinality(U) = 1
    <3>1. \A j \in U : j = 1
      BY <1>2, <2>6
    <3>2. U = {1}
      BY <2>4, <2>6, <3>1
    <3> QED
      BY <3>2, FS_Singleton
  <2>7. Turn(list, w, i) = Cardinality(U)
    BY DEF Turn
  <2> HIDE DEF U
  <2> QED
    BY <1>5, <2>2, <2>3, <2>5, <2>6, <2>7
<1> QED
  BY <1>2, <1>4, <1>5, <1>6

\* Numbers that move down by one are as many as before.
LEMMA Shifted ==
    ASSUME NEW S \in SUBSET Nat, IsFiniteSet(S),
           NEW T, T = {i \in Nat : i + 1 \in S}, 0 \notin S
    PROVE  IsFiniteSet(T) /\ Cardinality(T) = Cardinality(S)
<1> DEFINE f == [x \in S |-> x - 1]
<1>1. \A x \in S : x - 1 \in T /\ f[x] = x - 1
  <2> TAKE x \in S
  <2>1. x \in Nat /\ x # 0
    OBVIOUS
  <2>2. x - 1 \in Nat /\ (x - 1) + 1 = x
    BY <2>1
  <2> QED
    BY <2>2
<1>2. f \in [S -> T]
  BY <1>1
<1>3. \A x, y \in S : f[x] = f[y] => x = y
  BY <1>1
<1>4. \A t \in T : t + 1 \in S /\ f[t + 1] = t
  OBVIOUS
<1>5. f \in Bijection(S, T)
  BY <1>2, <1>3, <1>4 DEF Bijection, Injection, Surjection, IsInjective
<1>6. ExistsBijection(S, T)
  BY <1>5 DEF ExistsBijection
<1> QED
  BY <1>6, FS_Bijection

\* The window without its first row: that row was the first of its worker, and
\* the turns of the worker's other rows move down by one.
LEMMA TailAsked ==
    ASSUME NEW list \in Seq(PendingRow), list # <<>>, NEW w
    PROVE  LET gone == IF 1 \in Asked(list, w) THEN 1 ELSE 0 IN
           /\ Cardinality(Asked(list, w)) = Cardinality(Asked(Tail(list), w)) + gone
           /\ \A i \in Asked(Tail(list), w) :
                 /\ i \in 1 .. Len(list) - 1
                 /\ i + 1 \in Asked(list, w)
                 /\ Tail(list)[i] = list[i + 1]
                 /\ Turn(list, w, i + 1) = Turn(Tail(list), w, i) + gone
<1> DEFINE gone == IF 1 \in Asked(list, w) THEN 1 ELSE 0
           A == Asked(list, w)
           B == Asked(Tail(list), w)
<1>1. /\ Tail(list) \in Seq(PendingRow) /\ Len(Tail(list)) = Len(list) - 1
      /\ Len(list) \in Nat \ {0}
      /\ \A i \in 1 .. Len(list) - 1 : Tail(list)[i] = list[i + 1]
  BY TailFacts
<1>2. A \subseteq 1 .. Len(list) /\ IsFiniteSet(A) /\ Cardinality(A) \in Nat
  BY AskedFacts
<1>3. B \subseteq 1 .. Len(list) - 1 /\ IsFiniteSet(B) /\ Cardinality(B) \in Nat
  BY <1>1, AskedFacts
<1>4. \A i \in Nat : i \in B <=> i + 1 \in A \ {1}
  <2> TAKE i \in Nat
  <2>1. i \in 1 .. Len(list) - 1 <=> i + 1 \in 1 .. Len(list) /\ i + 1 # 1
    BY <1>1
  <2> QED
    BY <1>1, <2>1 DEF Asked
<1>5. \A i \in B : i \in Nat
  BY <1>3
<1> HIDE DEF A, B
<1>6. Cardinality(A \ {1}) = Cardinality(B)
  <2>1. B = {i \in Nat : i + 1 \in A \ {1}}
    BY <1>4, <1>5
  <2>2. A \ {1} \in SUBSET Nat /\ 0 \notin A \ {1} /\ IsFiniteSet(A \ {1})
    BY <1>1, <1>2, FS_RemoveElement
  <2> QED
    BY <2>1, <2>2, Shifted
<1>7. Cardinality(A) = Cardinality(B) + gone
  <2>1. Cardinality(A \ {1}) = IF 1 \in A THEN Cardinality(A) - 1 ELSE Cardinality(A)
    BY <1>2, FS_RemoveElement
  <2> QED
    BY <1>2, <1>3, <1>6, <2>1 DEF A
<1>8. ASSUME NEW i \in B
      PROVE  Turn(list, w, i + 1) = Turn(Tail(list), w, i) + gone
  <2> DEFINE U == {j \in A : j <= i + 1}
             V == {j \in B : j <= i}
  <2>1. U \in SUBSET A /\ V \in SUBSET B /\ i \in Nat
    BY <1>5
  <2>2. IsFiniteSet(U) /\ IsFiniteSet(V)
    BY <1>2, <1>3, <2>1, FS_Subset
  <2>3. \A j \in Nat : j \in V <=> j + 1 \in U \ {1}
    BY <1>4, <2>1
  <2>4. V = {j \in Nat : j + 1 \in U \ {1}}
    BY <1>5, <2>3
  <2>5. U \ {1} \in SUBSET Nat /\ 0 \notin U \ {1} /\ IsFiniteSet(U \ {1})
    <3> HIDE DEF U, V
    <3>1. U \subseteq 1 .. Len(list)
      BY <1>2, <2>1
    <3>2. IsFiniteSet(U \ {1})
      BY <2>2, FS_RemoveElement
    <3> QED
      BY <1>1, <3>1, <3>2
  <2>6. 1 \in U <=> 1 \in A
    BY <2>1
  <2>7. Turn(list, w, i + 1) = Cardinality(U) /\ Turn(Tail(list), w, i) = Cardinality(V)
    BY DEF Turn, A, B
  <2> HIDE DEF U, V
  <2>8. Cardinality(U \ {1}) = Cardinality(V)
    BY <2>4, <2>5, Shifted
  <2>9. Cardinality(U \ {1}) = IF 1 \in U THEN Cardinality(U) - 1 ELSE Cardinality(U)
    BY <2>2, FS_RemoveElement
  <2>10. Cardinality(U) \in Nat
    BY <2>2, FS_CardinalityType
  <2> QED
    BY <2>6, <2>7, <2>8, <2>9, <2>10 DEF A
<1>9. \A i \in B : i \in 1 .. Len(list) - 1 /\ i + 1 \in A /\ Tail(list)[i] = list[i + 1]
  BY <1>1, <1>3, <1>4, <1>5
<1> QED
  BY <1>7, <1>8, <1>9 DEF A, B

\* One more row at the end of the window is the last turn of its worker.
LEMMA AppendAsked ==
    ASSUME NEW list \in Seq(PendingRow), NEW e \in PendingRow, NEW w
    PROVE  LET more == Append(list, e)
               mine == e.worker = w /\ ~e.failed
           IN  /\ Asked(more, w) = IF mine THEN Asked(list, w) \union {Len(list) + 1}
                                   ELSE Asked(list, w)
               /\ mine => /\ Cardinality(Asked(more, w)) = Cardinality(Asked(list, w)) + 1
                          /\ Turn(more, w, Len(list) + 1) = Cardinality(Asked(list, w)) + 1
               /\ \A i \in Asked(list, w) :
                     more[i] = list[i] /\ Turn(more, w, i) = Turn(list, w, i)
<1> DEFINE more == Append(list, e)
           mine == e.worker = w /\ ~e.failed
           A == Asked(list, w)
           n == Len(list) + 1
<1>1. /\ more \in Seq(PendingRow) /\ Len(more) = n
      /\ Len(list) \in Nat
      /\ \A i \in 1 .. Len(list) : more[i] = list[i]
      /\ more[n] = e
  BY AppendFacts
<1>2. A \subseteq 1 .. Len(list) /\ IsFiniteSet(A) /\ Cardinality(A) \in Nat
  BY AskedFacts
<1> HIDE DEF more
<1>3. Asked(more, w) = IF mine THEN A \union {n} ELSE A
  <2>1. 1 .. n = (1 .. Len(list)) \union {n}
    BY <1>1
  <2> QED
    BY <1>1, <2>1 DEF Asked
<1>4. n \notin A
  BY <1>1, <1>2
<1>5. mine => Cardinality(Asked(more, w)) = Cardinality(A) + 1
  BY <1>2, <1>3, <1>4, FS_AddElement
<1>6. mine => Turn(more, w, n) = Cardinality(A) + 1
  <2>1. {j \in Asked(more, w) : j <= n} = Asked(more, w)
    BY <1>1, <1>2, <1>3
  <2> QED
    BY <1>5, <2>1 DEF Turn
<1>7. ASSUME NEW i \in A
      PROVE  more[i] = list[i] /\ Turn(more, w, i) = Turn(list, w, i)
  <2>1. i \in 1 .. Len(list)
    BY <1>2
  <2>2. {j \in Asked(more, w) : j <= i} = {j \in A : j <= i}
    BY <1>1, <1>3, <2>1
  <2> QED
    BY <1>1, <2>1, <2>2 DEF Turn
<1> QED
  BY <1>3, <1>5, <1>6, <1>7 DEF more

-----------------------------------------------------------------------------
(* Consequences of the invariant *)

\* The miss list of the group is a list of experts of the package.
LEMMA MissingFacts ==
    ASSUME missing \in Groups \union {<<>>}
    PROVE  /\ Len(missing) \in Nat
           /\ missing \in Groups => Len(missing) >= 1
           /\ \A i \in 1 .. Len(missing) : missing[i] \in Experts
<1>1. CASE missing = <<>>
  <2>1. missing \in Seq(Nat) /\ Len(missing) = 0
    BY <1>1, EmptySeq
  <2> QED
    BY <1>1, <2>1, GroupAssumption
<1>2. CASE missing \in Groups
  <2>1. missing \in Seq(Nat) /\ missing # <<>>
    BY <1>2, GroupAssumption
  <2>2. Len(missing) \in Nat \ {0}
    BY <2>1, EmptySeq
  <2>3. \A i \in 1 .. Len(missing) : missing[i] \in Experts
    BY <1>2 DEF Experts
  <2> QED
    BY <2>2, <2>3
<1> QED
  BY <1>1, <1>2

\* A step that leaves the window and the channels alone keeps what they say.
LEMMA ChannelsKept ==
    ASSUME Channels, Settled' => Settled, pending' = <<>> \/ layer' = layer,
           UNCHANGED <<pending, jobs, replies, alive>>,
           TypeOK
    PROVE  Channels'
<1>1. CASE layer' = layer
  BY <1>1 DEF Channels, Matches
<1>2. CASE pending' = <<>>
  <2>1. \A w \in WorkerIds : Asked(pending, w) = {}
    <3>1. Len(pending) = 0
      BY <1>2, EmptySeq
    <3> QED
      BY <3>1 DEF Asked
  <2> QED
    BY <1>2, <2>1 DEF Channels, Matches
<1> QED
  BY <1>1, <1>2

-----------------------------------------------------------------------------
(* The initial state *)

\* No row is asked for before the first group.
LEMMA InitInv == Init => IndInv
<1> SUFFICES ASSUME Init PROVE IndInv
  OBVIOUS
<1> USE WindowAssumption DEF Init
<1>1. /\ \A w \in WorkerIds : jobs[w] = <<>> /\ replies[w] = <<>>
      /\ Len(<<>>) = 0
  BY EmptySeq DEF Nothing
<1>2. <<>> \in Seq(Row) /\ <<>> \in Seq(PendingRow) /\ <<>> \in Seq(Job) /\ <<>> \in Seq(Reply)
  BY EmptySeq
<1>3. jobs \in [WorkerIds -> Seq(Job)] /\ replies \in [WorkerIds -> Seq(Reply)]
  BY <1>2 DEF Nothing
<1>4. TypeOK
  <2>1. 0 \in WorkerIds
    BY DEF WorkerIds
  <2>2. next \in 0 .. Len(missing) /\ spare \in 0 .. NumRows
    BY <1>1
  <2>3. \A w \in WorkerIds : Len(jobs[w]) + Len(replies[w]) <= NumRows
    BY <1>1
  <2> QED
    BY <1>2, <1>3, <2>1, <2>2, <2>3 DEF TypeOK, OwnerPlaces
<1>5. Lending
  BY DEF Lending, Reading
<1>6. Window
  BY <1>1 DEF Window, Reading, Settled
<1>7. Channels
  <2>1. \A w \in WorkerIds : Asked(pending, w) = {}
    BY <1>1 DEF Asked
  <2>2. Cardinality({}) = 0
    BY FS_EmptySet
  <2>3. ASSUME NEW w \in WorkerIds PROVE Matches(w)
    <3>1. Len(replies[w]) = 0 /\ Len(jobs[w]) = 0 /\ Cardinality(Asked(pending, w)) = 0
      BY <1>1, <2>1, <2>2
    <3>2. Len(replies[w]) + Len(jobs[w]) = Cardinality(Asked(pending, w))
      BY <3>1
    <3> QED
      BY <2>1, <3>1, <3>2 DEF Matches
  <2> QED
    BY <1>1, <2>3 DEF Channels
<1> QED
  BY <1>4, <1>5, <1>6, <1>7 DEF IndInv

-----------------------------------------------------------------------------
(* Steps that leave the window and the channels alone *)

\* prefill_rows opens a group: nothing of another group is outstanding.
LEMMA OpenKeeps ==
    ASSUME IndInv, NEW l \in Layers, NEW group \in Groups, Open(l, group)
    PROVE  IndInv'
<1> USE DEF IndInv, Open, threads
<1>1. group \in Seq(Nat) /\ Len(group) \in Nat \ {0}
  BY GroupAssumption, EmptySeq
<1>2. pending = <<>> /\ Len(pending) = 0 /\ Len(<<>>) = 0 /\ <<>> \in Seq(Row)
  BY EmptySeq DEF Window
<1>3. TypeOK'
  BY <1>1, <1>2 DEF TypeOK, OwnerPlaces
<1>4. Lending'
  BY <1>1, <1>2 DEF Lending, Reading, Available
<1>5. Window'
  BY <1>1, <1>2 DEF Window, Reading, Settled
<1>6. Channels'
  BY <1>2, ChannelsKept DEF Settled
<1> QED
  BY <1>3, <1>4, <1>5, <1>6

\* ensure_group reads a row itself.
LEMMA DirectReadKeeps ==
    ASSUME IndInv, NEW ok \in BOOLEAN, DirectRead(ok)
    PROVE  IndInv'
<1> USE DEF IndInv, DirectRead, threads
<1>1. Len(missing) \in Nat /\ next \in Nat /\ next + 1 \in 1 .. Len(missing)
  BY MissingFacts DEF TypeOK
<1>2. <<layer, missing[next + 1]>> \in Row
  BY <1>1, MissingFacts DEF TypeOK, Row
<1>3. /\ Append(given, <<layer, missing[next + 1]>>) \in Seq(Row)
      /\ Len(Append(given, <<layer, missing[next + 1]>>)) = Len(given) + 1
      /\ Len(given) \in Nat
  BY <1>2, AppendFacts DEF TypeOK
<1>4. TypeOK'
  BY <1>1, <1>2, <1>3 DEF TypeOK, OwnerPlaces
<1>5. Lending'
  BY <1>1, <1>3 DEF Lending, Reading
<1>6. Window'
  BY DEF Window, Reading, Settled
<1>7. Channels'
  BY ChannelsKept DEF Settled
<1> QED
  BY <1>4, <1>5, <1>6, <1>7

\* The direct group ends.
LEMMA DirectEndKeeps ==
    ASSUME IndInv, NEW done \in BOOLEAN, DirectEnd(done)
    PROVE  IndInv'
<1> USE DEF IndInv, DirectEnd, threads
<1>1. TypeOK'
  BY DEF TypeOK, OwnerPlaces
<1>2. Lending'
  BY DEF Lending, Reading
<1>3. Window'
  BY DEF Window, Reading, Settled
<1>4. Channels'
  BY ChannelsKept DEF Settled
<1> QED
  BY <1>1, <1>2, <1>3, <1>4

\* next reads the first row of a group.
LEMMA FirstRowKeeps ==
    ASSUME IndInv, NEW ok \in BOOLEAN, FirstRow(ok)
    PROVE  IndInv'
<1> USE DEF IndInv, FirstRow, threads
<1>1. Len(missing) \in Nat /\ 1 \in 1 .. Len(missing)
  BY MissingFacts DEF TypeOK, Lending
<1>2. <<layer, missing[1]>> \in Row
  BY <1>1, MissingFacts DEF TypeOK, Row
<1>3. pending = <<>> /\ Len(pending) = 0
  BY EmptySeq DEF Window
<1>4. TypeOK'
  BY <1>1, <1>2 DEF TypeOK, OwnerPlaces
<1>5. Lending'
  BY <1>1 DEF Lending, Reading
<1>6. Window'
  BY <1>1, <1>3 DEF Window, Reading, Settled
<1>7. Channels'
  BY ChannelsKept DEF Settled
<1> QED
  BY <1>4, <1>5, <1>6, <1>7

\* fill is over and the current row is lent.
LEMMA LendKeeps ==
    ASSUME IndInv, Lend
    PROVE  IndInv'
<1> USE DEF IndInv, Lend, threads
<1>1. Len(missing) \in Nat /\ next \in 1 .. Len(missing)
  BY MissingFacts DEF TypeOK, Lending
<1>2. current \in Row
  BY <1>1, MissingFacts DEF TypeOK, Row, Lending
<1>3. /\ Append(given, current) \in Seq(Row)
      /\ Len(Append(given, current)) = Len(given) + 1
      /\ Len(given) \in Nat
  BY <1>2, AppendFacts DEF TypeOK
<1>4. TypeOK'
  BY <1>3 DEF TypeOK, OwnerPlaces
<1>5. Lending'
  BY <1>1, <1>3 DEF Lending, Reading
<1>6. Window'
  BY DEF Window, Reading, Settled
<1>7. Channels'
  BY ChannelsKept DEF Settled
<1> QED
  BY <1>4, <1>5, <1>6, <1>7

\* The loader asks for the next row, is done, or gives up; drain ends; the
\* engine drops the workspace.
LEMMA OwnerMoves ==
    ASSUME IndInv, \/ AskNext
                   \/ \E done \in BOOLEAN : Drop(done)
                   \/ Drained
                   \/ Shutdown
    PROVE  IndInv'
<1> USE DEF IndInv, threads, cursor
<1>1. CASE AskNext
  <2> USE <1>1 DEF AskNext
  <2>1. TypeOK'
    BY DEF TypeOK, OwnerPlaces
  <2>2. Lending'
    BY DEF Lending, Reading
  <2>3. Window'
    BY DEF Window, Reading, Settled, Lending, TypeOK
  <2>4. Channels'
    BY ChannelsKept DEF Settled
  <2> QED
    BY <2>1, <2>2, <2>3, <2>4
<1>2. ASSUME NEW done \in BOOLEAN, Drop(done) PROVE IndInv'
  <2> USE <1>2 DEF Drop
  <2>1. TypeOK'
    BY DEF TypeOK, OwnerPlaces
  <2>2. Lending'
    BY DEF Lending, Reading
  <2>3. Window'
    BY DEF Window, Reading, Settled
  <2>4. Channels'
    BY ChannelsKept DEF Settled
  <2> QED
    BY <2>1, <2>2, <2>3, <2>4
<1>3. CASE Drained
  <2> USE <1>3 DEF Drained
  <2>1. TypeOK'
    BY DEF TypeOK, OwnerPlaces
  <2>2. Lending'
    BY DEF Lending, Reading
  <2>3. Window'
    BY DEF Window, Reading, Settled
  <2>4. Channels'
    BY ChannelsKept DEF Settled
  <2> QED
    BY <2>1, <2>2, <2>3, <2>4
<1>4. CASE Shutdown
  <2> USE <1>4 DEF Shutdown
  <2>1. TypeOK'
    BY DEF TypeOK, OwnerPlaces
  <2>2. Lending'
    BY DEF Lending, Reading
  <2>3. Window'
    BY DEF Window, Reading, Settled
  <2>4. Channels'
    BY ChannelsKept DEF Settled
  <2> QED
    BY <2>1, <2>2, <2>3, <2>4
<1> QED
  BY <1>1, <1>2, <1>3, <1>4

-----------------------------------------------------------------------------
(* The workers *)

\* worker_loop: the first job becomes the last answer, in the same place of
\* what the worker was asked.
LEMMA WorkerReadKeeps ==
    ASSUME IndInv, NEW w \in WorkerIds, NEW ok \in BOOLEAN, WorkerRead(w, ok)
    PROVE  IndInv'
<1> USE DEF IndInv
<1> DEFINE job == Head(jobs[w])
           reply == [expert |-> job.row[2], row |-> IF ok THEN job.row ELSE <<>>, ok |-> ok]
           R == Len(replies[w])
           J == Len(jobs[w])
<1>1. /\ w \in alive /\ jobs[w] # <<>>
      /\ jobs[w] \in Seq(Job) /\ replies[w] \in Seq(Reply)
      /\ jobs \in [WorkerIds -> Seq(Job)] /\ replies \in [WorkerIds -> Seq(Reply)]
  BY DEF WorkerRead, TypeOK
<1>2. /\ job = jobs[w][1] /\ job \in Job
      /\ J \in Nat \ {0}
      /\ Tail(jobs[w]) \in Seq(Job) /\ Len(Tail(jobs[w])) = J - 1
      /\ \A i \in 1 .. J - 1 : Tail(jobs[w])[i] = jobs[w][i + 1]
  BY <1>1, TailFacts
<1>3. reply \in Reply
  <2>1. job.row \in Row /\ job.row[2] \in Experts
    BY <1>2 DEF Job, Row
  <2> QED
    BY <2>1 DEF Reply
<1> HIDE DEF reply
<1>4. /\ Append(replies[w], reply) \in Seq(Reply)
      /\ R \in Nat /\ Len(Append(replies[w], reply)) = R + 1
      /\ \A i \in 1 .. R : Append(replies[w], reply)[i] = replies[w][i]
      /\ Append(replies[w], reply)[R + 1] = reply
  BY <1>1, <1>3, AppendFacts
<1>5. /\ jobs' \in [WorkerIds -> Seq(Job)] /\ replies' \in [WorkerIds -> Seq(Reply)]
      /\ jobs'[w] = Tail(jobs[w]) /\ replies'[w] = Append(replies[w], reply)
      /\ \A v \in WorkerIds : v # w => jobs'[v] = jobs[v] /\ replies'[v] = replies[v]
  BY <1>1, <1>2, <1>4 DEF WorkerRead, reply
<1>6. UNCHANGED <<cursor, next, pc, current, started, broken, spare, pending,
                  next_worker, sending, alive>>
  BY DEF WorkerRead
<1>11. R \in Nat /\ J \in Nat \ {0}
  BY <1>2, <1>4
<1>12. Len(replies'[w]) = R + 1 /\ Len(jobs'[w]) = J - 1
  BY <1>2, <1>4, <1>5
<1>7. TypeOK'
  <2>1. \A v \in WorkerIds : Len(jobs'[v]) + Len(replies'[v]) <= NumRows
    <3> TAKE v \in WorkerIds
    <3>1. Len(jobs[v]) + Len(replies[v]) <= NumRows
      BY DEF TypeOK
    <3>2. CASE v = w
      <4> HIDE DEF R, J
      <4>1. J + R <= NumRows
        BY <3>1, <3>2 DEF R, J
      <4>2. (J - 1) + (R + 1) <= NumRows
        BY <1>11, <4>1, WindowAssumption
      <4> QED
        BY <1>12, <3>2, <4>2, Zenon
    <3>3. CASE v # w
      BY <1>5, <3>1, <3>3
    <3> QED
      BY <3>2, <3>3
  <2> QED
    BY <1>5, <1>6, <2>1 DEF TypeOK, cursor
<1>8. Lending'
  BY <1>6 DEF Lending, cursor
<1>9. Window'
  <2>1. started
    BY <1>1 DEF Window
  <2> QED
    BY <1>6, <2>1 DEF Window, Settled, cursor
<1>10. Channels'
  <2>1. \A v \in WorkerIds : v \notin alive' => jobs'[v] = <<>>
    BY <1>1, <1>5, <1>6 DEF Channels
  <2>2. ASSUME Settled', NEW v \in WorkerIds PROVE Matches(v)'
    <3>1. Settled
      BY <1>6, <2>2 DEF Settled
    <3>2. Matches(v)
      BY <3>1 DEF Channels
    <3>3. CASE v # w
      BY <1>5, <1>6, <3>2, <3>3 DEF Matches, cursor
    <3>4. CASE v = w
      <4> DEFINE A == Asked(pending, w)
      <4>1. /\ A' = A /\ layer' = layer /\ pending' = pending /\ alive' = alive
            /\ \A i \in A : Turn(pending, w, i)' = Turn(pending, w, i)
        BY <1>6 DEF cursor
      <4>2. pending \in Seq(PendingRow)
        BY DEF TypeOK
      <4>3. /\ Cardinality(A) \in Nat
            /\ \A i \in A : Turn(pending, w, i) \in 1 .. Cardinality(A)
        BY <4>2, AskedFacts
      <4>4. R + J = Cardinality(A)
        BY <1>1, <3>2, <3>4 DEF Matches
      <4>6. ASSUME NEW i \in A, NEW k, k = Turn(pending, w, i)
            PROVE  /\ k <= R + 1 =>
                         /\ replies'[w][k].expert = pending[i].expert
                         /\ replies'[w][k].ok => replies'[w][k].row = <<layer, pending[i].expert>>
                   /\ k > R + 1 /\ k - (R + 1) <= J - 1 =>
                         jobs'[w][k - (R + 1)].row = <<layer, pending[i].expert>>
        <5>1. k \in Nat /\ k >= 1
          BY <4>3, <4>6
        <5>2. /\ k <= R =>
                   /\ replies[w][k].expert = pending[i].expert
                   /\ replies[w][k].ok => replies[w][k].row = <<layer, pending[i].expert>>
              /\ k > R /\ k - R <= J => jobs[w][k - R].row = <<layer, pending[i].expert>>
          BY <3>2, <3>4, <4>6 DEF Matches
        <5>3. CASE k <= R
          <6>1. replies'[w][k] = replies[w][k]
            BY <1>4, <1>5, <5>1, <5>3
          <6> HIDE DEF R, J
          <6>2. k <= R + 1 /\ ~ (k > R + 1)
            BY <1>11, <5>1, <5>3
          <6> QED
            BY <5>2, <5>3, <6>1, <6>2
        <5>4. CASE k = R + 1
          <6>1. replies'[w][k] = reply /\ job.row = <<layer, pending[i].expert>>
            <7>1. k > R /\ k - R = 1 /\ 1 <= J
              BY <1>2, <1>4, <5>4
            <7> QED
              BY <1>2, <1>4, <1>5, <5>2, <5>4, <7>1
          <6> QED
            BY <1>4, <5>4, <6>1 DEF reply
        <5>5. CASE k > R + 1
          <6>1. k - (R + 1) <= J - 1 =>
                   k > R /\ k - R <= J /\ k - (R + 1) \in 1 .. J - 1 /\ k - (R + 1) + 1 = k - R
            BY SMTT(15), <1>2, <1>4, <5>1, <5>5
          <6>2. k - (R + 1) <= J - 1 => jobs'[w][k - (R + 1)] = jobs[w][k - R]
            BY <1>2, <1>5, <6>1
          <6> HIDE DEF R, J
          <6> QED
            BY <1>11, <5>1, <5>2, <5>5, <6>1, <6>2
        <5> HIDE DEF R, J
        <5> QED
          BY <1>11, <5>1, <5>3, <5>4, <5>5
      <4>7. (R + 1) + (J - 1) = Cardinality(A)
        <5> HIDE DEF R, J, A
        <5> QED
          BY <1>11, <4>3, <4>4
      <4> HIDE DEF R, J
      <4>8. ASSUME NEW i \in A
            PROVE  LET k == Turn(pending, w, i)' IN
                   /\ k <= Len(replies'[w]) =>
                         /\ replies'[w][k].expert = pending'[i].expert
                         /\ replies'[w][k].ok =>
                               replies'[w][k].row = <<layer', pending'[i].expert>>
                   /\ k > Len(replies'[w]) /\ k - Len(replies'[w]) <= Len(jobs'[w]) =>
                         jobs'[w][k - Len(replies'[w])].row = <<layer', pending'[i].expert>>
        BY <1>12, <4>1, <4>6, <4>8
      <4>9. Len(replies'[w]) + Len(jobs'[w]) = Cardinality(A)'
        BY <1>12, <4>1, <4>7
      <4>10. Len(replies'[w]) + Len(jobs'[w]) <= Cardinality(A)'
        <5>1. Cardinality(A)' <= Cardinality(A)'
          BY <4>1, <4>3
        <5> QED
          BY <4>9, <5>1, Zenon
      <4> QED
        BY <3>4, <4>1, <4>8, <4>9, <4>10 DEF Matches
    <3> QED
      BY <3>3, <3>4
  <2> QED
    BY <2>1, <2>2 DEF Channels
<1> QED
  BY <1>7, <1>8, <1>9, <1>10

\* A worker that ends or dies leaves its answers; its jobs are gone.
LEMMA WorkerGoes ==
    ASSUME IndInv, NEW w \in WorkerIds, WorkerExit(w) \/ WorkerDies(w)
    PROVE  IndInv'
<1> USE DEF IndInv
<1>1. /\ w \in alive /\ alive' = alive \ {w}
      /\ jobs \in [WorkerIds -> Seq(Job)] /\ replies \in [WorkerIds -> Seq(Reply)]
      /\ UNCHANGED <<cursor, next, pc, current, started, broken, spare, pending,
                     next_worker, sending, replies>>
  BY DEF WorkerExit, WorkerDies, TypeOK
<1>2. /\ jobs' \in [WorkerIds -> Seq(Job)] /\ jobs'[w] = <<>>
      /\ \A v \in WorkerIds : v # w => jobs'[v] = jobs[v]
  <2>1. <<>> \in Seq(Job)
    BY EmptySeq
  <2> QED
    BY <1>1, <2>1 DEF WorkerExit, WorkerDies
<1>3. Len(<<>>) = 0 /\ Len(jobs[w]) \in Nat /\ Len(replies[w]) \in Nat
  BY <1>1, EmptySeq
<1>4. TypeOK'
  <2>1. \A v \in WorkerIds : Len(jobs'[v]) + Len(replies'[v]) <= NumRows
    <3> TAKE v \in WorkerIds
    <3>1. Len(jobs[v]) + Len(replies[v]) <= NumRows
      BY DEF TypeOK
    <3>2. CASE v = w
      BY <1>1, <1>2, <1>3, <3>1, <3>2, WindowAssumption
    <3>3. CASE v # w
      BY <1>1, <1>2, <3>1, <3>3
    <3> QED
      BY <3>2, <3>3
  <2> QED
    BY <1>1, <1>2, <2>1 DEF TypeOK, cursor
<1>5. Lending'
  BY <1>1 DEF Lending, cursor
<1>6. Window'
  <2>1. started
    BY <1>1 DEF Window
  <2> QED
    BY <1>1, <2>1 DEF Window, Settled, cursor
<1>7. Channels'
  <2>1. \A v \in WorkerIds : v \notin alive' => jobs'[v] = <<>>
    BY <1>1, <1>2 DEF Channels
  <2>2. ASSUME Settled', NEW v \in WorkerIds PROVE Matches(v)'
    <3>1. Matches(v)
      BY <1>1, <2>2 DEF Channels, Settled
    <3>2. CASE v # w
      BY <1>1, <1>2, <3>1, <3>2 DEF Matches, cursor
    <3>3. CASE v = w
      <4>1. /\ Asked(pending, w)' = Asked(pending, w) /\ layer' = layer /\ pending' = pending
            /\ \A i \in Asked(pending, w) : Turn(pending, w, i)' = Turn(pending, w, i)
        BY <1>1 DEF cursor
      <4>2. Cardinality(Asked(pending, w)) \in Nat
            /\ \A i \in Asked(pending, w) : Turn(pending, w, i) \in Nat
        <5>1. pending \in Seq(PendingRow)
          BY DEF TypeOK
        <5> QED
          BY <5>1, AskedFacts
      <4>3. Len(jobs'[w]) = 0 /\ replies'[w] = replies[w] /\ w \notin alive'
        BY <1>1, <1>2, <1>3
      <4>4. Len(replies[w]) + 0 <= Cardinality(Asked(pending, w))
        <5>1. Len(replies[w]) + Len(jobs[w]) <= Cardinality(Asked(pending, w))
          BY <3>1, <3>3 DEF Matches
        <5> QED
          BY <1>1, <1>3, <4>2, <5>1
      <4>5. \A k \in Nat : k > Len(replies[w]) => ~ (k - Len(replies[w]) <= 0)
        BY <1>3
      <4>6. Len(replies'[w]) + Len(jobs'[w]) <= Cardinality(Asked(pending, w)')
        BY <4>1, <4>3, <4>4
      <4> QED
        BY <3>1, <3>3, <4>1, <4>2, <4>3, <4>5, <4>6 DEF Matches
    <3> QED
      BY <3>2, <3>3
  <2> QED
    BY <2>1, <2>2 DEF Channels
<1> QED
  BY <1>4, <1>5, <1>6, <1>7

-----------------------------------------------------------------------------
(* The window *)

\* disable, after the join: the window and the channels are gone.
LEMMA JoinedKeeps ==
    ASSUME IndInv, Joined
    PROVE  IndInv'
<1> USE DEF IndInv, Joined, cursor
<1>1. /\ \A w \in WorkerIds : replies'[w] = <<>>
      /\ Len(<<>>) = 0 /\ <<>> \in Seq(Reply) /\ <<>> \in Seq(PendingRow)
      /\ replies' \in [WorkerIds -> Seq(Reply)]
  <2>1. Len(<<>>) = 0 /\ <<>> \in Seq(Reply) /\ <<>> \in Seq(PendingRow)
    BY EmptySeq
  <2> QED
    BY <2>1 DEF Nothing
<1>2. /\ \A w \in WorkerIds : jobs'[w] = <<>> /\ jobs[w] = <<>>
      /\ jobs' \in [WorkerIds -> Seq(Job)]
  BY DEF Channels, TypeOK
<1>3. 0 \in WorkerIds /\ 0 \in 0 .. NumRows
  BY WindowAssumption DEF WorkerIds
<1>4. TypeOK'
  <2>1. \A w \in WorkerIds : Len(jobs'[w]) + Len(replies'[w]) <= NumRows
    <3>1. 0 + 0 <= NumRows
      BY WindowAssumption
    <3> QED
      BY <1>1, <1>2, <3>1, Zenon
  <2> QED
    BY <1>1, <1>2, <1>3, <2>1 DEF TypeOK, OwnerPlaces
<1>5. Lending'
  BY DEF Lending, Reading
<1>6. Window'
  BY DEF Window, Reading, Settled
<1>7. Channels'
  BY <1>2 DEF Channels, Settled
<1> QED
  BY <1>4, <1>5, <1>6, <1>7

\* start: the row after the window is asked of the next worker, as the last
\* of its turns, or waits in the window as a failure.
LEMMA StartKeeps ==
    ASSUME IndInv, Start
    PROVE  IndInv'
<1> USE DEF IndInv
<1> DEFINE n == Len(pending)
           expert == missing[next + n + 1]
           w == next_worker
           lost == w \notin alive
           e == [expert |-> expert, failed |-> lost, worker |-> w]
           job == [row |-> <<layer, expert>>]
<1>1. /\ pc = "fill" /\ started /\ ~broken /\ spare > 0 /\ next + n < Len(missing)
      /\ next_worker' = (w + 1) % NumWorkers
      /\ pending' = Append(pending, e)
      /\ jobs' = IF lost THEN jobs ELSE [jobs EXCEPT ![w] = Append(@, job)]
      /\ spare' = IF lost THEN spare ELSE spare - 1
      /\ broken' = lost
      /\ UNCHANGED <<cursor, next, pc, current, started, sending, alive, replies>>
  BY DEF Start, MayStart, Available
<1>2. /\ w \in WorkerIds /\ pending \in Seq(PendingRow) /\ n \in Nat
      /\ next \in Nat /\ Len(missing) \in Nat /\ spare \in Nat /\ spare <= NumRows
      /\ jobs \in [WorkerIds -> Seq(Job)] /\ replies \in [WorkerIds -> Seq(Reply)]
      /\ jobs[w] \in Seq(Job) /\ layer \in Layers
  <2>1. Len(missing) \in Nat
    BY MissingFacts DEF TypeOK
  <2> QED
    BY <2>1 DEF TypeOK
<1>3. expert \in Experts
  <2>1. next + n + 1 \in 1 .. Len(missing)
    BY <1>1, <1>2
  <2> QED
    BY <2>1, MissingFacts DEF TypeOK
<1>4. e \in PendingRow /\ e.expert = expert /\ e.failed = lost /\ e.worker = w
  BY <1>2, <1>3 DEF PendingRow
<1>5. job \in Job /\ job.row = <<layer, expert>>
  BY <1>2, <1>3 DEF Job, Row
<1> HIDE DEF e, job
<1>6. /\ pending' \in Seq(PendingRow) /\ Len(pending') = n + 1 /\ pending' # <<>>
      /\ \A i \in 1 .. n : pending'[i] = pending[i]
      /\ pending'[n + 1] = e
  <2>1. pending' = Append(pending, e) /\ pending \in Seq(PendingRow) /\ e \in PendingRow
    BY <1>1, <1>2, <1>4
  <2> QED
    BY <2>1, AppendFacts
<1>7. /\ Append(jobs[w], job) \in Seq(Job)
      /\ Len(Append(jobs[w], job)) = Len(jobs[w]) + 1 /\ Len(jobs[w]) \in Nat
      /\ \A i \in 1 .. Len(jobs[w]) : Append(jobs[w], job)[i] = jobs[w][i]
      /\ Append(jobs[w], job)[Len(jobs[w]) + 1] = job
  BY <1>2, <1>5, AppendFacts
<1>8. /\ jobs' \in [WorkerIds -> Seq(Job)]
      /\ ~lost => jobs'[w] = Append(jobs[w], job)
      /\ \A v \in WorkerIds : v # w \/ lost => jobs'[v] = jobs[v]
  BY <1>1, <1>2, <1>7
<1>9. Settled /\ \A v \in WorkerIds : Matches(v)
  BY <1>1 DEF Settled, Channels
<1>10. spare + n = NumRows /\ NumRows \in Nat
  <2>1. NumRows \in Nat
    BY WindowAssumption
  <2>2. ~broken /\ Window
    BY <1>1
  <2>3. spare + n = NumRows + 0
    BY <1>9, <2>2 DEF Window
  <2> QED
    BY <2>1, <2>3
<1> DEFINE R == Len(replies[w])
           J == Len(jobs[w])
           A == Asked(pending, w)
<1>11. /\ R \in Nat /\ J \in Nat /\ Cardinality(A) \in Nat /\ Cardinality(A) <= n
       /\ ~lost => R + J = Cardinality(A)
  <2>1. replies[w] \in Seq(Reply)
    BY <1>2
  <2>2. ~lost => R + J = Cardinality(A)
    BY <1>2, <1>9 DEF Matches
  <2> QED
    BY <1>2, <1>7, <2>1, <2>2, AskedFacts
<1>12. ~lost => Len(replies'[w]) = R /\ Len(jobs'[w]) = J + 1
  BY <1>1, <1>7, <1>8
<1> HIDE DEF R, J, A
<1>13. TypeOK'
  <2>1. \A v \in WorkerIds : Len(jobs'[v]) + Len(replies'[v]) <= NumRows
    <3> TAKE v \in WorkerIds
    <3>1. CASE v = w /\ ~lost
      <4>1. (J + 1) + R <= NumRows
        BY <1>1, <1>2, <1>10, <1>11, <3>1
      <4> QED
        BY <1>12, <3>1, <4>1, Zenon
    <3>2. CASE v # w \/ lost
      BY <1>1, <1>8, <3>2 DEF TypeOK
    <3> QED
      BY <3>1, <3>2
  <2>2. next_worker' \in WorkerIds
    BY <1>1, <1>2, WindowAssumption DEF WorkerIds
  <2>3. spare' \in 0 .. NumRows
    BY <1>1, <1>2, <1>10
  <2> QED
    BY <1>1, <1>6, <1>8, <2>1, <2>2, <2>3 DEF TypeOK, OwnerPlaces, cursor
<1>14. Lending'
  BY <1>1 DEF Lending, cursor
<1>15. Window'
  <2>1. Settled' /\ (broken' <=> lost) /\ started' /\ pc' = "fill" /\ missing' = missing
        /\ next' = next
    BY <1>1 DEF Settled, cursor
  <2>2. spare' + Len(pending') = NumRows + (IF broken' THEN 1 ELSE 0)
    <3>1. /\ spare' = IF lost THEN spare ELSE spare - 1
          /\ broken' = lost /\ Len(pending') = n + 1
      BY <1>1, <1>6
    <3>2. CASE lost
      <4>1. spare + (n + 1) = NumRows + 1
        BY <1>2, <1>10
      <4> QED
        BY <3>1, <3>2, <4>1
    <3>3. CASE ~lost
      <4>1. (spare - 1) + (n + 1) = NumRows + 0
        BY <1>2, <1>10
      <4> QED
        BY <3>1, <3>3, <4>1
    <3> QED
      BY <3>2, <3>3
  <2>3. \A i \in 1 .. Len(pending') :
           /\ pending'[i].failed => i = Len(pending') /\ broken'
           /\ pending'[i].expert = missing[next + i]
    <3> TAKE i \in 1 .. Len(pending')
    <3>1. CASE i \in 1 .. n
      BY <1>1, <1>6, <1>9, <3>1 DEF Window, Reading
    <3>2. CASE i = n + 1
      <4>1. next + n + 1 = next + i
        BY <1>2, <3>2
      <4> QED
        BY <1>4, <1>6, <2>1, <3>2, <4>1
    <3> QED
      BY <1>2, <1>6, <3>1, <3>2
  <2>4. broken' => pending'[Len(pending')].failed
    BY <1>4, <1>6, <2>1
  <2>5. next' + Len(pending') <= Len(missing')
    BY <1>1, <1>2, <1>6, <2>1
  <2> QED
    BY <1>6, <2>1, <2>2, <2>3, <2>4, <2>5 DEF Window
<1>16. Channels'
  <2>1. \A v \in WorkerIds : v \notin alive' => jobs'[v] = <<>>
    BY <1>1, <1>8 DEF Channels
  <2>2. ASSUME NEW v \in WorkerIds PROVE Matches(v)'
    <3>1. Matches(v) /\ layer' = layer /\ alive' = alive /\ replies' = replies
      BY <1>1, <1>9 DEF cursor
    <3>2. CASE v # w \/ lost
      <4>1. ~ (e.worker = v /\ ~e.failed)
        BY <1>4, <3>2
      <4>2. /\ Asked(pending', v) = Asked(pending, v)
            /\ \A i \in Asked(pending, v) :
                  pending'[i] = pending[i] /\ Turn(pending', v, i) = Turn(pending, v, i)
        BY <1>1, <1>2, <1>4, <4>1, AppendAsked
      <4>3. jobs'[v] = jobs[v]
        BY <1>8, <3>2
      <4> QED
        BY <3>1, <4>2, <4>3 DEF Matches
    <3>3. CASE v = w /\ ~lost
      <4>1. e.worker = w /\ ~e.failed
        BY <1>4, <3>3
      <4>2. /\ Asked(pending', w) = A \union {n + 1}
            /\ Cardinality(Asked(pending', w)) = Cardinality(A) + 1
            /\ Turn(pending', w, n + 1) = Cardinality(A) + 1
            /\ \A i \in A :
                  pending'[i] = pending[i] /\ Turn(pending', w, i) = Turn(pending, w, i)
        BY <1>1, <1>2, <1>4, <4>1, AppendAsked DEF A
      <4>3. \A i \in A : Turn(pending, w, i) \in 1 .. Cardinality(A)
        BY <1>2, AskedFacts DEF A
      <4>4. /\ Len(replies'[w]) + Len(jobs'[w]) = Cardinality(Asked(pending', w))
            /\ Len(replies'[w]) + Len(jobs'[w]) <= Cardinality(Asked(pending', w))
        <5>1. R + (J + 1) = Cardinality(A) + 1 /\ Cardinality(A) + 1 <= Cardinality(A) + 1
          BY <1>11, <3>3
        <5> QED
          BY <1>12, <3>3, <4>2, <5>1, Zenon
      <4>5. ASSUME NEW i \in Asked(pending', w), NEW k, k = Turn(pending', w, i)
            PROVE  /\ k <= R =>
                         /\ replies[w][k].expert = pending'[i].expert
                         /\ replies[w][k].ok => replies[w][k].row = <<layer, pending'[i].expert>>
                   /\ k > R /\ k - R <= J + 1 =>
                         jobs'[w][k - R].row = <<layer, pending'[i].expert>>
        <5>1. CASE i \in A
          <6>1. k = Turn(pending, w, i) /\ k \in 1 .. R + J /\ pending'[i] = pending[i]
            BY <1>11, <3>3, <4>2, <4>3, <4>5, <5>1
          <6>2. /\ k <= R =>
                     /\ replies[w][k].expert = pending[i].expert
                     /\ replies[w][k].ok => replies[w][k].row = <<layer, pending[i].expert>>
                /\ k > R /\ k - R <= J => jobs[w][k - R].row = <<layer, pending[i].expert>>
            BY <3>1, <3>3, <5>1, <6>1 DEF Matches, R, J, A
          <6>3. k > R => k - R \in 1 .. J
            BY <1>11, <6>1
          <6>4. k > R => jobs'[w][k - R] = jobs[w][k - R]
            BY <1>7, <1>8, <3>3, <6>3 DEF J
          <6> QED
            BY <1>11, <6>1, <6>2, <6>3, <6>4
        <5>2. CASE i = n + 1
          <6>1. k = R + J + 1 /\ k - R = J + 1 /\ ~ (k <= R)
            BY <1>11, <3>3, <4>2, <4>5, <5>2
          <6>2. jobs'[w][J + 1] = job
            BY <1>7, <1>8, <3>3 DEF J
          <6>3. pending'[i].expert = expert
            BY <1>4, <1>6, <5>2
          <6> QED
            BY <1>5, <6>1, <6>2, <6>3
        <5> QED
          BY <4>2, <5>1, <5>2
      <4>6. Len(replies'[w]) = R /\ Len(jobs'[w]) = J + 1
        BY <1>12, <3>3
      <4> QED
        BY <3>1, <3>3, <4>4, <4>5, <4>6 DEF Matches
    <3> QED
      BY <3>2, <3>3
  <2> QED
    BY <2>1, <2>2 DEF Channels
<1> QED
  BY <1>13, <1>14, <1>15, <1>16

\* complete finds the owner's window as it was left, and the answer it takes is
\* that of the row it expects.
LEMMA FirstAnswer ==
    ASSUME IndInv, pc \in {"next", "drain"}, pending # <<>>
    PROVE  /\ Settled
           /\ pending \in Seq(PendingRow) /\ Len(pending) \in Nat \ {0}
           /\ Head(pending) = pending[1] /\ pending[1] \in PendingRow
           /\ pending[1].worker \in WorkerIds
           /\ ~pending[1].failed /\ replies[pending[1].worker] # <<>> =>
                 LET reply == Head(replies[pending[1].worker]) IN
                 /\ reply \in Reply
                 /\ reply.expert = pending[1].expert
                 /\ reply.ok => reply.row = <<layer, pending[1].expert>>
<1> USE DEF IndInv
<1>1. Settled
  BY DEF Window, Settled
<1>2. /\ pending \in Seq(PendingRow) /\ Len(pending) \in Nat \ {0}
      /\ Head(pending) = pending[1] /\ pending[1] \in PendingRow
  <2>1. pending \in Seq(PendingRow)
    BY DEF TypeOK
  <2> QED
    BY <2>1, TailFacts
<1>3. pending[1].worker \in WorkerIds
  BY <1>2 DEF PendingRow
<1>4. ASSUME ~pending[1].failed, replies[pending[1].worker] # <<>>
      PROVE  LET reply == Head(replies[pending[1].worker]) IN
             /\ reply \in Reply
             /\ reply.expert = pending[1].expert
             /\ reply.ok => reply.row = <<layer, pending[1].expert>>
  <2> DEFINE w == pending[1].worker
  <2>1. replies[w] \in Seq(Reply)
    BY <1>3 DEF TypeOK
  <2>2. Head(replies[w]) = replies[w][1] /\ replies[w][1] \in Reply /\ 1 <= Len(replies[w])
    BY <1>4, <2>1, TailFacts
  <2>3. 1 \in Asked(pending, w)
    BY <1>2, <1>4 DEF Asked
  <2>4. Turn(pending, w, 1) = 1
    BY <1>2, <2>3, AskedFacts
  <2>5. Matches(w)
    BY <1>1, <1>3 DEF Channels
  <2> HIDE DEF w, IndInv
  <2>6. /\ replies[w][1].expert = pending[1].expert
        /\ replies[w][1].ok => replies[w][1].row = <<layer, pending[1].expert>>
    BY ONLY SMTT(20), <2>2, <2>3, <2>4, <2>5 DEF Matches
  <2> QED
    BY ONLY <2>2, <2>6 DEF w
<1> QED
  BY <1>1, <1>2, <1>3, <1>4

\* Taking the oldest answer together with the row it is for keeps every
\* worker's channel in step with the window.
LEMMA AnswerTaken ==
    ASSUME IndInv, pc \in {"next", "drain"}, pending # <<>>, ~pending[1].failed,
           replies[pending[1].worker] # <<>>,
           pending' = Tail(pending),
           replies' = [replies EXCEPT ![pending[1].worker] = Tail(@)],
           UNCHANGED <<layer, alive, jobs>>,
           NEW v \in WorkerIds
    PROVE  Matches(v)'
<1> DEFINE w == pending[1].worker
           R == Len(replies[v])
           J == Len(jobs[v])
           A == Asked(pending, v)
           B == Asked(Tail(pending), v)
           gone == IF v = w THEN 1 ELSE 0
<1>1. /\ Settled /\ pending \in Seq(PendingRow) /\ Len(pending) \in Nat \ {0}
      /\ w \in WorkerIds
      /\ replies \in [WorkerIds -> Seq(Reply)] /\ jobs \in [WorkerIds -> Seq(Job)]
      /\ replies[w] \in Seq(Reply)
  BY FirstAnswer DEF IndInv, TypeOK
<1>2. 1 \in A <=> v = w
  BY <1>1 DEF Asked
<1>3. /\ Cardinality(A) = Cardinality(B) + gone
      /\ \A i \in B : /\ i + 1 \in A
                       /\ Tail(pending)[i] = pending[i + 1]
                       /\ Turn(pending, v, i + 1) = Turn(Tail(pending), v, i) + gone
  BY <1>1, <1>2, TailAsked
<1>4. Tail(pending) \in Seq(PendingRow)
  BY <1>1, TailFacts
<1>5. /\ Cardinality(A) \in Nat /\ Cardinality(B) \in Nat
      /\ \A i \in B : Turn(Tail(pending), v, i) \in 1 .. Cardinality(B)
  BY <1>1, <1>4, AskedFacts
<1>6. /\ Len(replies'[v]) = R - gone /\ R >= gone /\ R \in Nat
      /\ \A k \in 1 .. R - gone : replies'[v][k] = replies[v][k + gone]
  <2>1. CASE v = w
    <3>1. replies'[v] = Tail(replies[v])
      BY <1>1, <2>1
    <3> QED
      BY <1>1, <2>1, <3>1, TailFacts
  <2>2. CASE v # w
    <3>1. replies'[v] = replies[v] /\ R \in Nat
      BY <1>1, <2>2
    <3> QED
      BY <2>2, <3>1
  <2> QED
    BY <2>1, <2>2
<1>7. /\ Matches(v) /\ J \in Nat /\ gone \in {0, 1}
      /\ R + J <= Cardinality(A) /\ (v \in alive => R + J = Cardinality(A))
  BY SMTT(15), <1>1 DEF IndInv, Channels, Matches
<1> HIDE DEF w, R, J, A, B, gone
<1>8. /\ (R - gone) + J <= Cardinality(B)
      /\ v \in alive => (R - gone) + J = Cardinality(B)
  BY <1>3, <1>5, <1>6, <1>7
<1>9. ASSUME NEW i \in B, NEW k, k = Turn(Tail(pending), v, i)
      PROVE  /\ k <= R - gone =>
                   /\ replies'[v][k].expert = Tail(pending)[i].expert
                   /\ replies'[v][k].ok =>
                         replies'[v][k].row = <<layer, Tail(pending)[i].expert>>
             /\ k > R - gone /\ k - (R - gone) <= J =>
                   jobs[v][k - (R - gone)].row = <<layer, Tail(pending)[i].expert>>
  <2>1. k \in Nat /\ k >= 1
    BY <1>5, <1>9
  <2>2. i + 1 \in A /\ Tail(pending)[i] = pending[i + 1] /\ Turn(pending, v, i + 1) = k + gone
    BY <1>3, <1>9
  <2>3. /\ k + gone <= R =>
             /\ replies[v][k + gone].expert = Tail(pending)[i].expert
             /\ replies[v][k + gone].ok =>
                   replies[v][k + gone].row = <<layer, Tail(pending)[i].expert>>
        /\ k + gone > R /\ (k + gone) - R <= J =>
             jobs[v][(k + gone) - R].row = <<layer, Tail(pending)[i].expert>>
    BY <1>7, <2>2 DEF Matches, A, R, J
  <2>4. CASE k <= R - gone
    <3>1. k + gone <= R /\ k \in 1 .. R - gone
      BY <1>6, <1>7, <2>1, <2>4
    <3>2. ~ (k > R - gone)
      BY <1>6, <1>7, <2>1, <2>4
    <3> QED
      BY <1>6, <2>3, <3>1, <3>2
  <2>5. CASE k > R - gone
    <3>1. /\ k + gone > R /\ (k + gone) - R = k - (R - gone) /\ ~ (k <= R - gone)
      BY <1>6, <1>7, <2>1, <2>5
    <3> QED
      BY <2>3, <3>1
  <2> QED
    BY <1>6, <1>7, <2>1, <2>4, <2>5
<1>10. Len(jobs'[v]) = J /\ jobs' = jobs /\ alive' = alive /\ layer' = layer
  BY DEF J
<1>11. /\ Len(replies'[v]) + Len(jobs'[v]) <= Cardinality(Asked(pending', v))
       /\ v \in alive' => Len(replies'[v]) + Len(jobs'[v]) = Cardinality(Asked(pending', v))
  BY <1>6, <1>8, <1>10, Zenon DEF B
<1>12. Asked(pending', v) = B
  BY DEF B
<1>13. \A i \in B : \A k : k = Turn(pending', v, i) =>
          /\ k <= Len(replies'[v]) =>
                /\ replies'[v][k].expert = pending'[i].expert
                /\ replies'[v][k].ok => replies'[v][k].row = <<layer', pending'[i].expert>>
          /\ k > Len(replies'[v]) /\ k - Len(replies'[v]) <= Len(jobs'[v]) =>
                jobs'[v][k - Len(replies'[v])].row = <<layer', pending'[i].expert>>
  <2>1. Len(replies'[v]) = R - gone /\ pending' = Tail(pending)
    BY <1>6
  <2> TAKE i \in B
  <2> TAKE k
  <2> HAVE k = Turn(pending', v, i)
  <2>2. k = Turn(Tail(pending), v, i)
    BY <2>1
  <2>3. /\ k <= R - gone =>
             /\ replies'[v][k].expert = Tail(pending)[i].expert
             /\ replies'[v][k].ok => replies'[v][k].row = <<layer, Tail(pending)[i].expert>>
        /\ k > R - gone /\ k - (R - gone) <= J =>
             jobs[v][k - (R - gone)].row = <<layer, Tail(pending)[i].expert>>
    BY <1>9, <2>2
  <2> QED
    BY <1>10, <2>1, <2>3, Zenon
<1> QED
  BY <1>11, <1>12, <1>13, Zenon DEF Matches

\* complete, whichever way it ends.
LEMMA CompleteKeeps ==
    ASSUME IndInv, Complete
    PROVE  IndInv'
<1> DEFINE first == pending[1]
           w == first.worker
           expected == IF pc = "next" THEN missing[next + 1] ELSE first.expert
           n == Len(pending)
<1>1. /\ Settled
      /\ pending \in Seq(PendingRow) /\ n \in Nat \ {0}
      /\ Head(pending) = first /\ first \in PendingRow
      /\ w \in WorkerIds /\ pc \in {"next", "drain"} /\ pending # <<>>
      /\ pc = "next" => next > 0
  BY FirstAnswer DEF Complete
<1>2. /\ pending' = Tail(pending)
      /\ UNCHANGED <<layer, missing, given, started, next_worker, alive, jobs>>
      /\ \/ Disable /\ UNCHANGED replies
         \/ /\ ~first.failed /\ replies[w] # <<>>
            /\ replies' = [replies EXCEPT ![w] = Tail(@)]
            /\ \/ Disable
               \/ /\ Head(replies[w]).expert = expected /\ Head(replies[w]).ok
                  /\ RowArrives(Head(replies[w]).row)
               \/ RowFails
  BY <1>1 DEF Complete
<1>3. /\ pending' \in Seq(PendingRow) /\ Len(pending') = n - 1
      /\ \A i \in 1 .. n - 1 : pending'[i] = pending[i + 1]
  BY <1>1, <1>2, TailFacts
<1>4. /\ replies' \in [WorkerIds -> Seq(Reply)]
      /\ \A v \in WorkerIds : Len(jobs'[v]) + Len(replies'[v]) <= NumRows
  <2>1. /\ replies \in [WorkerIds -> Seq(Reply)] /\ jobs \in [WorkerIds -> Seq(Job)]
        /\ \A v \in WorkerIds : Len(jobs[v]) + Len(replies[v]) <= NumRows
    BY DEF IndInv, TypeOK
  <2>2. CASE replies' = replies
    BY <1>2, <2>1, <2>2
  <2>3. CASE replies[w] # <<>> /\ replies' = [replies EXCEPT ![w] = Tail(@)]
    <3>1. /\ Tail(replies[w]) \in Seq(Reply) /\ Len(Tail(replies[w])) = Len(replies[w]) - 1
          /\ Len(replies[w]) \in Nat
      BY <1>1, <2>1, <2>3, TailFacts
    <3>2. /\ replies' \in [WorkerIds -> Seq(Reply)]
          /\ replies'[w] = Tail(replies[w])
          /\ \A v \in WorkerIds : v # w => replies'[v] = replies[v]
      BY <1>1, <2>1, <2>3, <3>1
    <3>3. Len(jobs[w]) + (Len(replies[w]) - 1) <= NumRows
      <4> DEFINE J == Len(jobs[w])
                 R == Len(replies[w])
      <4>1. J \in Nat /\ R \in Nat /\ J + R <= NumRows /\ NumRows \in Nat
        BY <1>1, <2>1, WindowAssumption
      <4> HIDE DEF J, R
      <4>2. J + (R - 1) <= NumRows
        BY <4>1
      <4> QED
        BY <4>2 DEF J, R
    <3>4. \A v \in WorkerIds : Len(jobs'[v]) + Len(replies'[v]) <= NumRows
      <4> TAKE v \in WorkerIds
      <4>1. CASE v = w
        BY <1>2, <3>1, <3>2, <3>3, <4>1, Zenon
      <4>2. CASE v # w
        BY <1>2, <2>1, <3>2, <4>2
      <4> QED
        BY <4>1, <4>2
    <3> QED
      BY <3>2, <3>4
  <2> QED
    BY <1>2, <2>2, <2>3
<1>5. \A v \in WorkerIds : v \notin alive' => jobs'[v] = <<>>
  BY <1>2 DEF IndInv, Channels
<1>6. started' /\ started /\ (status = "open" <=> pc = "next")
  BY <1>1, <1>2 DEF Settled, IndInv, Lending, Reading
<1>7. CASE Disable
  <2> USE <1>7 DEF Disable, IndInv
  <2>1. TypeOK'
    BY <1>2, <1>3, <1>4 DEF TypeOK, OwnerPlaces
  <2>2. Lending'
    BY <1>2, <1>6 DEF Lending, Reading
  <2>3. Window'
    BY <1>6 DEF Window, Reading, Settled
  <2>4. Channels'
    BY <1>5 DEF Channels, Settled
  <2> QED
    BY <2>1, <2>2, <2>3, <2>4
<1>8. ASSUME ~first.failed, replies[w] # <<>>, replies' = [replies EXCEPT ![w] = Tail(@)]
      PROVE  /\ Settled' => Channels'
             /\ spare + 1 \in 0 .. NumRows
             /\ (spare + 1) + Len(pending') = NumRows + (IF broken THEN 1 ELSE 0)
             /\ broken => pending' # <<>> /\ pending'[Len(pending')].failed
             /\ \A i \in 1 .. Len(pending') :
                   pending'[i].failed => i = Len(pending') /\ broken
  <2>1. Settled' => Channels'
    BY <1>1, <1>2, <1>5, <1>8, AnswerTaken DEF Channels
  <2>2. /\ spare \in Nat /\ spare <= NumRows /\ NumRows \in Nat
        /\ spare + n = NumRows + (IF broken THEN 1 ELSE 0)
        /\ broken => pending[n].failed
        /\ \A i \in 1 .. n : pending[i].failed => i = n /\ broken
    <3>1. spare \in 0 .. NumRows /\ NumRows \in Nat
      BY WindowAssumption DEF IndInv, TypeOK
    <3>2. /\ spare + n = NumRows + (IF broken THEN 1 ELSE 0)
          /\ broken => pending[n].failed
          /\ \A i \in 1 .. n : pending[i].failed => i = n /\ broken
      BY <1>1 DEF IndInv, Window
    <3> QED
      BY <3>1, <3>2
  <2>3. broken => n > 1
    BY <1>1, <1>8, <2>2
  <2>4. /\ spare + 1 \in 0 .. NumRows
        /\ (spare + 1) + (n - 1) = NumRows + (IF broken THEN 1 ELSE 0)
    <3> HIDE DEF n
    <3> QED
      BY <1>1, <2>2, <2>3
  <2>5. broken => /\ n - 1 \in 1 .. n - 1 /\ n - 1 # 0
                  /\ pending'[n - 1] = pending[n] /\ pending[n].failed
    <3>1. broken => n - 1 \in 1 .. n - 1 /\ (n - 1) + 1 = n /\ n - 1 # 0
      <4> HIDE DEF n
      <4> QED
        BY <1>1, <2>3
    <3> QED
      BY <1>3, <2>2, <3>1
  <2>6. broken => pending' # <<>>
    BY <1>3, <2>5, EmptySeq
  <2>7. \A i \in 1 .. n - 1 : pending'[i].failed => i = n - 1 /\ broken
    <3> TAKE i \in 1 .. n - 1
    <3>1. i + 1 \in 1 .. n /\ pending'[i] = pending[i + 1] /\ (i + 1 = n => i = n - 1)
      BY <1>1, <1>3
    <3> QED
      BY <2>2, <3>1
  <2> QED
    BY <1>3, <2>1, <2>4, <2>5, <2>6, <2>7
<1>9. ASSUME RowFails, ~first.failed, replies[w] # <<>>,
             replies' = [replies EXCEPT ![w] = Tail(@)]
      PROVE  IndInv'
  <2> USE <1>9 DEF RowFails, IndInv
  <2>1. TypeOK'
    BY <1>2, <1>3, <1>4, <1>8 DEF TypeOK, OwnerPlaces
  <2>2. Lending'
    BY <1>2, <1>6 DEF Lending, Reading
  <2>3. Window'
    BY <1>6, <1>8 DEF Window, Reading
  <2>4. Channels'
    BY <1>6, <1>8 DEF Settled
  <2> QED
    BY <2>1, <2>2, <2>3, <2>4
<1>10. ASSUME ~first.failed, replies[w] # <<>>,
              replies' = [replies EXCEPT ![w] = Tail(@)],
              Head(replies[w]).expert = expected, Head(replies[w]).ok,
              RowArrives(Head(replies[w]).row)
       PROVE  IndInv'
  <2> USE <1>10 DEF IndInv
  <2> DEFINE row == Head(replies[w]).row
  <2>1. /\ row = <<layer, expected>>
        /\ expected = first.expert /\ first.expert \in Experts
    <3>1. /\ Head(replies[w]).expert = first.expert
          /\ row = <<layer, first.expert>>
      BY <1>1, FirstAnswer
    <3> QED
      BY <1>1, <3>1 DEF PendingRow
  <2>2. /\ spare' = spare + 1 /\ broken' = broken /\ sending' = sending /\ status' = status
        /\ pc = "next" => current' = row /\ next' = next + 1 /\ pc' = "fill"
        /\ pc = "drain" => current' = current /\ next' = next /\ pc' = "drain"
    BY <1>1 DEF RowArrives
  <2>3. row \in Row
    <3>1. layer \in Layers
      BY DEF TypeOK
    <3> HIDE DEF row
    <3> QED
      BY <2>1, <3>1 DEF Row
  <2>4. /\ next \in Nat /\ Len(missing) \in Nat /\ Len(given) \in Nat
        /\ pc = "next" => /\ next + n <= Len(missing)
                          /\ \A i \in 1 .. n : pending[i].expert = missing[next + i]
    <3>1. Len(missing) \in Nat /\ next \in Nat /\ Len(given) \in Nat
      BY MissingFacts DEF TypeOK
    <3> QED
      BY <3>1 DEF Window, Reading
  <2>5. TypeOK'
    <3>1. next' \in 0 .. Len(missing')
      BY SMTT(15), <1>1, <1>2, <2>2, <2>4 DEF TypeOK
    <3>2. pc' \in OwnerPlaces /\ current' \in Row \union {<<>>}
      BY <1>1, <2>2, <2>3 DEF TypeOK, OwnerPlaces
    <3> QED
      BY <1>2, <1>3, <1>4, <1>8, <2>2, <3>1, <3>2 DEF TypeOK
  <2>6. Lending'
    <3>1. CASE pc = "next"
      <4>1. /\ pc' = "fill" /\ next' = next + 1 /\ Len(given') = next' - 1 /\ next' >= 1
            /\ current' = <<layer', missing'[next']>>
        <5>1. first.expert = missing[next + 1] /\ Len(given) = next
          BY <2>1, <3>1 DEF Lending
        <5>2. (next + 1) - 1 = next /\ next + 1 >= 1
          BY <2>4
        <5> QED
          BY <1>2, <2>1, <2>2, <3>1, <5>1, <5>2
      <4> QED
        BY <1>2, <1>6, <2>2, <3>1, <4>1 DEF Lending, Reading
    <3>2. CASE pc = "drain"
      BY <1>2, <1>6, <2>2, <3>2 DEF Lending, Reading
    <3> QED
      BY <1>1, <3>1, <3>2
  <2>7. Window'
    <3>1. /\ Settled' /\ started' /\ pc' \in {"fill", "drain"}
      BY <1>1, <1>6, <2>2 DEF Settled
    <3>2. pc' \in Reading =>
             /\ next' + Len(pending') <= Len(missing')
             /\ \A i \in 1 .. Len(pending') : pending'[i].expert = missing'[next' + i]
      <4>1. SUFFICES ASSUME pc = "next"
                     PROVE  /\ (next + 1) + (n - 1) <= Len(missing)
                            /\ \A i \in 1 .. n - 1 :
                                  pending[i + 1].expert = missing[(next + 1) + i]
        BY <1>1, <1>2, <1>3, <2>2 DEF Reading
      <4>2. (next + 1) + (n - 1) <= Len(missing)
        <5> HIDE DEF n
        <5> QED
          BY <1>1, <2>4, <4>1
      <4>3. ASSUME NEW i \in 1 .. n - 1
            PROVE  pending[i + 1].expert = missing[(next + 1) + i]
        <5>1. i + 1 \in 1 .. n /\ next + (i + 1) = (next + 1) + i
          BY <1>1, <2>4
        <5>2. pending[i + 1].expert = missing[next + (i + 1)]
          BY <2>4, <4>1, <5>1
        <5> QED
          BY <5>1, <5>2
      <4> QED
        BY <4>2, <4>3
    <3> QED
      BY <1>8, <2>2, <3>1, <3>2 DEF Window
  <2>8. Channels'
    BY <1>1, <1>6, <1>8, <2>2 DEF Settled
  <2> QED
    BY <2>5, <2>6, <2>7, <2>8
<1> QED
  BY <1>2, <1>7, <1>9, <1>10

-----------------------------------------------------------------------------
(* The theorems *)

\* Every step of the owner or of a worker keeps the invariant.
LEMMA StepKeeps == IndInv /\ [Next]_vars => IndInv'
<1> SUFFICES ASSUME IndInv, [Next]_vars PROVE IndInv'
  OBVIOUS
<1>1. CASE UNCHANGED vars
  <2> USE <1>1 DEF vars, cursor, threads, IndInv
  <2>1. TypeOK'
    BY DEF TypeOK
  <2>2. Lending'
    BY DEF Lending
  <2>3. Window'
    BY DEF Window, Settled
  <2>4. Channels'
    BY ChannelsKept DEF Settled
  <2> QED
    BY <2>1, <2>2, <2>3, <2>4
<1>2. ASSUME NEW ok \in Outcomes, DirectRead(ok) \/ FirstRow(ok) PROVE IndInv'
  <2>1. ok \in BOOLEAN
    BY WindowAssumption
  <2> QED
    BY <1>2, <2>1, DirectReadKeeps, FirstRowKeeps
<1>3. ASSUME NEW done \in BOOLEAN, DirectEnd(done) \/ Drop(done) PROVE IndInv'
  BY <1>3, DirectEndKeeps, OwnerMoves
<1>4. CASE Complete \/ Joined \/ Start \/ Lend \/ AskNext \/ Drained
  BY <1>4, CompleteKeeps, JoinedKeeps, StartKeeps, LendKeeps, OwnerMoves
<1>5. CASE Demand
  BY <1>5, OpenKeeps DEF Demand
<1>6. CASE Shutdown
  BY <1>6, OwnerMoves
<1>7. CASE Stopped
  BY <1>1, <1>7 DEF Stopped
<1>8. ASSUME NEW w \in WorkerIds, WorkerStep(w) \/ WorkerDies(w) PROVE IndInv'
  <2>1. ASSUME NEW ok \in Outcomes, WorkerRead(w, ok) PROVE IndInv'
    <3>1. ok \in BOOLEAN
      BY WindowAssumption
    <3> QED
      BY <2>1, <3>1, WorkerReadKeeps
  <2> QED
    BY <1>8, <2>1, WorkerGoes DEF WorkerStep
<1> QED
  BY <1>1, <1>2, <1>3, <1>4, <1>5, <1>6, <1>7, <1>8 DEF Next, OwnerStep

\* The invariant holds in every state the reader can be in.
THEOREM Invariance == Spec => []IndInv
<1>1. Init => IndInv
  BY InitInv
<1>2. IndInv /\ [Next]_vars => IndInv'
  BY StepKeeps
<1> QED
  BY <1>1, <1>2, PTL DEF Spec

\* Every variable holds a value of its type, and no channel ever holds more
\* than the buffers there are.
THEOREM TypeCorrect == Spec => []TypeOK
BY Invariance, PTL DEF IndInv

\* Owner and workers agree on what is outstanding and no buffer is lost,
\* whoever dies and whichever read fails (fill, start, complete, drain).
THEOREM WindowInStep == Spec => []WindowAgrees
<1>1. IndInv => WindowAgrees
  <2> SUFFICES ASSUME IndInv PROVE WindowAgrees
    OBVIOUS
  <2> USE DEF IndInv
  <2>1. Available /\ pc # "join" => spare + Len(pending) = NumRows
    <3>1. SUFFICES ASSUME Available, pc # "join" PROVE spare + Len(pending) = NumRows
      OBVIOUS
    <3>2. Settled /\ ~broken
      BY <3>1 DEF Available, Settled, Window
    <3>3. spare + Len(pending) = NumRows + 0
      BY <3>2 DEF Window
    <3> QED
      BY <3>3, WindowAssumption
  <2>2. pc = "idle" => pending = <<>>
    BY DEF Window
  <2>3. started /\ pc \notin {"join", "stop"} =>
          \A i \in 1 .. Len(pending) :
             /\ pc \in {"next", "fill", "lent"} => pending[i].expert = missing[next + i]
             /\ pending[i].failed => i = Len(pending) /\ broken
    BY DEF Window, Settled, Reading
  <2>4. ASSUME pc \notin {"join", "stop", "shut"}, NEW w \in alive
        PROVE  /\ Len(replies[w]) + Len(jobs[w]) = Cardinality(Asked(pending, w))
               /\ \A i \in Asked(pending, w) :
                     LET k == Turn(pending, w, i) IN
                     pending[i].expert =
                        IF k <= Len(replies[w]) THEN replies[w][k].expert
                        ELSE jobs[w][k - Len(replies[w])].row[2]
    <3>1. Settled /\ w \in WorkerIds
      BY <2>4 DEF Window, Settled, TypeOK
    <3>2. Matches(w) /\ Len(replies[w]) + Len(jobs[w]) = Cardinality(Asked(pending, w))
      BY <2>4, <3>1 DEF Channels, Matches
    <3>3. ASSUME NEW i \in Asked(pending, w), NEW k, k = Turn(pending, w, i)
          PROVE  pending[i].expert = IF k <= Len(replies[w]) THEN replies[w][k].expert
                                     ELSE jobs[w][k - Len(replies[w])].row[2]
      <4> DEFINE R == Len(replies[w])
                 J == Len(jobs[w])
      <4>1. R \in Nat /\ J \in Nat
        BY <3>1 DEF TypeOK
      <4>2. k \in 1 .. Cardinality(Asked(pending, w)) /\ Cardinality(Asked(pending, w)) \in Nat
        BY <3>3, AskedFacts DEF TypeOK
      <4>3. /\ k <= R => replies[w][k].expert = pending[i].expert
            /\ k > R /\ k - R <= J => jobs[w][k - R].row = <<layer, pending[i].expert>>
        BY <3>2, <3>3 DEF Matches
      <4>4. R + J = Cardinality(Asked(pending, w))
        BY <3>2
      <4> HIDE DEF R, J
      <4>5. ~ (k <= R) => k > R /\ k - R <= J
        BY <4>1, <4>2, <4>4
      <4>6. ~ (k <= R) => jobs[w][k - R].row[2] = pending[i].expert
        BY <4>3, <4>5
      <4> QED
        BY <4>3, <4>6 DEF R
    <3> QED
      BY <3>2, <3>3
  <2> QED
    BY <2>1, <2>2, <2>3, <2>4 DEF WindowAgrees
<1> QED
  BY <1>1, Invariance, PTL

\* Whatever the workers do, the loader is handed the rows of its group one by
\* one in source order, each the complete row of the group's layer, and a
\* finished group is complete: the reader implements the row cursor.
THEOREM RowsGiven == Spec => RowsInOrder
<1> USE DEF RowSpec!cursor_vars
<1>1. Init => RowSpec!RowInit
  BY DEF Init, RowSpec!RowInit
<1>2. IndInv /\ [Next]_vars => [RowSpec!RowNext]_(RowSpec!cursor_vars)
  <2> SUFFICES ASSUME IndInv, [Next]_vars
               PROVE  RowSpec!RowNext \/ UNCHANGED <<status, layer, missing, given>>
    OBVIOUS
  <2> USE DEF IndInv
  <2>1. CASE UNCHANGED vars
    BY <2>1 DEF vars, cursor
  <2>2. ASSUME NEW ok \in Outcomes, DirectRead(ok) \/ FirstRow(ok)
        PROVE  RowSpec!RowNext \/ UNCHANGED <<status, layer, missing, given>>
    <3>1. CASE DirectRead(ok) /\ ok
      <4>1. RowSpec!GiveRow
        BY <3>1 DEF DirectRead, RowSpec!GiveRow, Lending, Reading
      <4> QED
        BY <4>1 DEF RowSpec!RowNext
    <3>2. CASE DirectRead(ok) /\ ~ok
      <4>1. RowSpec!CloseGroup
        BY <3>2 DEF DirectRead, RowSpec!CloseGroup, Lending, Reading
      <4> QED
        BY <4>1 DEF RowSpec!RowNext
    <3>3. CASE FirstRow(ok) /\ ok
      BY <3>3 DEF FirstRow
    <3>4. CASE FirstRow(ok) /\ ~ok
      <4>1. RowSpec!CloseGroup
        BY <3>4 DEF FirstRow, RowSpec!CloseGroup, Lending, Reading
      <4> QED
        BY <4>1 DEF RowSpec!RowNext
    <3> QED
      BY <2>2, <3>1, <3>2, <3>3, <3>4, WindowAssumption
  <2>3. ASSUME NEW done \in BOOLEAN, DirectEnd(done) \/ Drop(done) PROVE RowSpec!RowNext
    <3>1. RowSpec!CloseGroup
      BY <2>3 DEF DirectEnd, Drop, RowSpec!CloseGroup, Lending, Reading
    <3> QED
      BY <3>1 DEF RowSpec!RowNext
  <2>4. CASE Complete
    <3>1. /\ UNCHANGED <<layer, missing, given>>
          /\ status' = status \/ (status = "open" /\ status' = "failed")
      BY <2>4 DEF Complete, Disable, RowArrives, RowFails
    <3> QED
      BY <3>1 DEF RowSpec!RowNext, RowSpec!CloseGroup
  <2>5. CASE Lend
    <3>1. Len(missing) \in Nat /\ next \in Nat /\ next <= Len(missing) /\ next >= 1
      BY <2>5, MissingFacts DEF Lend, TypeOK, Lending
    <3>2. Len(given) = next - 1 /\ current = <<layer, missing[next]>> /\ status = "open"
      BY <2>5 DEF Lend, Lending, Reading
    <3>3. Len(given) < Len(missing) /\ Len(given) + 1 = next
      BY <3>1, <3>2
    <3>4. RowSpec!GiveRow
      BY <2>5, <3>2, <3>3 DEF Lend, RowSpec!GiveRow
    <3> QED
      BY <3>4 DEF RowSpec!RowNext
  <2>6. CASE Joined \/ Start \/ AskNext \/ Drained \/ Shutdown
    BY <2>6 DEF Joined, Start, AskNext, Drained, Shutdown, cursor
  <2>7. ASSUME NEW l \in Layers, NEW group \in Groups, Open(l, group) PROVE RowSpec!RowNext
    <3>1. RowSpec!OpenGroup
      BY <2>7 DEF Open, RowSpec!OpenGroup, Lending, Reading
    <3> QED
      BY <3>1 DEF RowSpec!RowNext
  <2>8. CASE Stopped
    BY <2>1, <2>8 DEF Stopped
  <2>9. ASSUME NEW w \in WorkerIds, WorkerStep(w) \/ WorkerDies(w)
        PROVE  UNCHANGED <<status, layer, missing, given>>
    BY <2>9 DEF WorkerStep, WorkerRead, WorkerExit, WorkerDies, cursor
  <2> QED
    BY <2>1, <2>2, <2>3, <2>4, <2>5, <2>6, <2>7, <2>8, <2>9 DEF Next, OwnerStep, Demand
<1> QED
  BY <1>1, <1>2, Invariance, PTL DEF Spec, RowsInOrder, RowSpec!RowSpec

=============================================================================
