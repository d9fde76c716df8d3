------------------------- MODULE SearchIndex_proofs -------------------------
(***************************************************************************)
(* Proofs about SearchIndex, for any chunks, writers and readers.  That no *)
(* search fails needs a count over all writers: the list of chunks is      *)
(* longer than that of tokens by the calls of add between the two appends. *)
(***************************************************************************)
EXTENDS SearchIndex, FiniteSetTheorems, TLAPS

USE SearchIndexAssumption

Between == {w \in Writers : add[w].at = "tokens"}

(* A chunk is at hand for as long as its add runs.                         *)
AtHand == \A w \in Writers : add[w].at # "idle" => add[w].todo # <<>>

Counted ==
  /\ IsFiniteSet(Between)
  /\ Len(chunks) = Len(tokens) + Cardinality(Between)

(* The sum of the lengths is never zero, not even half way through a `+=`. *)
NoZero ==
  /\ total >= 1
  /\ \A w \in Writers : add[w].at = "write" => add[w].value >= 1

(* As long as no two uploads added at once, the lists agree, and the one   *)
(* chunk between the appends is the last.                                  *)
Aligned ==
  ~overlapped =>
    /\ \A v, w \in Writers : add[v].at # "idle" /\ add[w].at # "idle" => v = w
    /\ \A i \in 1 .. Len(tokens) : chunks[i] = tokens[i]
    /\ \A w \in Writers :
         add[w].at = "tokens" => /\ Len(chunks) = Len(tokens) + 1
                                 /\ chunks[Len(chunks)] = Chunk(w)

(* What a search has so far.                                               *)
Reader(s) ==
  /\ s.at # "error" /\ s.pos >= 1
  /\ s.at \in {"scan", "collect"} => s.total >= 1
  /\ s.at # "done" => s.hits \subseteq 1 .. Len(tokens)
  /\ ~overlapped =>
       /\ s.at # "done" => \A i \in s.hits : s.term \in TermsOf[tokens[i]]
       /\ \A c \in s.found : s.term \in TermsOf[c]

Adders == AtHand /\ Counted /\ NoZero /\ Aligned

IInv == TypeOK /\ Adders /\ \A r \in Readers : Reader(search[r])

-----------------------------------------------------------------------------
(* Types.                                                                  *)

LEMMA SomeTermType == SomeTerm \in Terms
BY DEF SomeTerm

LEMMA InitTypeOK == Init => TypeOK
<1> SUFFICES ASSUME Init PROVE TypeOK
  OBVIOUS
<1>1. df \in [Terms -> Nat]
  <2>1. ASSUME NEW t \in Terms PROVE Cardinality(Holding(t, Seed)) \in Nat
    <3>1. IsFiniteSet(1 .. Len(Seed))
      BY FS_Interval
    <3>2. Holding(t, Seed) \subseteq 1 .. Len(Seed)
      BY DEF Holding
    <3> QED BY <3>1, <3>2, FS_Subset, FS_CardinalityType
  <2> QED BY <2>1 DEF Init
<1>2. add \in [Writers -> Adds]
  BY SomeTermType DEF Init, Adds
<1>3. search \in [Readers -> Searches]
  BY SomeTermType DEF Init, Searches
<1> QED BY <1>1, <1>2, <1>3 DEF Init, TypeOK

(* What a step of add makes of the record of its call.                     *)
Moves(w) ==
  /\ add' = [add EXCEPT ![w] = add'[w]]
  /\ add'[w] \in Adds
  /\ add'[w].at # "idle" => add'[w].todo # <<>>
  /\ \/ AppendChunk(w) /\ add'[w].at = "tokens" /\ add'[w].todo = add[w].todo
     \/ AppendTokens(w) /\ add'[w].at = "read" /\ add'[w].todo = add[w].todo
     \/ ReadTotal(w) /\ add'[w].at = "write" /\ add'[w].value = total + Length[Chunk(w)]
     \/ WriteTotal(w) /\ add'[w].at = "count"
     \/ (ReadCount(w) \/ StoreCount(w) \/ Return(w))
        /\ add[w].at \in {"count", "store"} /\ add'[w].at \in {"count", "store", "idle"}

LEMMA AddMoves ==
  ASSUME TypeOK, AtHand, NEW w \in Writers, AddStep(w)
  PROVE  Moves(w)
<1> DEFINE a == add[w]
<1>1. /\ a \in Adds /\ (a.at # "idle" => a.todo # <<>>)
      /\ total \in Nat /\ df \in [Terms -> Nat]
      /\ a.todo # <<>> => Chunk(w) \in Chunks /\ Tail(a.todo) \in Seq(Chunks)
  BY DEF TypeOK, AtHand, Adds, Chunk
<1>2. ASSUME NEW b \in Adds, add' = [add EXCEPT ![w] = b]
      PROVE  add' = [add EXCEPT ![w] = add'[w]] /\ add'[w] = b
  BY <1>2 DEF TypeOK
<1>3. CASE AppendChunk(w)
  <2> DEFINE b == [a EXCEPT !.at = "tokens"]
  <2>1. a.todo # <<>>
    BY <1>1, <1>3 DEF AppendChunk, Adding, GoOn
  <2>2. b \in Adds /\ b.at = "tokens" /\ b.todo = a.todo /\ a.todo # <<>>
    BY <1>1, <2>1 DEF Adds
  <2>3. add' = [add EXCEPT ![w] = b]
    BY <1>3 DEF AppendChunk, Adding, GoOn
  <2> HIDE DEF b
  <2> QED BY <1>3, <1>2, <2>2, <2>3 DEF Moves
<1>4. CASE AppendTokens(w)
  <2> DEFINE b == [a EXCEPT !.at = "read"]
  <2>1. a.todo # <<>>
    BY <1>1, <1>4 DEF AppendTokens, GoOn
  <2>2. b \in Adds /\ b.at = "read" /\ b.todo = a.todo /\ a.todo # <<>>
    BY <1>1, <2>1 DEF Adds
  <2>3. add' = [add EXCEPT ![w] = b]
    BY <1>4 DEF AppendTokens, GoOn
  <2> HIDE DEF b
  <2> QED BY <1>4, <1>2, <2>2, <2>3 DEF Moves
<1>5. CASE ReadTotal(w)
  <2> DEFINE sum == total + Length[Chunk(w)]
  <2> DEFINE b == [a EXCEPT !.at = "write", !.value = sum]
  <2>1. a.todo # <<>>
    BY <1>1, <1>5 DEF ReadTotal
  <2>4. sum \in Nat
    BY <1>1, <2>1
  <2> HIDE DEF sum
  <2>2. b \in Adds /\ b.at = "write" /\ b.value = sum /\ b.todo # <<>>
    BY <1>1, <2>1, <2>4 DEF Adds
  <2> USE DEF sum
  <2>3. add' = [add EXCEPT ![w] = b]
    BY <1>5 DEF ReadTotal
  <2> HIDE DEF b
  <2> QED BY <1>5, <1>2, <2>2, <2>3 DEF Moves
<1>6. CASE WriteTotal(w)
  <2> DEFINE b == [a EXCEPT !.at = "count", !.left = TermsOf[Chunk(w)]]
  <2>1. a.todo # <<>>
    BY <1>1, <1>6 DEF WriteTotal
  <2>2. b \in Adds /\ b.at = "count" /\ b.todo # <<>>
    BY <1>1, <2>1 DEF Adds
  <2>3. add' = [add EXCEPT ![w] = b]
    BY <1>6 DEF WriteTotal
  <2> HIDE DEF b
  <2> QED BY <1>6, <1>2, <2>2, <2>3 DEF Moves
<1>7. CASE ReadCount(w)
  <2>1. PICK t \in a.left : add' = [add EXCEPT ![w] =
          [a EXCEPT !.at = "store", !.left = @ \ {t}, !.term = t, !.value = df[t] + 1]]
    BY <1>7 DEF ReadCount
  <2> DEFINE n == df[t] + 1
  <2> DEFINE b == [a EXCEPT !.at = "store", !.left = @ \ {t}, !.term = t, !.value = n]
  <2>2. a.at = "count" /\ a.todo # <<>>
    BY <1>1, <1>7 DEF ReadCount
  <2>5. n \in Nat /\ t \in Terms /\ a.left \ {t} \subseteq Terms
    BY <1>1 DEF Adds
  <2> HIDE DEF n
  <2>3. b \in Adds /\ b.at = "store" /\ b.todo # <<>>
    BY <1>1, <2>2, <2>5 DEF Adds
  <2> USE DEF n
  <2>4. add' = [add EXCEPT ![w] = b]
    BY <2>1
  <2> HIDE DEF b
  <2> QED BY <1>7, <1>2, <2>2, <2>3, <2>4 DEF Moves
<1>8. CASE StoreCount(w)
  <2> DEFINE b == [a EXCEPT !.at = "count"]
  <2>1. a.at = "store" /\ a.todo # <<>>
    BY <1>1, <1>8 DEF StoreCount
  <2>2. b \in Adds /\ b.at = "count" /\ b.todo # <<>>
    BY <1>1, <2>1 DEF Adds
  <2>3. add' = [add EXCEPT ![w] = b]
    BY <1>8 DEF StoreCount, GoOn
  <2> HIDE DEF b
  <2> QED BY <1>8, <1>2, <2>1, <2>2, <2>3 DEF Moves
<1>9. CASE Return(w)
  <2> DEFINE b == [a EXCEPT !.at = "idle", !.todo = Tail(@)]
  <2>1. a.at = "count" /\ a.todo # <<>>
    BY <1>1, <1>9 DEF Return
  <2>2. b \in Adds /\ b.at = "idle"
    BY <1>1, <2>1 DEF Adds
  <2>3. add' = [add EXCEPT ![w] = b]
    BY <1>9 DEF Return
  <2> HIDE DEF b
  <2> QED BY <1>9, <1>2, <2>1, <2>2, <2>3 DEF Moves
<1> QED BY <1>3, <1>4, <1>5, <1>6, <1>7, <1>8, <1>9 DEF AddStep

(* A step of search changes the record of its request alone, and never     *)
(* fails.                                                                  *)
LEMMA SearchMoves ==
  ASSUME TypeOK, Adders, Len(tokens) <= Len(chunks),
         NEW r \in Readers, Reader(search[r]), SearchStep(r)
  PROVE  /\ search' = [search EXCEPT ![r] = search'[r]]
         /\ search'[r] \in Searches /\ Reader(search'[r])
<1> DEFINE s == search[r]
<1>1. s \in Searches /\ total \in Nat /\ total >= 1 /\ Len(chunks) \in Nat /\ Len(tokens) \in Nat
  BY DEF TypeOK, Adders, NoZero
<1>2. ASSUME NEW b \in Searches, Set(r, b), Reader(b)
      PROVE  /\ search' = [search EXCEPT ![r] = search'[r]]
             /\ search'[r] \in Searches /\ Reader(search'[r])
  BY <1>2 DEF TypeOK, Set
<1>3. CASE Count(r)
  <2>1. Added \subseteq Chunks
    BY DEF Added, Elements, TypeOK
  <2>2. PICK t \in Terms :
          Set(r, [at |-> "average", term |-> t, n |-> Len(chunks), total |-> 0, pos |-> 1,
                  hits |-> {}, found |-> {}, added |-> Added])
    BY <1>3 DEF Count
  <2> DEFINE b == [at |-> "average", term |-> t, n |-> Len(chunks), total |-> 0, pos |-> 1,
                   hits |-> {}, found |-> {}, added |-> Added]
  <2>3. b \in Searches
    BY <1>1, <2>1 DEF Searches
  <2>4. Reader(b)
    BY DEF Reader
  <2> HIDE DEF b
  <2> QED BY <1>2, <2>2, <2>3, <2>4 DEF b
<1>4. CASE Average(r)
  <2> DEFINE b == [s EXCEPT !.at = "scan", !.total = total]
  <2>1. b \in Searches
    BY <1>1 DEF Searches
  <2>2. s.at = "average" /\ Set(r, b)
    BY <1>4 DEF Average
  <2>3. Reader(b)
    BY <1>1, <2>2 DEF Reader, Searches
  <2> QED BY <1>2, <2>1, <2>2, <2>3
<1>5. CASE Scan(r)
  <2>1. s.at = "scan" /\ s.pos \in 1 .. Len(tokens) /\ s.total # 0 /\ s.pos + 1 \in Nat
    BY <1>1, <1>5 DEF Scan, Reader, Searches
  <2>2. ASSUME NEW p \in Nat, p >= 1, NEW G \in SUBSET (s.hits \cup {s.pos}),
               s.pos \in G /\ ~overlapped => s.term \in TermsOf[tokens[s.pos]]
        PROVE  /\ [s EXCEPT !.pos = p, !.hits = G] \in Searches
               /\ Reader([s EXCEPT !.pos = p, !.hits = G])
    <3>1. G \in SUBSET Nat
      BY <1>1 DEF Searches
    <3>2. [s EXCEPT !.pos = p, !.hits = G] \in Searches
      BY <1>1, <3>1 DEF Searches
    <3>3. G \subseteq 1 .. Len(tokens)
      BY <2>1 DEF Reader
    <3> QED BY <1>1, <2>1, <2>2, <3>2, <3>3 DEF Reader, Searches
  <2>3. ASSUME NEW p \in Nat PROVE [s EXCEPT !.pos = p] = [s EXCEPT !.pos = p, !.hits = s.hits]
    BY <1>1 DEF Searches
  <2>4. \/ Set(r, [s EXCEPT !.pos = s.pos + 1])
        \/ /\ s.term \in TermsOf[tokens[s.pos]]
           /\ \/ Set(r, [s EXCEPT !.pos = s.pos + 1, !.hits = s.hits \cup {s.pos}])
              \/ Set(r, [s EXCEPT !.pos = s.pos + 1, !.hits = s.hits])
    BY <1>5, <2>1 DEF Scan
  <2>5. s.pos \in s.hits /\ ~overlapped => s.term \in TermsOf[tokens[s.pos]]
    BY <2>1 DEF Reader
  <2> DEFINE p == s.pos + 1
  <2>6. p \in Nat /\ p >= 1
    BY <1>1, <2>1 DEF Searches
  <2> HIDE DEF p
  <2>7. /\ [s EXCEPT !.pos = p] \in Searches
        /\ Reader([s EXCEPT !.pos = p])
        /\ [s EXCEPT !.pos = p, !.hits = s.hits] \in Searches
        /\ Reader([s EXCEPT !.pos = p, !.hits = s.hits])
    BY <2>2, <2>3, <2>5, <2>6
  <2>8. s.term \in TermsOf[tokens[s.pos]] =>
          /\ [s EXCEPT !.pos = p, !.hits = s.hits \cup {s.pos}] \in Searches
          /\ Reader([s EXCEPT !.pos = p, !.hits = s.hits \cup {s.pos}])
    BY <2>2, <2>6
  <2> QED BY <1>2, <2>4, <2>7, <2>8 DEF p
<1>6. CASE ScanDone(r)
  <2> DEFINE b == [s EXCEPT !.at = "collect"]
  <2>1. b \in Searches
    BY <1>1 DEF Searches
  <2>2. s.at = "scan" /\ Set(r, b)
    BY <1>6 DEF ScanDone
  <2>3. Reader(b)
    BY <1>1, <2>2 DEF Reader, Searches
  <2> QED BY <1>2, <2>1, <2>2, <2>3
<1>7. CASE Collect(r)
  <2> DEFINE F == {chunks[i] : i \in s.hits}
  <2> DEFINE b == [s EXCEPT !.at = "done", !.found = F]
  <2>1. s.at = "collect" /\ s.hits \subseteq 1 .. Len(tokens)
    BY <1>7 DEF Collect, Reader
  <2>2. s.hits \subseteq 1 .. Len(chunks)
    BY <1>1, <2>1
  <2>3. F \in SUBSET Chunks
    BY <2>2 DEF TypeOK
  <2>4. ~overlapped => \A c \in F : s.term \in TermsOf[c]
    BY <2>1 DEF Reader, Adders, Aligned
  <2>5. Set(r, b)
    BY <1>7, <2>2 DEF Collect
  <2> HIDE DEF F
  <2>6. b \in Searches
    BY <1>1, <2>3 DEF Searches
  <2>7. Reader(b)
    BY <1>1, <2>4 DEF Reader, Searches
  <2> QED BY <1>2, <2>5, <2>6, <2>7
<1> QED BY <1>3, <1>4, <1>5, <1>6, <1>7 DEF SearchStep

-----------------------------------------------------------------------------
(* A step of add.                                                          *)

LEMMA BetweenMoves ==
  ASSUME TypeOK, Counted, NEW w \in Writers, Moves(w)
  PROVE  Counted' /\ Len(tokens') <= Len(chunks')
<1>1. /\ IsFiniteSet(Between) /\ Cardinality(Between) \in Nat
      /\ Len(chunks) \in Nat /\ Len(tokens) \in Nat
  BY FS_CardinalityType DEF Counted, TypeOK
<1>2. ASSUME NEW v \in Writers, v # w PROVE add'[v] = add[v]
  BY <1>2 DEF Moves, TypeOK
<1>3. CASE AppendChunk(w) /\ add'[w].at = "tokens"
  <2>1. w \notin Between /\ Between' = Between \cup {w}
    BY <1>2, <1>3 DEF Between, AppendChunk, Adding
  <2>2. IsFiniteSet(Between') /\ Cardinality(Between') = Cardinality(Between) + 1
    BY <1>1, <2>1, FS_AddElement
  <2>3. Len(chunks') = Len(chunks) + 1 /\ tokens' = tokens
    BY <1>3 DEF AppendChunk, TypeOK
  <2> QED BY <1>1, <2>2, <2>3 DEF Counted
<1>4. CASE AppendTokens(w) /\ add'[w].at = "read"
  <2>1. w \in Between /\ Between' = Between \ {w}
    BY <1>2, <1>4 DEF Between, AppendTokens
  <2>2. IsFiniteSet(Between') /\ Cardinality(Between') = Cardinality(Between) - 1
    BY <1>1, <2>1, FS_RemoveElement
  <2>3. Len(tokens') = Len(tokens) + 1 /\ chunks' = chunks
    BY <1>4 DEF AppendTokens, TypeOK
  <2>4. Cardinality(Between') \in Nat
    BY <2>2, FS_CardinalityType
  <2> QED BY <1>1, <2>2, <2>3, <2>4 DEF Counted
<1>5. CASE /\ add[w].at # "tokens" /\ add'[w].at # "tokens"
           /\ UNCHANGED lists
  <2>1. Between' = Between
    BY <1>2, <1>5 DEF Between
  <2> QED BY <1>1, <1>5, <2>1 DEF Counted, lists
<1>6. CASE ReadTotal(w) /\ add'[w].at = "write"
  BY <1>5, <1>6 DEF ReadTotal
<1>7. CASE WriteTotal(w) /\ add'[w].at = "count"
  BY <1>5, <1>7 DEF WriteTotal
<1>8. CASE /\ ReadCount(w) \/ StoreCount(w) \/ Return(w)
           /\ add[w].at \in {"count", "store"} /\ add'[w].at \in {"count", "store", "idle"}
  BY <1>5, <1>8 DEF ReadCount, StoreCount, Return
<1> QED BY <1>3, <1>4, <1>6, <1>7, <1>8 DEF Moves

LEMMA AddTypeOK ==
  ASSUME TypeOK, AtHand, NEW w \in Writers, AddStep(w)
  PROVE  TypeOK' /\ AtHand'
<1>1. Moves(w)
  BY AddMoves
<1>2. add' \in [Writers -> Adds] /\ AtHand'
  BY <1>1 DEF Moves, TypeOK, AtHand
<1>3. add[w] \in Adds /\ (add[w].at # "idle" => Chunk(w) \in Chunks)
  BY DEF TypeOK, AtHand, Chunk, Adds
<1>4. chunks' \in Seq(Chunks) /\ tokens' \in Seq(Chunks) /\ overlapped' \in BOOLEAN
  <2>1. CASE AppendChunk(w)
    <3>1. Chunk(w) \in Chunks
      BY <1>3, <2>1 DEF AppendChunk, Chunk, Adds
    <3> QED BY <2>1, <3>1 DEF AppendChunk, TypeOK
  <2>2. CASE AppendTokens(w)
    BY <1>3, <2>2 DEF AppendTokens, TypeOK
  <2>3. CASE ReadTotal(w) \/ WriteTotal(w) \/ ReadCount(w) \/ StoreCount(w) \/ Return(w)
    BY <2>3 DEF ReadTotal, WriteTotal, ReadCount, StoreCount, Return, lists, TypeOK
  <2> QED BY <2>1, <2>2, <2>3 DEF AddStep
<1>5. total' \in Nat /\ df' \in [Terms -> Nat] /\ search' = search
  <2>1. CASE AppendChunk(w) \/ AppendTokens(w) \/ ReadTotal(w) \/ ReadCount(w) \/ Return(w)
    BY <2>1 DEF AppendChunk, AppendTokens, ReadTotal, ReadCount, Return, TypeOK
  <2>2. CASE WriteTotal(w)
    BY <1>3, <2>2 DEF WriteTotal, TypeOK, Adds
  <2>3. CASE StoreCount(w)
    BY <1>3, <2>3 DEF StoreCount, TypeOK, Adds
  <2> QED BY <2>1, <2>2, <2>3 DEF AddStep
<1> QED BY <1>2, <1>4, <1>5 DEF TypeOK

LEMMA AddNoZero ==
  ASSUME TypeOK, AtHand, NoZero, NEW w \in Writers, AddStep(w)
  PROVE  NoZero'
<1>1. Moves(w)
  BY AddMoves
<1>2. ASSUME NEW v \in Writers, v # w PROVE add'[v] = add[v]
  BY <1>1, <1>2 DEF Moves, TypeOK
<1>3. CASE ReadTotal(w)
  <2>1. Chunk(w) \in Chunks
    BY <1>3 DEF ReadTotal, TypeOK, AtHand, Chunk, Adds
  <2>2. add'[w].at = "write" => add'[w].value >= 1
    BY <1>1, <1>3, <2>1 DEF Moves, NoZero, TypeOK, ReadTotal, AppendChunk, AppendTokens,
       Adding, WriteTotal
  <2> QED BY <1>2, <1>3, <2>2 DEF ReadTotal, NoZero
<1>4. CASE WriteTotal(w)
  <2>1. add'[w].at # "write"
    BY <1>1, <1>4 DEF Moves, WriteTotal, ReadTotal
  <2> QED BY <1>2, <1>4, <2>1 DEF WriteTotal, NoZero
<1>5. CASE ~ReadTotal(w) /\ ~WriteTotal(w)
  <2>1. add'[w].at # "write"
    BY <1>1, <1>5 DEF Moves
  <2>2. total' = total
    BY <1>5 DEF AddStep, AppendChunk, AppendTokens, ReadCount, StoreCount, Return
  <2> QED BY <1>2, <2>1, <2>2 DEF NoZero
<1> QED BY <1>3, <1>4, <1>5

LEMMA AddFrame ==
  ASSUME NEW w \in Writers, AddStep(w)
  PROVE  /\ search' = search
         /\ ~overlapped' => ~overlapped
         /\ tokens' = tokens \/ AppendTokens(w)
<1>1. CASE AppendChunk(w)
  BY <1>1 DEF AppendChunk
<1>2. CASE AppendTokens(w)
  BY <1>2 DEF AppendTokens
<1>3. CASE ReadTotal(w) \/ WriteTotal(w)
  BY <1>3 DEF ReadTotal, WriteTotal, lists
<1>4. CASE ReadCount(w)
  <2>1. UNCHANGED <<lists, search, overlapped>>
    BY <1>4 DEF ReadCount
  <2> QED BY <2>1 DEF lists
<1>5. CASE StoreCount(w) \/ Return(w)
  <2>1. UNCHANGED <<lists, search, overlapped>>
    BY <1>5 DEF StoreCount, Return
  <2> QED BY <2>1 DEF lists
<1> QED BY <1>1, <1>2, <1>3, <1>4, <1>5 DEF AddStep

(* Nothing of the index or of a call of add.                               *)
LEMMA AddersKept ==
  ASSUME Adders, UNCHANGED <<chunks, tokens, total, df, add, overlapped>>
  PROVE  Adders'
<1>1. Between' = Between
  BY DEF Between
<1>2. AtHand' /\ NoZero' /\ Counted'
  BY <1>1 DEF Adders, AtHand, NoZero, Counted
<1>3. \A w \in Writers : Chunk(w)' = Chunk(w)
  BY DEF Chunk
<1>4. Aligned'
  BY <1>3 DEF Adders, Aligned
<1> QED BY <1>2, <1>4 DEF Adders

LEMMA AddAligned ==
  ASSUME TypeOK, Adders, NEW w \in Writers, AddStep(w)
  PROVE  Aligned'
<1> SUFFICES ASSUME ~overlapped' PROVE Aligned'
  BY DEF Aligned
<1>1. Moves(w) /\ add[w] \in Adds
  BY AddMoves DEF Adders, TypeOK
<1>2. ASSUME NEW v \in Writers, v # w PROVE add'[v] = add[v]
  BY <1>1, <1>2 DEF Moves, TypeOK
<1>3. /\ Len(chunks) \in Nat /\ Len(tokens) \in Nat /\ ~overlapped
      /\ chunks \in Seq(Chunks) /\ tokens \in Seq(Chunks)
  BY AddFrame DEF TypeOK
<1>4. CASE AppendChunk(w) /\ add'[w].at = "tokens" /\ add'[w].todo = add[w].todo
  <2>1. \A v \in Writers : add[v].at = "idle"
    BY <1>4 DEF AppendChunk, Adding
  <2>2. Cardinality(Between) = 0
    BY <2>1, FS_EmptySet DEF Between
  <2>3. Len(chunks) = Len(tokens)
    BY <1>3, <2>2 DEF Adders, Counted
  <2>4. Chunk(w) \in Chunks /\ Chunk(w)' = Chunk(w)
    BY <1>1, <1>4 DEF AppendChunk, Chunk, Adds
  <2>5. chunks' = Append(chunks, Chunk(w)) /\ tokens' = tokens
    BY <1>4 DEF AppendChunk
  <2>8. \A i \in 1 .. Len(tokens) : chunks[i] = tokens[i]
    BY <1>3 DEF Adders, Aligned
  <2>9. \A i \in 1 .. Len(chunks) : chunks'[i] = chunks[i]
    BY <1>3, <2>4, <2>5
  <2>6. \A i \in 1 .. Len(tokens') : chunks'[i] = tokens'[i]
    BY <2>3, <2>5, <2>8, <2>9
  <2>7. Len(chunks') = Len(tokens') + 1 /\ chunks'[Len(chunks')] = Chunk(w)'
    BY <1>3, <2>3, <2>4, <2>5
  <2> QED BY <1>2, <2>1, <2>6, <2>7 DEF Aligned
<1>5. CASE AppendTokens(w) /\ add'[w].at = "read" /\ add'[w].todo = add[w].todo
  <2>1. add[w].at = "tokens" /\ tokens' = Append(tokens, Chunk(w)) /\ chunks' = chunks
    BY <1>5 DEF AppendTokens
  <2>2. Len(chunks) = Len(tokens) + 1 /\ chunks[Len(chunks)] = Chunk(w)
    BY <1>3, <2>1 DEF Adders, Aligned
  <2>3. Chunk(w) \in Chunks
    BY <1>3, <2>2
  <2>4. \A i \in 1 .. Len(tokens') : chunks'[i] = tokens'[i]
    BY <1>3, <2>1, <2>2, <2>3 DEF Adders, Aligned
  <2>6. \A v \in Writers : v # w => add'[v].at = "idle"
    BY <1>2, <1>3, <2>1 DEF Adders, Aligned
  <2>5. \A v \in Writers : add'[v].at # "tokens"
    BY <1>5, <2>6
  <2> QED BY <2>4, <2>5, <2>6 DEF Aligned
<1>6. CASE /\ add[w].at # "idle" /\ add'[w].at # "tokens" /\ UNCHANGED lists
  <2>1. \A v \in Writers : v # w => add'[v].at = "idle"
    BY <1>2, <1>3, <1>6 DEF Adders, Aligned
  <2>2. \A i \in 1 .. Len(tokens') : chunks'[i] = tokens'[i]
    BY <1>3, <1>6 DEF Adders, Aligned, lists
  <2> QED BY <1>6, <2>1, <2>2 DEF Aligned
<1>7. CASE ReadTotal(w) /\ add'[w].at = "write"
  BY <1>6, <1>7 DEF ReadTotal
<1>8. CASE WriteTotal(w) /\ add'[w].at = "count"
  BY <1>6, <1>8 DEF WriteTotal
<1>9. CASE /\ ReadCount(w) \/ StoreCount(w) \/ Return(w)
           /\ add[w].at \in {"count", "store"} /\ add'[w].at \in {"count", "store", "idle"}
  BY <1>6, <1>9 DEF ReadCount, StoreCount, Return
<1> QED BY <1>1, <1>4, <1>5, <1>7, <1>8, <1>9 DEF Moves

(* What the readers have stays good: the list of tokens only grows.        *)
LEMMA AddReader ==
  ASSUME TypeOK, AtHand, NEW w \in Writers, AddStep(w),
         NEW r \in Readers, Reader(search[r])
  PROVE  Reader(search[r])'
<1>1. search' = search /\ (~overlapped' => ~overlapped)
  BY AddFrame
<1>2. CASE tokens' = tokens
  BY <1>1, <1>2 DEF Reader
<1>3. CASE AppendTokens(w)
  <2>1. tokens' = Append(tokens, Chunk(w)) /\ Chunk(w) \in Chunks
    BY <1>3 DEF AppendTokens, TypeOK, AtHand, Chunk, Adds
  <2>2. /\ 1 .. Len(tokens) \subseteq 1 .. Len(tokens')
        /\ \A i \in 1 .. Len(tokens) : tokens'[i] = tokens[i]
    BY <2>1 DEF TypeOK
  <2> QED BY <1>1, <2>2 DEF Reader
<1> QED BY <1>2, <1>3, AddFrame

-----------------------------------------------------------------------------
(* The invariant.                                                          *)

LEMMA Inductive == Spec => []IInv
<1>1. Init => IInv
  <2> SUFFICES ASSUME Init PROVE IInv
    OBVIOUS
  <2>1. Between = {}
    BY DEF Init, Between
  <2>2. Counted
    BY <2>1, FS_EmptySet DEF Init, Counted
  <2>3. AtHand /\ NoZero /\ Aligned
    BY DEF Init, AtHand, NoZero, Aligned
  <2>4. \A r \in Readers : Reader(search[r])
    BY DEF Init, Reader
  <2> QED BY <2>2, <2>3, <2>4, InitTypeOK DEF IInv, Adders
<1>2. IInv /\ [Next]_vars => IInv'
  <2> SUFFICES ASSUME IInv, [Next]_vars PROVE IInv'
    OBVIOUS
  <2> USE DEF IInv
  <2>1. ASSUME NEW w \in Writers, AddStep(w) PROVE IInv'
    <3>1. TypeOK' /\ AtHand'
      BY <2>1, AddTypeOK DEF Adders
    <3>2. Counted' /\ NoZero' /\ Aligned'
      BY <2>1, AddMoves, BetweenMoves, AddNoZero, AddAligned DEF Adders
    <3>3. \A r \in Readers : Reader(search[r])'
      BY <2>1, AddReader DEF Adders
    <3> QED BY <3>1, <3>2, <3>3 DEF Adders
  <2>2. ASSUME NEW r \in Readers, SearchStep(r) PROVE IInv'
    <3>1. Len(tokens) <= Len(chunks)
      BY FS_CardinalityType DEF Adders, Counted, TypeOK
    <3>2. /\ search' = [search EXCEPT ![r] = search'[r]]
          /\ search'[r] \in Searches /\ Reader(search'[r])
      BY <2>2, <3>1, SearchMoves
    <3>3. UNCHANGED <<chunks, tokens, total, df, add, overlapped>>
      BY <2>2 DEF SearchStep, Count, Average, Scan, ScanDone, Collect, Silent, lists
    <3>4. TypeOK'
      BY <3>2, <3>3 DEF TypeOK
    <3>5. Adders'
      BY <3>3, AddersKept
    <3>6. ASSUME NEW q \in Readers PROVE Reader(search[q])'
      <4>1. Reader(search'[q])
        BY <3>2 DEF TypeOK
      <4> QED BY <3>3, <4>1 DEF Reader
    <3> QED BY <3>4, <3>5, <3>6
  <2>3. CASE UNCHANGED vars
    <3>1. UNCHANGED <<chunks, tokens, total, df, add, search, overlapped>>
      BY <2>3 DEF vars, lists
    <3>2. TypeOK' /\ Adders'
      BY <3>1, AddersKept DEF TypeOK
    <3> QED BY <3>1, <3>2 DEF Reader
  <2> QED BY <2>1, <2>2, <2>3 DEF Next
<1> QED BY <1>1, <1>2, PTL DEF Spec

(* The lists, the counters and the calls under way keep their types.       *)
THEOREM TypeCorrect == Spec => []TypeOK
BY Inductive, PTL DEF IInv

(* No search divides by zero or reaches for a chunk that is not there,     *)
(* however many uploads add at once.                                       *)
THEOREM SearchNeverFails == Spec => []NeverFails
<1>1. IInv => NeverFails
  BY DEF IInv, Reader, NeverFails
<1> QED BY <1>1, Inductive, PTL

(* As long as no two uploads added at once, what is found holds the term.  *)
THEOREM FoundMatches == Spec => []HitsMatch
<1>1. IInv => HitsMatch
  BY DEF IInv, Reader, HitsMatch
<1> QED BY <1>1, Inductive, PTL

-----------------------------------------------------------------------------
(* What a search misses.  As long as no two uploads added at once, the     *)
(* counts are exact but for the terms the one add under way has not        *)
(* stored yet, so a weight is zero only when there are too many chunks     *)
(* with the term; and each search looked at every position up to its own.  *)

(* The terms of a chunk that its add has yet to count.                     *)
Pending(w) ==
  CASE add[w].at \in {"read", "write"} -> TermsOf[Chunk(w)]
    [] add[w].at = "count"             -> add[w].left
    [] add[w].at = "store"             -> add[w].left \cup {add[w].term}
    [] OTHER                           -> {}

Uncounted(t) == IF \E w \in Writers : t \in Pending(w) THEN 1 ELSE 0

Exact ==
  /\ \A t \in Terms : df[t] + Uncounted(t) = Cardinality(Holding(t, tokens))
  /\ \A w \in Writers :
       add[w].at = "store" => /\ add[w].term \notin add[w].left
                              /\ add[w].value = df[add[w].term] + 1

TooMany(s) == Cardinality(Holding(s.term, tokens)) > s.n

(* A search has all it has passed, or the term is in too many chunks; and  *)
(* once it has passed the end, it has passed all that was added before.    *)
Complete(s) ==
  /\ \A c \in s.added : \E i \in 1 .. Len(tokens) : tokens[i] = c
  /\ s.at # "done" =>
       /\ s.pos <= Len(tokens) + 1
       /\ \A i \in 1 .. (s.pos - 1) :
            s.term \in TermsOf[tokens[i]] => i \in s.hits \/ TooMany(s)
  /\ s.at = "collect" => \A c \in s.added : \E i \in 1 .. (s.pos - 1) : tokens[i] = c
  /\ s.at = "done" =>
       \A c \in s.added \ s.found : s.term \in TermsOf[c] => TooMany(s)

Missing == ~overlapped => Exact /\ \A r \in Readers : Complete(search[r])

LEMMA HoldingFinite ==
  ASSUME NEW s \in Seq(Chunks), NEW t
  PROVE  /\ Holding(t, s) \subseteq 1 .. Len(s)
         /\ IsFiniteSet(Holding(t, s)) /\ Cardinality(Holding(t, s)) \in Nat
<1>1. IsFiniteSet(1 .. Len(s))
  BY FS_Interval
<1>2. Holding(t, s) \subseteq 1 .. Len(s)
  BY DEF Holding
<1> QED BY <1>1, <1>2, FS_Subset, FS_CardinalityType

LEMMA HoldingAppend ==
  ASSUME NEW s \in Seq(Chunks), NEW c \in Chunks, NEW t
  PROVE  Cardinality(Holding(t, Append(s, c))) =
           Cardinality(Holding(t, s)) + (IF t \in TermsOf[c] THEN 1 ELSE 0)
<1>1. Len(Append(s, c)) = Len(s) + 1 /\ Len(s) \in Nat
  OBVIOUS
<1>2. /\ \A i \in 1 .. Len(s) : Append(s, c)[i] = s[i]
      /\ Append(s, c)[Len(s) + 1] = c
  OBVIOUS
<1>3. 1 .. Len(Append(s, c)) = (1 .. Len(s)) \cup {Len(s) + 1}
  BY <1>1
<1>4. CASE t \in TermsOf[c]
  <2>1. Holding(t, Append(s, c)) = Holding(t, s) \cup {Len(s) + 1}
    BY <1>2, <1>3, <1>4 DEF Holding
  <2>2. Len(s) + 1 \notin Holding(t, s)
    BY <1>1 DEF Holding
  <2> QED BY <1>4, <2>1, <2>2, HoldingFinite, FS_AddElement
<1>5. CASE t \notin TermsOf[c]
  <2>1. Holding(t, Append(s, c)) = Holding(t, s)
    BY <1>2, <1>3, <1>5 DEF Holding
  <2> QED BY <1>5, <2>1, HoldingFinite
<1> QED BY <1>4, <1>5

LEMMA HoldingPrefix ==
  ASSUME NEW s \in Seq(Chunks), NEW u \in Seq(Chunks), NEW t, Len(s) <= Len(u),
         \A i \in 1 .. Len(s) : u[i] = s[i]
  PROVE  Cardinality(Holding(t, s)) <= Cardinality(Holding(t, u))
<1>1. Len(s) \in Nat /\ Len(u) \in Nat
  OBVIOUS
<1>2. Holding(t, s) \subseteq Holding(t, u)
  BY <1>1 DEF Holding
<1> QED BY <1>2, HoldingFinite, FS_Subset

LEMMA OneAdder ==
  ASSUME IInv, NEW w \in Writers, AddStep(w), ~overlapped'
  PROVE  \A v \in Writers : v # w => add[v].at = "idle" /\ add'[v] = add[v]
<1>1. Moves(w) /\ ~overlapped
  BY AddMoves, AddFrame DEF IInv, Adders
<1>2. \A v \in Writers : v # w => add'[v] = add[v]
  BY <1>1 DEF Moves, IInv, TypeOK
<1>3. CASE AppendChunk(w)
  <2>1. \A v \in Writers : ~Adding(v)
    BY <1>3 DEF AppendChunk
  <2> QED BY <1>2, <2>1 DEF Adding
<1>4. CASE ~AppendChunk(w)
  <2>1. add[w].at # "idle"
    BY <1>4 DEF AddStep, AppendTokens, ReadTotal, WriteTotal, ReadCount, StoreCount, Return
  <2> QED BY <1>1, <1>2, <2>1 DEF IInv, Adders, Aligned
<1> QED BY <1>3, <1>4

(* Only what the one add under way has left matters.                       *)
LEMMA UncountedIs ==
  ASSUME IInv, NEW w \in Writers, AddStep(w), ~overlapped', NEW t \in Terms
  PROVE  /\ Uncounted(t) = IF t \in Pending(w) THEN 1 ELSE 0
         /\ Uncounted(t)' = IF t \in Pending(w)' THEN 1 ELSE 0
<1>1. \A v \in Writers : v # w => Pending(v) = {} /\ Pending(v)' = {}
  BY OneAdder DEF Pending
<1> QED BY <1>1 DEF Uncounted

(* A step of add counts a term when, and only when, it stores its count.   *)
LEMMA AddExact ==
  ASSUME IInv, Exact, NEW w \in Writers, AddStep(w), ~overlapped'
  PROVE  Exact'
<1> DEFINE a == add[w]
           b == add'[w]
           One(P) == IF P THEN 1 ELSE 0
<1>0. /\ add \in [Writers -> Adds] /\ a \in Adds /\ df \in [Terms -> Nat]
      /\ tokens \in Seq(Chunks)
  BY DEF IInv, TypeOK
<1>1. \A t \in Terms : df[t] + One(t \in Pending(w)) = Cardinality(Holding(t, tokens))
  BY UncountedIs DEF Exact
<1>2. ASSUME \A t \in Terms :
               df'[t] + One(t \in Pending(w)') = Cardinality(Holding(t, tokens'))
      PROVE  \A t \in Terms :
               df'[t] + Uncounted(t)' = Cardinality(Holding(t, tokens'))
  BY <1>2, UncountedIs
<1>3. ASSUME b.at = "store" => b.term \notin b.left /\ b.value = df'[b.term] + 1
      PROVE  \A v \in Writers :
               add'[v].at = "store" => /\ add'[v].term \notin add'[v].left
                                       /\ add'[v].value = df'[add'[v].term] + 1
  <2> SUFFICES ASSUME NEW v \in Writers, v # w, add'[v].at = "store" PROVE FALSE
    BY <1>3
  <2> QED BY OneAdder
<1>4. ASSUME UNCHANGED <<df, tokens>>, Pending(w)' = Pending(w), b.at # "store"
      PROVE  Exact'
  BY <1>1, <1>2, <1>3, <1>4 DEF Exact
<1>5. CASE AppendChunk(w)
  <2>1. a.at = "idle" /\ b.at = "tokens" /\ UNCHANGED <<df, tokens>>
    BY <1>0, <1>5 DEF AppendChunk, Adding, GoOn, Adds
  <2> QED BY <1>4, <2>1 DEF Pending
<1>6. CASE AppendTokens(w)
  <2>1. /\ a.at = "tokens" /\ b.at = "read" /\ b.todo = a.todo /\ df' = df
        /\ tokens' = Append(tokens, Chunk(w))
    BY <1>0, <1>6 DEF AppendTokens, GoOn, Adds
  <2>2. Chunk(w) \in Chunks
    <3>1. a.todo # <<>>
      BY <2>1 DEF IInv, Adders, AtHand
    <3>2. a.todo \in Seq(Chunks)
      BY <1>0 DEF Adds
    <3> QED BY <3>1, <3>2 DEF Chunk
  <2>3. Pending(w) = {} /\ Pending(w)' = TermsOf[Chunk(w)]
    BY <2>1 DEF Pending, Chunk
  <2>4. ASSUME NEW t \in Terms
        PROVE  df'[t] + One(t \in Pending(w)') = Cardinality(Holding(t, tokens'))
    <3>1. df[t] = Cardinality(Holding(t, tokens))
      BY <1>0, <1>1, <2>3
    <3>2. Cardinality(Holding(t, tokens')) =
            Cardinality(Holding(t, tokens)) + One(t \in TermsOf[Chunk(w)])
      BY <1>0, <2>1, <2>2, HoldingAppend
    <3> QED BY <2>1, <2>3, <3>1, <3>2
  <2> QED BY <1>2, <1>3, <2>1, <2>4 DEF Exact
<1>7. CASE ReadTotal(w)
  <2>1. a.at = "read" /\ b.at = "write" /\ b.todo = a.todo /\ UNCHANGED <<df, lists>>
    BY <1>0, <1>7 DEF ReadTotal, Adds
  <2> QED BY <1>4, <2>1 DEF Pending, Chunk, lists
<1>8. CASE WriteTotal(w)
  <2>1. /\ a.at = "write" /\ b.at = "count" /\ b.left = TermsOf[Chunk(w)]
        /\ UNCHANGED <<df, lists>>
    BY <1>0, <1>8 DEF WriteTotal, Adds
  <2> QED BY <1>4, <2>1 DEF Pending, lists
<1>9. CASE ReadCount(w)
  <2>1. PICK t \in a.left : add' = [add EXCEPT ![w] =
          [a EXCEPT !.at = "store", !.left = @ \ {t}, !.term = t, !.value = df[t] + 1]]
    BY <1>9 DEF ReadCount
  <2>2. /\ a.at = "count" /\ b.at = "store" /\ b.left = a.left \ {t} /\ b.term = t
        /\ b.value = df[t] + 1 /\ UNCHANGED <<df, lists>>
    BY <1>0, <1>9, <2>1 DEF ReadCount, Adds
  <2>3. Pending(w)' = Pending(w)
    BY <2>2 DEF Pending
  <2> QED BY <1>1, <1>2, <1>3, <2>2, <2>3 DEF Exact, lists
<1>10. CASE StoreCount(w)
  <2>1. /\ a.at = "store" /\ b.at = "count" /\ b.left = a.left
        /\ df' = [df EXCEPT ![a.term] = a.value] /\ UNCHANGED lists
    BY <1>0, <1>10 DEF StoreCount, GoOn, Adds
  <2>2. a.term \in Terms /\ a.term \notin a.left /\ a.value = df[a.term] + 1
    BY <1>0, <2>1 DEF Exact, Adds
  <2>3. Pending(w) = a.left \cup {a.term} /\ Pending(w)' = a.left
    BY <2>1 DEF Pending
  <2>4. ASSUME NEW t \in Terms
        PROVE  df'[t] + One(t \in Pending(w)') = Cardinality(Holding(t, tokens'))
    <3>1. df[t] + One(t \in Pending(w)) = Cardinality(Holding(t, tokens'))
      BY <1>1, <2>1 DEF lists
    <3>2. df'[t] = IF t = a.term THEN df[t] + 1 ELSE df[t]
      BY <1>0, <2>1, <2>2
    <3> QED BY <1>0, <2>2, <2>3, <3>1, <3>2
  <2> QED BY <1>2, <1>3, <2>1, <2>4 DEF Exact
<1>11. CASE Return(w)
  <2>1. a.at = "count" /\ b.at = "idle" /\ a.left = {} /\ UNCHANGED <<df, lists>>
    BY <1>0, <1>11 DEF Return, Adds
  <2> QED BY <1>4, <2>1 DEF Pending, lists
<1> QED BY <1>5, <1>6, <1>7, <1>8, <1>9, <1>10, <1>11 DEF AddStep

(* What a search has and what it misses stays so as the list grows.        *)
LEMMA AddComplete ==
  ASSUME IInv, NEW w \in Writers, AddStep(w), ~overlapped',
         NEW r \in Readers, Complete(search[r])
  PROVE  Complete(search[r])'
<1>1. search' = search /\ (tokens' = tokens \/ AppendTokens(w))
  BY AddFrame
<1>2. CASE tokens' = tokens
  BY <1>1, <1>2 DEF Complete, TooMany
<1>3. CASE AppendTokens(w)
  <2>0. PICK s : s = search[r] /\ Complete(s)
    OBVIOUS
  <2>1. tokens' = Append(tokens, Chunk(w)) /\ Chunk(w) \in Chunks /\ s \in Searches
    BY <1>3, <2>0 DEF AppendTokens, IInv, Adders, TypeOK, AtHand, Chunk, Adds
  <2>2. tokens \in Seq(Chunks) /\ tokens' \in Seq(Chunks) /\ Len(tokens) \in Nat
    BY <2>1 DEF IInv, TypeOK
  <2>3. /\ Len(tokens') = Len(tokens) + 1
        /\ Len(tokens) <= Len(tokens')
        /\ \A i \in 1 .. Len(tokens) : i \in 1 .. Len(tokens') /\ tokens'[i] = tokens[i]
    BY <2>1, <2>2
  <2>4. TooMany(s) => TooMany(s)'
    <3>1. Cardinality(Holding(s.term, tokens)) <= Cardinality(Holding(s.term, tokens'))
      BY <2>2, <2>3, HoldingPrefix
    <3>2. /\ Cardinality(Holding(s.term, tokens)) \in Nat /\ s.n \in Nat
          /\ Cardinality(Holding(s.term, tokens')) \in Nat
      BY <2>1, <2>2, HoldingFinite DEF Searches
    <3> QED BY <3>1, <3>2 DEF TooMany
  <2>5. s.pos \in Nat
    BY <2>1 DEF Searches
  <2>6. \A c \in s.added : \E i \in 1 .. Len(tokens') : tokens'[i] = c
    <3> SUFFICES ASSUME NEW c \in s.added PROVE \E i \in 1 .. Len(tokens') : tokens'[i] = c
      OBVIOUS
    <3>1. PICK i \in 1 .. Len(tokens) : tokens[i] = c
      BY <2>0 DEF Complete
    <3> QED BY <2>3, <3>1
  <2>7. ASSUME s.at # "done"
        PROVE  /\ s.pos <= Len(tokens') + 1
               /\ \A i \in 1 .. (s.pos - 1) :
                    /\ tokens'[i] = tokens[i]
                    /\ s.term \in TermsOf[tokens'[i]] => i \in s.hits \/ TooMany(s)'
    <3>1. s.pos <= Len(tokens) + 1
      BY <2>0, <2>7 DEF Complete
    <3>2. \A i \in 1 .. (s.pos - 1) : i \in 1 .. Len(tokens)
      BY <2>2, <2>5, <3>1
    <3>3. \A i \in 1 .. (s.pos - 1) :
            s.term \in TermsOf[tokens[i]] => i \in s.hits \/ TooMany(s)
      BY <2>0, <2>7 DEF Complete
    <3>4. s.pos <= Len(tokens') + 1
      BY <2>2, <2>3, <2>5, <3>1
    <3> QED BY <2>3, <2>4, <3>2, <3>3, <3>4
  <2>8. s.at = "collect" => \A c \in s.added : \E i \in 1 .. (s.pos - 1) : tokens'[i] = c
    <3>1. s.at = "collect" => \A c \in s.added : \E i \in 1 .. (s.pos - 1) : tokens[i] = c
      BY <2>0 DEF Complete
    <3> QED BY <2>7, <3>1
  <2>9. s.at = "done" =>
          \A c \in s.added \ s.found : s.term \in TermsOf[c] => TooMany(s)'
    BY <2>0, <2>4 DEF Complete
  <2>10. search'[r] = s
    BY <1>1, <2>0
  <2> QED BY <2>10, <2>6, <2>7, <2>8, <2>9 DEF Complete
<1> QED BY <1>1, <1>2, <1>3

(* What was added before a search begins is in the list it looks through.  *)
LEMMA AddedIsThere ==
  ASSUME IInv, ~overlapped
  PROVE  \A c \in Added : \E i \in 1 .. Len(tokens) : tokens[i] = c
<1> SUFFICES ASSUME NEW c \in Added PROVE \E i \in 1 .. Len(tokens) : tokens[i] = c
  OBVIOUS
<1>1. PICK i \in 1 .. Len(chunks) : chunks[i] = c
  BY DEF Added, Elements
<1>2. Len(chunks) \in Nat /\ Len(tokens) \in Nat
  BY DEF IInv, TypeOK
<1>3. i \in 1 .. Len(tokens)
  <2>1. CASE Between = {}
    <3>1. Len(chunks) = Len(tokens)
      BY <1>2, <2>1, FS_EmptySet DEF IInv, Adders, Counted
    <3> QED BY <3>1
  <2>2. CASE Between # {}
    <3>1. PICK w \in Writers : add[w].at = "tokens"
      BY <2>2 DEF Between
    <3>2. Len(chunks) = Len(tokens) + 1 /\ chunks[Len(chunks)] = Chunk(w)
      BY <3>1 DEF IInv, Adders, Aligned
    <3>3. c # Chunk(w)
      BY <3>1 DEF Added, Adding
    <3>4. i # Len(chunks)
      BY <1>1, <3>2, <3>3
    <3> QED BY <1>2, <3>2, <3>4
  <2> QED BY <2>1, <2>2
<1>4. chunks[i] = tokens[i]
  BY <1>3 DEF IInv, Adders, Aligned
<1> QED BY <1>1, <1>3, <1>4

LEMMA SearchComplete ==
  ASSUME IInv, ~overlapped, Exact, NEW r \in Readers, Complete(search[r]), SearchStep(r)
  PROVE  Complete(search'[r])
<1>0. PICK s : s = search[r] /\ s \in Searches /\ Complete(s)
  BY DEF IInv, TypeOK
<1>1. /\ Len(tokens) \in Nat /\ s.pos \in Nat /\ s.n \in Nat /\ s.hits \subseteq Nat
      /\ s.term \in Terms /\ tokens \in Seq(Chunks) /\ s.pos >= 1
  BY <1>0 DEF IInv, TypeOK, Searches, Reader
<1>2. ASSUME NEW b, Set(r, b) PROVE search'[r] = b
  BY <1>2 DEF Set, IInv, TypeOK
<1>3. CASE Count(r)
  <2>1. PICK t \in Terms :
          Set(r, [at |-> "average", term |-> t, n |-> Len(chunks), total |-> 0, pos |-> 1,
                  hits |-> {}, found |-> {}, added |-> Added])
    BY <1>3 DEF Count
  <2>2. /\ search'[r].at = "average" /\ search'[r].pos = 1 /\ search'[r].added = Added
    BY <1>2, <2>1
  <2>3. 1 .. (1 - 1) = {} /\ 1 <= Len(tokens) + 1
    BY <1>1
  <2> QED BY <2>2, <2>3, AddedIsThere DEF Complete
<1>4. CASE Average(r)
  <2>1. s.at = "average" /\ search'[r] = [s EXCEPT !.at = "scan", !.total = total]
    BY <1>0, <1>2, <1>4 DEF Average
  <2>2. /\ search'[r].at = "scan" /\ search'[r].pos = s.pos /\ search'[r].hits = s.hits
        /\ search'[r].added = s.added /\ search'[r].term = s.term /\ search'[r].n = s.n
    BY <1>0, <2>1 DEF Searches
  <2> QED BY <1>0, <2>1, <2>2 DEF Complete, TooMany
<1>5. CASE Scan(r)
  <2>1. PICK b : Set(r, b) /\ search'[r] = b
    BY <1>2, <1>5 DEF Scan
  <2>2. s.at = "scan" /\ s.pos \in 1 .. Len(tokens) /\ s.total # 0
    BY <1>0, <1>1, <1>5 DEF Scan, IInv, Reader, Searches
  <2>3. \/ /\ s.term \notin TermsOf[tokens[s.pos]]
           /\ search'[r] = [s EXCEPT !.pos = s.pos + 1]
        \/ search'[r] = [s EXCEPT !.pos = s.pos + 1, !.hits = s.hits \cup {s.pos}]
        \/ /\ ~Positive(s.n, df[s.term])
           /\ search'[r] = [s EXCEPT !.pos = s.pos + 1, !.hits = s.hits]
    BY <1>0, <1>2, <1>5, <2>2 DEF Scan
  <2>4. /\ search'[r].at = "scan" /\ search'[r].pos = s.pos + 1
        /\ search'[r].added = s.added /\ search'[r].term = s.term /\ search'[r].n = s.n
        /\ s.hits \subseteq search'[r].hits
        /\ \/ s.term \notin TermsOf[tokens[s.pos]]
           \/ s.pos \in search'[r].hits
           \/ ~Positive(s.n, df[s.term])
    <3>1. ASSUME NEW G, search'[r] = [s EXCEPT !.pos = s.pos + 1, !.hits = G]
          PROVE  /\ search'[r].at = "scan" /\ search'[r].pos = s.pos + 1
                 /\ search'[r].added = s.added /\ search'[r].term = s.term
                 /\ search'[r].n = s.n /\ search'[r].hits = G
      BY <1>0, <2>2, <3>1 DEF Searches
    <3>2. [s EXCEPT !.pos = s.pos + 1] = [s EXCEPT !.pos = s.pos + 1, !.hits = s.hits]
      BY <1>0 DEF Searches
    <3>3. \/ /\ search'[r] = [s EXCEPT !.pos = s.pos + 1, !.hits = s.hits]
             /\ \/ s.term \notin TermsOf[tokens[s.pos]]
                \/ ~Positive(s.n, df[s.term])
          \/ search'[r] = [s EXCEPT !.pos = s.pos + 1, !.hits = s.hits \cup {s.pos}]
      BY <2>3, <3>2
    <3>4. CASE search'[r] = [s EXCEPT !.pos = s.pos + 1, !.hits = s.hits \cup {s.pos}]
      <4>1. PICK G : G = s.hits \cup {s.pos}
        OBVIOUS
      <4>2. search'[r] = [s EXCEPT !.pos = s.pos + 1, !.hits = G]
        BY <3>4, <4>1
      <4>3. s.hits \subseteq G /\ s.pos \in G
        BY <4>1
      <4> QED BY <3>1, <4>2, <4>3
    <3>5. CASE search'[r] = [s EXCEPT !.pos = s.pos + 1, !.hits = s.hits]
      <4>1. s.hits \subseteq search'[r].hits
        BY <3>1, <3>5
      <4>2. s.term \notin TermsOf[tokens[s.pos]] \/ ~Positive(s.n, df[s.term])
              \/ s.pos \in search'[r].hits
        BY <3>1, <3>3, <3>4
      <4> QED BY <3>1, <3>5, <4>1, <4>2
    <3> QED BY <3>3, <3>4, <3>5
  <2>5. ASSUME ~Positive(s.n, df[s.term]) PROVE TooMany(s)
    <3>1. df[s.term] \in Nat /\ Uncounted(s.term) \in Nat
      BY <1>1 DEF IInv, TypeOK, Uncounted
    <3>2. df[s.term] + Uncounted(s.term) = Cardinality(Holding(s.term, tokens))
      BY <1>1 DEF Exact
    <3> QED BY <1>1, <2>5, <3>1, <3>2 DEF Positive, TooMany
  <2>6. TooMany(search'[r]) <=> TooMany(s)
    BY <2>4 DEF TooMany
  <2>7. \A i \in 1 .. (search'[r].pos - 1) : i \in 1 .. (s.pos - 1) \/ i = s.pos
    BY <1>1, <2>4
  <2>8. \A i \in 1 .. (search'[r].pos - 1) :
          search'[r].term \in TermsOf[tokens[i]] =>
            i \in search'[r].hits \/ TooMany(search'[r])
    <3>1. \A i \in 1 .. (s.pos - 1) :
            s.term \in TermsOf[tokens[i]] => i \in s.hits \/ TooMany(s)
      BY <1>0, <2>2 DEF Complete
    <3> QED BY <2>4, <2>5, <2>6, <2>7, <3>1
  <2>9. search'[r].pos <= Len(tokens) + 1
    BY <1>1, <2>2, <2>4
  <2> QED BY <1>0, <2>4, <2>8, <2>9 DEF Complete
<1>6. CASE ScanDone(r)
  <2>1. /\ s.at = "scan" /\ s.pos > Len(tokens)
        /\ search'[r] = [s EXCEPT !.at = "collect"]
    BY <1>0, <1>2, <1>6 DEF ScanDone
  <2>2. /\ search'[r].at = "collect" /\ search'[r].pos = s.pos /\ search'[r].hits = s.hits
        /\ search'[r].added = s.added /\ search'[r].term = s.term /\ search'[r].n = s.n
    BY <1>0, <2>1 DEF Searches
  <2>3. \A i \in 1 .. Len(tokens) : i \in 1 .. (s.pos - 1)
    BY <1>1, <2>1
  <2>4. \A c \in s.added : \E i \in 1 .. (s.pos - 1) : tokens[i] = c
    BY <1>0, <2>3 DEF Complete
  <2> QED BY <1>0, <2>1, <2>2, <2>4 DEF Complete, TooMany
<1>7. CASE Collect(r)
  <2> DEFINE F == {chunks[i] : i \in s.hits}
  <2>1. s.at = "collect" /\ s.hits \subseteq 1 .. Len(tokens)
    BY <1>0, <1>7 DEF Collect, IInv, Reader
  <2>2. s.hits \subseteq 1 .. Len(chunks)
    <3>1. Len(tokens) <= Len(chunks)
      BY FS_CardinalityType DEF IInv, Adders, Counted, TypeOK
    <3> QED BY <1>1, <2>1, <3>1 DEF IInv, TypeOK
  <2>3. search'[r] = [s EXCEPT !.at = "done", !.found = F]
    BY <1>0, <1>2, <1>7, <2>2 DEF Collect
  <2> HIDE DEF F
  <2>4. /\ search'[r].at = "done" /\ search'[r].found = F
        /\ search'[r].added = s.added /\ search'[r].term = s.term /\ search'[r].n = s.n
    BY <1>0, <2>3 DEF Searches
  <2>5. ASSUME NEW c \in s.added, c \notin F, s.term \in TermsOf[c]
        PROVE  TooMany(s)
    <3>1. PICK i \in 1 .. (s.pos - 1) : tokens[i] = c
      BY <1>0, <2>1 DEF Complete
    <3>2. i \in s.hits \/ TooMany(s)
      BY <1>0, <2>1, <2>5, <3>1 DEF Complete
    <3>3. i \in s.hits => chunks[i] = c
      BY <2>1, <3>1 DEF IInv, Adders, Aligned
    <3> QED BY <2>5, <3>2, <3>3 DEF F
  <2> QED BY <1>0, <2>4, <2>5 DEF Complete, TooMany
<1> QED BY <1>3, <1>4, <1>5, <1>6, <1>7 DEF SearchStep

LEMMA AlwaysMissing == Spec => []Missing
<1>1. Init => Missing
  <2> SUFFICES ASSUME Init PROVE Missing
    OBVIOUS
  <2>1. ASSUME NEW t \in Terms
        PROVE  df[t] + Uncounted(t) = Cardinality(Holding(t, tokens))
    <3>1. Uncounted(t) = 0
      BY DEF Init, Pending, Uncounted
    <3>2. df[t] = Cardinality(Holding(t, tokens)) /\ df[t] \in Nat
      BY HoldingFinite DEF Init
    <3> QED BY <3>1, <3>2
  <2>2. Exact
    BY <2>1 DEF Init, Exact
  <2>3. ASSUME NEW r \in Readers PROVE Complete(search[r])
    BY DEF Init, Complete
  <2> QED BY <2>2, <2>3 DEF Missing
<1>2. IInv /\ Missing /\ [Next]_vars => Missing'
  <2> SUFFICES ASSUME IInv, Missing, [Next]_vars, ~overlapped'
               PROVE  Exact' /\ \A r \in Readers : Complete(search[r])'
    BY DEF Missing
  <2>1. ASSUME NEW w \in Writers, AddStep(w)
        PROVE  Exact' /\ \A r \in Readers : Complete(search[r])'
    BY <2>1, AddFrame, AddExact, AddComplete DEF Missing
  <2>2. ASSUME UNCHANGED <<chunks, tokens, total, df, add, overlapped>>,
               \A r \in Readers : Complete(search'[r])
        PROVE  Exact' /\ \A r \in Readers : Complete(search[r])'
    <3>1. \A w \in Writers : Pending(w)' = Pending(w)
      BY <2>2 DEF Pending, Chunk
    <3>2. \A t \in Terms : Uncounted(t)' = Uncounted(t)
      BY <3>1 DEF Uncounted
    <3>3. Exact'
      BY <2>2, <3>2 DEF Missing, Exact
    <3>4. \A r \in Readers : Complete(search[r])'
      BY <2>2 DEF Complete, TooMany
    <3> QED BY <3>3, <3>4
  <2>3. ASSUME NEW r \in Readers, SearchStep(r)
        PROVE  Exact' /\ \A q \in Readers : Complete(search[q])'
    <3>1. UNCHANGED <<chunks, tokens, total, df, add, overlapped>>
      BY <2>3 DEF SearchStep, Count, Average, Scan, ScanDone, Collect, Silent, lists
    <3>2. Exact /\ \A q \in Readers : Complete(search[q])
      BY <3>1 DEF Missing
    <3>3. Complete(search'[r])
      BY <2>3, <3>1, <3>2, SearchComplete
    <3>4. \A q \in Readers : q # r => search'[q] = search[q]
      <4>1. Len(tokens) <= Len(chunks)
        BY FS_CardinalityType DEF IInv, Adders, Counted, TypeOK
      <4>2. search' = [search EXCEPT ![r] = search'[r]]
        BY <2>3, <4>1, SearchMoves DEF IInv
      <4> QED BY <4>2 DEF IInv, TypeOK
    <3>5. \A q \in Readers : Complete(search'[q])
      BY <3>2, <3>3, <3>4
    <3> QED BY <2>2, <3>1, <3>5
  <2>4. CASE UNCHANGED vars
    <3>1. UNCHANGED <<chunks, tokens, total, df, add, search, overlapped>>
      BY <2>4 DEF vars, lists
    <3> QED BY <2>2, <3>1 DEF Missing
  <2> QED BY <2>1, <2>3, <2>4 DEF Next
<1> QED BY <1>1, <1>2, Inductive, PTL DEF Spec

(* As long as no two uploads added at once, a search finds every chunk     *)
(* with its term whose add had returned before it began, unless more       *)
(* chunks hold the term by now than there were when it began.              *)
THEOREM AddedIsFound == Spec => []FindsAdded
<1>1. IInv /\ Missing => FindsAdded
  <2> SUFFICES ASSUME IInv, Missing, ~overlapped, NEW r \in Readers,
                      search[r].at = "done", NEW c \in search[r].added \ search[r].found,
                      search[r].term \in TermsOf[c]
               PROVE  Cardinality(Holding(search[r].term, chunks)) > search[r].n
    BY DEF FindsAdded
  <2> DEFINE s == search[r]
  <2>1. Cardinality(Holding(s.term, tokens)) > s.n
    BY DEF Missing, Complete, TooMany
  <2>2. chunks \in Seq(Chunks) /\ tokens \in Seq(Chunks) /\ s.n \in Nat
    BY DEF IInv, TypeOK, Searches
  <2>3. Len(tokens) <= Len(chunks)
    BY <2>2, FS_CardinalityType DEF IInv, Adders, Counted
  <2>4. Cardinality(Holding(s.term, tokens)) <= Cardinality(Holding(s.term, chunks))
    BY <2>2, <2>3, HoldingPrefix DEF IInv, Adders, Aligned
  <2>5. /\ Cardinality(Holding(s.term, tokens)) \in Nat
        /\ Cardinality(Holding(s.term, chunks)) \in Nat
    BY <2>2, HoldingFinite
  <2> QED BY <2>1, <2>2, <2>4, <2>5
<1> QED BY <1>1, Inductive, AlwaysMissing, PTL

(* As long as no two uploads added at once, whenever no add is under way   *)
(* the index counts, for every term, exactly the chunks that hold it: no   *)
(* `+=` was lost.                                                          *)
THEOREM CountsAgree ==
  Spec => [](~overlapped /\ (\A w \in Writers : ~Adding(w)) =>
               \A t \in Terms : df[t] = Cardinality(Holding(t, chunks)))
<1>1. IInv /\ Missing =>
        (~overlapped /\ (\A w \in Writers : ~Adding(w)) =>
           \A t \in Terms : df[t] = Cardinality(Holding(t, chunks)))
  <2> SUFFICES ASSUME IInv, Missing, ~overlapped, \A w \in Writers : ~Adding(w),
                      NEW t \in Terms
               PROVE  df[t] = Cardinality(Holding(t, chunks))
    OBVIOUS
  <2>1. Uncounted(t) = 0
    BY DEF Adding, Pending, Uncounted
  <2>2. df[t] = Cardinality(Holding(t, tokens))
    BY <2>1 DEF Missing, Exact, IInv, TypeOK
  <2>3. Between = {}
    BY DEF Adding, Between
  <2>4. Len(chunks) = Len(tokens)
    BY <2>3, FS_EmptySet DEF IInv, Adders, Counted, TypeOK
  <2>5. \A i \in 1 .. Len(tokens) : chunks[i] = tokens[i]
    BY DEF IInv, Adders, Aligned
  <2>6. Holding(t, chunks) = Holding(t, tokens)
    BY <2>4, <2>5 DEF Holding
  <2> QED BY <2>2, <2>6
<1> QED BY <1>1, Inductive, AlwaysMissing, PTL

=============================================================================
