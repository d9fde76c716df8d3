---------------------------- MODULE SearchIndex ----------------------------
(***************************************************************************)
(* LexicalIndex, read and written without a lock: every upload has a       *)
(* background thread that adds its chunks one after the other, every       *)
(* request a thread that searches.  add and search are split at each read  *)
(* and write of what they share, so that both halves of a `+=` show.       *)
(*                                                                         *)
(* Data: a chunk's text is the set of its terms and a length; a question   *)
(* is one term (a chunk scores if it does for one of the terms).  A score  *)
(* is zero or not; the order of the hits and the limit are left out.       *)
(***************************************************************************)
EXTENDS Integers, Sequences, FiniteSets

CONSTANTS
  Chunks, Terms,
  TermsOf,     \* [Chunks -> SUBSET Terms]
  Length,      \* [Chunks -> Nat]: number of tokens
  Seed,        \* chunks added before the first request, as a sequence
  SeedLength,  \* number of their tokens
  Writers,     \* background tasks of uploads
  Upload,      \* [Writers -> Seq(Chunks)]: the chunks of each
  Readers      \* requests that search

(* The index is never empty: build_services adds a corpus of its own.      *)
ASSUME SearchIndexAssumption ==
  /\ Terms # {}
  /\ TermsOf \in [Chunks -> SUBSET Terms]
  /\ Length \in [Chunks -> Nat]
  /\ Seed \in Seq(Chunks) /\ Seed # <<>>
  /\ SeedLength \in Nat \ {0}
  /\ Upload \in [Writers -> Seq(Chunks)]
  /\ IsFiniteSet(Writers)

VARIABLES
  chunks, tokens,  \* the two lists; of `tokens`, whose tokens they are
  total,           \* _total_len
  df,              \* [Terms -> Nat]
  add,             \* [Writers -> where its call of add is]
  search,          \* [Readers -> where its call of search is]
  overlapped       \* history: did two calls of add ever overlap

lists == <<chunks, tokens>>
vars == <<lists, total, df, add, search, overlapped>>

Elements(s) == {s[i] : i \in 1 .. Len(s)}
Holding(t, list) == {i \in 1 .. Len(list) : t \in TermsOf[list[i]]}

Adds == [at : {"idle", "tokens", "read", "write", "count", "store"},
         todo : Seq(Chunks), left : SUBSET Terms, term : Terms, value : Nat]

Searches == [at : {"done", "average", "scan", "collect", "error"},
             term : Terms, n : Nat, total : Nat, pos : Nat,
             hits : SUBSET Nat, found : SUBSET Chunks, added : SUBSET Chunks]

SomeTerm == CHOOSE t \in Terms : TRUE

Init ==
  /\ chunks = Seed /\ tokens = Seed /\ total = SeedLength
  /\ df = [t \in Terms |-> Cardinality(Holding(t, Seed))]
  /\ add = [w \in Writers |-> [at |-> "idle", todo |-> Upload[w], left |-> {},
                               term |-> SomeTerm, value |-> 0]]
  /\ search = [r \in Readers |->
                 [at |-> "done", term |-> SomeTerm, n |-> 0, total |-> 0, pos |-> 1,
                  hits |-> {}, found |-> {}, added |-> {}]]
  /\ overlapped = FALSE

-----------------------------------------------------------------------------
(* add: one call per chunk.                                                *)

Adding(w)  == add[w].at # "idle"
Chunk(w)   == Head(add[w].todo)
GoOn(w, to) == add' = [add EXCEPT ![w].at = to]

AppendChunk(w) ==
  /\ ~Adding(w) /\ add[w].todo # <<>>
  /\ chunks' = Append(chunks, Chunk(w))
  /\ GoOn(w, "tokens")
  /\ overlapped' = (overlapped \/ \E v \in Writers : Adding(v))
  /\ UNCHANGED <<tokens, total, df, search>>

(* Mutant of AppendTokens: a chunk without tokens gets no entry.           *)
AppendTokens_SkipsEmpty(w) ==
  /\ add[w].at = "tokens"
  /\ tokens' = IF TermsOf[Chunk(w)] = {} THEN tokens ELSE Append(tokens, Chunk(w))
  /\ GoOn(w, "read")
  /\ UNCHANGED <<chunks, total, df, search, overlapped>>

AppendTokens(w) ==
  /\ add[w].at = "tokens"
  /\ tokens' = Append(tokens, Chunk(w))
  /\ GoOn(w, "read")
  /\ UNCHANGED <<chunks, total, df, search, overlapped>>

(* Mutant of ReadTotal: "=" in the place of "+=".                          *)
ReadTotal_Sets(w) ==
  /\ add[w].at = "read"
  /\ add' = [add EXCEPT ![w].at = "write", ![w].value = Length[Chunk(w)]]
  /\ UNCHANGED <<lists, total, df, search, overlapped>>

(* self._total_len += len(toks)                                            *)
ReadTotal(w) ==
  /\ add[w].at = "read"
  /\ add' = [add EXCEPT ![w].at = "write", ![w].value = total + Length[Chunk(w)]]
  /\ UNCHANGED <<lists, total, df, search, overlapped>>

WriteTotal(w) ==
  /\ add[w].at = "write"
  /\ total' = add[w].value
  /\ add' = [add EXCEPT ![w].at = "count", ![w].left = TermsOf[Chunk(w)]]
  /\ UNCHANGED <<lists, df, search, overlapped>>

(* self._df[term] = self._df.get(term, 0) + 1, in any order of the terms.  *)
ReadCount(w) ==
  /\ add[w].at = "count"
  /\ \E t \in add[w].left :
       add' = [add EXCEPT ![w].at = "store", ![w].left = @ \ {t},
                          ![w].term = t, ![w].value = df[t] + 1]
  /\ UNCHANGED <<lists, total, df, search, overlapped>>

StoreCount(w) ==
  /\ add[w].at = "store"
  /\ df' = [df EXCEPT ![add[w].term] = add[w].value]
  /\ GoOn(w, "count")
  /\ UNCHANGED <<lists, total, search, overlapped>>

Return(w) ==
  /\ add[w].at = "count" /\ add[w].left = {}
  /\ add' = [add EXCEPT ![w].at = "idle", ![w].todo = Tail(@)]
  /\ UNCHANGED <<lists, total, df, search, overlapped>>

AddStep(w) ==
  \/ AppendChunk(w) \/ AppendTokens(w) \/ ReadTotal(w) \/ WriteTotal(w)
  \/ ReadCount(w) \/ StoreCount(w) \/ Return(w)

-----------------------------------------------------------------------------
(* search.                                                                 *)

Set(r, s) == search' = [search EXCEPT ![r] = s]
Silent == UNCHANGED <<lists, total, df, add, overlapped>>

(* Chunks whose add has returned.                                          *)
Added == Elements(chunks) \ {Chunk(w) : w \in {v \in Writers : Adding(v)}}

Count(r) ==
  /\ search[r].at = "done"
  /\ \E t \in Terms :
       Set(r, [at |-> "average", term |-> t, n |-> Len(chunks), total |-> 0, pos |-> 1,
               hits |-> {}, found |-> {}, added |-> Added])
  /\ Silent

(* avgdl; what counts of it is whether it is zero.                         *)
Average(r) ==
  /\ search[r].at = "average"
  /\ Set(r, [search[r] EXCEPT !.at = "scan", !.total = total])
  /\ Silent

(* Mutant of Positive: an idf without the "+ 1" under the logarithm.       *)
Positive_RareOnly(n, d) == 2 * d < n

(* idf = max(0, log((n - df + 0.5) / (df + 0.5) + 1)) > 0                  *)
Positive(n, d) == d <= n

(* One turn of the loop over _tokens, which may have grown since the call. *)
Scan(r) ==
  LET s == search[r] IN
  /\ s.at = "scan" /\ s.pos <= Len(tokens)
  /\ IF s.term \notin TermsOf[tokens[s.pos]]
     THEN Set(r, [s EXCEPT !.pos = @ + 1])
     ELSE IF s.total = 0
     THEN Set(r, [s EXCEPT !.at = "error"])
     ELSE Set(r, [s EXCEPT !.pos = @ + 1,
                           !.hits = IF Positive(s.n, df[s.term]) THEN @ \cup {s.pos} ELSE @])
  /\ Silent

ScanDone(r) ==
  /\ search[r].at = "scan" /\ search[r].pos > Len(tokens)
  /\ Set(r, [search[r] EXCEPT !.at = "collect"])
  /\ Silent

(* Mutant of Collect: positions are returned for chunks.                   *)
Collect_Positions(r) ==
  LET s == search[r] IN
  /\ s.at = "collect"
  /\ Set(r, [s EXCEPT !.at = "done", !.found = s.hits])
  /\ Silent

(* _to_candidate(self._chunks[i]) for every hit.                           *)
Collect(r) ==
  LET s == search[r] IN
  /\ s.at = "collect"
  /\ IF s.hits \subseteq 1 .. Len(chunks)
     THEN Set(r, [s EXCEPT !.at = "done", !.found = {chunks[i] : i \in s.hits}])
     ELSE Set(r, [s EXCEPT !.at = "error"])
  /\ Silent

SearchStep(r) == Count(r) \/ Average(r) \/ Scan(r) \/ ScanDone(r) \/ Collect(r)

Next ==
  \/ \E w \in Writers : AddStep(w)
  \/ \E r \in Readers : SearchStep(r)

Spec == Init /\ [][Next]_vars

-----------------------------------------------------------------------------
(* Properties.                                                             *)

TypeOK ==
  /\ chunks \in Seq(Chunks) /\ tokens \in Seq(Chunks)
  /\ total \in Nat
  /\ df \in [Terms -> Nat]
  /\ add \in [Writers -> Adds]
  /\ search \in [Readers -> Searches]
  /\ overlapped \in BOOLEAN

(* A search never divides by zero and never looks for a chunk that is not  *)
(* there, whichever adds are under way and however they overlap.           *)
NeverFails == \A r \in Readers : search[r].at # "error"

(* As long as no two uploads added chunks at once, a search returns only   *)
(* chunks that hold the term it was asked for: text, ids and scores of     *)
(* different chunks are not mixed up.                                      *)
HitsMatch ==
  ~overlapped =>
    \A r \in Readers : \A c \in search[r].found : search[r].term \in TermsOf[c]

(* And it misses a chunk that was there before it began only when more     *)
(* chunks hold the term by now than there were chunks at all: the idf of   *)
(* a term that is in every chunk turns zero if one is added meanwhile.     *)
FindsAdded ==
  ~overlapped =>
    \A r \in Readers :
      search[r].at = "done" =>
        \A c \in search[r].added \ search[r].found :
          search[r].term \in TermsOf[c] =>
            Cardinality(Holding(search[r].term, chunks)) > search[r].n

=============================================================================
