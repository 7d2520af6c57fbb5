------------------------ MODULE AccountLoaderProofs -------------------------
(***************************************************************************)
(* Theorems about AccountLoader for every set of addresses and goroutines, *)
(* every chunk size and every list of addresses a call may ask for.        *)
(*                                                                         *)
(* The argument: the cache only grows, and it maps an address to an answer *)
(* for that address.  So an address found in the cache while a call scans  *)
(* is still there when the call reads its answer back, and all others are  *)
(* in missing, each once and none held when the call began.  infos answers *)
(* missing position by position, through short batches and chunks alike;   *)
(* the numbers of requests are bounded by the length of missing, which is  *)
(* at most the number of addresses that are new to the call.               *)
(***************************************************************************)
EXTENDS AccountLoader, FiniteSetTheorems, SequenceTheorems, TLAPS

\* What the cache holds for an address is an answer for it, and one that says
\* "missing" was confirmed.
CacheInv ==
  \A a \in Address : cache[a] # Nil =>
    /\ cache[a].address = a
    /\ Exists(cache[a]) \/ a \in confirmed

\* What was held when a call began is held still.
GrowthInv(c) == \A a \in Address : before[c][a] # Nil => cache[a] # Nil

\* The addresses to fetch are addresses of the call that were new to it.
MissingInv(c) ==
  \A i \in 1 .. Len(missing[c]) :
    /\ \E j \in 1 .. Len(req[c]) : missing[c][i] = req[c][j]
    /\ before[c][missing[c][i]] = Nil

\* The first n addresses of the call are held or will be fetched.
Covered(c, n) ==
  \A i \in 1 .. n : cache[req[c][i]] # Nil \/ Contains(missing[c], req[c][i])

CoverInv(c) ==
  /\ pc[c] = "scan" => k[c] \in 1 .. Len(req[c]) + 1 /\ Covered(c, k[c] - 1)
  /\ pc[c] \in {"fetch", "confirm", "store"} => Covered(c, Len(req[c]))
  /\ pc[c] = "read" => \A i \in 1 .. Len(req[c]) : cache[req[c][i]] # Nil

\* infos and out are answers for the addresses at their positions.
AnswerInv(c) ==
  /\ pc[c] \in {"look", "scan"} => infos[c] = <<>>
  /\ \A i \in 1 .. Len(infos[c]) : infos[c][i].address = missing[c][i]
  /\ pc[c] = "fetch" => Len(infos[c]) < Len(missing[c])
  /\ pc[c] \in {"confirm", "store"} => Len(infos[c]) = Len(missing[c])
  /\ pc[c] = "look" => Len(req[c]) = 1
  /\ Len(out[c]) <= Len(req[c])
  /\ \A i \in 1 .. Len(out[c]) : out[c][i].address = req[c][i]
  /\ pc[c] = "done" => Len(out[c]) = Len(req[c])

\* The fetched accounts before k were found, or confirmed not to exist.
ConfirmInv(c) ==
  /\ pc[c] \in {"look", "fetch"} => k[c] = 1
  /\ pc[c] = "confirm" => k[c] \in 1 .. Len(missing[c]) + 1
  /\ \A i \in 1 .. Len(missing[c]) :
       pc[c] = "store" \/ (pc[c] = "confirm" /\ i < k[c]) =>
         Exists(infos[c][i]) \/ missing[c][i] \in confirmed

\* Requests are paid for by addresses to fetch.
CostInv(c) ==
  /\ pc[c] \in {"look", "scan"} => batches[c] = 0
  /\ pc[c] = "fetch" => batches[c] * ChunkSize = Len(infos[c])
  /\ pc[c] = "fetch" /\ ChunkSize = 0 => batches[c] = 0
  /\ IF ChunkSize = 0 THEN batches[c] <= 1
     ELSE batches[c] * ChunkSize < Len(missing[c]) + ChunkSize
  /\ pc[c] \in {"look", "scan", "fetch"} => singles[c] = 0
  /\ pc[c] = "confirm" => singles[c] < k[c]
  /\ singles[c] <= Len(missing[c])

CallInv(c) ==
  /\ Distinct(missing[c]) /\ Len(infos[c]) <= Len(missing[c])
  /\ GrowthInv(c)
  /\ MissingInv(c)
  /\ CoverInv(c)
  /\ AnswerInv(c)
  /\ ConfirmInv(c)
  /\ CostInv(c)

IInv == TypeOK /\ CacheInv /\ \A c \in Caller : CallInv(c)
----------------------------------------------------------------------------
(* What the operators of the model return.                                 *)

\* The chain answers any address with an AccountInfo for that address.
LEMMA ReadAnswers ==
  ASSUME TypeOK, NEW a \in Address
  PROVE  /\ Read(a) \in Info /\ Read(a).address = a
         /\ NotFound(a) \in Info /\ NotFound(a).address = a
BY BoundAssumption DEF TypeOK, Read, NotFound, Info

\* The elements of a sequence are finitely many, at most its length.
LEMMA RangeFinite ==
  ASSUME NEW S, NEW s \in Seq(S)
  PROVE  /\ IsFiniteSet(ToSet(s))
         /\ Cardinality(ToSet(s)) \in Nat
         /\ Cardinality(ToSet(s)) <= Len(s)
<1> DEFINE n == Len(s)
<1>0. n \in Nat
  OBVIOUS
<1>1. IsFiniteSet(1 .. n) /\ Cardinality(1 .. n) = n
  <2> HIDE DEF n
  <2>1. QED
    BY <1>0, FS_Interval
<1>2. s \in Surjection(1 .. Len(s), ToSet(s))
  BY DEF Surjection, ToSet
<1>3. QED
  BY <1>1, <1>2, FS_Surjection, FS_CardinalityType

\* A sequence of distinct elements stays one when a new element is added.
LEMMA DistinctAppend ==
  ASSUME NEW S, NEW s \in Seq(S), NEW e \in S, Distinct(s), ~ Contains(s, e)
  PROVE  Distinct(Append(s, e))
<1>1. ToSet(Append(s, e)) = ToSet(s) \cup {e} /\ e \notin ToSet(s)
  <2>1. e \notin ToSet(s)
    BY DEF Contains, ToSet
  <2>2. ASSUME NEW x \in ToSet(Append(s, e)) PROVE x \in ToSet(s) \cup {e}
    BY DEF ToSet
  <2>3. ASSUME NEW x \in ToSet(s) \cup {e} PROVE x \in ToSet(Append(s, e))
    <3>1. CASE x = e
      <4>1. Len(s) + 1 \in DOMAIN Append(s, e) /\ Append(s, e)[Len(s) + 1] = e
        OBVIOUS
      <4>2. QED
        BY <3>1, <4>1 DEF ToSet
    <3>2. CASE x \in ToSet(s)
      <4>1. PICK i \in DOMAIN s : s[i] = x
        BY <3>2 DEF ToSet
      <4>2. i \in DOMAIN Append(s, e) /\ Append(s, e)[i] = x
        BY <4>1
      <4>3. QED
        BY <4>2 DEF ToSet
    <3>3. QED
      BY <2>3, <3>1, <3>2
  <2>4. QED
    BY <2>1, <2>2, <2>3
<1>2. Cardinality(ToSet(Append(s, e))) = Cardinality(ToSet(s)) + 1
  BY <1>1, RangeFinite, FS_AddElement
<1>3. QED
  BY <1>2 DEF Distinct

\* A stretch of a sequence, element by element.
LEMMA Stretch ==
  ASSUME NEW S, NEW s \in Seq(S), NEW m \in Nat \ {0}, NEW n \in Nat, n <= Len(s)
  PROVE  /\ SubSeq(s, m, n) \in Seq(S)
         /\ Len(SubSeq(s, m, n)) = IF m <= n THEN n - m + 1 ELSE 0
         /\ \A i \in 1 .. n - m + 1 : SubSeq(s, m, n)[i] = s[m + i - 1]
<1>1. \A i \in m .. n : s[i] \in S
  OBVIOUS
<1>2. m \in Int /\ n \in Int
  OBVIOUS
<1>3. QED
  BY <1>1, <1>2, SubSeqProperties

\* How long the next piece of q addresses is when p are done and w is the limit.
PieceSize(p, q, w) == IF w = 0 \/ w > q - p THEN q - p ELSE w

LEMMA PieceFits ==
  ASSUME NEW p \in Nat, NEW q \in Nat, p < q, NEW w \in Nat
  PROVE  /\ PieceSize(p, q, w) \in Nat \ {0}
         /\ p + PieceSize(p, q, w) <= q
         /\ LET last == IF w = 0 THEN q ELSE p + 1 + w - 1
            IN  p + PieceSize(p, q, w) = IF last > q THEN q ELSE last
BY DEF PieceSize

\* A chunk is the next piece of missing, as long as the chunk size allows.
LEMMA ChunkProperties ==
  ASSUME TypeOK, NEW c \in Caller, Len(infos[c]) < Len(missing[c])
  PROVE  LET size == PieceSize(Len(infos[c]), Len(missing[c]), ChunkSize)
         IN  /\ Chunk(c) \in Seq(Address)
             /\ Len(Chunk(c)) = size
             /\ \A i \in 1 .. size : Chunk(c)[i] = missing[c][Len(infos[c]) + i]
<1> DEFINE p == Len(infos[c])
           q == Len(missing[c])
           size == PieceSize(p, q, ChunkSize)
<1>1. missing[c] \in Seq(Address) /\ p \in Nat /\ q \in Nat /\ p < q
  BY DEF TypeOK
<1>2. Chunk(c) = LET last == IF ChunkSize = 0 THEN q ELSE p + 1 + ChunkSize - 1
                 IN  SubSeq(missing[c], p + 1, IF last > q THEN q ELSE last)
  BY DEF Chunk
<1>3. q = Len(missing[c])
  OBVIOUS
<1> SUFFICES /\ Chunk(c) \in Seq(Address)
             /\ Len(Chunk(c)) = size
             /\ \A i \in 1 .. size : Chunk(c)[i] = missing[c][p + i]
  OBVIOUS
<1> HIDE DEF p, q
<1>4. size \in Nat \ {0} /\ p + size <= q
  BY <1>1, PieceFits, BoundAssumption
<1>5. Chunk(c) = SubSeq(missing[c], p + 1, p + size)
  <2> DEFINE last == IF ChunkSize = 0 THEN q ELSE p + 1 + ChunkSize - 1
  <2>1. p + size = IF last > q THEN q ELSE last
    BY <1>1, PieceFits, BoundAssumption
  <2> HIDE DEF size
  <2>2. QED
    BY <1>2, <2>1, Zenon
<1> HIDE DEF size
<1> DEFINE m == p + 1
           n == p + size
<1>6. m \in Nat \ {0} /\ n \in Nat /\ n <= q /\ m <= n /\ n - m + 1 = size
  BY <1>1, <1>4
<1>7. \A i \in 1 .. size : m + i - 1 = p + i
  BY <1>1, <1>4
<1>8. Chunk(c) = SubSeq(missing[c], m, n)
  BY <1>5
<1> HIDE DEF m, n
<1>9. /\ Chunk(c) \in Seq(Address)
      /\ Len(Chunk(c)) = IF m <= n THEN n - m + 1 ELSE 0
      /\ \A i \in 1 .. n - m + 1 : Chunk(c)[i] = missing[c][m + i - 1]
  BY <1>1, <1>3, <1>6, <1>8, Stretch
<1>10. QED
  BY <1>6, <1>7, <1>9
----------------------------------------------------------------------------
(* The invariant holds at first, and every step keeps the types.           *)

\* Base case: a client that has just been made satisfies the invariant.
LEMMA InitIInv == Init => IInv
<1> SUFFICES ASSUME Init PROVE IInv
  OBVIOUS
<1>1. Distinct(<<>>)
  BY FS_EmptySet DEF Distinct, ToSet
<1>2. TypeOK
  BY <1>1, BoundAssumption DEF Init, TypeOK
<1>3. CacheInv
  BY DEF Init, CacheInv
<1>4. ASSUME NEW c \in Caller PROVE CallInv(c)
  BY <1>1, BoundAssumption DEF Init, CallInv, GrowthInv, MissingInv, CoverInv,
     AnswerInv, ConfirmInv, CostInv
<1>5. QED
  BY <1>2, <1>3, <1>4 DEF IInv

\* Answers for adjacent pieces of a list of addresses make answers for the list.
LEMMA AnswersConcat ==
  ASSUME NEW s \in Seq(Info), NEW t \in Seq(Info), NEW m \in Seq(Address),
         \A i \in 1 .. Len(s) : s[i].address = m[i],
         \A i \in 1 .. Len(t) : t[i].address = m[Len(s) + i]
  PROVE  /\ s \o t \in Seq(Info)
         /\ Len(s \o t) = Len(s) + Len(t)
         /\ \A i \in 1 .. Len(s \o t) : (s \o t)[i].address = m[i]
<1>1. s \o t \in Seq(Info) /\ Len(s \o t) = Len(s) + Len(t)
  BY ConcatProperties
<1>2. Len(s) \in Nat /\ Len(t) \in Nat
  OBVIOUS
<1> SUFFICES ASSUME NEW i \in 1 .. Len(s) + Len(t)
             PROVE  (s \o t)[i].address = m[i]
  BY <1>1
<1>3. (s \o t)[i] = IF i <= Len(s) THEN s[i] ELSE t[i - Len(s)]
  BY ConcatProperties
<1>4. CASE i <= Len(s)
  BY <1>2, <1>3, <1>4
<1>5. CASE i > Len(s)
  <2>1. i - Len(s) \in 1 .. Len(t) /\ Len(s) + (i - Len(s)) = i
    BY <1>2, <1>5
  <2>2. (s \o t)[i] = t[i - Len(s)]
    BY <1>2, <1>3, <1>5
  <2>3. t[i - Len(s)].address = m[Len(s) + (i - Len(s))]
    BY <2>1
  <2>4. QED
    BY <2>1, <2>2, <2>3
<1>6. QED
  BY <1>2, <1>4, <1>5

\* The answers of a chunk follow the answers of the chunks before it, each an
\* answer for the address at its position.
LEMMA Fetched ==
  ASSUME IInv, NEW c \in Caller, FetchChunk(c)
  PROVE  /\ infos' = [infos EXCEPT ![c] = infos'[c]]
         /\ infos'[c] \in Seq(Info)
         /\ Len(infos'[c]) = Len(infos[c])
                               + PieceSize(Len(infos[c]), Len(missing[c]), ChunkSize)
         /\ \A i \in 1 .. Len(infos'[c]) : infos'[c][i].address = missing[c][i]
<1> DEFINE size == PieceSize(Len(infos[c]), Len(missing[c]), ChunkSize)
           chunk == Chunk(c)
<1>1. /\ infos[c] \in Seq(Info) /\ missing[c] \in Seq(Address)
      /\ infos \in [Caller -> Seq(Info)]
      /\ Len(infos[c]) < Len(missing[c])
      /\ Len(infos[c]) \in Nat /\ Len(missing[c]) \in Nat
  BY DEF IInv, TypeOK, CallInv, AnswerInv, FetchChunk
<1>2. size \in Nat
  BY <1>1, PieceFits, BoundAssumption
<1>3. /\ chunk \in Seq(Address) /\ Len(chunk) = size
      /\ \A i \in 1 .. size : chunk[i] = missing[c][Len(infos[c]) + i]
  BY <1>1, ChunkProperties DEF IInv
<1>4. PICK n \in 0 .. Len(chunk) :
        infos' = [infos EXCEPT ![c] =
                    @ \o [i \in 1 .. Len(chunk) |->
                            IF i <= n THEN Read(chunk[i]) ELSE NotFound(chunk[i])]]
  BY DEF FetchChunk
<1> DEFINE answers == [i \in 1 .. Len(chunk) |->
                         IF i <= n THEN Read(chunk[i]) ELSE NotFound(chunk[i])]
<1>5. infos'[c] = infos[c] \o answers /\ infos' = [infos EXCEPT ![c] = infos'[c]]
  BY <1>1, <1>4
<1> HIDE DEF chunk, size
<1>6. ASSUME NEW i \in 1 .. Len(chunk)
      PROVE  answers[i] \in Info /\ answers[i].address = missing[c][Len(infos[c]) + i]
  <2>1. chunk[i] \in Address /\ chunk[i] = missing[c][Len(infos[c]) + i]
    BY <1>3
  <2>2. QED
    BY <2>1, ReadAnswers DEF IInv
<1>7. answers \in Seq(Info) /\ Len(answers) = Len(chunk)
  BY <1>2, <1>3, <1>6
<1> HIDE DEF answers
<1>8. \A i \in 1 .. Len(infos[c]) : infos[c][i].address = missing[c][i]
  BY DEF IInv, CallInv, AnswerInv
<1>9. \A i \in 1 .. Len(answers) : answers[i].address = missing[c][Len(infos[c]) + i]
  BY <1>6, <1>7
<1> DEFINE all == infos[c] \o answers
<1>10. /\ all \in Seq(Info)
       /\ Len(all) = Len(infos[c]) + Len(answers)
       /\ \A i \in 1 .. Len(all) : all[i].address = missing[c][i]
  BY <1>1, <1>7, <1>8, <1>9, AnswersConcat
<1>11. infos'[c] = all
  BY <1>5
<1> HIDE DEF all
<1>12. QED
  BY <1>3, <1>5, <1>7, <1>10, <1>11 DEF size
----------------------------------------------------------------------------
(* Every action keeps the invariant.                                       *)

\* What belongs to one call.
CallState(c) ==
  <<pc[c], req[c], k[c], missing[c], infos[c], out[c], before[c], batches[c],
    singles[c]>>

\* The types of what belongs to one call.
CallTypes(c) ==
  /\ pc[c] \in {"idle", "look", "scan", "fetch", "confirm", "store", "read",
                "done", "failed"}
  /\ req[c] \in Seq(Address)
  /\ k[c] \in Nat
  /\ missing[c] \in Seq(Address)
  /\ infos[c] \in Seq(Info)
  /\ out[c] \in Seq(Info)
  /\ before[c] \in [Address -> Info \cup {Nil}]
  /\ batches[c] \in Nat
  /\ singles[c] \in Nat

LEMMA TypesOfCall ==
  ASSUME IInv, NEW c \in Caller
  PROVE  CallTypes(c)
BY DEF IInv, TypeOK, CallTypes

\* Nothing that is known of a call is lost while the cache and the confirmed
\* addresses grow.
LEMMA CallFrame ==
  ASSUME IInv, NEW d \in Caller, UNCHANGED CallState(d),
         \A a \in Address : cache[a] # Nil => cache'[a] # Nil,
         confirmed \subseteq confirmed'
  PROVE  CallInv(d)'
<1> USE DEF CallState
<1>1. CallInv(d) /\ CallTypes(d)
  BY TypesOfCall DEF IInv
<1>2. GrowthInv(d)' /\ MissingInv(d)' /\ AnswerInv(d)' /\ CostInv(d)'
  BY <1>1 DEF CallInv, GrowthInv, MissingInv, AnswerInv, CostInv
<1>3. CoverInv(d)'
  <2>1. \A i \in 1 .. Len(req[d]) : req[d][i] \in Address
    BY <1>1 DEF CallTypes
  <2>2. \A i \in 1 .. Len(req[d]) :
          /\ cache[req[d][i]] # Nil => cache'[req'[d][i]] # Nil
          /\ Contains(missing[d], req[d][i]) => Contains(missing'[d], req'[d][i])
    BY <2>1
  <2>3. ASSUME NEW n \in Nat, n <= Len(req[d]), Covered(d, n)
        PROVE  Covered(d, n)'
    BY <2>2, <2>3, <1>1 DEF Covered, CallTypes
  <2>4. pc[d] = "scan" => k[d] - 1 \in Nat /\ k[d] - 1 <= Len(req[d])
    BY <1>1 DEF CallInv, CoverInv, CallTypes
  <2>5. pc'[d] = "scan" => k'[d] \in 1 .. Len(req'[d]) + 1 /\ Covered(d, k[d] - 1)'
    BY <1>1, <2>3, <2>4 DEF CallInv, CoverInv
  <2>6. Len(req[d]) \in Nat
    BY <1>1 DEF CallTypes
  <2>7. pc'[d] \in {"fetch", "confirm", "store"} => Covered(d, Len(req[d]))'
    BY <1>1, <2>3, <2>6 DEF CallInv, CoverInv
  <2>8. pc'[d] = "read" => \A i \in 1 .. Len(req'[d]) : cache'[req'[d][i]] # Nil
    BY <1>1, <2>2 DEF CallInv, CoverInv
  <2>9. QED
    BY <2>5, <2>7, <2>8 DEF CoverInv, Covered
<1>4. ConfirmInv(d)'
  BY <1>1 DEF CallInv, ConfirmInv
<1>5. QED
  BY <1>1, <1>2, <1>3, <1>4 DEF CallInv

\* A step that concerns no call but c's.
Owns(c) ==
  /\ pc' = [pc EXCEPT ![c] = pc'[c]]
  /\ req' = [req EXCEPT ![c] = req'[c]]
  /\ k' = [k EXCEPT ![c] = k'[c]]
  /\ missing' = [missing EXCEPT ![c] = missing'[c]]
  /\ infos' = [infos EXCEPT ![c] = infos'[c]]
  /\ out' = [out EXCEPT ![c] = out'[c]]
  /\ before' = [before EXCEPT ![c] = before'[c]]
  /\ batches' = [batches EXCEPT ![c] = batches'[c]]
  /\ singles' = [singles EXCEPT ![c] = singles'[c]]

\* So a step of c keeps the invariant if it keeps what concerns c, the cache
\* and the counters.
LEMMA OwnStep ==
  ASSUME IInv, NEW c \in Caller, Owns(c),
         UNCHANGED chain, accounts' \in Nat, begun' \in 0 .. MaxCalls,
         cache' \in [Address -> Info \cup {Nil}],
         \A a \in Address : cache[a] # Nil => cache'[a] # Nil,
         confirmed \subseteq confirmed', confirmed' \subseteq Address,
         CacheInv', CallTypes(c)', CallInv(c)'
  PROVE  IInv'
<1>1. ASSUME NEW d \in Caller PROVE CallInv(d)'
  <2>1. CASE d = c
    BY <2>1
  <2>2. CASE d # c
    <3>1. UNCHANGED CallState(d)
      BY <2>2 DEF CallState, Owns, IInv, TypeOK
    <3>2. QED
      BY <3>1, CallFrame
  <2>3. QED
    BY <2>1, <2>2
<1>2. TypeOK'
  <2>1. slot' \in 1 .. MaxSlot /\ live' \subseteq Address
    BY DEF IInv, TypeOK, chain
  <2>2. pc' \in [Caller -> {"idle", "look", "scan", "fetch", "confirm", "store",
                            "read", "done", "failed"}]
    BY DEF IInv, TypeOK, Owns, CallTypes
  <2>3. req' \in [Caller -> Seq(Address)] /\ missing' \in [Caller -> Seq(Address)]
    BY DEF IInv, TypeOK, Owns, CallTypes
  <2>4. k' \in [Caller -> Nat] /\ batches' \in [Caller -> Nat]
        /\ singles' \in [Caller -> Nat]
    BY DEF IInv, TypeOK, Owns, CallTypes
  <2>5. infos' \in [Caller -> Seq(Info)] /\ out' \in [Caller -> Seq(Info)]
    BY DEF IInv, TypeOK, Owns, CallTypes
  <2>6. before' \in [Caller -> [Address -> Info \cup {Nil}]]
    BY DEF IInv, TypeOK, Owns, CallTypes
  <2>7. \A d \in Caller : Distinct(missing'[d]) /\ Len(infos'[d]) <= Len(missing'[d])
    BY <1>1 DEF CallInv
  <2>8. QED
    BY <2>1, <2>2, <2>3, <2>4, <2>5, <2>6, <2>7 DEF TypeOK
<1>3. QED
  BY <1>1, <1>2 DEF IInv

\* The chain moves on without touching the client.
LEMMA AdvanceStep ==
  ASSUME IInv, Advance
  PROVE  IInv'
<1> USE DEF IInv, Advance, shared, local, history
<1>1. TypeOK'
  BY BoundAssumption DEF TypeOK
<1>2. CacheInv'
  BY DEF CacheInv
<1>3. ASSUME NEW c \in Caller PROVE CallInv(c)'
  BY CallFrame DEF CallState
<1>4. QED
  BY <1>1, <1>2, <1>3

LEMMA Nothing ==
  Distinct(<<>>) /\ <<>> \in Seq(Address) /\ <<>> \in Seq(Info) /\ Len(<<>>) = 0
<1>1. Distinct(<<>>)
  BY FS_EmptySet DEF Distinct, ToSet
<1>2. QED
  BY <1>1

\* A call begins, on whatever the cache holds by then.
LEMMA BeginStep ==
  ASSUME IInv, NEW c \in Caller, NEW r \in Seq(Address), NEW kind,
         kind = "account" => Len(r) = 1, BeginCall(c, r, kind)
  PROVE  IInv'
<1>1. /\ req'[c] = r /\ k'[c] = 1 /\ missing'[c] = <<>> /\ infos'[c] = <<>>
      /\ out'[c] = <<>> /\ before'[c] = cache /\ batches'[c] = 0 /\ singles'[c] = 0
      /\ cache' = cache /\ confirmed' = confirmed /\ UNCHANGED chain
  BY DEF IInv, TypeOK, BeginCall
<1>2. /\ pc'[c] \in {"done", "look", "scan"}
      /\ pc'[c] = "done" => r = <<>>
      /\ pc'[c] = "look" => kind = "account"
      /\ pc' = [pc EXCEPT ![c] = pc'[c]]
  <2>1. pc'[c] = IF r = <<>> THEN "done"
                 ELSE IF kind = "account" THEN "look" ELSE "scan"
    BY DEF IInv, TypeOK, BeginCall
  <2>2. pc' = [pc EXCEPT ![c] = pc'[c]]
    BY <2>1 DEF IInv, TypeOK, BeginCall
  <2>3. QED
    BY <2>1, <2>2
<1>3. Owns(c)
  BY <1>1, <1>2 DEF Owns, BeginCall
<1>4. accounts' \in Nat /\ begun' \in 0 .. MaxCalls
  BY BoundAssumption DEF IInv, TypeOK, BeginCall
<1>5. CallTypes(c)'
  BY <1>1, <1>2, Nothing DEF CallTypes, IInv, TypeOK
<1>6. CallInv(c)'
  <2>1. GrowthInv(c)' /\ MissingInv(c)' /\ AnswerInv(c)' /\ ConfirmInv(c)'
    BY <1>1, <1>2 DEF GrowthInv, MissingInv, AnswerInv, ConfirmInv
  <2>2. CoverInv(c)'
    BY <1>1, <1>2 DEF CoverInv, Covered
  <2>3. CostInv(c)'
    BY <1>1, <1>2, BoundAssumption DEF CostInv
  <2>4. QED
    BY <1>1, <2>1, <2>2, <2>3, Nothing DEF CallInv
<1>7. CacheInv'
  BY <1>1 DEF IInv, CacheInv
<1>8. QED
  BY <1>1, <1>3, <1>4, <1>5, <1>6, <1>7, OwnStep DEF IInv, TypeOK

\* What a step that leaves the chain, the cache and the counters alone has to show.
LEMMA PrivateStep ==
  ASSUME IInv, NEW c \in Caller, Owns(c), UNCHANGED <<chain, shared, confirmed>>,
         CallTypes(c)', CallInv(c)'
  PROVE  IInv'
<1>1. CacheInv'
  BY DEF IInv, CacheInv, shared
<1>2. QED
  BY <1>1, OwnStep DEF IInv, TypeOK, shared

\* What the cache holds for an address is an AccountInfo for it.
LEMMA Held ==
  ASSUME IInv, NEW a \in Address, cache[a] # Nil
  PROVE  cache[a] \in Info /\ cache[a].address = a
BY DEF IInv, TypeOK, CacheInv

LEMMA LookStep ==
  ASSUME IInv, NEW c \in Caller, Look(c)
  PROVE  IInv'
<1> DEFINE a == req[c][1]
<1>1. CallInv(c) /\ CallTypes(c)
  BY TypesOfCall DEF IInv
<1>2. /\ pc[c] = "look" /\ Len(req[c]) = 1 /\ a \in Address /\ k[c] = 1
      /\ infos[c] = <<>> /\ batches[c] = 0 /\ singles[c] = 0
  BY <1>1 DEF Look, CallInv, CallTypes, AnswerInv, ConfirmInv, CostInv
<1>3. /\ UNCHANGED <<chain, shared, confirmed>>
      /\ req' = req /\ k' = k /\ missing' = missing /\ infos' = infos
      /\ before' = before /\ batches' = batches /\ singles' = singles
      /\ cache' = cache
  BY DEF Look, history, shared
<1>4. CASE cache[a] # Nil
  <2>1. out'[c] = <<cache[a]>> /\ pc'[c] = "done" /\ Owns(c)
    BY <1>3, <1>4 DEF Look, Owns, IInv, TypeOK
  <2>2. cache[a] \in Info /\ cache[a].address = a
    BY <1>2, <1>4, Held
  <2>3. <<cache[a]>> \in Seq(Info) /\ Len(<<cache[a]>>) = 1 /\ <<cache[a]>>[1] = cache[a]
    BY <2>2
  <2>4. CallTypes(c)'
    BY <1>1, <1>3, <2>1, <2>3 DEF CallTypes
  <2>5. AnswerInv(c)'
    <3>1. \A i \in 1 .. Len(out'[c]) : i = 1
      BY <2>1, <2>3
    <3>2. QED
      BY <1>2, <1>3, <2>1, <2>2, <2>3, <3>1 DEF AnswerInv
  <2>6. CallInv(c)'
    BY <1>1, <1>2, <1>3, <2>1, <2>5
       DEF CallInv, GrowthInv, MissingInv, CoverInv, ConfirmInv, CostInv
  <2>7. QED
    BY <1>3, <2>1, <2>4, <2>6, PrivateStep
<1>5. CASE cache[a] = Nil
  <2>1. out' = out /\ pc'[c] = "scan" /\ Owns(c)
    BY <1>3, <1>5 DEF Look, Owns, IInv, TypeOK
  <2>2. CallTypes(c)'
    BY <1>1, <1>3, <2>1 DEF CallTypes
  <2>3. CoverInv(c)'
    BY <1>2, <1>3, <2>1 DEF CoverInv, Covered
  <2>4. CallInv(c)'
    BY <1>1, <1>2, <1>3, <2>1, <2>3
       DEF CallInv, GrowthInv, MissingInv, AnswerInv, ConfirmInv, CostInv
  <2>5. QED
    BY <1>3, <2>1, <2>2, <2>4, PrivateStep
<1>6. QED
  BY <1>4, <1>5

\* An address that is neither held nor listed is added to those to be fetched.
LEMMA ScanStep ==
  ASSUME IInv, NEW c \in Caller, Scan(c)
  PROVE  IInv'
<1>1. CallInv(c) /\ CallTypes(c)
  BY TypesOfCall DEF IInv
<1>2. /\ pc[c] = "scan" /\ k[c] \in 1 .. Len(req[c]) + 1 /\ Covered(c, k[c] - 1)
      /\ infos[c] = <<>> /\ batches[c] = 0 /\ singles[c] = 0
      /\ missing[c] \in Seq(Address) /\ req[c] \in Seq(Address)
      /\ Len(missing[c]) \in Nat /\ Len(req[c]) \in Nat
  BY <1>1 DEF Scan, CallInv, CallTypes, CoverInv, AnswerInv, CostInv
<1>3. /\ UNCHANGED <<chain, shared, confirmed>>
      /\ req' = req /\ infos' = infos /\ out' = out
      /\ before' = before /\ batches' = batches /\ singles' = singles
      /\ cache' = cache
  BY DEF Scan, history, shared
<1>4. CASE k[c] <= Len(req[c])
  <2> DEFINE a == req[c][k[c]]
  <2>1. a \in Address
    BY <1>2, <1>4
  <2>2. pc' = pc /\ k' = [k EXCEPT ![c] = k[c] + 1] /\ k'[c] = k[c] + 1
        /\ missing' = IF cache[a] # Nil \/ Contains(missing[c], a) THEN missing
                      ELSE [missing EXCEPT ![c] = Append(missing[c], a)]
    BY <1>4 DEF Scan, IInv, TypeOK
  <2>3. \/ /\ cache[a] # Nil \/ Contains(missing[c], a)
           /\ missing' = missing /\ missing'[c] = missing[c]
        \/ /\ cache[a] = Nil /\ ~ Contains(missing[c], a)
           /\ missing' = [missing EXCEPT ![c] = Append(missing[c], a)]
           /\ missing'[c] = Append(missing[c], a)
    BY <2>2 DEF IInv, TypeOK
  <2>4. Owns(c)
    BY <1>3, <2>2, <2>3 DEF Owns, IInv, TypeOK
  <2>5. missing'[c] \in Seq(Address) /\ Distinct(missing'[c])
    <3>1. Distinct(missing[c])
      BY <1>1 DEF CallInv
    <3>2. Append(missing[c], a) \in Seq(Address)
      BY <1>2, <2>1
    <3>3. ~ Contains(missing[c], a) => Distinct(Append(missing[c], a))
      <4> HIDE DEF a
      <4>1. QED
        BY <1>2, <2>1, <3>1, DistinctAppend
    <3>4. QED
      BY <1>2, <2>3, <3>1, <3>2, <3>3
  <2>6. /\ Len(missing'[c]) \in Nat /\ Len(missing'[c]) >= Len(missing[c])
        /\ Len(missing'[c]) <= Len(missing[c]) + 1
        /\ \A i \in 1 .. Len(missing[c]) : missing'[c][i] = missing[c][i]
        /\ \A i \in 1 .. Len(missing'[c]) : i > Len(missing[c]) => missing'[c][i] = a /\ cache[a] = Nil
    <3>1. CASE missing'[c] = missing[c]
      BY <1>2, <3>1
    <3>2. CASE missing'[c] = Append(missing[c], a) /\ cache[a] = Nil
      BY <1>2, <2>1, <3>2, AppendProperties
    <3>3. QED
      BY <2>3, <3>1, <3>2
  <2>7. \A x : Contains(missing[c], x) => Contains(missing'[c], x)
    BY <1>2, <2>6 DEF Contains
  <2>8. cache[a] # Nil \/ Contains(missing'[c], a)
    BY <1>2, <2>1, <2>3 DEF Contains
  <2>9. CallTypes(c)'
    <3>1. k'[c] \in Nat
      BY <1>2, <2>2
    <3>2. QED
      BY <1>1, <1>3, <2>2, <2>5, <3>1 DEF CallTypes
  <2>10. MissingInv(c)'
    <3> SUFFICES ASSUME NEW i \in 1 .. Len(missing'[c])
                 PROVE  /\ \E j \in 1 .. Len(req[c]) : missing'[c][i] = req[c][j]
                        /\ before[c][missing'[c][i]] = Nil
      BY <1>3 DEF MissingInv
    <3>1. CASE i <= Len(missing[c])
      BY <1>1, <1>2, <2>6, <3>1 DEF CallInv, MissingInv
    <3>2. CASE i > Len(missing[c])
      <4>1. missing'[c][i] = a /\ cache[a] = Nil
        BY <2>6, <3>2
      <4>2. before[c][a] = Nil
        BY <1>1, <2>1, <4>1 DEF CallInv, GrowthInv
      <4>3. QED
        BY <1>2, <1>4, <4>1, <4>2
    <3>3. QED
      BY <1>2, <2>6, <3>1, <3>2
  <2>11. CoverInv(c)'
    <3>1. k'[c] \in 1 .. Len(req[c]) + 1 /\ k'[c] - 1 = k[c]
      BY <1>2, <1>4, <2>2
    <3>2. ASSUME NEW i \in 1 .. k[c]
          PROVE  cache[req[c][i]] # Nil \/ Contains(missing'[c], req[c][i])
      <4>1. CASE i = k[c]
        BY <2>8, <4>1
      <4>2. CASE i # k[c]
        BY <1>2, <2>7, <4>2 DEF Covered
      <4>3. QED
        BY <4>1, <4>2
    <3>3. QED
      BY <1>2, <1>3, <2>2, <3>1, <3>2 DEF CoverInv, Covered
  <2>12. AnswerInv(c)' /\ GrowthInv(c)'
    BY <1>1, <1>2, <1>3, <2>2 DEF CallInv, AnswerInv, GrowthInv
  <2>13. ConfirmInv(c)'
    BY <1>2, <2>2 DEF ConfirmInv
  <2>14. CostInv(c)'
    BY <1>2, <1>3, <2>2, <2>6, BoundAssumption DEF CostInv
  <2>15. CallInv(c)'
    BY <1>2, <1>3, <2>5, <2>6, <2>10, <2>11, <2>12, <2>13, <2>14 DEF CallInv
  <2>16. QED
    BY <1>3, <2>4, <2>9, <2>15, PrivateStep
<1>5. CASE k[c] > Len(req[c])
  <2>1. missing' = missing /\ k'[c] = 1 /\ pc'[c] = AfterScan(c) /\ Owns(c)
    BY <1>3, <1>5 DEF Scan, Owns, IInv, TypeOK
  <2>2. \/ pc'[c] = "read" /\ missing[c] = <<>>
        \/ pc'[c] = "fetch" /\ Len(missing[c]) > 0
    BY <1>2, <2>1 DEF AfterScan
  <2>3. CallTypes(c)'
    BY <1>1, <1>3, <2>1, <2>2 DEF CallTypes
  <2>4. CoverInv(c)'
    <3>1. Covered(c, Len(req[c]))
      BY <1>2, <1>5 DEF Covered
    <3>2. \A x : ~ Contains(<<>>, x)
      BY DEF Contains
    <3>3. QED
      BY <1>3, <2>1, <2>2, <3>1, <3>2 DEF CoverInv, Covered
  <2>5. GrowthInv(c)' /\ MissingInv(c)' /\ AnswerInv(c)' /\ ConfirmInv(c)'
    BY <1>1, <1>2, <1>3, <2>1, <2>2 DEF CallInv, GrowthInv, MissingInv, AnswerInv, ConfirmInv
  <2>6. CostInv(c)'
    BY <1>2, <1>3, <2>1, <2>2, BoundAssumption DEF CostInv
  <2>7. CallInv(c)'
    BY <1>1, <1>3, <2>1, <2>4, <2>5, <2>6 DEF CallInv
  <2>8. QED
    BY <1>3, <2>1, <2>3, <2>7, PrivateStep
<1>6. QED
  BY <1>2, <1>4, <1>5

\* A batch answers the next chunk, in full or in part.
LEMMA FetchStep ==
  ASSUME IInv, NEW c \in Caller, FetchChunk(c)
  PROVE  IInv'
<1> DEFINE p == Len(infos[c])
           q == Len(missing[c])
           size == PieceSize(p, q, ChunkSize)
<1>1. CallInv(c) /\ CallTypes(c)
  BY TypesOfCall DEF IInv
<1>2. /\ pc[c] = "fetch" /\ p \in Nat /\ q \in Nat /\ p < q /\ k[c] = 1
      /\ batches[c] \in Nat /\ batches[c] * ChunkSize = p /\ singles[c] = 0
      /\ ChunkSize = 0 => batches[c] = 0
  BY <1>1 DEF FetchChunk, CallInv, CallTypes, AnswerInv, ConfirmInv, CostInv
<1>3. /\ UNCHANGED <<chain, shared, confirmed>>
      /\ req' = req /\ k' = k /\ missing' = missing /\ out' = out
      /\ before' = before /\ singles' = singles /\ cache' = cache
  BY DEF FetchChunk, shared
<1>4. /\ infos' = [infos EXCEPT ![c] = infos'[c]]
      /\ infos'[c] \in Seq(Info)
      /\ Len(infos'[c]) = p + size
      /\ \A i \in 1 .. Len(infos'[c]) : infos'[c][i].address = missing[c][i]
  BY Fetched
<1>5. /\ batches'[c] = batches[c] + 1 /\ batches' = [batches EXCEPT ![c] = batches'[c]]
      /\ pc' = [pc EXCEPT ![c] = pc'[c]]
      /\ pc'[c] = IF Len(infos'[c]) = q THEN "confirm" ELSE "fetch"
  BY DEF FetchChunk, IInv, TypeOK
<1> DEFINE all == infos'[c]
<1>6. all = infos'[c]
  OBVIOUS
<1> HIDE DEF p, q, all
<1>7. size \in Nat \ {0} /\ p + size <= q
  BY <1>2, PieceFits, BoundAssumption
<1>8. size = IF ChunkSize = 0 \/ ChunkSize > q - p THEN q - p ELSE ChunkSize
  BY DEF PieceSize
<1> HIDE DEF size
<1>9. Len(all) \in Nat /\ p < Len(all) /\ Len(all) <= q
  BY <1>2, <1>4, <1>6, <1>7
<1>10. Owns(c)
  BY <1>3, <1>4, <1>5 DEF Owns, IInv, TypeOK
<1>11. CallTypes(c)'
  <2>1. batches'[c] \in Nat
    BY <1>2, <1>5
  <2>2. QED
    BY <1>1, <1>3, <1>4, <1>5, <2>1 DEF CallTypes
<1>12. AnswerInv(c)'
  <2>1. pc'[c] = "fetch" => Len(all) < q
    BY <1>2, <1>5, <1>6, <1>9
  <2>2. pc'[c] = "confirm" => Len(all) = q
    BY <1>5, <1>6
  <2>3. pc'[c] \in {"fetch", "confirm"}
    BY <1>5
  <2>4. QED
    BY <1>1, <1>3, <1>4, <1>6, <2>1, <2>2, <2>3 DEF CallInv, AnswerInv, q
<1>13. ConfirmInv(c)'
  BY <1>2, <1>3, <1>5 DEF ConfirmInv, q
<1>14. GrowthInv(c)' /\ MissingInv(c)' /\ CoverInv(c)'
  BY <1>1, <1>2, <1>3, <1>5 DEF CallInv, GrowthInv, MissingInv, CoverInv, Covered
<1>15. CostInv(c)'
  <2>1. ChunkSize \in Nat
    BY BoundAssumption
  <2>2. batches'[c] * ChunkSize = p + ChunkSize
    <3>1. \A b, w \in Nat : (b + 1) * w = b * w + w
      OBVIOUS
    <3>2. batches[c] \in Nat /\ batches[c] * ChunkSize = p
      BY <1>2
    <3>3. batches'[c] = batches[c] + 1
      BY <1>5
    <3>4. QED
      BY ONLY <2>1, <3>1, <3>2, <3>3
  <2>3. ChunkSize = 0 => batches'[c] = 1 /\ size = q - p
    BY <1>2, <1>5, <1>8
  <2>4. ChunkSize = 0 => pc'[c] = "confirm"
    BY <1>2, <1>4, <1>5, <1>6, <2>3
  <2>5. ChunkSize # 0 => p + ChunkSize < q + ChunkSize
    BY <1>2, <2>1
  <2>6. pc'[c] = "fetch" => Len(all) = p + ChunkSize
    BY <1>2, <1>4, <1>5, <1>6, <1>8, <2>1
  <2>7. /\ pc'[c] = "fetch" => batches'[c] * ChunkSize = Len(infos'[c])
        /\ pc'[c] = "fetch" => ChunkSize # 0
        /\ IF ChunkSize = 0 THEN batches'[c] <= 1
           ELSE batches'[c] * ChunkSize < Len(missing'[c]) + ChunkSize
    BY <1>3, <1>6, <2>2, <2>3, <2>4, <2>5, <2>6 DEF q
  <2>8. singles'[c] = 0 /\ k'[c] = 1 /\ Len(missing'[c]) \in Nat
    BY <1>2, <1>3 DEF q
  <2>9. QED
    BY <1>5, <2>7, <2>8 DEF CostInv
<1>16. CallInv(c)'
  BY <1>1, <1>3, <1>6, <1>9, <1>12, <1>13, <1>14, <1>15 DEF CallInv, q
<1>17. QED
  BY <1>3, <1>10, <1>11, <1>16, PrivateStep

\* A request fails, and the call with it.
LEMMA FailStep ==
  ASSUME IInv, NEW c \in Caller, RPCError(c)
  PROVE  IInv'
<1>1. CallInv(c) /\ CallTypes(c)
  BY TypesOfCall DEF IInv
<1>2. /\ UNCHANGED <<chain, shared, confirmed>>
      /\ req' = req /\ k' = k /\ missing' = missing /\ infos' = infos /\ out' = out
      /\ before' = before /\ batches' = batches /\ singles' = singles
      /\ cache' = cache /\ pc'[c] = "failed"
      /\ pc' = [pc EXCEPT ![c] = pc'[c]]
  BY DEF RPCError, shared, history, IInv, TypeOK
<1>3. Owns(c)
  BY <1>2 DEF Owns, IInv, TypeOK
<1>4. CallTypes(c)'
  BY <1>1, <1>2 DEF CallTypes
<1>5. CallInv(c)'
  BY <1>1, <1>2 DEF CallInv, GrowthInv, MissingInv, CoverInv, AnswerInv,
     ConfirmInv, CostInv
<1>6. QED
  BY <1>2, <1>3, <1>4, <1>5, PrivateStep

\* The answer is read back, one address at a time.
LEMMA ReadBackStep ==
  ASSUME IInv, NEW c \in Caller, ReadBack(c)
  PROVE  IInv'
<1>1. CallInv(c) /\ CallTypes(c)
  BY TypesOfCall DEF IInv
<1>2. /\ UNCHANGED <<chain, shared, confirmed>>
      /\ req' = req /\ k' = k /\ missing' = missing /\ infos' = infos
      /\ before' = before /\ batches' = batches /\ singles' = singles
      /\ cache' = cache /\ pc[c] = "read"
  BY DEF ReadBack, shared, history
<1>3. /\ out[c] \in Seq(Info) /\ Len(out[c]) \in Nat /\ req[c] \in Seq(Address)
      /\ Len(req[c]) \in Nat /\ Len(out[c]) <= Len(req[c])
      /\ \A i \in 1 .. Len(req[c]) : cache[req[c][i]] # Nil
      /\ \A i \in 1 .. Len(out[c]) : out[c][i].address = req[c][i]
  BY <1>1, <1>2 DEF CallInv, CallTypes, AnswerInv, CoverInv
<1>4. CASE Len(out[c]) < Len(req[c])
  <2> DEFINE n == Len(out[c]) + 1
             info == cache[req[c][n]]
  <2>1. n \in 1 .. Len(req[c]) /\ req[c][n] \in Address
    BY <1>3, <1>4
  <2>2. info \in Info /\ info.address = req[c][n]
    BY <1>3, <2>1, Held
  <2>3. pc' = pc /\ out' = [out EXCEPT ![c] = Append(out[c], info)]
        /\ out'[c] = Append(out[c], info)
    BY <1>4 DEF ReadBack, IInv, TypeOK
  <2> HIDE DEF info
  <2>4. /\ out'[c] \in Seq(Info) /\ Len(out'[c]) = n
        /\ \A i \in 1 .. Len(out'[c]) : out'[c][i] = IF i = n THEN info ELSE out[c][i]
    BY <1>3, <2>2, <2>3
  <2>5. Owns(c)
    BY <1>2, <2>3 DEF Owns, IInv, TypeOK
  <2>6. CallTypes(c)'
    BY <1>1, <1>2, <2>3, <2>4 DEF CallTypes
  <2>7. AnswerInv(c)'
    <3>1. \A i \in 1 .. Len(out'[c]) : out'[c][i].address = req[c][i]
      <4>1. \A i \in 1 .. Len(out'[c]) : i # n => i \in 1 .. Len(out[c])
        BY <1>3, <2>4
      <4>2. \A i \in 1 .. Len(out[c]) : out[c][i].address = req[c][i]
        BY <1>3
      <4> HIDE DEF n
      <4>3. QED
        BY <2>2, <2>4, <4>1, <4>2
    <3>2. Len(out'[c]) <= Len(req[c])
      BY <2>1, <2>4
    <3>3. QED
      BY <1>1, <1>2, <2>3, <3>1, <3>2 DEF CallInv, AnswerInv
  <2>8. CallInv(c)'
    BY <1>1, <1>2, <2>3, <2>7
       DEF CallInv, GrowthInv, MissingInv, CoverInv, ConfirmInv, CostInv
  <2>9. QED
    BY <1>2, <2>5, <2>6, <2>8, PrivateStep
<1>5. CASE ~ (Len(out[c]) < Len(req[c]))
  <2>1. /\ out' = out /\ pc'[c] = "done" /\ pc' = [pc EXCEPT ![c] = pc'[c]]
        /\ Len(out[c]) = Len(req[c])
    BY <1>3, <1>5 DEF ReadBack, IInv, TypeOK
  <2>2. Owns(c)
    BY <1>2, <2>1 DEF Owns, IInv, TypeOK
  <2>3. CallTypes(c)'
    BY <1>1, <1>2, <2>1 DEF CallTypes
  <2>4. CallInv(c)'
    BY <1>1, <1>2, <2>1
       DEF CallInv, GrowthInv, MissingInv, CoverInv, AnswerInv, ConfirmInv, CostInv
  <2>5. QED
    BY <1>2, <2>2, <2>3, <2>4, PrivateStep
<1>6. QED
  BY <1>4, <1>5

\* What a batch did not find is asked for alone, and confirmed or corrected.
LEMMA ConfirmStep ==
  ASSUME IInv, NEW c \in Caller, Confirm(c)
  PROVE  IInv'
<1> DEFINE q == Len(missing[c])
           a == missing[c][k[c]]
<1>1. CallInv(c) /\ CallTypes(c)
  BY TypesOfCall DEF IInv
<1>2. /\ pc[c] = "confirm" /\ k[c] \in 1 .. q + 1 /\ q \in Nat
      /\ infos[c] \in Seq(Info) /\ Len(infos[c]) = q /\ missing[c] \in Seq(Address)
      /\ singles[c] \in Nat /\ singles[c] < k[c]
  BY <1>1 DEF Confirm, CallInv, CallTypes, AnswerInv, ConfirmInv, CostInv
<1>3. /\ UNCHANGED <<chain, shared>>
      /\ req' = req /\ missing' = missing /\ out' = out
      /\ before' = before /\ batches' = batches /\ cache' = cache
      /\ accounts' = accounts /\ begun' = begun
  BY DEF Confirm, shared
<1>4. \A i \in 1 .. q : i < k[c] => Exists(infos[c][i]) \/ missing[c][i] \in confirmed
  BY <1>1, <1>2 DEF CallInv, ConfirmInv
<1>5. CASE k[c] > q
  <2>1. /\ pc'[c] = "store" /\ pc' = [pc EXCEPT ![c] = pc'[c]] /\ k' = k
        /\ infos' = infos /\ confirmed' = confirmed /\ singles' = singles
    BY <1>5 DEF Confirm, IInv, TypeOK
  <2>2. Owns(c)
    BY <1>3, <2>1 DEF Owns, IInv, TypeOK
  <2>3. CallTypes(c)'
    BY <1>1, <1>3, <2>1 DEF CallTypes
  <2>4. ConfirmInv(c)'
    BY <1>2, <1>3, <1>4, <1>5, <2>1 DEF ConfirmInv
  <2>5. CallInv(c)'
    BY <1>1, <1>2, <1>3, <2>1, <2>4
       DEF CallInv, GrowthInv, MissingInv, CoverInv, Covered, AnswerInv, CostInv
  <2>6. QED
    BY <1>3, <2>1, <2>2, <2>3, <2>5, PrivateStep
<1>6. CASE ~ (k[c] > q)
  <2>1. k[c] \in 1 .. q /\ a \in Address
    BY <1>2, <1>6
  <2>2. pc' = pc /\ k' = [k EXCEPT ![c] = k[c] + 1] /\ k'[c] = k[c] + 1
    BY <1>6 DEF Confirm, IInv, TypeOK
  \* The answer at k now; the others are as they were.
  <2>3. /\ infos' = [infos EXCEPT ![c] = infos'[c]]
        /\ infos'[c] \in Seq(Info) /\ Len(infos'[c]) = q
        /\ \A i \in 1 .. q : i # k[c] => infos'[c][i] = infos[c][i]
        /\ infos'[c][k[c]].address = a
        /\ Exists(infos'[c][k[c]]) \/ a \in confirmed'
        /\ confirmed \subseteq confirmed' /\ confirmed' \subseteq Address
        /\ singles' = [singles EXCEPT ![c] = singles'[c]]
        /\ singles'[c] \in singles[c] .. singles[c] + 1
    <3>1. infos[c][k[c]] \in Info /\ infos[c][k[c]].address = a
      BY <1>1, <1>2, <2>1 DEF CallInv, AnswerInv
    <3>2. confirmed \subseteq Address /\ infos \in [Caller -> Seq(Info)]
          /\ singles \in [Caller -> Nat]
      BY DEF IInv, TypeOK
    <3>3. CASE Unconfirmed(c)
      <4>1. PICK info \in {Read(a), NotFound(a)} :
              /\ infos' = [infos EXCEPT ![c][k[c]] = info]
              /\ confirmed' = IF Exists(info) THEN confirmed
                              ELSE confirmed \cup {info.address}
              /\ singles' = [singles EXCEPT ![c] = @ + 1]
        BY <1>6, <3>3 DEF Confirm
      <4>2. info \in Info /\ info.address = a
        BY <2>1, ReadAnswers DEF IInv
      <4>3. /\ infos'[c] = [infos[c] EXCEPT ![k[c]] = info]
            /\ infos' = [infos EXCEPT ![c] = infos'[c]]
        BY <3>2, <4>1
      <4>4. /\ [infos[c] EXCEPT ![k[c]] = info] \in Seq(Info)
            /\ Len([infos[c] EXCEPT ![k[c]] = info]) = q
        BY <1>2, <2>1, <4>2
      <4>5. /\ infos'[c][k[c]] = info
            /\ \A i \in 1 .. q : i # k[c] => infos'[c][i] = infos[c][i]
        BY <1>2, <2>1, <4>3
      <4>6. singles'[c] = singles[c] + 1
        BY <3>2, <4>1
      <4>7. QED
        BY <1>2, <2>1, <3>2, <4>1, <4>2, <4>3, <4>4, <4>5, <4>6
    <3>4. CASE ~ Unconfirmed(c)
      <4>1. infos' = infos /\ confirmed' = confirmed /\ singles' = singles
        BY <1>6, <3>4 DEF Confirm
      <4>2. Exists(infos[c][k[c]])
        BY <1>2, <1>6, <2>1, <3>4 DEF Unconfirmed
      <4>3. QED
        BY <1>2, <3>1, <3>2, <4>1, <4>2
    <3>5. QED
      BY <3>3, <3>4
  <2>4. Owns(c)
    BY <1>3, <2>2, <2>3 DEF Owns, IInv, TypeOK
  <2>5. CallTypes(c)'
    <3>1. k'[c] \in Nat /\ singles'[c] \in Nat
      BY <1>2, <2>2, <2>3
    <3>2. QED
      BY <1>1, <1>3, <2>2, <2>3, <3>1 DEF CallTypes
  <2>6. CacheInv'
    BY <1>3, <2>3 DEF IInv, CacheInv
  <2>7. AnswerInv(c)'
    <3>1. \A i \in 1 .. q : infos'[c][i].address = missing[c][i]
      BY <1>1, <1>2, <2>3 DEF CallInv, AnswerInv
    <3>2. QED
      BY <1>1, <1>2, <1>3, <2>2, <2>3, <3>1 DEF CallInv, AnswerInv
  <2>8. ConfirmInv(c)'
    <3>1. k'[c] \in 1 .. q + 1
      BY <1>2, <2>1, <2>2
    <3>2. \A i \in 1 .. q : i < k'[c] =>
            Exists(infos'[c][i]) \/ missing[c][i] \in confirmed'
      <4> SUFFICES ASSUME NEW i \in 1 .. q, i < k'[c]
                   PROVE  Exists(infos'[c][i]) \/ missing[c][i] \in confirmed'
        OBVIOUS
      <4>1. CASE i = k[c]
        BY <2>3, <4>1
      <4>2. CASE i # k[c]
        <5>1. i < k[c]
          BY <1>2, <2>1, <2>2, <4>2
        <5>2. QED
          BY <1>4, <2>3, <4>2, <5>1
      <4>3. QED
        BY <4>1, <4>2
    <3>3. QED
      BY <1>2, <1>3, <2>2, <3>1, <3>2 DEF ConfirmInv
  <2>9. CostInv(c)'
    <3>1. singles'[c] < k'[c] /\ singles'[c] <= q
      BY <1>2, <2>1, <2>2, <2>3
    <3>2. QED
      BY <1>1, <1>2, <1>3, <2>2, <3>1 DEF CallInv, CostInv
  <2>10. CallInv(c)'
    <3>1. GrowthInv(c)' /\ MissingInv(c)' /\ CoverInv(c)'
      BY <1>1, <1>2, <1>3, <2>2 DEF CallInv, GrowthInv, MissingInv, CoverInv, Covered
    <3>2. Distinct(missing'[c]) /\ Len(infos'[c]) <= Len(missing'[c])
      BY <1>1, <1>2, <1>3, <2>3 DEF CallInv
    <3>3. QED
      BY <2>7, <2>8, <2>9, <3>1, <3>2 DEF CallInv
  <2>11. QED
    BY <1>3, <2>3, <2>4, <2>5, <2>6, <2>10, OwnStep DEF IInv, TypeOK
<1>7. QED
  BY <1>5, <1>6

\* Every fetched address is stored, found or confirmed not to exist.
LEMMA StoreStep ==
  ASSUME IInv, NEW c \in Caller, Store(c)
  PROVE  IInv'
<1> DEFINE q == Len(missing[c])
           At(a) == CHOOSE i \in DOMAIN missing[c] : missing[c][i] = a
<1>1. CallInv(c) /\ CallTypes(c)
  BY TypesOfCall DEF IInv
<1>2. /\ pc[c] = "store" /\ q \in Nat /\ infos[c] \in Seq(Info) /\ Len(infos[c]) = q
      /\ missing[c] \in Seq(Address)
      /\ \A i \in 1 .. q : infos[c][i].address = missing[c][i]
      /\ \A i \in 1 .. q : Exists(infos[c][i]) \/ missing[c][i] \in confirmed
      /\ Covered(c, Len(req[c]))
  BY <1>1 DEF Store, CallInv, CallTypes, CoverInv, AnswerInv, ConfirmInv
<1>3. /\ UNCHANGED <<chain, confirmed>>
      /\ req' = req /\ k' = k /\ missing' = missing /\ infos' = infos /\ out' = out
      /\ before' = before /\ batches' = batches /\ singles' = singles
      /\ accounts' = accounts /\ begun' = begun
      /\ pc'[c] = "read" /\ pc' = [pc EXCEPT ![c] = pc'[c]]
  BY DEF Store, history, IInv, TypeOK
<1>4. Owns(c)
  BY <1>3 DEF Owns, IInv, TypeOK
<1>5. CallTypes(c)'
  BY <1>1, <1>3 DEF CallTypes
<1>6. ASSUME NEW a \in Address, Contains(missing[c], a)
      PROVE  /\ At(a) \in 1 .. q /\ missing[c][At(a)] = a
             /\ cache'[a] = infos[c][At(a)]
  <2>1. \E i \in DOMAIN missing[c] : missing[c][i] = a
    BY <1>2, <1>6 DEF Contains
  <2>2. QED
    BY <1>2, <1>6, <2>1 DEF Store
<1>7. ASSUME NEW a \in Address, Contains(missing[c], a)
      PROVE  /\ cache'[a] \in Info /\ cache'[a] # Nil
             /\ cache'[a].address = a
             /\ Exists(cache'[a]) \/ a \in confirmed
  <2>1. At(a) \in 1 .. q /\ missing[c][At(a)] = a /\ cache'[a] = infos[c][At(a)]
    BY <1>6, <1>7
  <2> HIDE DEF At
  <2>2. QED
    BY <1>2, <2>1, NilAssumption
<1>8. ASSUME NEW a \in Address, ~ Contains(missing[c], a)
      PROVE  cache'[a] = cache[a]
  BY <1>8 DEF Store
<1> HIDE DEF At
<1>9. cache' \in [Address -> Info \cup {Nil}]
  <2>1. cache' = [a \in Address |-> cache'[a]]
    BY DEF Store
  <2>2. \A a \in Address : cache'[a] \in Info \cup {Nil}
    BY <1>7, <1>8 DEF IInv, TypeOK
  <2>3. QED
    BY <2>1, <2>2
<1>10. \A a \in Address : cache[a] # Nil => cache'[a] # Nil
  BY <1>7, <1>8
<1>11. CacheInv'
  BY <1>3, <1>7, <1>8 DEF IInv, CacheInv
<1>12. CallInv(c)'
  <2>1. GrowthInv(c)'
    BY <1>1, <1>3, <1>10 DEF CallInv, GrowthInv
  <2>2. CoverInv(c)'
    <3>1. \A i \in 1 .. Len(req[c]) : req[c][i] \in Address
      BY <1>1 DEF CallTypes
    <3>2. \A i \in 1 .. Len(req[c]) : cache'[req[c][i]] # Nil
      <4> SUFFICES ASSUME NEW i \in 1 .. Len(req[c]) PROVE cache'[req[c][i]] # Nil
        OBVIOUS
      <4>1. req[c][i] \in Address
        BY <3>1
      <4>2. cache[req[c][i]] # Nil \/ Contains(missing[c], req[c][i])
        BY <1>2 DEF Covered
      <4>3. QED
        BY <1>7, <1>10, <4>1, <4>2
    <3>3. QED
      BY <1>3, <3>2 DEF CoverInv
  <2>3. QED
    BY <1>1, <1>2, <1>3, <2>1, <2>2
       DEF CallInv, MissingInv, AnswerInv, ConfirmInv, CostInv
<1>13. QED
  BY <1>3, <1>4, <1>5, <1>9, <1>10, <1>11, <1>12, OwnStep DEF IInv, TypeOK

\* Whatever the client does next, the invariant holds after it.
LEMMA StepIInv ==
  ASSUME IInv, NEW c \in Caller, Step(c)
  PROVE  IInv'
BY LookStep, ScanStep, FetchStep, ConfirmStep, FailStep, StoreStep, ReadBackStep
   DEF Step

LEMMA NextIInv == IInv /\ [Next]_vars => IInv'
<1> SUFFICES ASSUME IInv, [Next]_vars PROVE IInv'
  OBVIOUS
<1>1. CASE Advance
  BY <1>1, AdvanceStep
<1>2. ASSUME NEW c \in Caller, Begin(c) PROVE IInv'
  <2>1. PICK r \in Requests, kind \in {"prime", "multiple", "account"} :
          (kind = "account" => Len(r) = 1) /\ BeginCall(c, r, kind)
    BY <1>2 DEF Begin
  <2>2. r \in Seq(Address)
    BY RequestAssumption
  <2>3. QED
    BY <2>1, <2>2, BeginStep
<1>3. ASSUME NEW c \in Caller, Step(c) PROVE IInv'
  BY <1>3, StepIInv
<1>4. CASE UNCHANGED vars
  BY <1>4 DEF vars, chain, shared, local, history, IInv, TypeOK, CacheInv,
     CallInv, GrowthInv, MissingInv, CoverInv, Covered, AnswerInv, ConfirmInv,
     CostInv
<1>5. QED
  BY <1>1, <1>2, <1>3, <1>4 DEF Next

THEOREM Invariance == Spec => []IInv
<1>1. QED
  BY InitIInv, NextIInv, PTL DEF Spec
----------------------------------------------------------------------------
(* What the invariant says of the client.                                  *)

(* The variables keep their types in every execution; missing holds every  *)
(* address once and infos answers a prefix of it (loadMissingAccounts).    *)
THEOREM TypeCorrect == Spec => []TypeOK
<1>1. IInv => TypeOK
  BY DEF IInv
<1>2. QED
  BY <1>1, Invariance, PTL

(* A call that succeeds answers every position of its request with the     *)
(* account of that position's address, for every list of addresses, chunk  *)
(* size and number of goroutines that fetch the same addresses.            *)
THEOREM AnswersAreOfRequest == Spec => []AnswersPositional
<1>1. IInv => AnswersPositional
  <2> SUFFICES ASSUME IInv, NEW c \in Caller, pc[c] = "done"
               PROVE  /\ Len(out[c]) = Len(req[c])
                      /\ \A i \in DOMAIN req[c] : out[c][i].address = req[c][i]
    BY DEF AnswersPositional
  <2>1. AnswerInv(c) /\ req[c] \in Seq(Address)
    BY DEF IInv, CallInv, TypeOK
  <2>2. DOMAIN req[c] = 1 .. Len(req[c])
    BY <2>1
  <2>3. QED
    BY <2>1, <2>2 DEF AnswerInv
<1>2. QED
  BY <1>1, Invariance, PTL

(* The cache remembers an account as missing only if an own GetAccount did *)
(* not find it.                                                            *)
THEOREM MissingIsConfirmed == Spec => []ConfirmedMissing
<1>1. IInv => ConfirmedMissing
  BY DEF IInv, CacheInv, ConfirmedMissing
<1>2. QED
  BY <1>1, Invariance, PTL

\* A call fetches no more addresses than are new to it.
LEMMA MissingIsNew ==
  ASSUME IInv, NEW c \in Caller
  PROVE  LET new == {a \in ToSet(req[c]) : before[c][a] = Nil}
         IN  Cardinality(new) \in Nat /\ Len(missing[c]) <= Cardinality(new)
<1> DEFINE new == {a \in ToSet(req[c]) : before[c][a] = Nil}
<1>1. CallInv(c) /\ CallTypes(c)
  BY TypesOfCall DEF IInv
<1>2. req[c] \in Seq(Address) /\ missing[c] \in Seq(Address)
  BY <1>1 DEF CallTypes
<1>3. IsFiniteSet(ToSet(req[c]))
  BY <1>2, RangeFinite
<1>4. IsFiniteSet(new) /\ Cardinality(new) \in Nat
  <2>1. new \subseteq ToSet(req[c])
    OBVIOUS
  <2> HIDE DEF new
  <2>2. QED
    BY <1>3, <2>1, FS_Subset, FS_CardinalityType
<1>5. ToSet(missing[c]) \subseteq new
  <2>1. ASSUME NEW i \in 1 .. Len(missing[c])
        PROVE  missing[c][i] \in ToSet(req[c]) /\ before[c][missing[c][i]] = Nil
    BY <1>1, <1>2, <2>1 DEF CallInv, MissingInv, ToSet
  <2>2. \A a \in ToSet(missing[c]) : \E i \in 1 .. Len(missing[c]) : a = missing[c][i]
    BY <1>2 DEF ToSet
  <2>3. QED
    BY <2>1, <2>2
<1>6. Cardinality(ToSet(missing[c])) <= Cardinality(new)
  <2> HIDE DEF new
  <2>1. QED
    BY <1>4, <1>5, FS_Subset
<1>7. Len(missing[c]) = Cardinality(ToSet(missing[c]))
  BY <1>1 DEF CallInv, Distinct
<1>8. QED
  BY <1>4, <1>6, <1>7

(* A call pays no more batches than full chunks are needed for the         *)
(* addresses it does not hold, each asked for alone at most once, and      *)
(* nothing for addresses held when it began, for every chunk size.         *)
THEOREM CallsStayCheap == Spec => []CostBound
<1>1. IInv => CostBound
  <2> SUFFICES ASSUME IInv, NEW c \in Caller
               PROVE  LET new == {a \in ToSet(req[c]) : before[c][a] = Nil}
                      IN  /\ IF ChunkSize = 0 THEN batches[c] <= 1
                             ELSE batches[c] * ChunkSize < Cardinality(new) + ChunkSize
                          /\ singles[c] <= Cardinality(new)
    BY DEF CostBound
  <2> DEFINE n == Cardinality({a \in ToSet(req[c]) : before[c][a] = Nil})
             q == Len(missing[c])
             cost == batches[c] * ChunkSize
  <2>1. n \in Nat /\ q <= n
    BY MissingIsNew
  <2>2. /\ IF ChunkSize = 0 THEN batches[c] <= 1 ELSE cost < q + ChunkSize
        /\ singles[c] <= q
    BY DEF IInv, CallInv, CostInv
  <2>3. /\ q \in Nat /\ cost \in Nat /\ singles[c] \in Nat /\ ChunkSize \in Nat
    <3>1. batches[c] \in Nat /\ singles[c] \in Nat /\ q \in Nat
      BY DEF IInv, TypeOK
    <3>2. \A b, w \in Nat : b * w \in Nat
      OBVIOUS
    <3>3. QED
      BY <3>1, <3>2, BoundAssumption
  <2> HIDE DEF n, q, cost
  <2>4. /\ IF ChunkSize = 0 THEN batches[c] <= 1 ELSE cost < n + ChunkSize
        /\ singles[c] <= n
    BY <2>1, <2>2, <2>3
  <2>5. QED
    BY <2>4 DEF n, cost
<1>2. QED
  BY <1>1, Invariance, PTL
=============================================================================
