------------------------- MODULE PoolComputeProofs --------------------------
(***************************************************************************)
(* Proofs about PoolCompute, for every set of protocols, every size of a   *)
(* chunk, all accounts that pools may share and every number of slots.     *)
(*                                                                         *)
(* What the eleven calculators have in common is stated once, of the steps *)
(* they are sequences of: each asks for its pool first and alone and never *)
(* again, asks for all the accounts of its reserves in one request or for  *)
(* none of them, and, except for one of them, words every missing account  *)
(* so that it is found.  An invariant of the run follows from each.        *)
(***************************************************************************)
EXTENDS PoolCompute, SequenceTheorems, FiniteSetTheorems, TLAPS

\* The accounts of all the calculators and the words of their errors.
Name ==
  {"pool", "vaultA", "vaultB", "mintA", "mintB", "lpA", "lpB", "lpMintA",
   "lpMintB", "clock", "openOrders", "config"}
Word == {"not found", "account missing", "decode", "invalid pool"}

Refusal == [conditions : SUBSET Condition, words : SUBSET Word, prints : BOOLEAN]
StepOf == [request : BOOLEAN, accounts : Seq(Name), bad : Seq(Refusal)]

\* Steps that check what was read.
Checks == {s \in StepOf : ~ s.request}

\* Requests ask for all of the accounts R or for none of them.
Together(R) ==
  {s \in StepOf : s.request => \/ R \subseteq ToSet(s.accounts)
                               \/ R \cap ToSet(s.accounts) = {}}

\* Requests refuse an absent account, and in words the classifier looks for.
Naming ==
  {s \in StepOf : s.request =>
     /\ \E b \in ToSet(s.bad) : "absent" \in b.conditions
     /\ \A b \in ToSet(s.bad) :
          b.words \cap {"not found", "account missing"} # {} /\ "429" \notin b.words}

\* Requests do not ask for the pool account.
Elsewhere == {s \in StepOf : s.request => "pool" \notin ToSet(s.accounts)}

\* Checks of the length of the pool account.
ChecksLength ==
  {s \in Checks : /\ s.accounts = <<"pool">>
                  /\ \E b \in ToSet(s.bad) : "short" \in b.conditions}

NamesAll == DOMAIN Compute \ {"damm_v1"}
ChecksOwner == {"dlmm", "damm_v1", "damm_v2", "dbc", "whirlpool", "launchpad"}
ChecksLayout == DOMAIN Compute \ {"bonding_curve"}
----------------------------------------------------------------------------
LEMMA ChecksAreHarmless ==
  /\ Checks \subseteq Naming \cap Elsewhere
  /\ \A R : Checks \subseteq Together(R)
BY DEF Checks, Together, Naming, Elsewhere

LEMMA ToSetOfTwo == \A a, b : ToSet(<<a, b>>) = {a, b}
BY DEF ToSet

LEMMA ToSetOfThree == \A a, b, c : ToSet(<<a, b, c>>) = {a, b, c}
BY DEF ToSet

LEMMA ToSetOfFour == \A a, b, c, d : ToSet(<<a, b, c, d>>) = {a, b, c, d}
BY DEF ToSet

LEMMA ToSetOfSeven ==
  \A a, b, c, d, e, f, g :
    ToSet(<<a, b, c, d, e, f, g>>) = {a, b, c, d, e, f, g}
BY DEF ToSet

LEMMA GetType ==
  ASSUME NEW accounts \in Seq(Name), NEW words \in SUBSET Word
  PROVE  /\ Get(accounts, words) \in StepOf
         /\ Get(accounts, words).request /\ Get(accounts, words).accounts = accounts
         /\ ToSet(Get(accounts, words).bad) = {Bad({"absent"}, words, FALSE)}
<1> DEFINE b == Bad({"absent"}, words, FALSE)
<1>1. b \in Refusal
  BY DEF Bad, Refusal, Condition, Word
<1>2. b = Bad({"absent"}, words, FALSE)
  OBVIOUS
<1>3. Get(accounts, words) = [request |-> TRUE, accounts |-> accounts, bad |-> <<b>>]
  BY DEF Get
<1> HIDE DEF b
<1>4. <<b>> \in Seq(Refusal) /\ ToSet(<<b>>) = {b}
  BY <1>1 DEF ToSet
<1>5. Get(accounts, words) \in StepOf
  BY <1>3, <1>4 DEF StepOf
<1>6. /\ Get(accounts, words).request /\ Get(accounts, words).accounts = accounts
      /\ ToSet(Get(accounts, words).bad) = {b}
  BY <1>3, <1>4
<1>7. QED
  BY <1>2, <1>5, <1>6

\* A request that names what it misses.
LEMMA GetNames ==
  ASSUME NEW accounts \in Seq(Name), NEW words \in SUBSET Word,
         words \cap {"not found", "account missing"} # {}, "429" \notin words
  PROVE  Get(accounts, words) \in Naming
<1> DEFINE b == Bad({"absent"}, words, FALSE)
           s == Get(accounts, words)
<1>1. b.words = words /\ "absent" \in b.conditions
  BY DEF Bad
<1>2. s \in StepOf /\ ToSet(s.bad) = {b}
  BY GetType
<1> HIDE DEF b, s
<1>3. s \in Naming
  BY <1>1, <1>2 DEF Naming
<1>4. QED
  BY <1>3 DEF s

\* A request that asks for all of R or nothing of it.
LEMMA GetTogether ==
  ASSUME NEW accounts \in Seq(Name), NEW words \in SUBSET Word, NEW R,
         R \subseteq ToSet(accounts) \/ R \cap ToSet(accounts) = {}
  PROVE  Get(accounts, words) \in Together(R)
BY GetType DEF Together

LEMMA GetElsewhere ==
  ASSUME NEW accounts \in Seq(Name), NEW words \in SUBSET Word,
         "pool" \notin ToSet(accounts)
  PROVE  Get(accounts, words) \in Elsewhere
BY GetType DEF Elsewhere

\* The checks of the pool account.
LEMMA CheckType ==
  ASSUME NEW a \in Name, NEW bad \in Seq(Refusal)
  PROVE  Check(a, bad) \in Checks
BY DEF Check, Checks, StepOf

LEMMA PoolChecks ==
  /\ Owned("pool") \in Checks
  /\ Length("pool") \in ChecksLength
  /\ Layout("pool") \in ChecksLength
<1> DEFINE foreign == Bad({"foreign"}, {}, TRUE)
           short == Bad({"short"}, {}, TRUE)
           other == Bad({"other"}, {}, FALSE)
<1>1. foreign \in Refusal /\ short \in Refusal /\ other \in Refusal /\ "short" \in short.conditions
  BY DEF Bad, Refusal, Condition, Word
<1>2. /\ Owned("pool") = Check("pool", <<foreign>>)
      /\ Length("pool") = Check("pool", <<short>>)
      /\ Layout("pool") = Check("pool", <<short, other>>)
  BY DEF Owned, Length, Layout
<1> HIDE DEF foreign, short, other
<1>3. <<foreign>> \in Seq(Refusal) /\ <<short>> \in Seq(Refusal) /\ <<short, other>> \in Seq(Refusal)
  BY <1>1
<1>4. short \in ToSet(<<short>>) /\ short \in ToSet(<<short, other>>)
  BY DEF ToSet
<1>5. Owned("pool") \in Checks /\ Length("pool") \in Checks /\ Layout("pool") \in Checks
  BY <1>2, <1>3, CheckType DEF Name
<1>6. /\ Length("pool").accounts = <<"pool">> /\ Length("pool").bad = <<short>>
      /\ Layout("pool").accounts = <<"pool">> /\ Layout("pool").bad = <<short, other>>
  BY <1>2 DEF Check
<1>7. /\ short \in ToSet(Length("pool").bad)
      /\ short \in ToSet(Layout("pool").bad)
  BY <1>4, <1>6
<1>8. "short" \in short.conditions
  BY <1>1
<1>9. Length("pool") \in ChecksLength /\ Layout("pool") \in ChecksLength
  BY <1>5, <1>6, <1>7, <1>8 DEF ChecksLength
<1>10. QED
  BY <1>5, <1>9

\* Every account of a list is decoded by a check of its own.
LEMMA DecodedChecks ==
  ASSUME NEW accounts \in Seq(Name)
  PROVE  Decoded(accounts) \in Seq(Checks)
<1> DEFINE b == Bad({"short"}, {"decode"}, TRUE)
<1>1. b \in Refusal
  BY DEF Bad, Refusal, Condition, Word
<1>2. Decoded(accounts) = [i \in DOMAIN accounts |-> Check(accounts[i], <<b>>)]
  BY DEF Decoded
<1> HIDE DEF b
<1>3. ASSUME NEW i \in DOMAIN accounts PROVE Check(accounts[i], <<b>>) \in Checks
  <2>1. <<b>> \in Seq(Refusal) /\ accounts[i] \in Name
    BY <1>1
  <2>2. QED
    BY <2>1, CheckType
<1>4. DOMAIN accounts = 1 .. Len(accounts) /\ Len(accounts) \in Nat
  OBVIOUS
<1> DEFINE f == [i \in 1 .. Len(accounts) |-> Check(accounts[i], <<b>>)]
<1>5. f \in [1 .. Len(accounts) -> Checks]
  BY <1>3, <1>4
<1>6. f \in Seq(Checks)
  BY <1>4, <1>5, SeqDef
<1>7. QED
  BY <1>2, <1>4, <1>6
----------------------------------------------------------------------------
(* What every sequence of steps is like: the pool first and alone, no step *)
(* after it asks for the pool again, and all the steps are of T.           *)
Shape(steps, T) ==
  /\ steps \in Seq(T) /\ Len(steps) >= 1
  /\ steps[1] = Pool
  /\ \A i \in 2 .. Len(steps) : steps[i] \in Elsewhere

LEMMA Extend ==
  ASSUME NEW T, NEW s, NEW t \in Seq(T \cap Elsewhere), Shape(s, T)
  PROVE  /\ Shape(s \o t, T)
         /\ Len(s \o t) = Len(s) + Len(t)
         /\ \A i \in 1 .. Len(s) : (s \o t)[i] = s[i]
<1>1. s \in Seq(T) /\ t \in Seq(T) /\ Len(s) \in Nat /\ Len(t) \in Nat
  BY SeqMonotonic DEF Shape
<1>2. /\ s \o t \in Seq(T) /\ Len(s \o t) = Len(s) + Len(t)
      /\ \A i \in 1 .. Len(s) + Len(t) :
           (s \o t)[i] = IF i <= Len(s) THEN s[i] ELSE t[i - Len(s)]
  BY <1>1, ConcatProperties
<1>3. \A i \in 1 .. Len(t) : t[i] \in Elsewhere
  OBVIOUS
<1> DEFINE u == s \o t
<1> HIDE DEF u
<1>4. /\ u \in Seq(T) /\ Len(u) = Len(s) + Len(t)
      /\ \A i \in 1 .. Len(s) + Len(t) :
           u[i] = IF i <= Len(s) THEN s[i] ELSE t[i - Len(s)]
  BY <1>2 DEF u
<1>5. \A i \in 1 .. Len(s) : u[i] = s[i]
  BY <1>1, <1>4
<1>7. Shape(u, T)
  <2>1. ASSUME NEW i \in 2 .. Len(u) PROVE u[i] \in Elsewhere
    <3>1. CASE i <= Len(s)
      BY <1>1, <1>4, <2>1, <3>1 DEF Shape
    <3>2. CASE i > Len(s)
      <4>1. i - Len(s) \in 1 .. Len(t) /\ u[i] = t[i - Len(s)]
        BY <1>1, <1>4, <2>1, <3>2
      <4>2. QED
        BY <1>3, <4>1
    <3>3. QED
      BY <1>1, <3>1, <3>2
  <2>2. u[1] = Pool /\ Len(u) >= 1
    BY <1>1, <1>4 DEF Shape
  <2>3. QED
    BY <1>4, <2>1, <2>2 DEF Shape
<1>8. QED
  BY <1>4, <1>5, <1>7 DEF u

LEMMA NextAfter ==
  ASSUME NEW T, NEW s \in Seq(T), NEW e \in T
  PROVE  (s \o <<e>>)[Len(s) + 1] = e
<1> DEFINE t == <<e>>
<1>1. t \in Seq(T) /\ Len(t) = 1 /\ t[1] = e /\ Len(s) \in Nat
  OBVIOUS
<1> HIDE DEF t
<1>2. \A i \in 1 .. Len(s) + Len(t) :
        (s \o t)[i] = IF i <= Len(s) THEN s[i] ELSE t[i - Len(s)]
  BY <1>1, ConcatProperties
<1>3. (s \o t)[Len(s) + 1] = e
  <2>1. Len(s) + 1 \in 1 .. Len(s) + Len(t) /\ ~ (Len(s) + 1 <= Len(s))
        /\ (Len(s) + 1) - Len(s) = 1
    BY <1>1
  <2>2. (s \o t)[Len(s) + 1] = t[(Len(s) + 1) - Len(s)]
    BY <1>2, <2>1
  <2>3. QED
    BY <1>1, <2>1, <2>2
<1>4. QED
  BY <1>3 DEF t

LEMMA ExtendByOne ==
  ASSUME NEW T, NEW s, NEW e \in T \cap Elsewhere, Shape(s, T)
  PROVE  /\ Shape(s \o <<e>>, T)
         /\ Len(s \o <<e>>) = Len(s) + 1
         /\ \A i \in 1 .. Len(s) : (s \o <<e>>)[i] = s[i]
         /\ (s \o <<e>>)[Len(s) + 1] = e
<1> DEFINE t == <<e>>
<1>1. t \in Seq(T \cap Elsewhere) /\ Len(t) = 1
  OBVIOUS
<1>2. (s \o t)[Len(s) + 1] = e
  BY NextAfter DEF Shape
<1> HIDE DEF t
<1>3. Shape(s \o t, T)
  BY <1>1, Extend
<1>4. Len(s \o t) = Len(s) + 1
  <2>1. Len(s \o t) = Len(s) + Len(t)
    BY <1>1, Extend
  <2>2. QED
    BY <1>1, <2>1
<1>5. \A i \in 1 .. Len(s) : (s \o t)[i] = s[i]
  BY <1>1, Extend
<1>6. QED
  BY <1>2, <1>3, <1>4, <1>5 DEF t

\* The request for the pool account, before any set of reserves it is not one
\* of or all of.
LEMMA PoolStep ==
  ASSUME NEW R, R = {"pool"} \/ "pool" \notin R
  PROVE  Pool \in Together(R) \cap Naming
<1>1. <<"pool">> \in Seq(Name) /\ ToSet(<<"pool">>) = {"pool"}
  BY DEF Name, ToSet
<1>2. {"not found"} \in SUBSET Word /\ "429" \notin {"not found"}
  BY DEF Word
<1>3. Pool = Get(<<"pool">>, {"not found"})
  BY DEF Pool
<1>4. Pool \in Together(R)
  BY <1>1, <1>2, <1>3, GetTogether
<1>5. Pool \in Naming
  BY <1>1, <1>2, <1>3, GetNames
<1>6. QED
  BY <1>4, <1>5

LEMMA PoolAccounts == Pool \in StepOf /\ Pool.request /\ ToSet(Pool.accounts) = {"pool"}
<1>1. <<"pool">> \in Seq(Name) /\ ToSet(<<"pool">>) = {"pool"}
  BY DEF Name, ToSet
<1>2. {"not found"} \in SUBSET Word
  BY DEF Word
<1>3. QED
  BY <1>1, <1>2, GetType DEF Pool

\* A batch of accounts of which the reserves are all or none.
LEMMA BatchStep ==
  ASSUME NEW R, NEW accounts \in Seq(Name), "pool" \notin ToSet(accounts),
         R \subseteq ToSet(accounts) \/ R \cap ToSet(accounts) = {}
  PROVE  /\ Batch(accounts) \in Together(R) \cap Naming \cap Elsewhere
         /\ Batch(accounts).accounts = accounts
<1>1. {"account missing"} \in SUBSET Word /\ "429" \notin {"account missing"}
  BY DEF Word
<1>2. Batch(accounts) = Get(accounts, {"account missing"})
  BY DEF Batch
<1>3. Batch(accounts) \in Together(R)
  BY <1>1, <1>2, GetTogether
<1>4. Batch(accounts) \in Naming
  BY <1>1, <1>2, GetNames
<1>5. Batch(accounts) \in Elsewhere
  BY <1>1, <1>2, GetElsewhere
<1>6. Batch(accounts).accounts = accounts
  BY <1>1, <1>2, GetType
<1>7. QED
  BY <1>3, <1>4, <1>5, <1>6

\* How a calculator begins.
LEMMA Heads ==
  ASSUME NEW T, Pool \in T, Checks \subseteq T
  PROVE  /\ Shape(<<Pool>>, T)
         /\ Shape(<<Pool, Length("pool")>>, T)
         /\ Shape(<<Pool, Owned("pool"), Length("pool")>>, T)
         /\ Shape(<<Pool, Owned("pool"), Layout("pool")>>, T)
<1> DEFINE pool == Pool
           owned == Owned("pool")
           length == Length("pool")
           layout == Layout("pool")
<1>1. /\ pool \in T /\ owned \in T /\ length \in T /\ layout \in T
      /\ owned \in Elsewhere /\ length \in Elsewhere /\ layout \in Elsewhere
  BY PoolChecks, ChecksAreHarmless DEF ChecksLength
<1>2. pool = Pool
  OBVIOUS
<1> HIDE DEF pool, owned, length, layout
<1>3. /\ Shape(<<pool>>, T)
      /\ Shape(<<pool, length>>, T)
  BY <1>1, <1>2 DEF Shape
<1>4. /\ Shape(<<pool, owned, length>>, T)
      /\ Shape(<<pool, owned, layout>>, T)
  BY <1>1, <1>2 DEF Shape
<1>5. QED
  BY <1>3, <1>4 DEF pool, owned, length, layout
----------------------------------------------------------------------------
(* What the invariants need of a protocol.                                 *)
WellMade(p) ==
  LET steps == Compute[p].steps
      R == Compute[p].reserves
  IN  /\ Shape(steps, Together(R))
      /\ R \subseteq Accounts(p)
      /\ p \in NamesAll => \A i \in DOMAIN steps : steps[i] \in Naming
      /\ p \in ChecksOwner => \E i \in DOMAIN steps : steps[i] = Owned("pool")
      /\ p \in ChecksLayout => \E i \in DOMAIN steps : steps[i] \in ChecksLength

\* Where the accounts of a protocol come from.
LEMMA AccountsOfSteps ==
  ASSUME NEW p, NEW i \in DOMAIN Compute[p].steps
  PROVE  ToSet(Compute[p].steps[i].accounts) \subseteq Accounts(p)
BY DEF Accounts, ToSet

\* A calculator whose requests are also all named.
LEMMA MadeAndNamed ==
  ASSUME NEW p, NEW R, Compute[p].reserves = R,
         Shape(Compute[p].steps, Together(R) \cap Naming),
         R = {} \/ \E i \in DOMAIN Compute[p].steps :
                     R \subseteq ToSet(Compute[p].steps[i].accounts),
         p \in ChecksOwner => \E i \in DOMAIN Compute[p].steps :
                                Compute[p].steps[i] = Owned("pool"),
         p \in ChecksLayout => \E i \in DOMAIN Compute[p].steps :
                                 Compute[p].steps[i] \in ChecksLength
  PROVE  WellMade(p)
<1> DEFINE steps == Compute[p].steps
           T == Together(R)
<1>1. Shape(steps, T \cap Naming)
  OBVIOUS
<1>2. R \subseteq Accounts(p)
  BY AccountsOfSteps
<1> HIDE DEF T, steps
<1>3. steps \in Seq(T \cap Naming)
  BY <1>1 DEF Shape
<1>4. steps \in Seq(T)
  BY <1>3, SeqMonotonic, T \cap Naming \subseteq T
<1>5. \A i \in DOMAIN steps : steps[i] \in Naming
  BY <1>3
<1>6. Shape(steps, T)
  BY <1>1, <1>4 DEF Shape
<1>7. QED
  BY <1>2, <1>5, <1>6 DEF T, steps, WellMade

VaultPair == {"vaultA", "vaultB"}
Fine(R) == Together(R) \cap Naming

LEMMA FineSteps ==
  ASSUME NEW R, R = {"pool"} \/ "pool" \notin R
  PROVE  /\ Pool \in Fine(R) /\ Checks \subseteq Fine(R)
         /\ Checks \subseteq Fine(R) \cap Elsewhere
BY PoolStep, ChecksAreHarmless DEF Fine

\* A batch and the decoding of what it reads, after a head.
LEMMA BatchAndDecode ==
  ASSUME NEW R, NEW accounts \in Seq(Name), NEW head, Shape(head, Fine(R)),
         R = {"pool"} \/ "pool" \notin R, "pool" \notin ToSet(accounts),
         R \subseteq ToSet(accounts) \/ R \cap ToSet(accounts) = {}
  PROVE  LET steps == head \o <<Batch(accounts)>> \o Decoded(accounts)
         IN  /\ Shape(steps, Fine(R))
             /\ \A i \in 1 .. Len(head) : i \in DOMAIN steps /\ steps[i] = head[i]
             /\ Len(head) + 1 \in DOMAIN steps
             /\ steps[Len(head) + 1].accounts = accounts
<1> DEFINE T == Fine(R)
           batch == Batch(accounts)
           one == head \o <<batch>>
           decoded == Decoded(accounts)
           steps == one \o decoded
<1>1. batch \in T \cap Elsewhere /\ batch.accounts = accounts
  BY BatchStep DEF Fine
<1>2. Checks \subseteq T \cap Elsewhere
  BY FineSteps
<1>3. decoded \in Seq(T \cap Elsewhere)
  BY <1>2, DecodedChecks, SeqMonotonic
<1>4. Shape(head, T) /\ Len(head) \in Nat
  BY DEF Shape
<1> HIDE DEF T, batch, decoded
<1>5. <<batch>> \in Seq(T \cap Elsewhere) /\ Len(<<batch>>) = 1 /\ <<batch>>[1] = batch
  BY <1>1
<1>6. /\ Shape(one, T) /\ Len(one) = Len(head) + 1
      /\ \A i \in 1 .. Len(head) : one[i] = head[i]
      /\ one[Len(head) + 1] = batch
  BY <1>1, <1>4, ExtendByOne
<1> HIDE DEF one
<1>7. /\ Shape(steps, T) /\ Len(steps) = Len(one) + Len(decoded)
      /\ \A i \in 1 .. Len(one) : steps[i] = one[i]
      /\ Len(decoded) \in Nat
  BY ONLY <1>3, <1>6, Extend
<1>8. DOMAIN steps = 1 .. Len(steps)
  BY <1>7 DEF Shape
<1> HIDE DEF steps
<1>9. /\ \A i \in 1 .. Len(head) : i \in DOMAIN steps /\ steps[i] = head[i]
      /\ Len(head) + 1 \in DOMAIN steps
      /\ steps[Len(head) + 1] = batch
  BY <1>4, <1>6, <1>7, <1>8
<1>10. QED
  BY <1>1, <1>7, <1>9 DEF T, batch, decoded, one, steps

LEMMA FourMade ==
  ASSUME NEW head, Shape(head, Fine(VaultPair))
  PROVE  LET c == FourAccounts(head)
         IN  /\ c.reserves = VaultPair /\ Shape(c.steps, Fine(VaultPair))
             /\ \A i \in 1 .. Len(head) : i \in DOMAIN c.steps /\ c.steps[i] = head[i]
             /\ \E i \in DOMAIN c.steps : VaultPair \subseteq ToSet(c.steps[i].accounts)
<1> DEFINE accounts == VaultsAndMints
           steps == head \o <<Batch(accounts)>> \o Decoded(accounts)
<1>1. ToSet(accounts) = {"vaultA", "vaultB", "mintA", "mintB"}
  BY ToSetOfFour DEF VaultsAndMints
<1>2. accounts \in Seq(Name)
  BY DEF VaultsAndMints, Name
<1>3. "pool" \notin ToSet(accounts) /\ "pool" \notin VaultPair /\ VaultPair \subseteq ToSet(accounts)
  BY <1>1 DEF VaultPair
<1> HIDE DEF accounts
<1>4. /\ Shape(steps, Fine(VaultPair))
      /\ \A i \in 1 .. Len(head) : i \in DOMAIN steps /\ steps[i] = head[i]
      /\ Len(head) + 1 \in DOMAIN steps
      /\ steps[Len(head) + 1].accounts = accounts
  BY <1>2, <1>3, BatchAndDecode
<1>5. FourAccounts(head).steps = steps /\ FourAccounts(head).reserves = VaultPair
  BY DEF FourAccounts, Calculator, VaultPair, accounts
<1> HIDE DEF steps
<1>6. QED
  BY <1>3, <1>4, <1>5

LEMMA TwoMade ==
  ASSUME NEW head, Shape(head, Fine(VaultPair))
  PROVE  LET c == TwoVaults(head)
         IN  /\ c.reserves = VaultPair /\ Shape(c.steps, Fine(VaultPair))
             /\ \A i \in 1 .. Len(head) : i \in DOMAIN c.steps /\ c.steps[i] = head[i]
             /\ \E i \in DOMAIN c.steps : VaultPair \subseteq ToSet(c.steps[i].accounts)
<1> DEFINE accounts == Vaults
           steps == head \o <<Batch(accounts)>> \o Decoded(accounts)
<1>1. ToSet(accounts) = {"vaultA", "vaultB"}
  BY ToSetOfTwo DEF Vaults
<1>2. accounts \in Seq(Name)
  BY DEF Vaults, Name
<1>3. "pool" \notin ToSet(accounts) /\ "pool" \notin VaultPair /\ VaultPair \subseteq ToSet(accounts)
  BY <1>1 DEF VaultPair
<1> HIDE DEF accounts
<1>4. /\ Shape(steps, Fine(VaultPair))
      /\ \A i \in 1 .. Len(head) : i \in DOMAIN steps /\ steps[i] = head[i]
      /\ Len(head) + 1 \in DOMAIN steps
      /\ steps[Len(head) + 1].accounts = accounts
  BY <1>2, <1>3, BatchAndDecode
<1>5. TwoVaults(head).steps = steps /\ TwoVaults(head).reserves = VaultPair
  BY DEF TwoVaults, Calculator, VaultPair, accounts
<1> HIDE DEF steps
<1>6. QED
  BY <1>3, <1>4, <1>5
----------------------------------------------------------------------------
(* The eleven calculators, one by one.                                     *)
LEMMA PairOfVaults ==
  /\ Pool \in Fine(VaultPair) /\ Checks \subseteq Fine(VaultPair)
  /\ Shape(<<Pool, Length("pool")>>, Fine(VaultPair))
  /\ Shape(<<Pool, Owned("pool"), Length("pool")>>, Fine(VaultPair))
  /\ Shape(<<Pool, Owned("pool"), Layout("pool")>>, Fine(VaultPair))
<1>1. "pool" \notin VaultPair
  BY DEF VaultPair
<1>2. Pool \in Fine(VaultPair) /\ Checks \subseteq Fine(VaultPair)
  BY <1>1, FineSteps
<1>3. QED
  BY <1>2, Heads

LEMMA PumpSwapMade == WellMade("pumpswap_amm")
<1> DEFINE c == Compute["pumpswap_amm"]
           head == <<Pool, Length("pool")>>
<1>1. c = FourAccounts(head)
  BY DEF Compute, PumpSwapAMM
<1>2. Shape(head, Fine(VaultPair)) /\ Len(head) = 2 /\ head[2] = Length("pool")
  BY PairOfVaults
<1> HIDE DEF head
<1>0. /\ c.reserves = VaultPair /\ Shape(c.steps, Fine(VaultPair))
      /\ \A i \in 1 .. Len(head) : i \in DOMAIN c.steps /\ c.steps[i] = head[i]
      /\ \E i \in DOMAIN c.steps : VaultPair \subseteq ToSet(c.steps[i].accounts)
  <2> HIDE DEF c
  <2>1. QED
    BY <1>1, <1>2, FourMade
<1>3. /\ c.reserves = VaultPair /\ Shape(c.steps, Fine(VaultPair))
      /\ 2 \in DOMAIN c.steps /\ c.steps[2] = Length("pool")
      /\ \E i \in DOMAIN c.steps : VaultPair \subseteq ToSet(c.steps[i].accounts)
  BY <1>0, <1>2
<1>4. \E i \in DOMAIN c.steps : c.steps[i] \in ChecksLength
  BY <1>3, PoolChecks
<1>5. "pumpswap_amm" \notin ChecksOwner
  BY DEF ChecksOwner
<1> HIDE DEF c
<1>6. Shape(c.steps, Together(VaultPair) \cap Naming)
  BY <1>3 DEF Fine
<1>7. QED
  BY <1>3, <1>4, <1>5, <1>6, MadeAndNamed DEF c

LEMMA DLMMMade == WellMade("dlmm")
<1> DEFINE c == Compute["dlmm"]
           head == <<Pool, Owned("pool"), Length("pool")>>
<1>1. c = FourAccounts(head)
  BY DEF Compute, MeteoraDLMM
<1>2. /\ Shape(head, Fine(VaultPair)) /\ Len(head) = 3
      /\ head[2] = Owned("pool") /\ head[3] = Length("pool")
  BY PairOfVaults
<1> HIDE DEF head
<1>0. /\ c.reserves = VaultPair /\ Shape(c.steps, Fine(VaultPair))
      /\ \A i \in 1 .. Len(head) : i \in DOMAIN c.steps /\ c.steps[i] = head[i]
      /\ \E i \in DOMAIN c.steps : VaultPair \subseteq ToSet(c.steps[i].accounts)
  <2> HIDE DEF c
  <2>1. QED
    BY <1>1, <1>2, FourMade
<1>3. /\ c.reserves = VaultPair /\ Shape(c.steps, Fine(VaultPair))
      /\ 2 \in DOMAIN c.steps /\ c.steps[2] = Owned("pool")
      /\ 3 \in DOMAIN c.steps /\ c.steps[3] = Length("pool")
      /\ \E i \in DOMAIN c.steps : VaultPair \subseteq ToSet(c.steps[i].accounts)
  BY <1>0, <1>2
<1>4. /\ \E i \in DOMAIN c.steps : c.steps[i] = Owned("pool")
      /\ \E i \in DOMAIN c.steps : c.steps[i] \in ChecksLength
  BY <1>3, PoolChecks
<1>5. Shape(c.steps, Together(VaultPair) \cap Naming)
  BY <1>3 DEF Fine
<1>6. QED
  BY <1>3, <1>4, <1>5, MadeAndNamed

LEMMA FourLayoutsMade ==
  ASSUME NEW p, Compute[p] = FourAccounts(<<Pool, Owned("pool"), Layout("pool")>>)
  PROVE  WellMade(p)
<1> DEFINE c == Compute[p]
           head == <<Pool, Owned("pool"), Layout("pool")>>
<1>1. c = FourAccounts(head)
  OBVIOUS
<1>2. /\ Shape(head, Fine(VaultPair)) /\ Len(head) = 3
      /\ head[2] = Owned("pool") /\ head[3] = Layout("pool")
  BY PairOfVaults
<1> HIDE DEF head
<1>0. /\ c.reserves = VaultPair /\ Shape(c.steps, Fine(VaultPair))
      /\ \A i \in 1 .. Len(head) : i \in DOMAIN c.steps /\ c.steps[i] = head[i]
      /\ \E i \in DOMAIN c.steps : VaultPair \subseteq ToSet(c.steps[i].accounts)
  <2> HIDE DEF c
  <2>1. QED
    BY <1>1, <1>2, FourMade
<1>3. /\ c.reserves = VaultPair /\ Shape(c.steps, Fine(VaultPair))
      /\ 2 \in DOMAIN c.steps /\ c.steps[2] = Owned("pool")
      /\ 3 \in DOMAIN c.steps /\ c.steps[3] = Layout("pool")
      /\ \E i \in DOMAIN c.steps : VaultPair \subseteq ToSet(c.steps[i].accounts)
  BY <1>0, <1>2
<1>4. /\ \E i \in DOMAIN c.steps : c.steps[i] = Owned("pool")
      /\ \E i \in DOMAIN c.steps : c.steps[i] \in ChecksLength
  BY <1>3, PoolChecks
<1>5. Shape(c.steps, Together(VaultPair) \cap Naming)
  BY <1>3 DEF Fine
<1>6. QED
  BY <1>3, <1>4, <1>5, MadeAndNamed

LEMMA DAMMv2Made == WellMade("damm_v2")
BY FourLayoutsMade DEF Compute, MeteoraDAMMv2

LEMMA WhirlpoolMade == WellMade("whirlpool")
BY FourLayoutsMade DEF Compute, OrcaWhirlpool

LEMMA TwoVaultsMade ==
  ASSUME NEW p, Compute[p] = TwoVaults(<<Pool, Length("pool")>>), p \notin ChecksOwner
  PROVE  WellMade(p)
<1> DEFINE c == Compute[p]
           head == <<Pool, Length("pool")>>
<1>1. c = TwoVaults(head)
  OBVIOUS
<1>2. Shape(head, Fine(VaultPair)) /\ Len(head) = 2 /\ head[2] = Length("pool")
  BY PairOfVaults
<1> HIDE DEF head
<1>0. /\ c.reserves = VaultPair /\ Shape(c.steps, Fine(VaultPair))
      /\ \A i \in 1 .. Len(head) : i \in DOMAIN c.steps /\ c.steps[i] = head[i]
      /\ \E i \in DOMAIN c.steps : VaultPair \subseteq ToSet(c.steps[i].accounts)
  <2> HIDE DEF c
  <2>1. QED
    BY <1>1, <1>2, TwoMade
<1>3. /\ c.reserves = VaultPair /\ Shape(c.steps, Fine(VaultPair))
      /\ 2 \in DOMAIN c.steps /\ c.steps[2] = Length("pool")
      /\ \E i \in DOMAIN c.steps : VaultPair \subseteq ToSet(c.steps[i].accounts)
  BY <1>0, <1>2
<1>4. \E i \in DOMAIN c.steps : c.steps[i] \in ChecksLength
  BY <1>3, PoolChecks
<1>5. Shape(c.steps, Together(VaultPair) \cap Naming)
  BY <1>3 DEF Fine
<1>6. QED
  BY <1>3, <1>4, <1>5, MadeAndNamed

LEMMA CLMMMade == WellMade("clmm")
BY TwoVaultsMade DEF Compute, RaydiumCLMM, ChecksOwner

LEMMA CPMMMade == WellMade("cpmm")
BY TwoVaultsMade DEF Compute, RaydiumCPMM, ChecksOwner

LEMMA BondingCurveMade == WellMade("bonding_curve")
<1> DEFINE c == Compute["bonding_curve"]
<1>1. c.steps = <<Pool>> /\ c.reserves = {}
  BY DEF Compute, PumpfunBondingCurve, Calculator
<1>2. Pool \in Fine({}) /\ Checks \subseteq Fine({})
  BY FineSteps
<1>3. Shape(c.steps, Fine({}))
  BY <1>1, <1>2, Heads
<1>4. QED
  BY <1>1, <1>3, MadeAndNamed DEF Fine, ChecksOwner, ChecksLayout

LEMMA DecodedTail ==
  ASSUME NEW T, Checks \subseteq T, NEW accounts \in Seq(Name)
  PROVE  Decoded(accounts) \in Seq(T \cap Elsewhere)
<1>1. Checks \subseteq T \cap Elsewhere
  BY ChecksAreHarmless
<1>2. QED
  BY <1>1, DecodedChecks, SeqMonotonic

\* Two batches, each of them decoded, the second in no words at all.
LEMMA DAMMv1Made == WellMade("damm_v1")
<1> DEFINE first == <<"lpA", "lpB", "vaultA", "vaultB", "mintA", "mintB", "clock">>
           second == <<"lpMintA", "lpMintB">>
           R == {"lpA", "lpB", "vaultA", "vaultB"}
           T == Together(R)
           c == Compute["damm_v1"]
           batch == Batch(first)
           late == Get(second, {})
           tail == Decoded(first)
           end == Decoded(second)
           owned == Owned("pool")
           layout == Layout("pool")
           one == <<Pool, owned, layout, batch>>
           two == one \o tail
           three == two \o <<late>>
           four == three \o end
<1>1. c.steps = four /\ c.reserves = R
  BY DEF Compute, MeteoraDAMMv1, Calculator
<1>2. first \in Seq(Name) /\ second \in Seq(Name)
  BY DEF Name
<1>3. /\ ToSet(first) = {"lpA", "lpB", "vaultA", "vaultB", "mintA", "mintB", "clock"}
      /\ ToSet(second) = {"lpMintA", "lpMintB"}
  BY ToSetOfTwo, ToSetOfSeven
<1>4. /\ "pool" \notin R /\ "pool" \notin ToSet(first) /\ "pool" \notin ToSet(second)
      /\ R \subseteq ToSet(first) /\ R \cap ToSet(second) = {}
  BY <1>3
<1>5. {} \in SUBSET Word
  OBVIOUS
<1> HIDE DEF first, second, R
<1>6. batch \in T \cap Elsewhere /\ batch.accounts = first
  BY <1>2, <1>4, BatchStep
<1>7. late \in T \cap Elsewhere
  <2>1. late \in T
    BY <1>2, <1>4, <1>5, GetTogether
  <2>2. late \in Elsewhere
    BY <1>2, <1>4, <1>5, GetElsewhere
  <2>3. QED
    BY <2>1, <2>2
<1>8. /\ Pool \in T /\ Checks \subseteq T
      /\ owned \in T \cap Elsewhere /\ layout \in T \cap Elsewhere
      /\ layout \in ChecksLength
  BY <1>4, PoolStep, PoolChecks, ChecksAreHarmless DEF ChecksLength
<1>9. tail \in Seq(T \cap Elsewhere) /\ end \in Seq(T \cap Elsewhere)
  BY <1>2, <1>8, DecodedTail
<1> HIDE DEF T, batch, late, tail, end, owned, layout
<1>10. /\ Shape(one, T) /\ Len(one) = 4
       /\ one[2] = owned /\ one[3] = layout /\ one[4] = batch
  BY <1>6, <1>8 DEF Shape
<1> HIDE DEF one
<1>11. Shape(two, T) /\ Len(two) = Len(one) + Len(tail) /\ Len(tail) \in Nat
       /\ \A i \in 1 .. Len(one) : two[i] = one[i]
  <2>1. Shape(one, T) /\ tail \in Seq(T \cap Elsewhere)
    BY <1>9, <1>10
  <2>2. QED
    BY <2>1, Extend
<1> HIDE DEF two
<1>12. late \in T \cap Elsewhere
  BY <1>7
<1>13. Shape(three, T) /\ Len(three) = Len(two) + 1
       /\ \A i \in 1 .. Len(two) : three[i] = two[i]
  BY <1>11, <1>12, ExtendByOne
<1> HIDE DEF three
<1>14. Shape(four, T) /\ Len(four) = Len(three) + Len(end) /\ Len(end) \in Nat
       /\ \A i \in 1 .. Len(three) : four[i] = three[i]
  BY ONLY <1>9, <1>13, Extend
<1> HIDE DEF four
<1>15. /\ DOMAIN four = 1 .. Len(four) /\ Len(four) \in Nat /\ Len(four) >= 4
       /\ four[2] = owned /\ four[3] = layout /\ four[4] = batch
  <2>1. two[2] = owned /\ two[3] = layout /\ two[4] = batch /\ Len(two) \in Nat /\ Len(two) >= 4
    BY <1>10, <1>11
  <2>2. /\ three[2] = owned /\ three[3] = layout /\ three[4] = batch
        /\ Len(three) \in Nat /\ Len(three) >= 4
    BY <1>13, <2>1
  <2>3. four[2] = owned /\ four[3] = layout /\ four[4] = batch /\ Len(four) >= 4
    BY <1>14, <2>2
  <2>4. DOMAIN four = 1 .. Len(four) /\ Len(four) \in Nat
    BY <1>14 DEF Shape
  <2>5. QED
    BY <2>3, <2>4
<1>16. R \subseteq Accounts("damm_v1")
  <2>1. 4 \in DOMAIN four
    BY <1>15
  <2>2. R \subseteq ToSet(four[4].accounts)
    BY <1>4, <1>6, <1>15
  <2>3. QED
    BY <1>1, <2>1, <2>2, AccountsOfSteps
<1>17. /\ \E i \in DOMAIN four : four[i] = owned
       /\ \E i \in DOMAIN four : four[i] \in ChecksLength
  BY <1>8, <1>15
<1>18. Shape(c.steps, Together(c.reserves)) /\ c.reserves \subseteq Accounts("damm_v1")
  BY <1>1, <1>14, <1>16 DEF T
<1>19. /\ \E i \in DOMAIN c.steps : c.steps[i] = Owned("pool")
       /\ \E i \in DOMAIN c.steps : c.steps[i] \in ChecksLength
  BY <1>1, <1>17 DEF owned
<1>20. QED
  BY <1>18, <1>19 DEF WellMade, NamesAll

\* The reserves are in the pool account; the quote mint comes last.
LEMMA DBCMade == WellMade("dbc")
<1> DEFINE batched == <<"vaultB", "mintA">>
           quote == <<"mintB">>
           R == {"pool"}
           T == Fine(R)
           c == Compute["dbc"]
           late == Get(quote, {"not found"})
           end == Decoded(quote)
           owned == Owned("pool")
           layout == Layout("pool")
           batch == Batch(batched)
           one == <<Pool, owned, layout, batch>>
           two == one \o Decoded(batched)
           three == two \o <<late>>
           four == three \o end
<1>1. c.steps = four /\ c.reserves = R
  BY DEF Compute, MeteoraDBC, Calculator
<1>2. batched \in Seq(Name) /\ quote \in Seq(Name)
  BY DEF Name
<1>3. ToSet(batched) = {"vaultB", "mintA"} /\ ToSet(quote) = {"mintB"}
  BY ToSetOfTwo DEF ToSet
<1>4. /\ "pool" \notin ToSet(batched) /\ "pool" \notin ToSet(quote)
      /\ R \cap ToSet(batched) = {} /\ R \cap ToSet(quote) = {}
  BY <1>3
<1>5. {"not found"} \in SUBSET Word /\ "429" \notin {"not found"}
  BY DEF Word
<1>6. R = {"pool"}
  OBVIOUS
<1> HIDE DEF batched, quote, R
<1>7. batch \in T \cap Elsewhere
  BY <1>2, <1>4, BatchStep DEF Fine
<1>8. late \in T \cap Elsewhere
  <2>1. late \in Together(R)
    BY <1>2, <1>4, <1>5, GetTogether
  <2>2. late \in Naming
    BY <1>2, <1>5, GetNames
  <2>3. late \in Elsewhere
    BY <1>2, <1>4, <1>5, GetElsewhere
  <2>4. QED
    BY <2>1, <2>2, <2>3 DEF Fine
<1>9. /\ Pool \in T /\ Checks \subseteq T
      /\ owned \in T \cap Elsewhere /\ layout \in T \cap Elsewhere
      /\ layout \in ChecksLength
  BY <1>6, FineSteps, PoolChecks DEF ChecksLength
<1> DEFINE tail == Decoded(batched)
<1>10. tail \in Seq(T \cap Elsewhere) /\ end \in Seq(T \cap Elsewhere)
  BY <1>2, <1>9, DecodedTail
<1> HIDE DEF T, batch, late, tail, end, owned, layout
<1>11. Shape(one, T) /\ Len(one) = 4 /\ one[1] = Pool /\ one[2] = owned /\ one[3] = layout
  BY <1>7, <1>9 DEF Shape
<1>12. two = one \o tail
  BY DEF tail
<1> HIDE DEF one, two
<1>13. Shape(two, T) /\ Len(two) = Len(one) + Len(tail) /\ Len(tail) \in Nat
       /\ \A i \in 1 .. Len(one) : two[i] = one[i]
  <2>1. Shape(one, T) /\ tail \in Seq(T \cap Elsewhere)
    BY <1>10, <1>11
  <2>2. QED
    BY <1>12, <2>1, Extend
<1>14. Shape(three, T) /\ Len(three) = Len(two) + 1
       /\ \A i \in 1 .. Len(two) : three[i] = two[i]
  BY <1>8, <1>13, ExtendByOne
<1> HIDE DEF three
<1>15. Shape(four, T) /\ Len(four) = Len(three) + Len(end) /\ Len(end) \in Nat
       /\ \A i \in 1 .. Len(three) : four[i] = three[i]
  <2>1. Shape(three, T) /\ end \in Seq(T \cap Elsewhere)
    BY <1>10, <1>14
  <2>2. QED
    BY <2>1, Extend
<1> HIDE DEF four
<1>16. /\ DOMAIN four = 1 .. Len(four) /\ Len(four) \in Nat /\ Len(four) >= 4
       /\ four[1] = Pool /\ four[2] = owned /\ four[3] = layout
  <2>1. two[1] = Pool /\ two[2] = owned /\ two[3] = layout /\ Len(two) \in Nat /\ Len(two) >= 4
    BY <1>11, <1>13
  <2>2. /\ three[1] = Pool /\ three[2] = owned /\ three[3] = layout
        /\ Len(three) \in Nat /\ Len(three) >= 4
    BY <1>14, <2>1
  <2>3. four[1] = Pool /\ four[2] = owned /\ four[3] = layout /\ Len(four) >= 4
    BY <1>15, <2>2
  <2>4. DOMAIN four = 1 .. Len(four) /\ Len(four) \in Nat
    BY <1>15 DEF Shape
  <2>5. QED
    BY <2>3, <2>4
<1>17. /\ \E i \in DOMAIN four : four[i] = owned
       /\ \E i \in DOMAIN four : four[i] \in ChecksLength
       /\ \E i \in DOMAIN four : R \subseteq ToSet(four[i].accounts)
  <2>1. R \subseteq ToSet(Pool.accounts)
    BY <1>6, PoolAccounts
  <2>2. QED
    BY <1>9, <1>16, <2>1
<1>18. /\ Shape(c.steps, Together(R) \cap Naming)
  BY <1>1, <1>15 DEF T, Fine
<1>19. /\ \E i \in DOMAIN c.steps : c.steps[i] = Owned("pool")
       /\ \E i \in DOMAIN c.steps : c.steps[i] \in ChecksLength
       /\ \E i \in DOMAIN c.steps : R \subseteq ToSet(c.steps[i].accounts)
  BY <1>1, <1>17 DEF owned
<1>20. c.reserves = R
  BY <1>1
<1>21. QED
  BY <1>18, <1>19, <1>20, MadeAndNamed

\* The balances of the open orders are reserves as well.
LEMMA LiquidityV4Made == WellMade("liquidity_v4")
<1> DEFINE accounts == <<"vaultA", "vaultB", "openOrders">>
           R == {"vaultA", "vaultB", "openOrders"}
           T == Fine(R)
           c == Compute["liquidity_v4"]
           short == Bad({"short"}, {}, TRUE)
           other == Bad({"other"}, {"invalid pool"}, TRUE)
           layout == Check("pool", <<short, other>>)
           batch == Batch(accounts)
           one == <<Pool, layout, batch>>
           end == Decoded(accounts)
           two == one \o end
<1>1. c.steps = two /\ c.reserves = R
  BY DEF Compute, RaydiumLiquidityV4, Calculator
<1>2. ToSet(accounts) = R
  BY ToSetOfThree
<1>3. accounts \in Seq(Name)
  BY DEF Name
<1>4. "pool" \notin R
  OBVIOUS
<1>5. short \in Refusal /\ other \in Refusal /\ "short" \in short.conditions
  BY DEF Bad, Refusal, Condition, Word
<1> HIDE DEF accounts, R, short, other
<1>6. batch \in T \cap Elsewhere /\ batch.accounts = accounts
  BY <1>2, <1>3, <1>4, BatchStep DEF Fine
<1>7. layout \in ChecksLength
  <2> DEFINE bad == <<short, other>>
  <2>1. bad \in Seq(Refusal) /\ short \in ToSet(bad)
    BY <1>5 DEF ToSet
  <2> HIDE DEF bad
  <2>2. Check("pool", bad) \in Checks
    BY <2>1, CheckType DEF Name
  <2>3. Check("pool", bad).accounts = <<"pool">> /\ Check("pool", bad).bad = bad
    BY DEF Check
  <2>4. Check("pool", bad) \in ChecksLength
    BY <1>5, <2>1, <2>2, <2>3 DEF ChecksLength
  <2>5. QED
    BY <2>4 DEF bad
<1>8. Pool \in T /\ Checks \subseteq T /\ layout \in T \cap Elsewhere
  BY <1>4, <1>7, FineSteps DEF ChecksLength
<1>9. end \in Seq(T \cap Elsewhere)
  BY <1>3, <1>8, DecodedTail
<1> HIDE DEF T, batch, layout, end
<1>10. Shape(one, T) /\ Len(one) = 3 /\ one[2] = layout /\ one[3] = batch
  BY <1>6, <1>8 DEF Shape
<1> HIDE DEF one
<1>11. Shape(two, T) /\ Len(two) = Len(one) + Len(end) /\ Len(end) \in Nat
       /\ \A i \in 1 .. Len(one) : two[i] = one[i]
  <2>1. Shape(one, T) /\ end \in Seq(T \cap Elsewhere)
    BY <1>9, <1>10
  <2>2. QED
    BY <2>1, Extend
<1> HIDE DEF two
<1>12. /\ DOMAIN two = 1 .. Len(two) /\ Len(two) \in Nat /\ Len(two) >= 3
       /\ two[2] = layout /\ two[3] = batch
  BY <1>10, <1>11 DEF Shape
<1>13. /\ \E i \in DOMAIN two : two[i] \in ChecksLength
       /\ \E i \in DOMAIN two : R \subseteq ToSet(two[i].accounts)
  BY <1>2, <1>6, <1>7, <1>12
<1>14. Shape(c.steps, Together(R) \cap Naming)
  BY <1>1, <1>11 DEF T, Fine
<1>15. /\ \E i \in DOMAIN c.steps : c.steps[i] \in ChecksLength
       /\ \E i \in DOMAIN c.steps : R \subseteq ToSet(c.steps[i].accounts)
       /\ c.reserves = R
  BY <1>1, <1>13
<1>16. "liquidity_v4" \notin ChecksOwner
  BY DEF ChecksOwner
<1>17. QED
  BY <1>14, <1>15, <1>16, MadeAndNamed

\* The config is asked for alone and checked like the pool.
LEMMA LaunchpadMade == WellMade("launchpad")
<1> DEFINE R == {"pool"}
           T == Fine(R)
           c == Compute["launchpad"]
           foreign == Bad({"foreign"}, {}, TRUE)
           short == Bad({"short"}, {}, TRUE)
           other == Bad({"other"}, {}, FALSE)
           owned == Owned("pool")
           layout == Layout("pool")
           config == <<"config">>
           get == Get(config, {"not found"})
           ownedConfig == Check("config", <<foreign>>)
           layoutConfig == Check("config", <<short, other>>)
           steps == <<Pool, owned, layout, get, ownedConfig, layoutConfig>>
<1>1. c.steps = steps /\ c.reserves = R
  BY DEF Compute, RaydiumLaunchpad, Calculator, Owned, Layout
<1>2. config \in Seq(Name) /\ ToSet(config) = {"config"}
  BY DEF Name, ToSet
<1>3. R \cap ToSet(config) = {} /\ "pool" \notin ToSet(config)
  BY <1>2
<1>4. {"not found"} \in SUBSET Word /\ "429" \notin {"not found"}
  BY DEF Word
<1>5. R = {"pool"}
  OBVIOUS
<1>6. foreign \in Refusal /\ short \in Refusal /\ other \in Refusal
  BY DEF Bad, Refusal, Condition, Word
<1> HIDE DEF R, config, foreign, short, other
<1>7. get \in T \cap Elsewhere
  <2>1. get \in Together(R)
    BY <1>2, <1>3, <1>4, GetTogether
  <2>2. get \in Naming
    BY <1>2, <1>4, GetNames
  <2>3. get \in Elsewhere
    BY <1>2, <1>3, <1>4, GetElsewhere
  <2>4. QED
    BY <2>1, <2>2, <2>3 DEF Fine
<1>8. ownedConfig \in Checks /\ layoutConfig \in Checks
  <2>1. <<foreign>> \in Seq(Refusal) /\ <<short, other>> \in Seq(Refusal)
    BY <1>6
  <2>2. QED
    BY <2>1, CheckType DEF Name
<1>9. /\ Pool \in T /\ layout \in ChecksLength
      /\ owned \in T \cap Elsewhere /\ layout \in T \cap Elsewhere
      /\ ownedConfig \in T \cap Elsewhere /\ layoutConfig \in T \cap Elsewhere
  BY <1>5, <1>8, FineSteps, PoolChecks DEF ChecksLength
<1> HIDE DEF T, get, owned, layout, ownedConfig, layoutConfig
<1>10. /\ Shape(steps, T) /\ DOMAIN steps = 1 .. 6
       /\ steps[1] = Pool /\ steps[2] = owned /\ steps[3] = layout
  BY <1>7, <1>9 DEF Shape
<1> HIDE DEF steps
<1>11. /\ \E i \in DOMAIN steps : steps[i] = owned
       /\ \E i \in DOMAIN steps : steps[i] \in ChecksLength
       /\ \E i \in DOMAIN steps : R \subseteq ToSet(steps[i].accounts)
  <2>1. R \subseteq ToSet(Pool.accounts)
    BY <1>5, PoolAccounts
  <2>2. QED
    BY <1>9, <1>10, <2>1
<1>12. Shape(c.steps, Together(R) \cap Naming)
  BY <1>1, <1>10 DEF T, Fine
<1>13. /\ \E i \in DOMAIN c.steps : c.steps[i] = Owned("pool")
       /\ \E i \in DOMAIN c.steps : c.steps[i] \in ChecksLength
       /\ \E i \in DOMAIN c.steps : R \subseteq ToSet(c.steps[i].accounts)
       /\ c.reserves = R
  BY <1>1, <1>11 DEF owned
<1>14. QED
  BY <1>12, <1>13, MadeAndNamed

\* Every protocol of the SDK is well made.
LEMMA EveryProtocol == \A p \in Protocol : WellMade(p)
<1>1. DOMAIN Compute = {"pumpswap_amm", "bonding_curve", "dlmm", "damm_v2", "damm_v1",
        "dbc", "whirlpool", "clmm", "cpmm", "liquidity_v4", "launchpad"}
  BY DEF Compute
<1>2. \A p \in DOMAIN Compute : WellMade(p)
  BY <1>1, PumpSwapMade, BondingCurveMade, DLMMMade, DAMMv2Made, DAMMv1Made, DBCMade,
     WhirlpoolMade, CLMMMade, CPMMMade, LiquidityV4Made, LaunchpadMade
<1>3. QED
  BY <1>2, ProtocolAssumption
----------------------------------------------------------------------------
(* The inductive invariant.                                                *)

\* Only the client of a group holds accounts, the pool first of all.
CacheInv ==
  /\ grouped => cache["pool"] # NotHeld
  /\ \A a \in Accounts(protocol) :
       /\ cache[a].slot <= slot
       /\ cache[a] # NotHeld => grouped /\ cache["pool"].slot <= cache[a].slot

\* What was read so far is not older than the pool account, which a group
\* never asks for again.
OrderInv ==
  /\ at["pool"] <= slot
  /\ grouped => at["pool"] <= cache["pool"].slot
  /\ grouped => \A i \in rest \cup unfound : List[i] # "pool"
  /\ \A i \in DOMAIN Steps : i < next /\ Steps[i].request =>
       \A a \in ToSet(Steps[i].accounts) : at["pool"] <= at[a]
  /\ asking => \A j \in DOMAIN List \ (rest \cup unfound) : at["pool"] <= at[List[j]]

\* In a single call nothing is asked for again; a request that fits into a chunk
\* is answered all at once, and so the accounts of the reserves are read at one
\* slot, from the start.
TogetherInv ==
  ~ grouped =>
    /\ unfound = {}
    /\ Fits => /\ asking => rest \in {DOMAIN List, {}}
               /\ \A a, b \in Compute[protocol].reserves : at[a] = at[b]

\* What was found absent is an account of the request under way or has already
\* ended the calculation.
NamedInv ==
  protocol \in NamesAll =>
    /\ cause = "missing" => code = "account_not_found"
    /\ \A a \in Accounts(protocol) : held[a] = "absent" =>
         (asking /\ a \in ToSet(List)) \/ cause \in {"request", "missing"}

\* A check of the pool account that was passed would still be passed.
CheckedInv ==
  \A i \in DOMAIN Steps :
    i < next /\ ~ Steps[i].request /\ Steps[i].accounts = <<"pool">> =>
      \A b \in ToSet(Steps[i].bad) : held["pool"] \notin b.conditions

\* Metrics come after the last step, and a cause with an error.
EndInv ==
  /\ result = "metrics" => next = Len(Steps) + 1
  /\ code = Nil => cause = Nil

ComputeInv ==
  TypeOK /\ CacheInv /\ OrderInv /\ TogetherInv /\ NamedInv /\ CheckedInv /\ EndInv

LEMMA StepFacts ==
  ASSUME TypeOK
  PROVE  /\ WellMade(protocol) /\ Steps \in Seq(StepOf)
         /\ Len(Steps) \in Nat \ {0} /\ DOMAIN Steps = 1 .. Len(Steps)
         /\ Steps[1] = Pool /\ "pool" \in Accounts(protocol)
         /\ \A i \in DOMAIN Steps : /\ Steps[i] \in Together(Compute[protocol].reserves)
                                    /\ Steps[i] \in StepOf
                                    /\ ToSet(Steps[i].accounts) \subseteq Accounts(protocol)
<1> DEFINE R == Compute[protocol].reserves
           T == Together(R)
<1>1. WellMade(protocol)
  BY EveryProtocol DEF TypeOK
<1>2. Shape(Steps, T)
  BY <1>1 DEF WellMade, Steps
<1>3. T \subseteq StepOf
  BY DEF Together
<1> HIDE DEF T
<1>4. Steps \in Seq(T) /\ Len(Steps) >= 1 /\ Steps[1] = Pool
  BY <1>2 DEF Shape
<1>5. Steps \in Seq(StepOf)
  BY <1>3, <1>4, SeqMonotonic
<1>6. Len(Steps) \in Nat \ {0} /\ DOMAIN Steps = 1 .. Len(Steps)
  BY <1>4
<1>7. \A i \in DOMAIN Steps : Steps[i] \in T
  BY <1>4
<1>8. \A i \in DOMAIN Steps : ToSet(Steps[i].accounts) \subseteq Accounts(protocol)
  BY AccountsOfSteps DEF Steps
<1>9. "pool" \in Accounts(protocol)
  BY <1>4, <1>6, <1>8, PoolAccounts
<1>10. QED
  BY <1>1, <1>3, <1>4, <1>5, <1>6, <1>7, <1>8, <1>9 DEF T

\* The codes of errors.
LEMMA CodeType ==
  ASSUME NEW kind \in Transient \cup {"unknown", Nil}, NEW words
  PROVE  ClassifyErrorCode([kind |-> kind, words |-> words]) \in ErrorCode
<1> DEFINE e == [kind |-> kind, words |-> words]
<1>1. e.kind = kind /\ e.words = words
  OBVIOUS
<1> HIDE DEF e
<1>2. ClassifyErrorCode(e) \in ErrorCode
  BY <1>1 DEF ClassifyErrorCode, ErrorCode
<1>3. QED
  BY <1>2 DEF e

LEMMA MissingCode ==
  ASSUME NEW words, "429" \notin words, words \cap {"not found", "account missing"} # {}
  PROVE  ClassifyErrorCode(Text(words)) = "account_not_found"
<1> DEFINE e == Text(words)
<1>1. e.kind = Nil /\ e.words = words
  BY DEF Text
<1> HIDE DEF e
<1>2. ClassifyError(e) = "unknown"
  BY <1>1 DEF ClassifyError
<1>3. ClassifyErrorCode(e) = "account_not_found"
  BY <1>1, <1>2 DEF ClassifyErrorCode, Transient
<1>4. QED
  BY <1>3 DEF e

LEMMA RequestErrorCodes ==
  \A e \in RequestErrors \cup {Text({})} : ClassifyErrorCode(e) \in ErrorCode
BY CodeType DEF RequestErrors, RPCError, Text

LEMMA InitCompute == Init => ComputeInv
<1> SUFFICES ASSUME Init PROVE ComputeInv
  OBVIOUS
<1>1. WellMade(protocol)
  BY EveryProtocol DEF Init
<1>2. Len(Steps) \in Nat \ {0} /\ DOMAIN Steps = 1 .. Len(Steps)
  BY <1>1 DEF WellMade, Shape, Steps
<1>3. "pool" \in Accounts(protocol)
  <2>1. 1 \in DOMAIN Compute[protocol].steps /\ Compute[protocol].steps[1] = Pool
    BY <1>1 DEF WellMade, Shape
  <2>2. QED
    BY <2>1, AccountsOfSteps, PoolAccounts
<1>4. \A a \in Accounts(protocol) :
        /\ cache[a] = IF grouped /\ a = "pool" THEN Now(a) ELSE NotHeld
        /\ at[a] = 0
        /\ held[a] = "good"
  BY DEF Init
<1>5. slot = 1 /\ slot \in 1 .. MaxSlot /\ fault \in Faults(protocol)
  BY SlotAssumption DEF Init
<1>6. \A a : Now(a) # NotHeld /\ Now(a) \in [slot : 0 .. MaxSlot, condition : Condition]
  <2>1. \A a : ConditionNow(a) \in Condition
    BY <1>5 DEF Faults, ConditionNow, Condition
  <2>2. QED
    BY <1>5, <2>1 DEF Now, NotHeld
<1>7. TypeOK
  <2>1. next \in 1 .. Len(Steps) + 1
    BY <1>2 DEF Init
  <2>2. at \in [Accounts(protocol) -> 0 .. MaxSlot] /\ held \in [Accounts(protocol) -> Condition]
    BY SlotAssumption DEF Init, Condition
  <2>3. NotHeld \in [slot : 0 .. MaxSlot, condition : Condition]
    BY SlotAssumption DEF NotHeld, Condition
  <2>4. cache \in [Accounts(protocol) -> [slot : 0 .. MaxSlot, condition : Condition]]
    BY <1>6, <2>3 DEF Init
  <2>5. QED
    BY <1>5, <2>1, <2>2, <2>4 DEF Init, TypeOK
<1>8. CacheInv
  <2>1. grouped => cache["pool"] # NotHeld
    BY <1>3, <1>4, <1>6
  <2>2. ASSUME NEW a \in Accounts(protocol), cache[a] # NotHeld
        PROVE  grouped /\ cache["pool"].slot <= cache[a].slot
    <3>1. grouped /\ a = "pool" /\ cache[a] = Now("pool")
      BY <1>4, <2>2
    <3>2. Now("pool").slot \in Nat
      BY <1>5 DEF Now
    <3>3. QED
      BY <3>1, <3>2
  <2>3. \A a \in Accounts(protocol) : cache[a].slot <= slot
    <3>1. NotHeld.slot = 0 /\ \A a : Now(a).slot = slot
      BY DEF Now, NotHeld
    <3>2. \A a \in Accounts(protocol) : cache[a] = NotHeld \/ cache[a] = Now(a)
      BY <1>4
    <3>3. QED
      BY <1>5, <3>1, <3>2
  <2>4. QED
    BY <2>1, <2>2, <2>3 DEF CacheInv
<1>9. OrderInv
  <2>1. at["pool"] = 0
    BY <1>3, <1>4
  <2>2. grouped => cache["pool"].slot = slot
    <3>1. grouped => cache["pool"] = Now("pool")
      BY <1>3, <1>4
    <3>2. QED
      BY <3>1 DEF Now
  <2>3. ~ asking /\ rest = {} /\ unfound = {} /\ next = 1
    BY DEF Init
  <2>4. \A i \in DOMAIN Steps : ~ (i < next)
    BY <1>2, <2>3
  <2>5. QED
    BY <1>5, <2>1, <2>2, <2>3, <2>4 DEF OrderInv
<1>10. TogetherInv
  <2>1. \A a, b \in Compute[protocol].reserves : at[a] = at[b]
    BY <1>1, <1>4 DEF WellMade
  <2>2. QED
    BY <2>1 DEF Init, TogetherInv
<1>11. NamedInv
  <2>1. cause = Nil /\ Nil # "missing"
    BY NilAssumption DEF Init, Cause
  <2>2. \A a \in Accounts(protocol) : held[a] # "absent"
    BY <1>4
  <2>3. QED
    BY <2>1, <2>2 DEF NamedInv
<1>12. CheckedInv
  <2>1. \A i \in DOMAIN Steps : ~ (i < next)
    BY <1>2 DEF Init
  <2>2. QED
    BY <2>1 DEF CheckedInv
<1>13. EndInv
  BY NilAssumption DEF Init, EndInv
<1>14. QED
  BY <1>7, <1>8, <1>9, <1>10, <1>11, <1>12, <1>13 DEF ComputeInv

\* Between its requests a calculation that names what is missing has found
\* nothing absent.
LEMMA NothingAbsent ==
  ASSUME ComputeInv, Running, ~ asking, protocol \in NamesAll
  PROVE  \A a \in Accounts(protocol) : held[a] # "absent"
<1>1. cause = Nil
  BY DEF ComputeInv, EndInv, Running
<1>2. cause \notin {"request", "missing"}
  BY <1>1, NilAssumption DEF Cause
<1>3. QED
  BY <1>2 DEF ComputeInv, NamedInv

\* Steps that read nothing and stay where they are.
LEMMA Unread ==
  ASSUME ComputeInv, Running, UNCHANGED <<world, next, asking, rest, unfound, at, held>>,
         TypeOK', CacheInv', EndInv', slot <= slot',
         grouped => cache'["pool"] = cache["pool"],
         UNCHANGED <<code, cause>> \/ (~ asking /\ cause' # "missing")
  PROVE  ComputeInv'
<1>1. /\ Steps' = Steps /\ List' = List /\ UNCHANGED <<protocol, grouped, chunkSize>>
  BY DEF Steps, List, world
<1>2. TogetherInv'
  BY <1>1 DEF ComputeInv, TogetherInv, Fits
<1>3. NamedInv'
  BY <1>1, NothingAbsent DEF ComputeInv, NamedInv
<1>4. CheckedInv'
  BY <1>1 DEF ComputeInv, CheckedInv
<1>5. OrderInv'
  <2>1. slot \in Int /\ slot' \in Int /\ at["pool"] \in Int
    BY StepFacts, SlotAssumption DEF ComputeInv, TypeOK
  <2>2. at["pool"] <= slot'
    BY <2>1 DEF ComputeInv, OrderInv
  <2>3. QED
    BY <1>1, <2>2 DEF ComputeInv, OrderInv
<1>6. QED
  BY <1>2, <1>3, <1>4, <1>5 DEF ComputeInv

\* A failure without a reading, between requests.
LEMMA UnreadFailure ==
  ASSUME ComputeInv, Running, ~ asking, UNCHANGED <<world, slot, fault, cache, request, result>>,
         code' \in ErrorCode, cause' \in {"check", "reserves", "run"}
  PROVE  ComputeInv'
<1>1. /\ Steps' = Steps /\ List' = List /\ UNCHANGED <<protocol, grouped, chunkSize>>
      /\ UNCHANGED <<next, asking, rest, unfound, at, held>>
  BY DEF Steps, List, world, request
<1>2. TypeOK'
  BY <1>1, NilAssumption DEF ComputeInv, TypeOK, Running, Cause
<1>3. EndInv'
  BY NilAssumption DEF EndInv, Running
<1>4. CacheInv'
  BY <1>1 DEF ComputeInv, CacheInv
<1>5. slot <= slot'
  BY SlotAssumption DEF ComputeInv, TypeOK
<1>6. QED
  BY <1>1, <1>2, <1>3, <1>4, <1>5, Unread

LEMMA AdvanceStep ==
  ASSUME ComputeInv, Advance
  PROVE  ComputeInv'
<1>1. /\ Running /\ UNCHANGED <<world, cache, result, code, cause>>
      /\ UNCHANGED <<next, asking, rest, unfound, at, held>>
      /\ Steps' = Steps /\ List' = List /\ UNCHANGED <<protocol, grouped, chunkSize>>
  BY DEF Advance, Steps, List, world, request
<1>2. slot' \in 1 .. MaxSlot /\ slot <= slot' /\ fault' \in Faults(protocol)
  BY SlotAssumption DEF Advance, ComputeInv, TypeOK, Faults
<1>3. TypeOK'
  BY <1>1, <1>2 DEF ComputeInv, TypeOK
<1>4. EndInv'
  BY <1>1 DEF ComputeInv, EndInv
<1>5. CacheInv'
  <2>1. ASSUME NEW a \in Accounts(protocol) PROVE cache[a].slot <= slot'
    <3>1. cache[a].slot \in Int /\ slot \in Int /\ slot' \in Int
      BY <1>2, SlotAssumption DEF ComputeInv, TypeOK
    <3>2. QED
      BY <1>2, <3>1 DEF ComputeInv, CacheInv
  <2>2. QED
    BY <1>1, <2>1 DEF ComputeInv, CacheInv
<1>6. QED
  BY <1>1, <1>2, <1>3, <1>4, <1>5, Unread

LEMMA ConditionType ==
  ASSUME TypeOK, NEW a
  PROVE  ConditionNow(a) \in Condition
BY DEF TypeOK, Faults, ConditionNow, Condition

LEMMA ShareStep ==
  ASSUME ComputeInv, Share
  PROVE  ComputeInv'
<1>1. /\ Running /\ grouped /\ UNCHANGED <<world, slot, fault, result, code, cause>>
      /\ UNCHANGED <<next, asking, rest, unfound, at, held>>
      /\ Steps' = Steps /\ List' = List /\ UNCHANGED <<protocol, grouped, chunkSize>>
  BY DEF Share, Steps, List, world, request
<1>2. PICK S \in Shared :
        cache' = [a \in DOMAIN cache |->
                    IF a \in S /\ cache[a] = NotHeld THEN Now(a) ELSE cache[a]]
  BY DEF Share
<1>3. /\ TypeOK /\ slot \in 1 .. MaxSlot /\ "pool" \in Accounts(protocol)
      /\ cache \in [Accounts(protocol) -> [slot : 0 .. MaxSlot, condition : Condition]]
  BY StepFacts DEF ComputeInv, TypeOK
<1>4. \A a : Now(a) \in [slot : 0 .. MaxSlot, condition : Condition] /\ Now(a).slot = slot
  BY <1>3, ConditionType, SlotAssumption DEF Now
<1>5. cache' \in [Accounts(protocol) -> [slot : 0 .. MaxSlot, condition : Condition]]
  BY <1>2, <1>3, <1>4
<1>6. TypeOK'
  BY <1>1, <1>3, <1>5 DEF TypeOK
<1>7. cache'["pool"] = cache["pool"] /\ cache["pool"] # NotHeld
  BY <1>1, <1>2, <1>3 DEF ComputeInv, CacheInv
<1>8. cache["pool"].slot <= slot
  BY <1>3 DEF ComputeInv, CacheInv
<1>9. CacheInv'
  <2>1. ASSUME NEW a \in Accounts(protocol)
        PROVE  /\ cache'[a].slot <= slot
               /\ cache'[a] # NotHeld => cache["pool"].slot <= cache'[a].slot
    <3>1. cache'[a] \in {Now(a), cache[a]}
      BY <1>2, <1>3
    <3>2. Now(a).slot <= slot
      BY <1>3, <1>4
    <3>3. QED
      BY <1>4, <1>8, <3>1, <3>2 DEF ComputeInv, CacheInv
  <2>2. QED
    BY <1>1, <1>7, <2>1 DEF CacheInv
<1>10. EndInv' /\ slot <= slot'
  BY <1>1, <1>3, SlotAssumption DEF ComputeInv, EndInv
<1>11. QED
  BY <1>1, <1>6, <1>7, <1>9, <1>10, Unread

\* What a request step is like.
LEMMA RequestFacts ==
  ASSUME ComputeInv, InSteps, Steps[next].request
  PROVE  /\ TypeOK /\ next \in DOMAIN Steps /\ next \in Nat /\ Len(Steps) \in Nat
         /\ DOMAIN Steps = 1 .. Len(Steps)
         /\ List \in Seq(Name) /\ ToSet(List) \subseteq Accounts(protocol)
         /\ \A i \in DOMAIN List : List[i] \in ToSet(List)
         /\ next = 1 => ToSet(List) = {"pool"}
         /\ next > 1 => "pool" \notin ToSet(List)
         /\ LET R == Compute[protocol].reserves
            IN  R \subseteq ToSet(List) \/ R \cap ToSet(List) = {}
<1> DEFINE R == Compute[protocol].reserves
<1>1. TypeOK
  BY DEF ComputeInv
<1>2. next \in DOMAIN Steps /\ next \in Nat /\ Len(Steps) \in Nat /\ DOMAIN Steps = 1 .. Len(Steps)
  BY <1>1, StepFacts DEF TypeOK, InSteps
<1>3. Steps[next] \in Together(R) /\ Steps[next] \in StepOf
      /\ ToSet(List) \subseteq Accounts(protocol)
  BY <1>1, <1>2, StepFacts DEF List
<1>4. List \in Seq(Name)
  BY <1>3 DEF StepOf, List
<1>5. \A i \in DOMAIN List : List[i] \in ToSet(List)
  BY DEF ToSet
<1>6. next = 1 => ToSet(List) = {"pool"}
  BY <1>1, StepFacts, PoolAccounts DEF List
<1>7. next > 1 => "pool" \notin ToSet(List)
  <2>1. Shape(Steps, Together(R))
    BY <1>1, StepFacts DEF WellMade, Steps
  <2>2. next > 1 => Steps[next] \in Elsewhere
    BY <1>2, <2>1 DEF Shape
  <2>3. QED
    BY <2>2 DEF Elsewhere, List
<1>8. R \subseteq ToSet(List) \/ R \cap ToSet(List) = {}
  BY <1>3 DEF Together, List
<1>9. QED
  BY <1>1, <1>2, <1>3, <1>4, <1>5, <1>6, <1>7, <1>8

\* A step of a request: some accounts of its list are read.
LEMMA Reading ==
  ASSUME ComputeInv, InSteps, Steps[next].request,
         UNCHANGED <<world, slot, fault, cache, next, result, code, cause>>,
         asking',
         NEW read, read \subseteq ToSet(List),
         rest' \cup unfound' \subseteq DOMAIN List,
         grouped => \A i \in rest' \cup unfound' : List[i] # "pool",
         \A i \in DOMAIN List \ (rest' \cup unfound') :
           List[i] \in read \/ (asking /\ i \notin rest \cup unfound),
         at' \in [Accounts(protocol) -> 0 .. MaxSlot],
         held' \in [Accounts(protocol) -> Condition],
         \A a \in Accounts(protocol) \ read : at'[a] = at[a] /\ held'[a] = held[a],
         \A a \in read : at["pool"] <= at'[a],
         at'["pool"] <= slot,
         grouped => at'["pool"] <= cache["pool"].slot,
         asking' \in BOOLEAN, TogetherInv'
  PROVE  ComputeInv'
<1>1. /\ Steps' = Steps /\ List' = List /\ UNCHANGED <<protocol, grouped, chunkSize>>
      /\ UNCHANGED <<slot, fault, cache, next, result, code, cause>>
  BY DEF Steps, List, world
<1>2. /\ TypeOK /\ next \in DOMAIN Steps /\ next \in Nat /\ next <= Len(Steps)
      /\ DOMAIN Steps = 1 .. Len(Steps) /\ Len(Steps) \in Nat
      /\ "pool" \in Accounts(protocol)
      /\ ToSet(List) \subseteq Accounts(protocol)
      /\ \A i \in DOMAIN List : List[i] \in ToSet(List)
      /\ next = 1 => ToSet(List) = {"pool"}
      /\ next > 1 => "pool" \notin ToSet(List)
  BY RequestFacts, StepFacts DEF InSteps, ComputeInv
<1>3. at["pool"] \in Int /\ at'["pool"] \in Int
  BY <1>2, SlotAssumption DEF TypeOK
<1>4. next > 1 => at'["pool"] = at["pool"] /\ held'["pool"] = held["pool"]
  BY <1>2
<1>5. TypeOK'
  BY <1>1, <1>2 DEF TypeOK
<1>6. CacheInv' /\ EndInv'
  BY <1>1 DEF ComputeInv, CacheInv, EndInv
<1>7. NamedInv'
  <2> SUFFICES ASSUME protocol \in NamesAll, NEW a \in Accounts(protocol), held'[a] = "absent",
                      cause \notin {"request", "missing"}
               PROVE  a \in ToSet(List)
    BY <1>1 DEF ComputeInv, NamedInv
  <2>1. CASE a \in read
    BY <2>1
  <2>2. CASE a \notin read
    BY <2>2 DEF ComputeInv, NamedInv
  <2>3. QED
    BY <2>1, <2>2
<1>8. CheckedInv'
  <2> SUFFICES ASSUME NEW i \in DOMAIN Steps, i < next, ~ Steps[i].request,
                      Steps[i].accounts = <<"pool">>, NEW b \in ToSet(Steps[i].bad)
               PROVE  held'["pool"] \notin b.conditions
    BY <1>1 DEF CheckedInv
  <2>1. next > 1
    BY <1>2
  <2>2. QED
    BY <1>4, <2>1 DEF ComputeInv, CheckedInv
<1>9. OrderInv'
  <2>1. ASSUME NEW i \in DOMAIN Steps, i < next, Steps[i].request,
               NEW a \in ToSet(Steps[i].accounts)
        PROVE  at'["pool"] <= at'[a]
    <3>1. next > 1 /\ a \in Accounts(protocol)
      BY <1>2, <2>1, StepFacts
    <3>2. at["pool"] <= at[a]
      BY <2>1 DEF ComputeInv, OrderInv
    <3>3. QED
      BY <1>4, <3>1, <3>2
  <2>2. ASSUME NEW j \in DOMAIN List \ (rest' \cup unfound')
        PROVE  at'["pool"] <= at'[List[j]]
    <3>1. List[j] \in ToSet(List) /\ List[j] \in Accounts(protocol)
      BY <1>2
    <3>2. CASE next = 1
      <4>1. List[j] = "pool"
        BY <1>2, <3>1, <3>2
      <4>2. QED
        BY <1>3, <4>1
    <3>3. CASE next # 1
      <4>1. next > 1
        BY <1>2, <3>3
      <4>2. CASE List[j] \in read
        BY <1>4, <4>1, <4>2
      <4>3. CASE List[j] \notin read
        <5>1. at["pool"] <= at[List[j]]
          BY <4>3 DEF ComputeInv, OrderInv
        <5>2. QED
          BY <1>4, <3>1, <4>1, <4>3, <5>1
      <4>4. QED
        BY <4>2, <4>3
    <3>4. QED
      BY <3>2, <3>3
  <2>3. QED
    BY <1>1, <2>1, <2>2 DEF OrderInv
<1>10. QED
  BY <1>5, <1>6, <1>7, <1>8, <1>9 DEF ComputeInv

LEMMA AskStep ==
  ASSUME ComputeInv, Ask
  PROVE  ComputeInv'
<1> DEFINE known == {a \in ToSet(List) : cache[a] # NotHeld}
<1>1. /\ InSteps /\ Steps[next].request /\ ~ asking /\ asking' = TRUE
      /\ rest' = {i \in DOMAIN List : cache[List[i]] = NotHeld}
      /\ at' = [a \in DOMAIN at |-> IF a \in known THEN cache[a].slot ELSE at[a]]
      /\ held' = [a \in DOMAIN held |-> IF a \in known THEN cache[a].condition ELSE held[a]]
      /\ UNCHANGED <<world, slot, fault, cache, next, unfound, result, code, cause>>
      /\ Steps' = Steps /\ List' = List /\ UNCHANGED <<protocol, grouped, chunkSize>>
  BY DEF Ask, Steps, List, world
<1>2. /\ TypeOK /\ unfound = {} /\ rest = {} /\ unfound' = {}
      /\ "pool" \in Accounts(protocol) /\ ToSet(List) \subseteq Accounts(protocol)
      /\ \A i \in DOMAIN List : List[i] \in ToSet(List)
      /\ slot \in 1 .. MaxSlot
      /\ at \in [Accounts(protocol) -> 0 .. MaxSlot]
      /\ held \in [Accounts(protocol) -> Condition]
      /\ cache \in [Accounts(protocol) -> [slot : 0 .. MaxSlot, condition : Condition]]
  BY <1>1, RequestFacts, StepFacts DEF TypeOK
<1>3. known \subseteq ToSet(List) /\ known \subseteq Accounts(protocol)
  BY <1>2
<1>4. \A a \in Accounts(protocol) :
        /\ cache[a].slot \in 0 .. MaxSlot /\ cache[a].condition \in Condition
        /\ cache[a].slot <= slot
        /\ cache[a] # NotHeld => grouped /\ cache["pool"].slot <= cache[a].slot
  BY <1>2 DEF ComputeInv, CacheInv
<1>5. \A a \in known : grouped /\ cache["pool"].slot <= cache[a].slot
  BY <1>3, <1>4
<1>6. \A i \in DOMAIN List : i \notin rest' => List[i] \in known
  BY <1>1, <1>2
<1>7. grouped => \A i \in rest' : List[i] # "pool"
  BY <1>1 DEF ComputeInv, CacheInv
<1> HIDE DEF known
<1>8. at' \in [Accounts(protocol) -> 0 .. MaxSlot] /\ held' \in [Accounts(protocol) -> Condition]
  BY <1>1, <1>2, <1>4
<1>9. \A a \in Accounts(protocol) :
        /\ at'[a] = IF a \in known THEN cache[a].slot ELSE at[a]
        /\ held'[a] = IF a \in known THEN cache[a].condition ELSE held[a]
  BY <1>1, <1>2
<1>10. at["pool"] <= slot /\ (grouped => at["pool"] <= cache["pool"].slot)
  BY DEF ComputeInv, OrderInv
<1>11. \A a \in known : at["pool"] <= at'[a]
  <2> SUFFICES ASSUME NEW a \in known PROVE at["pool"] <= cache[a].slot
    BY <1>3, <1>9
  <2>1. at["pool"] \in Int /\ cache["pool"].slot \in Int /\ cache[a].slot \in Int
    BY <1>2, <1>3, <1>4, SlotAssumption
  <2>2. QED
    BY <1>5, <1>10, <2>1
<1>12. at'["pool"] <= slot /\ (grouped => at'["pool"] <= cache["pool"].slot)
  <2>1. cache["pool"].slot \in Int
    BY <1>2, <1>4
  <2>2. QED
    BY <1>2, <1>4, <1>9, <1>10, <2>1
<1>13. TogetherInv'
  <2> SUFFICES ASSUME ~ grouped, Fits
               PROVE  rest' = DOMAIN List /\ at' = at
    BY <1>1, <1>2 DEF ComputeInv, TogetherInv, Fits
  <2>1. known = {}
    BY <1>5
  <2>2. at' = at
    BY <1>1, <1>2, <2>1
  <2>3. rest' = DOMAIN List
    BY <1>1, <1>2, <1>4
  <2>4. QED
    BY <2>2, <2>3
<1>14. QED
  BY <1>1, <1>2, <1>3, <1>6, <1>7, <1>8, <1>9, <1>11, <1>12, <1>13, Reading

\* A request that fits is one chunk.
LEMMA OneChunk ==
  ASSUME List \in Seq(Name), rest \subseteq DOMAIN List, chunkSize \in Nat,
         Len(List) <= chunkSize
  PROVE  First(chunkSize) = rest
<1>1. IsFiniteSet(1 .. Len(List)) /\ Cardinality(1 .. Len(List)) = Len(List)
  <2> DEFINE n == Len(List)
  <2>1. n \in Nat
    OBVIOUS
  <2> HIDE DEF n
  <2>2. IsFiniteSet(1 .. n) /\ Cardinality(1 .. n) = IF 1 > n THEN 0 ELSE n - 1 + 1
    BY <2>1, FS_Interval
  <2>3. Cardinality(1 .. n) = n
    BY <2>1, <2>2
  <2>4. QED
    BY <2>2, <2>3 DEF n
<1>2. ASSUME NEW i \in rest PROVE Cardinality({j \in rest : j <= i}) <= chunkSize
  <2> DEFINE before == {j \in rest : j <= i}
  <2>1. before \subseteq 1 .. Len(List)
    OBVIOUS
  <2> HIDE DEF before
  <2>2. Cardinality(before) <= Len(List) /\ IsFiniteSet(before)
    BY <1>1, <2>1, FS_Subset
  <2>3. Cardinality(before) \in Nat
    BY <2>2, FS_CardinalityType
  <2>4. Cardinality(before) <= chunkSize
    BY <2>2, <2>3
  <2>5. QED
    BY <2>4 DEF before
<1>3. QED
  BY <1>2 DEF First

LEMMA ChunkStep ==
  ASSUME ComputeInv, Chunk
  PROVE  ComputeInv'
<1> DEFINE asked == First(chunkSize)
           Found(n) == {i \in asked \cap First(n) : ConditionNow(List[i]) # "absent"}
           Read(n) == IF grouped THEN Found(n) ELSE asked
<1>1. PICK n \in 0 .. Cardinality(First(chunkSize)) :
        /\ at' = [a \in DOMAIN at |-> IF \E i \in Read(n) : List[i] = a THEN slot ELSE at[a]]
        /\ held' = [a \in DOMAIN held |->
                      IF \E i \in Found(n) : List[i] = a THEN ConditionNow(a)
                      ELSE IF \E i \in Read(n) : List[i] = a THEN "absent"
                      ELSE held[a]]
        /\ rest' = rest \ asked
        /\ unfound' = unfound \cup (asked \ Read(n))
  BY DEF Chunk
<1> DEFINE found == Found(n)
           positions == Read(n)
           read == {List[i] : i \in positions}
<1>2. /\ InSteps /\ asking /\ rest # {} /\ asking'
      /\ UNCHANGED <<world, slot, fault, cache, next, result, code, cause>>
      /\ Steps' = Steps /\ List' = List /\ UNCHANGED <<protocol, grouped, chunkSize>>
  BY DEF Chunk, Steps, List, world
<1>3. TypeOK /\ Steps[next].request /\ rest \cup unfound \subseteq DOMAIN List
      /\ chunkSize \in Nat /\ asking' \in BOOLEAN
  BY <1>2, ChunkAssumption DEF ComputeInv, TypeOK
<1>4. /\ List \in Seq(Name) /\ ToSet(List) \subseteq Accounts(protocol)
      /\ "pool" \in Accounts(protocol)
      /\ \A i \in DOMAIN List : List[i] \in ToSet(List)
      /\ LET R == Compute[protocol].reserves
         IN  R \subseteq ToSet(List) \/ R \cap ToSet(List) = {}
  BY <1>2, <1>3, RequestFacts, StepFacts
<1>5. asked \subseteq rest /\ found \subseteq positions /\ positions \subseteq asked
      /\ (~ grouped => positions = asked)
  BY DEF First
<1>6. /\ slot \in 1 .. MaxSlot /\ at \in [Accounts(protocol) -> 0 .. MaxSlot]
      /\ held \in [Accounts(protocol) -> Condition]
  BY <1>3 DEF TypeOK
<1>7. \A a : ConditionNow(a) \in Condition
  BY <1>3, ConditionType
<1>8. /\ at' = [a \in DOMAIN at |-> IF \E i \in positions : List[i] = a THEN slot ELSE at[a]]
      /\ held' = [a \in DOMAIN held |->
                    IF \E i \in found : List[i] = a THEN ConditionNow(a)
                    ELSE IF \E i \in positions : List[i] = a THEN "absent" ELSE held[a]]
      /\ rest' = rest \ asked
      /\ unfound' = unfound \cup (asked \ positions)
  BY <1>1
<1> HIDE DEF asked, found, positions, Read, Found
<1>9. at' \in [Accounts(protocol) -> 0 .. MaxSlot]
  BY <1>6, <1>8, SlotAssumption
<1>10. held' \in [Accounts(protocol) -> Condition]
  BY <1>6, <1>7, <1>8 DEF Condition
<1>11. /\ read \subseteq ToSet(List)
       /\ \A i \in positions : List[i] \in read
       /\ \A a \in Accounts(protocol) \ read : at'[a] = at[a] /\ held'[a] = held[a]
       /\ \A a \in Accounts(protocol) : at'[a] = slot \/ at'[a] = at[a]
  BY <1>3, <1>4, <1>5, <1>6, <1>8
<1>12. at["pool"] <= slot /\ (grouped => at["pool"] <= cache["pool"].slot)
       /\ (grouped => \A i \in rest \cup unfound : List[i] # "pool")
  BY DEF ComputeInv, OrderInv
<1>13. rest' \cup unfound' \subseteq rest \cup unfound
  BY <1>5, <1>8
<1>14. \A i \in DOMAIN List \ (rest' \cup unfound') :
         List[i] \in read \/ (asking /\ i \notin rest \cup unfound)
  BY <1>2, <1>8, <1>11
<1>15. grouped => at'["pool"] = at["pool"]
  <2> SUFFICES ASSUME grouped PROVE "pool" \notin read
    BY <1>4, <1>11
  <2>1. QED
    BY <1>5, <1>12
<1>16. at'["pool"] <= slot /\ (grouped => at'["pool"] <= cache["pool"].slot)
  BY <1>4, <1>6, <1>11, <1>12, <1>15, SlotAssumption
<1>17. TogetherInv'
  <2> DEFINE R == Compute[protocol].reserves
  <2>1. ~ grouped => unfound' = {}
    BY <1>5, <1>8 DEF ComputeInv, TogetherInv
  <2>2. ASSUME ~ grouped, Fits
        PROVE  rest' = {} /\ \A a, b \in R : at'[a] = at'[b]
    <3>1. Len(List) <= chunkSize
      BY <1>2, <1>3, <2>2, RequestFacts DEF Fits, List
    <3>2. asked = rest
      BY <1>3, <1>4, <3>1, OneChunk DEF asked
    <3>3. rest = DOMAIN List
      BY <1>2, <2>2 DEF ComputeInv, TogetherInv
    <3>4. \A a \in ToSet(List) : \E i \in positions : List[i] = a
      BY <1>5, <2>2, <3>2, <3>3 DEF ToSet
    <3>5. \A a \in Accounts(protocol) : at'[a] = IF a \in ToSet(List) THEN slot ELSE at[a]
      BY <1>4, <1>6, <1>8, <1>11, <3>4
    <3>6. \A a, b \in R : at[a] = at[b]
      BY <2>2 DEF ComputeInv, TogetherInv
    <3>7. R \subseteq Accounts(protocol)
      BY <1>3, StepFacts DEF WellMade
    <3>8. \A a, b \in R : at'[a] = at'[b]
      BY <1>4, <3>5, <3>6, <3>7
    <3>9. QED
      BY <1>8, <3>2, <3>8
  <2>3. Fits' = Fits /\ R' = R
    BY <1>2 DEF Fits
  <2>4. QED
    BY <1>2, <2>1, <2>2, <2>3 DEF TogetherInv
<1>18. \A a \in read : at["pool"] <= at'[a]
  BY <1>4, <1>6, <1>8, <1>11, <1>12
<1> HIDE DEF read
<1>19. rest' \cup unfound' \subseteq DOMAIN List
  BY <1>3, <1>13
<1>20. grouped => \A i \in rest' \cup unfound' : List[i] # "pool"
  BY <1>12, <1>13
<1>21. QED
  BY <1>2, <1>3, <1>9, <1>10, <1>11, <1>14, <1>16, <1>17, <1>18, <1>19, <1>20, Reading

LEMMA ConfirmStep ==
  ASSUME ComputeInv, Confirm
  PROVE  ComputeInv'
<1>1. PICK i \in unfound :
        /\ unfound' = unfound \ {i}
        /\ at' = [at EXCEPT ![List[i]] = slot]
        /\ \/ held' = [held EXCEPT ![List[i]] = ConditionNow(List[i])]
           \/ held' = [held EXCEPT ![List[i]] = "absent"]
  BY DEF Confirm
<1> DEFINE read == {List[i]}
<1>2. /\ InSteps /\ asking /\ asking' /\ rest = {} /\ rest' = {}
      /\ UNCHANGED <<world, slot, fault, cache, next, result, code, cause>>
      /\ Steps' = Steps /\ List' = List /\ UNCHANGED <<protocol, grouped, chunkSize>>
  BY DEF Confirm, Steps, List, world
<1>3. TypeOK /\ Steps[next].request /\ unfound \subseteq DOMAIN List /\ asking' \in BOOLEAN
  BY <1>2 DEF ComputeInv, TypeOK
<1>4. /\ ToSet(List) \subseteq Accounts(protocol) /\ "pool" \in Accounts(protocol)
      /\ List[i] \in ToSet(List) /\ List[i] \in Accounts(protocol)
  BY <1>2, <1>3, RequestFacts, StepFacts
<1>5. /\ slot \in 1 .. MaxSlot /\ at \in [Accounts(protocol) -> 0 .. MaxSlot]
      /\ held \in [Accounts(protocol) -> Condition]
  BY <1>3 DEF TypeOK
<1>6. ConditionNow(List[i]) \in Condition /\ "absent" \in Condition
  BY <1>3, ConditionType DEF Condition
<1>7. grouped
  BY DEF ComputeInv, TogetherInv
<1>8. at["pool"] <= slot /\ at["pool"] <= cache["pool"].slot
      /\ \A j \in rest \cup unfound : List[j] # "pool"
  <2>1. OrderInv
    BY DEF ComputeInv
  <2>2. \A j \in rest \cup unfound : List[j] # "pool"
    BY <1>7, <2>1 DEF OrderInv
  <2>3. at["pool"] <= slot /\ at["pool"] <= cache["pool"].slot
    BY <1>7, <2>1 DEF OrderInv
  <2>4. QED
    BY <2>2, <2>3
<1>9. at' \in [Accounts(protocol) -> 0 .. MaxSlot] /\ held' \in [Accounts(protocol) -> Condition]
  <2>1. at' \in [Accounts(protocol) -> 0 .. MaxSlot]
    <3>1. slot \in 0 .. MaxSlot
      BY <1>5, SlotAssumption
    <3>2. QED
      BY <1>1, <1>5, <3>1
  <2>2. held' \in [Accounts(protocol) -> Condition]
    BY <1>1, <1>5, <1>6
  <2>3. QED
    BY <2>1, <2>2
<1>10. \A a \in Accounts(protocol) \ read : at'[a] = at[a] /\ held'[a] = held[a]
  BY <1>1, <1>4, <1>5
<1>11. at'[List[i]] = slot /\ at'["pool"] = at["pool"]
  BY <1>1, <1>4, <1>5, <1>8
<1>12. TogetherInv'
  BY <1>2, <1>7 DEF TogetherInv
<1>13. /\ rest' \cup unfound' \subseteq DOMAIN List
       /\ \A j \in rest' \cup unfound' : List[j] # "pool"
       /\ \A j \in DOMAIN List \ (rest' \cup unfound') :
            List[j] \in read \/ (asking /\ j \notin rest \cup unfound)
  BY <1>1, <1>2, <1>3, <1>8
<1>14. read \subseteq ToSet(List) /\ \A a \in read : at["pool"] <= at'[a]
  BY <1>4, <1>8, <1>11
<1> HIDE DEF read
<1>15. QED
  BY <1>2, <1>3, <1>8, <1>9, <1>10, <1>11, <1>12, <1>13, <1>14, Reading

LEMMA RequestStep ==
  ASSUME ComputeInv, Request
  PROVE  ComputeInv'
<1> DEFINE refusals == Refusals(Steps[next], held)
<1>1. /\ InSteps /\ Running /\ result = Nil /\ code = Nil
      /\ asking /\ ~ asking' /\ asking' \in BOOLEAN
      /\ rest = {} /\ unfound = {} /\ rest' = {} /\ unfound' = {}
      /\ UNCHANGED <<world, slot, fault, cache, at, held, result>>
      /\ UNCHANGED <<protocol, grouped, chunkSize>> /\ Steps' = Steps
  BY DEF Request, InSteps, Running, Steps, world
<1>2. \/ refusals = {} /\ next' = next + 1 /\ UNCHANGED <<code, cause>>
      \/ /\ \E b \in refusals : Fail(Text(b.words), "missing")
         /\ next' = next
  BY DEF Request
<1>3. TypeOK /\ Steps[next].request
  BY <1>1 DEF ComputeInv, TypeOK
<1>4. /\ next \in 1 .. Len(Steps) /\ Len(Steps) \in Nat /\ DOMAIN Steps = 1 .. Len(Steps)
      /\ \A j \in DOMAIN List : List[j] \in ToSet(List)
      /\ ToSet(List) \subseteq Accounts(protocol)
  BY <1>1, <1>3, RequestFacts
<1>5. protocol \in NamesAll => Steps[next] \in Naming
  BY <1>3, <1>4, StepFacts DEF WellMade, Steps
<1>6. Steps[next] \in StepOf
  BY <1>3, <1>4, StepFacts
<1>7. CacheInv' /\ TogetherInv'
  BY <1>1 DEF ComputeInv, CacheInv, TogetherInv, Fits
<1>8. OrderInv'
  <2>1. \A a \in ToSet(List) : at["pool"] <= at[a]
    <3> SUFFICES ASSUME NEW a \in ToSet(List) PROVE at["pool"] <= at[a]
      OBVIOUS
    <3>1. PICK j \in DOMAIN List : List[j] = a
      BY DEF ToSet
    <3>2. QED
      BY <1>1, <3>1 DEF ComputeInv, OrderInv
  <2>2. ASSUME NEW i \in DOMAIN Steps, i < next', Steps[i].request
        PROVE  \A a \in ToSet(Steps[i].accounts) : at["pool"] <= at[a]
    <3>1. CASE i = next
      BY <2>1, <3>1 DEF List
    <3>2. CASE i # next
      <4>1. i < next
        BY <1>2, <1>4, <2>2, <3>2
      <4>2. QED
        BY <2>2, <4>1 DEF ComputeInv, OrderInv
    <3>3. QED
      BY <3>1, <3>2
  <2>3. at["pool"] <= slot /\ (grouped => at["pool"] <= cache["pool"].slot)
    BY DEF ComputeInv, OrderInv
  <2>4. QED
    BY <1>1, <2>2, <2>3 DEF OrderInv
<1>9. CheckedInv'
  <2> SUFFICES ASSUME NEW i \in DOMAIN Steps, i < next', ~ Steps[i].request,
                      Steps[i].accounts = <<"pool">>, NEW b \in ToSet(Steps[i].bad)
               PROVE  held["pool"] \notin b.conditions
    BY <1>1 DEF CheckedInv
  <2>1. i # next
    BY <1>3
  <2>2. i < next
    BY <1>2, <1>4, <2>1
  <2>3. QED
    BY <2>2 DEF ComputeInv, CheckedInv
<1>10. CASE refusals = {} /\ next' = next + 1 /\ UNCHANGED <<code, cause>>
  <2>1. TypeOK'
    <3>1. next' \in 1 .. Len(Steps) + 1
      BY <1>4, <1>10
    <3>2. QED
      BY <1>1, <1>3, <1>10, <3>1 DEF TypeOK
  <2>2. NamedInv'
    <3> SUFFICES ASSUME protocol \in NamesAll, NEW a \in Accounts(protocol), held[a] = "absent",
                        cause \notin {"request", "missing"}
                 PROVE  FALSE
      BY <1>1, <1>10 DEF ComputeInv, NamedInv
    <3>1. a \in ToSet(List)
      BY DEF ComputeInv, NamedInv
    <3>2. PICK b \in ToSet(Steps[next].bad) : "absent" \in b.conditions
      BY <1>3, <1>5 DEF Naming
    <3>3. b \in refusals
      BY <3>1, <3>2 DEF Refusals, List
    <3>4. QED
      BY <1>10, <3>3
  <2>3. EndInv'
    BY <1>1, <1>10, NilAssumption DEF ComputeInv, EndInv
  <2>4. QED
    BY <1>7, <1>8, <1>9, <2>1, <2>2, <2>3 DEF ComputeInv
<1>11. CASE /\ \E b \in refusals : Fail(Text(b.words), "missing")
            /\ next' = next
  <2>1. PICK b \in refusals : Fail(Text(b.words), "missing")
    BY <1>11
  <2>2. b \in ToSet(Steps[next].bad)
    BY DEF Refusals
  <2>3. code' = ClassifyErrorCode(Text(b.words)) /\ cause' = "missing"
    BY <2>1 DEF Fail
  <2>4. code' \in ErrorCode
    BY <2>3, CodeType DEF Text
  <2>5. TypeOK'
    BY <1>1, <1>3, <1>11, <2>3, <2>4 DEF TypeOK, Cause
  <2>6. protocol \in NamesAll => code' = "account_not_found"
    <3> SUFFICES ASSUME protocol \in NamesAll PROVE code' = "account_not_found"
      OBVIOUS
    <3>1. b.words \cap {"not found", "account missing"} # {} /\ "429" \notin b.words
      BY <1>3, <1>5, <2>2 DEF Naming
    <3>2. QED
      BY <2>3, <3>1, MissingCode
  <2>7. NamedInv'
    BY <1>1, <2>3, <2>6 DEF NamedInv
  <2>8. EndInv'
    BY <1>1, <2>4, NilAssumption DEF EndInv
  <2>9. QED
    BY <1>7, <1>8, <1>9, <2>5, <2>7, <2>8 DEF ComputeInv
<1>12. QED
  BY <1>2, <1>10, <1>11

LEMMA RequestFailsStep ==
  ASSUME ComputeInv, RequestFails
  PROVE  ComputeInv'
<1>1. /\ Running /\ result = Nil /\ ~ asking' /\ asking' \in BOOLEAN /\ rest' = {} /\ unfound' = {}
      /\ UNCHANGED <<world, slot, fault, cache, next, at, held, result>>
      /\ UNCHANGED <<protocol, grouped, chunkSize>> /\ Steps' = Steps
      /\ \E e \in RequestErrors : Fail(e, "request")
  BY DEF RequestFails, InSteps, Running, Steps, world
<1>2. code' \in ErrorCode /\ cause' = "request"
  BY <1>1, RequestErrorCodes DEF Fail
<1>3. TypeOK'
  BY <1>1, <1>2 DEF ComputeInv, TypeOK, Cause
<1>4. CacheInv' /\ TogetherInv' /\ CheckedInv'
  BY <1>1 DEF ComputeInv, CacheInv, TogetherInv, CheckedInv, Fits
<1>5. OrderInv'
  BY <1>1 DEF ComputeInv, OrderInv
<1>6. NamedInv' /\ EndInv'
  BY <1>1, <1>2, NilAssumption DEF NamedInv, EndInv
<1>7. QED
  BY <1>3, <1>4, <1>5, <1>6 DEF ComputeInv

LEMMA CheckStepStep ==
  ASSUME ComputeInv, CheckStep
  PROVE  ComputeInv'
<1>1. /\ InSteps /\ Running /\ result = Nil /\ code = Nil /\ ~ Steps[next].request
      /\ UNCHANGED <<world, slot, fault, cache, asking, rest, unfound, at, held, result>>
      /\ UNCHANGED <<protocol, grouped, chunkSize>>
      /\ ~ asking
  BY DEF CheckStep, InSteps, Running, world, ComputeInv, TypeOK
<1>2. TypeOK /\ next \in 1 .. Len(Steps) /\ Len(Steps) \in Nat /\ Steps' = Steps
      /\ DOMAIN Steps = 1 .. Len(Steps)
  <2>1. TypeOK
    BY DEF ComputeInv
  <2>2. Len(Steps) \in Nat /\ DOMAIN Steps = 1 .. Len(Steps)
    BY <2>1, StepFacts
  <2>3. next \in 1 .. Len(Steps)
    BY <1>1, <2>1, <2>2 DEF TypeOK, InSteps
  <2>4. QED
    BY <1>1, <2>1, <2>2, <2>3 DEF Steps
<1>3. CASE Refusals(Steps[next], held) = {} /\ next' = next + 1 /\ UNCHANGED <<code, cause>>
  <2>1. TypeOK'
    <3>1. next' \in 1 .. Len(Steps) + 1
      BY <1>2, <1>3
    <3>2. QED
      BY <1>1, <1>2, <1>3, <3>1 DEF TypeOK
  <2>2. TogetherInv' /\ NamedInv' /\ CacheInv'
    BY <1>1, <1>2, <1>3 DEF ComputeInv, TogetherInv, NamedInv, CacheInv, Fits
  <2>3. CheckedInv'
    <3> SUFFICES ASSUME NEW i \in DOMAIN Steps, i < next', ~ Steps[i].request,
                        Steps[i].accounts = <<"pool">>, NEW b \in ToSet(Steps[i].bad)
                 PROVE  held["pool"] \notin b.conditions
      BY <1>1, <1>2 DEF CheckedInv
    <3>1. CASE i = next
      <4>1. "pool" \in ToSet(Steps[i].accounts)
        BY DEF ToSet
      <4>2. QED
        BY <1>3, <3>1, <4>1 DEF Refusals
    <3>2. CASE i # next
      <4>1. i < next
        BY <1>2, <1>3, <3>2
      <4>2. QED
        BY <4>1 DEF ComputeInv, CheckedInv
    <3>3. QED
      BY <3>1, <3>2
  <2>4. EndInv'
    BY <1>1, <1>3, NilAssumption DEF ComputeInv, EndInv
  <2>5. OrderInv'
    <3>1. rest = {} /\ unfound = {}
      BY <1>1, <1>2 DEF TypeOK
    <3>2. ASSUME NEW i \in DOMAIN Steps, i < next', Steps[i].request
          PROVE  i < next
      BY <1>1, <1>2, <1>3, <3>2
    <3>3. QED
      BY <1>1, <1>2, <3>1, <3>2 DEF ComputeInv, OrderInv
  <2>6. QED
    BY <2>1, <2>2, <2>3, <2>4, <2>5 DEF ComputeInv
<1>4. CASE /\ \E b \in Refusals(Steps[next], held) :
                \E spelled \in IF b.prints THEN Accident ELSE {{}} :
                  Fail(Text(b.words \cup spelled), "check")
           /\ UNCHANGED next
  <2>1. code' \in ErrorCode /\ cause' = "check"
    BY <1>4, CodeType DEF Fail, Text
  <2>2. UNCHANGED request
    BY <1>1, <1>4 DEF request
  <2>3. QED
    BY <1>1, <2>1, <2>2, UnreadFailure
<1>5. QED
  BY <1>3, <1>4 DEF CheckStep

LEMMA ZeroReservesStep ==
  ASSUME ComputeInv, ZeroReserves
  PROVE  ComputeInv'
<1>1. /\ Running /\ ~ asking /\ UNCHANGED <<world, slot, fault, cache, request, result>>
      /\ Fail(Text({}), "reserves")
  BY StepFacts DEF ZeroReserves, Computing, ComputeInv, TypeOK
<1>2. code' \in ErrorCode /\ cause' = "reserves"
  BY <1>1, RequestErrorCodes DEF Fail
<1>3. QED
  BY <1>1, <1>2, UnreadFailure

LEMMA RunFailsStep ==
  ASSUME ComputeInv, RunFails
  PROVE  ComputeInv'
<1>1. /\ Running /\ ~ asking /\ UNCHANGED <<world, slot, fault, cache, request, result>>
      /\ \E e \in RequestErrors \cup {Text({})} : Fail(e, "run")
  BY StepFacts DEF RunFails, Computing, ComputeInv, TypeOK
<1>2. code' \in ErrorCode /\ cause' = "run"
  BY <1>1, RequestErrorCodes DEF Fail
<1>3. QED
  BY <1>1, <1>2, UnreadFailure

LEMMA ReturnStep ==
  ASSUME ComputeInv, Return
  PROVE  ComputeInv'
<1>1. /\ Running /\ code = Nil /\ next = Len(Steps) + 1 /\ result' = "metrics"
      /\ UNCHANGED <<world, slot, fault, cache, code, cause>>
      /\ UNCHANGED <<next, asking, rest, unfound, at, held>>
      /\ Steps' = Steps /\ List' = List /\ UNCHANGED <<protocol, grouped, chunkSize>>
  BY DEF Return, Computing, Running, request, world, Steps, List
<1>2. TypeOK'
  BY <1>1 DEF ComputeInv, TypeOK
<1>3. EndInv' /\ CacheInv'
  BY <1>1 DEF ComputeInv, EndInv, CacheInv
<1>4. slot <= slot'
  BY <1>1, SlotAssumption DEF ComputeInv, TypeOK
<1>5. QED
  BY <1>1, <1>2, <1>3, <1>4, Unread
----------------------------------------------------------------------------
LEMMA ComputeInductive == ComputeInv /\ [Next]_vars => ComputeInv'
<1> SUFFICES ASSUME ComputeInv, [Next]_vars PROVE ComputeInv'
  OBVIOUS
<1>1. CASE Advance
  BY <1>1, AdvanceStep
<1>2. CASE Share
  BY <1>2, ShareStep
<1>3. CASE Ask
  BY <1>3, AskStep
<1>4. CASE Chunk
  BY <1>4, ChunkStep
<1>5. CASE Confirm
  BY <1>5, ConfirmStep
<1>6. CASE Request
  BY <1>6, RequestStep
<1>7. CASE RequestFails
  BY <1>7, RequestFailsStep
<1>8. CASE CheckStep
  BY <1>8, CheckStepStep
<1>9. CASE ZeroReserves
  BY <1>9, ZeroReservesStep
<1>10. CASE RunFails
  BY <1>10, RunFailsStep
<1>11. CASE Return
  BY <1>11, ReturnStep
<1>12. CASE UNCHANGED vars
  BY <1>12 DEF vars, world, request, ComputeInv, TypeOK, CacheInv, OrderInv, TogetherInv,
     NamedInv, CheckedInv, EndInv, Steps, List, Fits
<1>13. QED
  BY <1>1, <1>2, <1>3, <1>4, <1>5, <1>6, <1>7, <1>8, <1>9, <1>10, <1>11, <1>12 DEF Next

(* Whatever the chain does between the requests, the invariant holds of    *)
(* every calculation of every protocol.                                    *)
THEOREM ComputeInvariance == Spec => []ComputeInv
BY InitCompute, ComputeInductive, PTL DEF Spec

(* A calculation ends with metrics or with one of the codes of the SDK,    *)
(* never with both.                                                        *)
THEOREM ComputeTypes == Spec => []TypeOK
<1>1. ComputeInv => TypeOK
  BY DEF ComputeInv
<1>2. QED
  BY <1>1, ComputeInvariance, PTL

(* In a single call whose requests fit into a chunk, the reserves of a     *)
(* pool are balances of one slot, in every calculator; and in a bulk too,  *)
(* whatever its pools share and whatever a batch did not find, no account  *)
(* is older than the pool account that names it.                           *)
THEOREM ReservesOfOneSlot == Spec => []ReservesTogether
<1>1. ASSUME ComputeInv, result = "metrics"
      PROVE  \A a \in Asked(protocol) : at["pool"] <= at[a]
  <2> SUFFICES ASSUME NEW a \in Asked(protocol) PROVE at["pool"] <= at[a]
    OBVIOUS
  <2>1. PICK s \in ToSet(Compute[protocol].steps) : s.request /\ a \in ToSet(s.accounts)
    BY DEF Asked
  <2>2. PICK i \in DOMAIN Steps : Steps[i] = s
    BY DEF ToSet, Steps
  <2>3. i < next
    BY <1>1, StepFacts DEF ComputeInv, EndInv
  <2>4. QED
    BY <1>1, <2>1, <2>2, <2>3 DEF ComputeInv, OrderInv
<1>2. ComputeInv => ReservesTogether
  BY <1>1 DEF ComputeInv, TogetherInv, ReservesTogether
<1>3. QED
  BY <1>2, ComputeInvariance, PTL

(* Every calculator but that of Meteora DAMM v1 ends at an account that is *)
(* missing, and reports it as account_not_found.                           *)
THEOREM MissingIsReported ==
  ASSUME "damm_v1" \notin NamesMissing
  PROVE  Spec => []MissingIsNotFound
<1>1. NamesMissing \subseteq NamesAll
  BY ProtocolAssumption DEF NamesAll
<1>2. ComputeInv => MissingIsNotFound
  BY <1>1 DEF ComputeInv, NamedInv, TypeOK, MissingIsNotFound
<1>3. QED
  BY <1>2, ComputeInvariance, PTL

\* What the checks that were passed say of the pool account in the end.
LEMMA MetricsAreGuarded ==
  ASSUME ComputeInv, result = "metrics"
  PROVE  /\ protocol \in ChecksOwner => held["pool"] # "foreign"
         /\ protocol \in ChecksLayout => held["pool"] # "short"
<1>1. TypeOK /\ next = Len(Steps) + 1
  BY DEF ComputeInv, EndInv
<1>2. DOMAIN Steps = 1 .. Len(Steps) /\ Len(Steps) \in Nat /\ WellMade(protocol)
  BY <1>1, StepFacts
<1>3. \A i \in DOMAIN Steps : ~ Steps[i].request /\ Steps[i].accounts = <<"pool">> =>
        \A b \in ToSet(Steps[i].bad) : held["pool"] \notin b.conditions
  <2>1. \A i \in DOMAIN Steps : i < next
    BY <1>1, <1>2
  <2>2. QED
    BY <2>1 DEF ComputeInv, CheckedInv
<1>4. ASSUME protocol \in ChecksOwner PROVE held["pool"] # "foreign"
  <2>1. PICK i \in DOMAIN Steps : Steps[i] = Owned("pool")
    BY <1>2, <1>4 DEF WellMade, Steps
  <2> DEFINE b == Bad({"foreign"}, {}, TRUE)
  <2>2. "foreign" \in b.conditions
    BY DEF Bad
  <2>3. Owned("pool") = Check("pool", <<b>>)
    BY DEF Owned
  <2> HIDE DEF b
  <2>4. ~ Steps[i].request /\ Steps[i].accounts = <<"pool">> /\ Steps[i].bad = <<b>>
    BY <2>1, <2>3 DEF Check
  <2>5. b \in ToSet(Steps[i].bad)
    BY <2>4 DEF ToSet
  <2>6. QED
    BY <1>3, <2>2, <2>4, <2>5
<1>5. ASSUME protocol \in ChecksLayout PROVE held["pool"] # "short"
  <2>1. PICK i \in DOMAIN Steps : Steps[i] \in ChecksLength
    BY <1>2, <1>5 DEF WellMade, Steps
  <2>2. ~ Steps[i].request /\ Steps[i].accounts = <<"pool">>
    BY <2>1 DEF ChecksLength, Checks
  <2>3. PICK b \in ToSet(Steps[i].bad) : "short" \in b.conditions
    BY <2>1 DEF ChecksLength
  <2>4. QED
    BY <1>3, <2>2, <2>3
<1>6. QED
  BY <1>4, <1>5

(* No metrics come from a pool account of another program in the six       *)
(* calculators that look at its owner, nor from one too short for its      *)
(* layout in all of them but that of the bonding curve; and a calculation  *)
(* ends in one way.                                                        *)
THEOREM MetricsAreSound ==
  ASSUME GuardsOwner \subseteq ChecksOwner, "bonding_curve" \notin GuardsLayout
  PROVE  Spec => []SoundMetrics
<1>1. GuardsLayout \subseteq ChecksLayout
  BY ProtocolAssumption DEF ChecksLayout
<1>2. ComputeInv => SoundMetrics
  BY <1>1, MetricsAreGuarded DEF ComputeInv, SoundMetrics, OwnerRefused, LayoutRefused
<1>3. QED
  BY <1>2, ComputeInvariance, PTL
=============================================================================
