------------------------- MODULE CommandLineProofs --------------------------
(***************************************************************************)
(* Proofs about CommandLine.  They follow one line from the keys to the    *)
(* arguments of the program, so most of the invariant says what strtok and *)
(* the shell still know of Line, the line that was delivered last.         *)
(***************************************************************************)
EXTENDS CommandLine, FiniteSetTheorems, SequenceTheorems, WellFoundedInduction, TLAPS

Line == Last(delivered)
Words == WordsOf(Line)

Typed ==
  /\ pc \in {"prompt", "read", "run", "token", "node", "system", "inject", "runs"}
  /\ i \in 0 .. BufferSize - 1
  /\ out \in [0 .. BufferSize - 1 -> Chars \cup {Nul}]
  /\ delivered \in Seq(Seq(Chars))
  /\ args \in Seq(Seq(Chars)) /\ argv \in Seq(Seq(Chars))
  /\ outOfMemory \in BOOLEAN

\* What has been typed holds no zero byte: the C string in the buffer can only end
\* where the line does.
Reading == pc = "read" => \A k \in 0 .. i - 1 : out[k] \in Chars

Delivered ==
  /\ pc \notin {"prompt", "read"} => delivered # <<>>
  /\ pc = "run" => CString(out) = Line

\* Strtok has cut the line up to sp only, it stands at the beginning of the line or
\* behind a blank, and every word that begins before sp has been returned.
Scanning ==
  pc \in {"token", "node"} =>
    /\ scommand \in Seq(Chars \cup {Nul}) /\ Len(scommand) = Len(Line) + 1
    /\ sp \in 1 .. Len(Line) + 1
    /\ \A q \in sp .. Len(Line) : scommand[q] = Line[q]
    /\ scommand[Len(Line) + 1] = Nul
    /\ sp = 1 \/ sp = Len(Line) + 1 \/ Line[sp - 1] = Delimiter
    /\ Cardinality(Before(Line, sp)) = Len(args) + (IF pc = "node" THEN 1 ELSE 0)
    /\ pc = "node" => token = Words[Len(args) + 1]
    /\ ~outOfMemory

\* The nodes are the first words of the line; all of them unless memory ran out.
Parsed ==
  /\ pc \in {"token", "node", "system", "inject", "runs"} =>
       /\ Len(args) <= Len(Words)
       /\ \A n \in 1 .. Len(args) : args[n] = Truncated(Words[n], ArgumentSize)
  /\ pc \in {"token", "node", "system"} => argv = <<>>
  /\ pc \in {"system", "inject", "runs"} =>
       args # <<>> /\ (outOfMemory \/ Len(args) = Len(Words))

Injected ==
  /\ pc \in {"inject", "runs"} =>
       /\ program = Truncated(Words[1], NameSize)
       /\ Len(argv) <= Len(args)
       /\ \A n \in 1 .. Len(argv) : argv[n] = args[n]
  /\ pc = "runs" => argc = Len(argv) /\ Len(argv) = Len(args)

IInv == Typed /\ Reading /\ Delivered /\ Scanning /\ Parsed /\ Injected

-----------------------------------------------------------------------------
(* Minima, cut words and the places where words begin *)

\* Min of a bounded set of naturals is its least element.
LEMMA MinOfNaturals ==
  ASSUME NEW n \in Nat, NEW S \in SUBSET (0 .. n), S # {}
  PROVE  Min(S) \in S /\ \A y \in S : Min(S) <= y
<1> DEFINE Below == {0 .. x : x \in S}
<1>1. IsFiniteSet(0 .. n)
  BY FS_Interval
<1>2. FiniteSubsetsOf(0 .. n) = SUBSET (0 .. n)
  BY <1>1, FS_FiniteSubsetsOfFinite
<1>3. IsWellFoundedOn(StrictSubsetOrdering(0 .. n), SUBSET (0 .. n))
  BY <1>2, FS_StrictSubsetOrderingWellFounded
<1>4. Below \subseteq SUBSET (0 .. n) /\ Below # {}
  <2>1. \A x \in S : 0 .. x \in SUBSET (0 .. n)
    OBVIOUS
  <2>2. \E x \in S : 0 .. x \in Below
    OBVIOUS
  <2> QED
    BY <2>1, <2>2
<1>5. \E X \in Below : \A Y \in Below : <<Y, X>> \notin StrictSubsetOrdering(0 .. n)
  <2> HIDE DEF Below
  <2> QED BY <1>3, <1>4, WFMin
<1>6. PICK x \in S : \A Y \in Below : <<Y, 0 .. x>> \notin StrictSubsetOrdering(0 .. n)
  BY <1>5
<1>7. \A y \in S : x <= y
  <2> SUFFICES ASSUME NEW y \in S, y < x PROVE FALSE
    OBVIOUS
  <2>1. 0 .. y \subseteq 0 .. x /\ x \notin 0 .. y /\ x \in 0 .. x
    OBVIOUS
  <2>2. 0 .. y \in Below /\ 0 .. y \in SUBSET (0 .. n) /\ 0 .. x \in SUBSET (0 .. n)
    OBVIOUS
  <2>3. <<0 .. y, 0 .. x>> \in StrictSubsetOrdering(0 .. n)
    <3> HIDE DEF Below
    <3> QED BY <2>1, <2>2 DEF StrictSubsetOrdering
  <2> QED
    BY <2>2, <2>3, <1>6
<1> QED
  BY <1>7 DEF Min

\* Min of two numbers is the smaller one.
LEMMA MinOfTwo ==
  ASSUME NEW a \in Int, NEW b \in Int
  PROVE  Min({a, b}) = IF a <= b THEN a ELSE b
<1> DEFINE m == IF a <= b THEN a ELSE b
<1>1. m \in {a, b} /\ \A y \in {a, b} : m <= y
  OBVIOUS
<1>2. ASSUME NEW x \in {a, b}, \A y \in {a, b} : x <= y PROVE x = m
  BY <1>2
<1> QED
  BY <1>1, <1>2 DEF Min

\* A word that is cut at size keeps its first size - 1 characters.
LEMMA TruncatedIs ==
  ASSUME NEW S, NEW w \in Seq(S), NEW size \in Nat \ {0}
  PROVE  /\ Truncated(w, size) \in Seq(S)
         /\ Len(Truncated(w, size)) = IF Len(w) <= size - 1 THEN Len(w) ELSE size - 1
         /\ \A k \in 1 .. Len(Truncated(w, size)) : Truncated(w, size)[k] = w[k]
<1> DEFINE m == IF Len(w) <= size - 1 THEN Len(w) ELSE size - 1
<1>1. Len(w) \in Int /\ size - 1 \in Int
  OBVIOUS
<1>2. Truncated(w, size) = SubSeq(w, 1, m)
  BY <1>1, MinOfTwo DEF Truncated
<1>3. m \in 0 .. Len(w)
  OBVIOUS
<1>4. \A k \in 1 .. m : w[k] \in S
  BY <1>3
<1> HIDE DEF m
<1>5. /\ SubSeq(w, 1, m) \in Seq(S)
      /\ Len(SubSeq(w, 1, m)) = IF 1 <= m THEN m - 1 + 1 ELSE 0
      /\ \A k \in 1 .. m - 1 + 1 : SubSeq(w, 1, m)[k] = w[1 + k - 1]
  BY <1>3, <1>4, SubSeqProperties
<1>6. Len(SubSeq(w, 1, m)) = m
  BY <1>3, <1>5
<1>7. \A k \in 1 .. m : SubSeq(w, 1, m)[k] = w[k]
  BY <1>3, <1>5
<1> QED
  BY <1>2, <1>5, <1>6, <1>7 DEF m

\* Cutting a word that is cut already, and not shorter, is cutting the word.
LEMMA TruncatedTwice ==
  ASSUME NEW S, NEW w \in Seq(S), NEW n \in Nat \ {0}, NEW m \in 1 .. n
  PROVE  Truncated(Truncated(w, n), m) = Truncated(w, m)
<1> DEFINE t == Truncated(w, n)
           u == Truncated(t, m)
           v == Truncated(w, m)
<1>1. /\ t \in Seq(S) /\ Len(t) = IF Len(w) <= n - 1 THEN Len(w) ELSE n - 1
      /\ \A k \in 1 .. Len(t) : t[k] = w[k]
  BY TruncatedIs
<1> HIDE DEF t
<1>2. m \in Nat \ {0}
  OBVIOUS
<1>3. /\ u \in Seq(S) /\ Len(u) = IF Len(t) <= m - 1 THEN Len(t) ELSE m - 1
      /\ \A k \in 1 .. Len(u) : u[k] = t[k]
  BY <1>1, <1>2, TruncatedIs
<1>4. /\ v \in Seq(S) /\ Len(v) = IF Len(w) <= m - 1 THEN Len(w) ELSE m - 1
      /\ \A k \in 1 .. Len(v) : v[k] = w[k]
  BY <1>2, TruncatedIs
<1> HIDE DEF u, v
<1>5. Len(w) \in Nat /\ Len(t) \in Nat /\ Len(u) \in Nat /\ Len(u) <= Len(t)
  BY <1>1, <1>3
<1>6. Len(u) = Len(v)
  BY <1>1, <1>3, <1>4, <1>5
<1>7. \A k \in 1 .. Len(u) : u[k] = v[k]
  BY <1>1, <1>3, <1>4, <1>5, <1>6
<1>8. u = v
  BY <1>3, <1>4, <1>6, <1>7, SeqEqual
<1> QED
  BY <1>8 DEF u, v, t

\* The word at a place reaches to the first place behind which a blank or the end is.
LEMMA WordAtIs ==
  ASSUME NEW S, NEW l \in Seq(S), NEW p \in Begins(l)
  PROVE  /\ WordAt(l, p) \in Seq(S)
         /\ \A e \in p .. Len(l) :
              /\ e = Len(l) \/ l[e + 1] = Delimiter
              /\ \A q \in p .. e - 1 : l[q + 1] # Delimiter
              => WordAt(l, p) = SubSeq(l, p, e)
<1> DEFINE E == {q \in p .. Len(l) : q = Len(l) \/ l[q + 1] = Delimiter}
<1>1. p \in 1 .. Len(l) /\ Len(l) \in Nat
  BY DEF Begins
<1>2. E \in SUBSET (0 .. Len(l)) /\ Len(l) \in E
  BY <1>1
<1> DEFINE m == Min(E)
<1>3. m \in E /\ \A y \in E : m <= y
  <2> HIDE DEF E
  <2> QED BY <1>1, <1>2, MinOfNaturals
<1>4. WordAt(l, p) = SubSeq(l, p, m)
  BY DEF WordAt
<1>5. m \in p .. Len(l)
  BY <1>3
<1> HIDE DEF m
<1>6. WordAt(l, p) \in Seq(S)
  <2>1. \A k \in p .. m : l[k] \in S
    BY <1>1, <1>5
  <2>2. SubSeq(l, p, m) \in Seq(S)
    BY <1>1, <1>5, <2>1, SubSeqProperties
  <2> QED
    BY <1>4, <2>2
<1>7. ASSUME NEW e \in p .. Len(l), e = Len(l) \/ l[e + 1] = Delimiter,
             \A q \in p .. e - 1 : l[q + 1] # Delimiter
      PROVE  m = e
  <2>1. e \in E /\ m <= e
    BY <1>3, <1>7
  <2>2. SUFFICES ASSUME m # e PROVE FALSE
    OBVIOUS
  <2>3. m \in p .. e - 1 /\ m # Len(l)
    BY <1>1, <1>5, <2>1, <2>2
  <2> QED
    BY <1>3, <1>7, <2>3
<1> QED
  BY <1>4, <1>6, <1>7

\* There are finitely many words, and no more before a place than in all.
LEMMA BeginsFinite ==
  ASSUME NEW S, NEW l \in Seq(S), NEW p
  PROVE  /\ IsFiniteSet(Begins(l)) /\ Cardinality(Begins(l)) \in Nat
         /\ IsFiniteSet(Before(l, p)) /\ Cardinality(Before(l, p)) \in Nat
         /\ Cardinality(Before(l, p)) <= Cardinality(Begins(l))
<1>1. IsFiniteSet(1 .. Len(l)) /\ Begins(l) \in SUBSET (1 .. Len(l))
  BY FS_Interval DEF Begins
<1>2. IsFiniteSet(Begins(l))
  BY <1>1, FS_Subset
<1>3. Before(l, p) \in SUBSET Begins(l)
  BY DEF Before
<1>4. IsFiniteSet(Before(l, p)) /\ Cardinality(Before(l, p)) <= Cardinality(Begins(l))
  BY <1>2, <1>3, FS_Subset
<1> QED
  BY <1>2, <1>4, FS_CardinalityType

\* More words begin before a later one.
LEMMA BeforeGrows ==
  ASSUME NEW S, NEW l \in Seq(S), NEW q \in Begins(l), NEW r \in Begins(l), q < r
  PROVE  Cardinality(Before(l, q)) < Cardinality(Before(l, r))
<1>1. /\ Before(l, q) \in SUBSET Before(l, r) /\ q \in Before(l, r) /\ q \notin Before(l, q)
  BY DEF Before, Begins
<1>2. /\ IsFiniteSet(Before(l, r)) /\ Cardinality(Before(l, r)) \in Nat
      /\ Cardinality(Before(l, q)) \in Nat
  BY BeginsFinite
<1>3. /\ Cardinality(Before(l, q)) <= Cardinality(Before(l, r))
      /\ Cardinality(Before(l, r)) = Cardinality(Before(l, q)) => Before(l, r) = Before(l, q)
  BY <1>1, <1>2, FS_Subset
<1> QED
  BY <1>1, <1>2, <1>3

\* The word that begins at p is the one whose number is one more than the number of
\* words that begin before p.
LEMMA WordNumber ==
  ASSUME NEW S, NEW l \in Seq(S), NEW p \in Begins(l)
  PROVE  /\ Cardinality(Before(l, p)) + 1 <= Cardinality(Begins(l))
         /\ Len(WordsOf(l)) = Cardinality(Begins(l))
         /\ WordsOf(l)[Cardinality(Before(l, p)) + 1] = WordAt(l, p)
<1> DEFINE n == Cardinality(Before(l, p)) + 1
           N == Cardinality(Begins(l))
<1>1. /\ IsFiniteSet(Begins(l)) /\ N \in Nat
      /\ IsFiniteSet(Before(l, p)) /\ n - 1 \in Nat /\ n - 1 = Cardinality(Before(l, p))
  BY BeginsFinite
<1>2. p \notin Before(l, p) /\ Before(l, p) \in SUBSET Begins(l)
  BY DEF Before, Begins
<1>3. n <= N
  <2>1. Cardinality(Before(l, p)) <= N /\ (N = Cardinality(Before(l, p)) => Begins(l) = Before(l, p))
    BY <1>1, <1>2, FS_Subset
  <2> QED
    BY <1>1, <1>2, <2>1
<1>4. ASSUME NEW q \in Begins(l), NEW r \in Begins(l), q < r
      PROVE  Cardinality(Before(l, q)) < Cardinality(Before(l, r))
  BY <1>4, BeforeGrows
<1>5. ASSUME NEW q \in Begins(l), Cardinality(Before(l, q)) = n - 1 PROVE q = p
  <2>1. q \in Int /\ p \in Int
    BY DEF Begins
  <2>2. ~(q < p)
    BY <1>1, <1>4, <1>5
  <2>3. ~(p < q)
    BY <1>1, <1>4, <1>5
  <2> QED
    BY <2>1, <2>2, <2>3
<1>7. n \in 1 .. N
  BY <1>1, <1>3
<1> HIDE DEF n, N
<1> DEFINE C(k) == CHOOSE q \in Begins(l) : Cardinality(Before(l, q)) = k - 1
<1>6. C(n) \in Begins(l) /\ Cardinality(Before(l, C(n))) = n - 1
  <2>1. \E q \in Begins(l) : Cardinality(Before(l, q)) = n - 1
    BY <1>1
  <2> QED
    BY <2>1
<1>8. WordsOf(l) = [k \in 1 .. N |-> WordAt(l, C(k))]
  BY DEF WordsOf, N
<1> HIDE DEF C
<1>9. WordsOf(l)[n] = WordAt(l, p)
  BY <1>5, <1>6, <1>7, <1>8
<1>10. Len(WordsOf(l)) = N
  BY <1>1, <1>8
<1> QED
  BY <1>3, <1>9, <1>10 DEF n, N

\* Every number up to the number of words is the number of one, which is a string
\* of characters.
LEMMA WordsTyped ==
  ASSUME NEW S, NEW l \in Seq(S)
  PROVE  \A n \in 1 .. Len(WordsOf(l)) : WordsOf(l)[n] \in Seq(S)
<1> DEFINE N == Cardinality(Begins(l))
           f == [p \in Begins(l) |-> Cardinality(Before(l, p)) + 1]
<1>1. /\ IsFiniteSet(Begins(l)) /\ N \in Nat
      /\ \A p \in Begins(l) : /\ Cardinality(Before(l, p)) \in Nat
                              /\ Cardinality(Before(l, p)) + 1 <= N
                              /\ WordsOf(l)[Cardinality(Before(l, p)) + 1] = WordAt(l, p)
      /\ Len(WordsOf(l)) = N
  <2>1. IsFiniteSet(Begins(l)) /\ N \in Nat
    BY BeginsFinite
  <2>2. \A p \in Begins(l) : Cardinality(Before(l, p)) \in Nat
    BY BeginsFinite
  <2>3. \A p \in Begins(l) : /\ Cardinality(Before(l, p)) + 1 <= N
                             /\ WordsOf(l)[Cardinality(Before(l, p)) + 1] = WordAt(l, p)
    BY WordNumber
  <2>4. Len(WordsOf(l)) = N
    BY <2>1 DEF WordsOf
  <2> QED
    BY <2>1, <2>2, <2>3, <2>4
<1> HIDE DEF N
<1>2. f \in [Begins(l) -> 1 .. N]
  BY <1>1
<1>3. ASSUME NEW p \in Begins(l), NEW q \in Begins(l), f[p] = f[q] PROVE p = q
  <2>1. p \in Int /\ q \in Int
    BY DEF Begins
  <2>2. Cardinality(Before(l, p)) = Cardinality(Before(l, q))
    BY <1>1, <1>3
  <2>3. ASSUME NEW a \in Begins(l), NEW b \in Begins(l), a < b
        PROVE  Cardinality(Before(l, a)) # Cardinality(Before(l, b))
    BY <1>1, <2>3, BeforeGrows
  <2> QED
    BY <2>1, <2>2, <2>3
<1>4. f \in Injection(Begins(l), 1 .. N)
  BY <1>2, <1>3 DEF Injection, IsInjective
<1>5. IsFiniteSet(1 .. N) /\ Cardinality(1 .. N) = N
  BY <1>1, FS_Interval
<1>6. f \in Surjection(Begins(l), 1 .. N)
  BY <1>4, <1>5, FS_Injection DEF N
<1>7. ASSUME NEW n \in 1 .. N PROVE WordsOf(l)[n] \in Seq(S)
  <2>1. PICK p \in Begins(l) : f[p] = n
    BY <1>6 DEF Surjection
  <2>2. WordsOf(l)[n] = WordAt(l, p)
    BY <1>1, <2>1
  <2> QED
    BY <2>2, WordAtIs
<1> QED
  BY <1>1, <1>7

-----------------------------------------------------------------------------
(* The line, and where strtok finds its words *)

\* What is not touched by running a line: the line itself, and its words.
LEMMA LineStays ==
  ASSUME UNCHANGED delivered
  PROVE  Line' = Line /\ Words' = Words
BY DEF Line, Words, Last

\* Once a line is delivered it is a string of characters.
LEMMA LineTyped ==
  ASSUME Typed, delivered # <<>>
  PROVE  Line \in Seq(Chars) /\ Len(Line) \in Nat
<1>1. Len(delivered) \in 1 .. Len(delivered)
  BY DEF Typed
<1> QED
  BY <1>1 DEF Typed, Line, Last

\* The blank and the zero byte.
LEMMA Blanks == Nul \notin Chars /\ Delimiter \in Chars /\ Delimiter # Nul
BY TerminalAssumption DEF Delimiter

\* FirstOf is what its comment says, where there is such a place.
LEMMA FirstOfIs ==
  ASSUME NEW cs, Len(scommand) \in Nat, NEW p \in 1 .. Len(scommand),
         \E q \in p .. Len(scommand) : scommand[q] \in cs
  PROVE  /\ FirstOf(cs, p) \in p .. Len(scommand)
         /\ scommand[FirstOf(cs, p)] \in cs
         /\ \A r \in p .. FirstOf(cs, p) - 1 : scommand[r] \notin cs
<1> DEFINE S == {q \in p .. Len(scommand) : scommand[q] \in cs}
           P(q) == /\ scommand[q] \in cs
                   /\ \A r \in p .. q - 1 : scommand[r] \notin cs
<1>1. S \in SUBSET (0 .. Len(scommand)) /\ S # {}
  OBVIOUS
<1>2. Min(S) \in S /\ \A y \in S : Min(S) <= y
  <2> HIDE DEF S
  <2> QED BY <1>1, MinOfNaturals
<1> DEFINE m == Min(S)
<1>3. m \in p .. Len(scommand) /\ scommand[m] \in cs
  BY <1>2
<1>4. ASSUME NEW r \in p .. m - 1 PROVE scommand[r] \notin cs
  <2>1. r \in p .. Len(scommand) /\ ~(m <= r)
    BY <1>3
  <2> QED
    BY <1>2, <2>1
<1> HIDE DEF m
<1>5. \E q \in p .. Len(scommand) : P(q)
  BY <1>3, <1>4
<1> HIDE DEF P
<1> DEFINE f == CHOOSE q \in p .. Len(scommand) : P(q)
<1>6. f \in p .. Len(scommand) /\ P(f)
  BY <1>5
<1>7. f = FirstOf(cs, p)
  BY DEF FirstOf, P
<1> HIDE DEF f
<1> QED
  BY <1>6, <1>7 DEF P

\* So is FirstNotOf.
LEMMA FirstNotOfIs ==
  ASSUME NEW cs, Len(scommand) \in Nat, NEW p \in 1 .. Len(scommand),
         \E q \in p .. Len(scommand) : scommand[q] \notin cs
  PROVE  /\ FirstNotOf(cs, p) \in p .. Len(scommand)
         /\ scommand[FirstNotOf(cs, p)] \notin cs
         /\ \A r \in p .. FirstNotOf(cs, p) - 1 : scommand[r] \in cs
<1> DEFINE S == {q \in p .. Len(scommand) : scommand[q] \notin cs}
           P(q) == /\ scommand[q] \notin cs
                   /\ \A r \in p .. q - 1 : scommand[r] \in cs
<1>1. S \in SUBSET (0 .. Len(scommand)) /\ S # {}
  OBVIOUS
<1>2. Min(S) \in S /\ \A y \in S : Min(S) <= y
  <2> HIDE DEF S
  <2> QED BY <1>1, MinOfNaturals
<1> DEFINE m == Min(S)
<1>3. m \in p .. Len(scommand) /\ scommand[m] \notin cs
  BY <1>2
<1>4. ASSUME NEW r \in p .. m - 1 PROVE scommand[r] \in cs
  <2>1. r \in p .. Len(scommand) /\ ~(m <= r)
    BY <1>3
  <2> QED
    BY <1>2, <2>1
<1> HIDE DEF m
<1>5. \E q \in p .. Len(scommand) : P(q)
  BY <1>3, <1>4
<1> HIDE DEF P
<1> DEFINE f == CHOOSE q \in p .. Len(scommand) : P(q)
<1>6. f \in p .. Len(scommand) /\ P(f)
  BY <1>5
<1>7. f = FirstNotOf(cs, p)
  BY DEF FirstNotOf, P
<1> HIDE DEF f
<1> QED
  BY <1>6, <1>7 DEF P

\* Where strtok stands: the characters from sp on are those of the line, and the
\* blanks from there on are skipped up to the next word, or the end.
LEMMA SkipIs ==
  ASSUME Typed, Delivered, Scanning, pc = "token"
  PROVE  /\ Line \in Seq(Chars) /\ Len(Line) \in Nat
         /\ Len(scommand) = Len(Line) + 1 /\ sp \in 1 .. Len(Line) + 1
         /\ Skip(sp) \in sp .. Len(Line) + 1
         /\ \A q \in sp .. Skip(sp) - 1 : Line[q] = Delimiter
         /\ scommand[Skip(sp)] = Nul <=> Skip(sp) = Len(Line) + 1
         /\ scommand[Skip(sp)] # Nul =>
              Skip(sp) \in Begins(Line)
         /\ Before(Line, Skip(sp)) = Before(Line, sp)
<1> DEFINE f == Skip(sp)
           L == Line
<1>1. L \in Seq(Chars) /\ Len(L) \in Nat
  BY LineTyped DEF Delivered
<1>2. /\ Len(scommand) = Len(L) + 1 /\ sp \in 1 .. Len(L) + 1
      /\ \A q \in sp .. Len(L) : scommand[q] = L[q]
      /\ scommand[Len(L) + 1] = Nul
      /\ sp = 1 \/ sp = Len(L) + 1 \/ L[sp - 1] = Delimiter
  BY DEF Scanning
<1> HIDE DEF L
<1>3. /\ f \in sp .. Len(L) + 1 /\ scommand[f] # Delimiter
      /\ \A r \in sp .. f - 1 : scommand[r] = Delimiter
  <2>1. Len(L) + 1 \in sp .. Len(scommand) /\ scommand[Len(L) + 1] \notin {Delimiter}
    BY <1>1, <1>2, Blanks
  <2>2. Len(scommand) \in Nat /\ sp \in 1 .. Len(scommand)
    BY <1>1, <1>2
  <2>3. /\ f \in sp .. Len(scommand)
        /\ scommand[f] \notin {Delimiter}
        /\ \A r \in sp .. f - 1 : scommand[r] \in {Delimiter}
    BY <2>1, <2>2, FirstNotOfIs DEF Skip
  <2> QED
    BY <1>2, <2>3
<1> HIDE DEF f
<1>4. \A q \in sp .. f - 1 : L[q] = Delimiter
  <2> TAKE q \in sp .. f - 1
  <2>1. q \in sp .. Len(L)
    BY <1>1, <1>2, <1>3
  <2> QED
    BY <1>2, <1>3, <2>1
<1>5. scommand[f] = Nul <=> f = Len(L) + 1
  <2>1. ASSUME f # Len(L) + 1 PROVE scommand[f] # Nul
    <3>1. f \in sp .. Len(L) /\ f \in 1 .. Len(L)
      BY <1>1, <1>2, <1>3, <2>1
    <3>2. scommand[f] = L[f] /\ L[f] \in Chars
      BY <1>1, <1>2, <3>1
    <3> QED
      BY <3>2, Blanks
  <2> QED
    BY <1>2, <2>1
<1>6. ASSUME scommand[f] # Nul PROVE f \in Begins(L)
  <2>1. f \in sp .. Len(L) /\ f \in 1 .. Len(L)
    BY <1>1, <1>2, <1>3, <1>5, <1>6
  <2>2. L[f] # Delimiter
    BY <1>2, <1>3, <2>1
  <2>3. f = 1 \/ L[f - 1] = Delimiter
    <3>1. CASE f = sp
      BY <1>2, <2>1, <3>1
    <3>2. CASE f # sp
      <4>1. f - 1 \in sp .. f - 1
        BY <1>2, <2>1, <3>2
      <4> QED
        BY <1>4, <4>1
    <3> QED
      BY <3>1, <3>2
  <2> QED
    BY <1>1, <2>1, <2>2, <2>3 DEF Begins
<1>7. Before(L, f) = Before(L, sp)
  <2>1. ASSUME NEW q \in Begins(L) PROVE q < f <=> q < sp
    <3>1. q \in 1 .. Len(L) /\ L[q] # Delimiter
      BY <1>1 DEF Begins
    <3>2. q \notin sp .. f - 1
      BY <1>4, <3>1
    <3> QED
      BY <1>1, <1>2, <1>3, <3>1, <3>2
  <2> QED
    BY <2>1 DEF Before
<1> QED
  BY <1>1, <1>2, <1>3, <1>4, <1>5, <1>6, <1>7 DEF f, L

\* When strtok finds no further word, all the words of the line have been returned.
LEMMA NoFurtherWord ==
  ASSUME Typed, Delivered, Scanning, pc = "token", scommand[Skip(sp)] = Nul
  PROVE  Len(args) = Len(Words)
<1> DEFINE f == Skip(sp)
<1>1. /\ Line \in Seq(Chars) /\ Len(Line) \in Nat
      /\ f = Len(Line) + 1 /\ Before(Line, f) = Before(Line, sp)
  BY SkipIs
<1>2. Before(Line, Len(Line) + 1) = Begins(Line)
  <2>1. \A q \in Begins(Line) : q < Len(Line) + 1
    BY <1>1 DEF Begins
  <2> QED
    BY <2>1 DEF Before
<1>3. Cardinality(Before(Line, sp)) = Len(args)
  BY DEF Scanning, Typed
<1>4. Len(Words) = Cardinality(Begins(Line))
  BY <1>1, BeginsFinite DEF Words, WordsOf
<1> QED
  BY <1>1, <1>2, <1>3, <1>4

\* Lines with the same characters in a stretch have the same word there.
LEMMA SameSlice ==
  ASSUME NEW s, NEW l, NEW f \in Int, NEW e \in Int,
         \A q \in f .. e : s[q] = l[q] /\ l[q] \in Chars
  PROVE  SubSeq(s, f, e) \in Seq(Chars) /\ SubSeq(s, f, e) = SubSeq(l, f, e)
<1> DEFINE u == SubSeq(s, f, e)
           v == SubSeq(l, f, e)
<1>1. \A q \in f .. e : s[q] \in Chars
  OBVIOUS
<1>2. \A q \in f .. e : l[q] \in Chars
  OBVIOUS
<1>3. /\ u \in Seq(Chars) /\ Len(u) = IF f <= e THEN e - f + 1 ELSE 0
      /\ \A k \in 1 .. e - f + 1 : u[k] = s[f + k - 1]
  BY ONLY <1>1, f \in Int, e \in Int, SubSeqProperties
<1>4. /\ v \in Seq(Chars) /\ Len(v) = IF f <= e THEN e - f + 1 ELSE 0
      /\ \A k \in 1 .. e - f + 1 : v[k] = l[f + k - 1]
  BY ONLY <1>2, f \in Int, e \in Int, SubSeqProperties
<1> HIDE DEF u, v
<1>5. ASSUME NEW k \in 1 .. Len(u) PROVE u[k] = v[k]
  <2>1. k \in 1 .. e - f + 1 /\ f + k - 1 \in f .. e
    BY <1>3
  <2> QED
    BY <1>3, <1>4, <2>1
<1>6. u = v
  BY <1>3, <1>4, <1>5, SeqEqual
<1> QED
  BY <1>3, <1>6 DEF u, v

\* Otherwise it returns the next word of the line, and stops behind it.
LEMMA NextWord ==
  ASSUME Typed, Delivered, Scanning, pc = "token", scommand[Skip(sp)] # Nul,
         NEW end, end = FirstOf({Delimiter, Nul}, Skip(sp)),
         NEW next, next = IF scommand[end] = Nul THEN end ELSE end + 1
  PROVE  /\ end \in sp .. Len(Line) + 1 /\ next \in end .. Len(Line) + 1
         /\ SubSeq(scommand, Skip(sp), end - 1) \in Seq(Chars)
         /\ Len(args) + 1 <= Len(Words)
         /\ SubSeq(scommand, Skip(sp), end - 1) = Words[Len(args) + 1]
         /\ next = Len(Line) + 1 \/ Line[next - 1] = Delimiter
         /\ Cardinality(Before(Line, next)) = Len(args) + 1
<1> DEFINE f == Skip(sp)
           L == Line
           t == SubSeq(scommand, f, end - 1)
<1>1. /\ L \in Seq(Chars) /\ Len(L) \in Nat
      /\ Len(scommand) = Len(L) + 1 /\ sp \in 1 .. Len(L) + 1
      /\ f \in sp .. Len(L) + 1 /\ f \in Begins(L) /\ Before(L, f) = Before(L, sp)
  BY SkipIs
<1>2. /\ \A q \in sp .. Len(L) : scommand[q] = L[q]
      /\ scommand[Len(L) + 1] = Nul
      /\ Cardinality(Before(L, sp)) = Len(args) /\ Len(args) \in Nat
  BY DEF Scanning, Typed
<1> HIDE DEF L
<1>3. f \in sp .. Len(L) /\ f \in 1 .. Len(L) /\ L[f] # Delimiter
  BY <1>1 DEF Begins
<1>4. /\ end \in f .. Len(L) + 1
      /\ scommand[end] \in {Delimiter, Nul}
      /\ \A r \in f .. end - 1 : scommand[r] \notin {Delimiter, Nul}
  <2>1. /\ Len(scommand) \in Nat /\ f \in 1 .. Len(scommand)
        /\ Len(L) + 1 \in f .. Len(scommand) /\ scommand[Len(L) + 1] \in {Delimiter, Nul}
    BY <1>1, <1>2, <1>3
  <2> QED
    BY <1>1, <2>1, FirstOfIs
<1> HIDE DEF f
<1>5. \A q \in f .. end - 1 : q \in 1 .. Len(L) /\ scommand[q] = L[q] /\ L[q] # Delimiter
  <2> TAKE q \in f .. end - 1
  <2>1. q \in sp .. Len(L) /\ q \in 1 .. Len(L)
    BY <1>1, <1>3, <1>4
  <2> QED
    BY <1>2, <1>4, <2>1
<1>6. end # f
  <2>1. scommand[f] = L[f] /\ L[f] \in Chars
    BY <1>1, <1>2, <1>3
  <2> QED
    BY <1>3, <1>4, <2>1, Blanks
<1>7. scommand[end] = Nul <=> end = Len(L) + 1
  <2>1. ASSUME end # Len(L) + 1 PROVE scommand[end] # Nul
    <3>1. end \in sp .. Len(L) /\ end \in 1 .. Len(L)
      BY <1>1, <1>3, <1>4, <2>1
    <3>2. scommand[end] = L[end] /\ L[end] \in Chars
      BY <1>1, <1>2, <3>1
    <3> QED
      BY <3>2, Blanks
  <2> QED
    BY <1>2, <2>1
<1>8. end # Len(L) + 1 => end \in 1 .. Len(L) /\ L[end] = Delimiter
  <2> HAVE end # Len(L) + 1
  <2>1. end \in sp .. Len(L) /\ end \in 1 .. Len(L)
    BY <1>1, <1>3, <1>4
  <2> QED
    BY <1>2, <1>4, <1>7, <2>1
<1>9. end - 1 \in f .. Len(L) /\ end \in Int /\ f \in Int /\ (end - 1) + 1 = end
  BY <1>1, <1>3, <1>4, <1>6
<1> DEFINE e == end - 1
<1>10. t = SubSeq(L, f, e) /\ t \in Seq(Chars)
  <2>1. \A q \in f .. e : scommand[q] = L[q] /\ L[q] \in Chars
    <3> TAKE q \in f .. e
    <3>1. q \in 1 .. Len(L) /\ scommand[q] = L[q]
      BY <1>5
    <3> QED
      BY <1>1, <3>1
  <2>2. f \in Int /\ e \in Int
    BY <1>9
  <2> HIDE DEF e
  <2>3. SubSeq(scommand, f, e) \in Seq(Chars) /\ SubSeq(scommand, f, e) = SubSeq(L, f, e)
    BY <2>1, <2>2, SameSlice
  <2> QED
    BY <2>3 DEF e
<1>11. WordAt(L, f) = SubSeq(L, f, e)
  <2>1. e \in f .. Len(L) /\ (e = Len(L) \/ L[e + 1] = Delimiter)
    BY <1>1, <1>8, <1>9
  <2>2. \A q \in f .. e - 1 : L[q + 1] # Delimiter
    <3> TAKE q \in f .. e - 1
    <3>1. q + 1 \in f .. end - 1
      BY <1>9
    <3> QED
      BY <1>5, <3>1
  <2>3. L \in Seq(Chars) /\ f \in Begins(L)
    BY <1>1
  <2> HIDE DEF e
  <2> QED
    BY <2>1, <2>2, <2>3, WordAtIs
<1>12. /\ Len(args) + 1 <= Len(Words)
       /\ WordAt(L, f) = Words[Len(args) + 1]
  <2>1. /\ Cardinality(Before(L, f)) = Len(args)
        /\ Cardinality(Before(L, f)) + 1 <= Cardinality(Begins(L))
        /\ Len(WordsOf(L)) = Cardinality(Begins(L))
        /\ WordsOf(L)[Cardinality(Before(L, f)) + 1] = WordAt(L, f)
    BY <1>1, <1>2, WordNumber
  <2> QED
    BY <2>1 DEF Words, L
<1>13. next \in end .. Len(L) + 1 /\ (next = Len(L) + 1 \/ L[next - 1] = Delimiter)
  BY <1>1, <1>4, <1>7, <1>8, <1>9
<1>14. Cardinality(Before(L, next)) = Len(args) + 1
  <2>1. f \notin Before(L, f) /\ Before(L, next) = Before(L, f) \cup {f}
    <3>1. ASSUME NEW q \in Begins(L), q < next, q # f PROVE q < f
      <4>1. /\ q \in 1 .. Len(L) /\ L[q] # Delimiter
            /\ q = 1 \/ L[q - 1] = Delimiter
        BY <1>1, <3>1 DEF Begins
      <4>2. q # end
        BY <1>7, <1>8, <4>1, <1>1
      <4>3. q < end
        BY <1>1, <1>9, <1>13, <3>1, <4>1, <4>2
      <4>4. ~(q > f)
        <5>1. SUFFICES ASSUME q > f PROVE FALSE
          OBVIOUS
        <5>2. q - 1 \in f .. end - 1 /\ q # 1
          BY <1>3, <1>9, <4>1, <4>3, <5>1
        <5> QED
          BY <1>5, <4>1, <5>2
      <4> QED
        BY <1>9, <3>1, <4>1, <4>4
    <3>2. f < next
      BY <1>9, <1>13
    <3>3. ASSUME NEW q \in Begins(L), q < f PROVE q < next
      <4>1. q \in Int
        BY <1>1, <3>3 DEF Begins
      <4> QED
        BY <1>9, <1>13, <3>2, <3>3, <4>1
    <3>4. f \in Begins(L) /\ ~(f < f)
      BY <1>1, <1>9
    <3> QED
      BY <3>1, <3>2, <3>3, <3>4 DEF Before
  <2>2. IsFiniteSet(Before(L, f)) /\ Cardinality(Before(L, f)) = Len(args)
    BY <1>1, <1>2, BeginsFinite
  <2> DEFINE B == Before(L, f)
  <2>3. IsFiniteSet(B) /\ Cardinality(B) = Len(args) /\ f \notin B /\ Before(L, next) = B \cup {f}
    BY <2>1, <2>2
  <2> HIDE DEF B
  <2>4. Cardinality(B \cup {f}) = Cardinality(B) + 1
    BY ONLY <2>3, FS_AddElement
  <2> QED
    BY <2>3, <2>4
<1>15. end \in sp .. Len(L) + 1
  BY <1>1, <1>3, <1>4
<1>16. /\ end \in sp .. Len(L) + 1 /\ next \in end .. Len(L) + 1 /\ t \in Seq(Chars)
       /\ Len(args) + 1 <= Len(Words) /\ t = Words[Len(args) + 1]
       /\ next = Len(L) + 1 \/ L[next - 1] = Delimiter
       /\ Cardinality(Before(L, next)) = Len(args) + 1
  <2> HIDE DEF t, e
  <2> QED
    BY <1>10, <1>11, <1>12, <1>13, <1>14, <1>15
<1> QED
  BY <1>16 DEF f, L

-----------------------------------------------------------------------------
(* Reading a line *)

\* A function on 1 .. n is a sequence of length n.
LEMMA FunctionIsSequence ==
  ASSUME NEW S, NEW n \in Nat, NEW f \in [1 .. n -> S]
  PROVE  f \in Seq(S) /\ Len(f) = n
OBVIOUS

\* The C string in a buffer is what is before its first zero byte.
LEMMA CStringIs ==
  ASSUME NEW n \in 0 .. BufferSize - 1, NEW s \in [0 .. BufferSize - 1 -> Chars \cup {Nul}],
         s[n] = Nul, \A k \in 0 .. n - 1 : s[k] \in Chars
  PROVE  CString(s) = [k \in 1 .. n |-> s[k - 1]]
<1> DEFINE P(m) == s[m] = Nul /\ \A k \in 0 .. m - 1 : s[k] # Nul
           end == CHOOSE m \in DOMAIN s : P(m)
<1>0. BufferSize \in Nat \ {0, 1} /\ DOMAIN s = 0 .. BufferSize - 1
  BY ReadLineAssumption
<1>1. n \in DOMAIN s /\ P(n)
  BY <1>0, Blanks
<1>2. ASSUME NEW m \in DOMAIN s, P(m) PROVE m = n
  <2>1. m \in Int /\ n \in Int /\ m >= 0 /\ n >= 0
    BY <1>0
  <2>2. ~(m < n)
    BY <1>2, <2>1, Blanks
  <2>3. ~(n < m)
    BY <1>2, <2>1
  <2> QED
    BY <2>1, <2>2, <2>3
<1> HIDE DEF P
<1>3. end = n
  BY <1>1, <1>2
<1>4. CString(s) = [k \in 1 .. end |-> s[k - 1]]
  BY DEF CString, P
<1> HIDE DEF end
<1> QED
  BY <1>3, <1>4

\* What has been typed is a string of characters as long as i says.
LEMMA WrittenIs ==
  ASSUME Typed, Reading, pc = "read"
  PROVE  /\ Written \in Seq(Chars) /\ Len(Written) = i /\ i \in Nat
         /\ \A k \in 1 .. i : Written[k] = out[k - 1]
<1>1. i \in Nat /\ \A k \in 1 .. i : k - 1 \in 0 .. i - 1
  BY ReadLineAssumption DEF Typed
<1>2. Written \in [1 .. i -> Chars] /\ \A k \in 1 .. i : Written[k] = out[k - 1]
  BY <1>1 DEF Written, Reading
<1> QED
  BY <1>1, <1>2, FunctionIsSequence

\* What Enter delivers is what has been typed, whatever else is in the buffer.
LEMMA EnterDelivers ==
  ASSUME Typed, Reading, EndOfLine
  PROVE  /\ out' \in [0 .. BufferSize - 1 -> Chars \cup {Nul}]
         /\ CString(out') = Written /\ Written \in Seq(Chars)
         /\ delivered' = Append(delivered, Written)
<1>0. BufferSize \in Nat \ {0, 1} /\ i \in 0 .. BufferSize - 1 /\ pc = "read"
  BY ReadLineAssumption DEF Typed, EndOfLine
<1> DEFINE s == [out EXCEPT ![i] = Nul]
<1>1. /\ s \in [0 .. BufferSize - 1 -> Chars \cup {Nul}] /\ s[i] = Nul
      /\ \A k \in 0 .. i - 1 : s[k] = out[k] /\ s[k] \in Chars
  BY <1>0 DEF Typed, Reading
<1>2. out' = s /\ delivered' = Append(delivered, CString(out'))
  BY DEF EndOfLine
<1> HIDE DEF s
<1>3. CString(s) = [k \in 1 .. i |-> s[k - 1]]
  BY <1>0, <1>1, CStringIs
<1>4. \A k \in 1 .. i : s[k - 1] = out[k - 1]
  BY <1>0, <1>1
<1>5. CString(s) = Written
  BY <1>3, <1>4 DEF Written
<1>6. Written \in Seq(Chars)
  BY <1>0, WrittenIs
<1> QED
  BY <1>1, <1>2, <1>5, <1>6

\* Reading a line keeps the invariant.
LEMMA ReadStep ==
  ASSUME IInv, Read
  PROVE  IInv'
<1>0. BufferSize \in Nat \ {0, 1} /\ i \in 0 .. BufferSize - 1 /\ Typed /\ Reading
  BY ReadLineAssumption DEF IInv, Typed
<1>1. CASE EraseAtStart
  BY <1>1, LineStays
  DEF IInv, EraseAtStart, readVars, Read, parsed, process, Typed, Reading, Delivered, Scanning,
      Parsed, Injected
<1>2. CASE EndOfLine
  <2>1. /\ out' \in [0 .. BufferSize - 1 -> Chars \cup {Nul}]
        /\ CString(out') = Written /\ Written \in Seq(Chars)
        /\ delivered' = Append(delivered, Written)
    BY <1>0, <1>2, EnterDelivers
  <2>2. delivered \in Seq(Seq(Chars))
    BY <1>0 DEF Typed
  <2>3. /\ delivered' \in Seq(Seq(Chars)) /\ delivered' # <<>>
        /\ delivered'[Len(delivered')] = Written
    <3> DEFINE w == Written
               d == delivered
    <3>1. w \in Seq(Chars) /\ d \in Seq(Seq(Chars)) /\ delivered' = Append(d, w)
      BY <2>1, <2>2
    <3> HIDE DEF w, d
    <3>2. /\ Append(d, w) \in Seq(Seq(Chars)) /\ Append(d, w) # <<>>
          /\ Len(Append(d, w)) = Len(d) + 1 /\ Append(d, w)[Len(d) + 1] = w
      BY <3>1, AppendProperties
    <3> QED
      BY <3>1, <3>2 DEF w
  <2>4. pc' = "run" /\ UNCHANGED <<i, args, argv, outOfMemory>>
    BY <1>2 DEF EndOfLine, Read, process
  <2>5. Typed'
    BY <1>0, <2>1, <2>3, <2>4 DEF Typed
  <2>6. Delivered'
    BY <2>1, <2>3, <2>4 DEF Delivered, Line, Last
  <2> QED
    BY <2>4, <2>5, <2>6 DEF IInv, Reading, Scanning, Parsed, Injected
<1>3. ASSUME pc' = "read", i' \in 0 .. BufferSize - 1, UNCHANGED <<delivered, args, argv, outOfMemory>>,
             out' \in [0 .. BufferSize - 1 -> Chars \cup {Nul}],
             \A k \in 0 .. i' - 1 : out'[k] \in Chars
      PROVE  IInv'
  <2>1. Typed'
    BY <1>0, <1>3 DEF Typed
  <2>2. Reading'
    BY <1>3 DEF Reading
  <2> QED
    BY <1>3, <2>1, <2>2 DEF IInv, Delivered, Scanning, Parsed, Injected
<1>4. CASE ShowPrompt
  <2>1. pc' = "read" /\ i' = 0 /\ UNCHANGED <<out, delivered, args, argv, outOfMemory>>
    BY <1>4 DEF ShowPrompt, Read, process
  <2> QED
    BY <1>0, <1>3, <2>1 DEF Typed
<1>5. ASSUME NEW c \in Chars, Character(c) PROVE IInv'
  <2>1. /\ pc = "read" /\ pc' = "read" /\ i < BufferSize - 1 /\ i' = i + 1
        /\ out' = [out EXCEPT ![i] = c] /\ UNCHANGED <<delivered, args, argv, outOfMemory>>
    BY <1>5 DEF Character, Read, process
  <2>2. out' \in [0 .. BufferSize - 1 -> Chars \cup {Nul}]
    BY <1>0, <2>1 DEF Typed
  <2>3. \A k \in 0 .. i' - 1 : out'[k] \in Chars
    BY <1>0, <2>1 DEF Typed, Reading
  <2> QED
    BY <1>0, <1>3, <2>1, <2>2, <2>3
<1>6. CASE Erase
  <2>1. /\ pc = "read" /\ pc' = "read" /\ i > 0 /\ i' = i - 1
        /\ out' = [out EXCEPT ![i - 1] = Nul] /\ UNCHANGED <<delivered, args, argv, outOfMemory>>
    BY <1>6 DEF Erase, Read, process
  <2>2. out' \in [0 .. BufferSize - 1 -> Chars \cup {Nul}]
    BY <1>0, <2>1 DEF Typed
  <2>3. \A k \in 0 .. i' - 1 : out'[k] \in Chars
    BY <1>0, <2>1 DEF Typed, Reading
  <2> QED
    BY <1>0, <1>3, <2>1, <2>2, <2>3
<1> QED
  BY <1>1, <1>2, <1>4, <1>5, <1>6 DEF Read, ReadNext

-----------------------------------------------------------------------------
(* Running a line *)

\* The shell copies the line; strtok is at its beginning, before every word.
LEMMA RunStep ==
  ASSUME IInv, Run
  PROVE  IInv'
<1>1. /\ pc = "run" /\ pc' = "token" /\ UNCHANGED <<i, out, delivered>>
      /\ scommand' = Append(CString(out), Nul) /\ sp' = 1
      /\ args' = <<>> /\ argv' = <<>> /\ outOfMemory' = FALSE
  BY DEF Run
<1>2. /\ Line \in Seq(Chars) /\ Len(Line) \in Nat /\ CString(out) = Line
      /\ Line' = Line /\ Words' = Words /\ delivered # <<>>
  BY <1>1, LineTyped, LineStays DEF IInv, Delivered
<1>3. Typed'
  <2>1. <<>> \in Seq(Seq(Chars)) /\ FALSE \in BOOLEAN
    OBVIOUS
  <2> QED
    BY <1>1, <2>1 DEF IInv, Typed
<1>4. Delivered'
  BY <1>1, <1>2 DEF Delivered
<1>5. /\ scommand' \in Seq(Chars \cup {Nul}) /\ Len(scommand') = Len(Line) + 1
      /\ scommand'[Len(Line) + 1] = Nul
      /\ \A q \in 1 .. Len(Line) : scommand'[q] = Line[q]
  <2> DEFINE L == Line
  <2>1. L \in Seq(Chars \cup {Nul}) /\ L \in Seq(Chars) /\ scommand' = Append(L, Nul)
    BY <1>1, <1>2
  <2> HIDE DEF L
  <2>2. /\ scommand' \in Seq(Chars \cup {Nul}) /\ Len(scommand') = Len(L) + 1
        /\ scommand'[Len(L) + 1] = Nul
        /\ \A q \in 1 .. Len(L) : scommand'[q] = L[q]
    BY <2>1
  <2> QED
    BY <2>2 DEF L
<1>6. Cardinality(Before(Line, 1)) = 0
  <2>1. \A q \in Begins(Line) : ~(q < 1)
    BY <1>2 DEF Begins
  <2>2. Before(Line, 1) = {}
    BY <2>1 DEF Before
  <2> QED
    BY <2>2, FS_EmptySet
<1>7. Scanning'
  <2>1. 1 \in 1 .. Len(Line) + 1
    BY <1>2
  <2>2. Cardinality(Before(Line', sp')) = 0 /\ Len(args') = 0
    BY <1>1, <1>2, <1>6
  <2> QED
    BY <1>1, <1>2, <1>5, <2>1, <2>2 DEF Scanning
<1>8. Parsed'
  <2>1. Len(Words) \in Nat /\ Len(args') = 0
    BY <1>1, <1>2, BeginsFinite DEF Words, WordsOf
  <2> QED
    BY <1>1, <1>2, <2>1 DEF Parsed
<1> QED
  BY <1>1, <1>3, <1>4, <1>7, <1>8 DEF IInv, Reading, Injected

\* strtok returns the next word of the line, or all words have been returned.
LEMMA StrtokStep ==
  ASSUME IInv, Strtok
  PROVE  IInv'
<1>0. /\ Typed /\ Delivered /\ Scanning /\ Parsed /\ pc = "token"
      /\ UNCHANGED <<i, out, delivered, args, argv, outOfMemory>>
  BY DEF IInv, Strtok, reading, process
<1>1. /\ Line \in Seq(Chars) /\ Len(Line) \in Nat /\ Line' = Line /\ Words' = Words
      /\ sp \in 1 .. Len(Line) + 1 /\ Len(scommand) = Len(Line) + 1
      /\ scommand \in Seq(Chars \cup {Nul}) /\ delivered # <<>>
  BY <1>0, LineTyped, LineStays DEF Delivered, Scanning
<1> DEFINE from == Skip(sp)
           end == FirstOf({Delimiter, Nul}, from)
           next == IF scommand[end] = Nul THEN end ELSE end + 1
<1>2. CASE scommand[from] = Nul
  <2>1. pc' = IF args = <<>> THEN "prompt" ELSE "system"
    BY <1>0, <1>2 DEF Strtok
  <2>2. Len(args) = Len(Words)
    BY <1>0, <1>2, NoFurtherWord
  <2>3. Typed'
    BY <1>0, <2>1 DEF Typed
  <2>4. Parsed'
    BY <1>0, <1>1, <2>1, <2>2 DEF Parsed
  <2> QED
    BY <1>0, <1>1, <2>1, <2>3, <2>4
    DEF IInv, Reading, Delivered, Scanning, Injected
<1>3. CASE scommand[from] # Nul
  <2>1. /\ token' = SubSeq(scommand, from, end - 1) /\ sp' = next /\ pc' = "node"
        /\ scommand' = [scommand EXCEPT ![end] = Nul]
    <3>1. ~(sp = 0 \/ scommand[from] = Nul)
      BY <1>1, <1>3
    <3> QED
      BY <3>1 DEF Strtok
  <2>2. /\ end \in sp .. Len(Line) + 1 /\ next \in end .. Len(Line) + 1
        /\ Len(args) + 1 <= Len(Words)
        /\ SubSeq(scommand, from, end - 1) = Words[Len(args) + 1]
        /\ next = Len(Line) + 1 \/ Line[next - 1] = Delimiter
        /\ Cardinality(Before(Line, next)) = Len(args) + 1
    <3>1. end = FirstOf({Delimiter, Nul}, Skip(sp))
      OBVIOUS
    <3>2. next = IF scommand[end] = Nul THEN end ELSE end + 1
      OBVIOUS
    <3> HIDE DEF end, next
    <3> QED
      BY <1>0, <1>3, <3>1, <3>2, NextWord
  <2> HIDE DEF from, end
  <2>3. /\ scommand' \in Seq(Chars \cup {Nul}) /\ Len(scommand') = Len(Line) + 1
        /\ \A q \in 1 .. Len(Line) + 1 : scommand'[q] = IF q = end THEN Nul ELSE scommand[q]
    <3>1. end \in 1 .. Len(scommand) /\ Nul \in Chars \cup {Nul}
      BY <1>1, <2>2
    <3> QED
      BY <1>1, <2>1, <3>1, ExceptSeq
  <2>4. next = end => end = Len(Line) + 1
    <3>1. SUFFICES ASSUME scommand[end] = Nul, end # Len(Line) + 1 PROVE FALSE
      BY <1>1, <2>2
    <3>2. end \in sp .. Len(Line) /\ end \in 1 .. Len(Line)
      BY <1>1, <2>2, <3>1
    <3>3. scommand[end] = Line[end] /\ Line[end] \in Chars
      BY <1>0, <1>1, <3>2 DEF Scanning
    <3> QED
      BY <3>1, <3>3, Blanks
  <2>5. \A q \in next .. Len(Line) : scommand'[q] = Line[q]
    <3> TAKE q \in next .. Len(Line)
    <3>1. q \in sp .. Len(Line) /\ q \in 1 .. Len(Line) + 1
      BY <1>1, <2>2
    <3>2. q # end
      BY <1>1, <2>2, <2>4
    <3> QED
      BY <1>0, <2>3, <3>1, <3>2 DEF Scanning
  <2>6. scommand'[Len(Line) + 1] = Nul
    <3>1. Len(Line) + 1 \in 1 .. Len(Line) + 1
      BY <1>1
    <3> QED
      BY <1>0, <2>3, <3>1 DEF Scanning
  <2>7. next \in 1 .. Len(Line) + 1
    BY <1>1, <2>2
  <2> HIDE DEF next
  <2>8. Typed'
    BY <1>0, <2>1 DEF Typed
  <2>9. Scanning'
    BY <1>0, <1>1, <2>1, <2>2, <2>3, <2>5, <2>6, <2>7 DEF Scanning
  <2>10. Parsed'
    BY <1>0, <1>1, <2>1 DEF Parsed
  <2> QED
    BY <1>0, <1>1, <2>1, <2>8, <2>9, <2>10 DEF IInv, Reading, Delivered, Injected
<1> QED
  BY <1>2, <1>3

\* A node is the word that strtok returned.
LEMMA NodeStep ==
  ASSUME IInv, Node
  PROVE  IInv'
<1>0. /\ Typed /\ Delivered /\ Scanning /\ Parsed /\ pc = "node" /\ pc' = "token"
      /\ args' = Append(args, Truncated(token, ArgumentSize))
      /\ UNCHANGED <<i, out, delivered, argv, outOfMemory, scommand, sp>>
  BY DEF IInv, Node, reading, process, parsed
<1>1. /\ Line \in Seq(Chars) /\ Line' = Line /\ Words' = Words
      /\ delivered # <<>>
  BY <1>0, LineTyped, LineStays DEF Delivered
<1>2. /\ args \in Seq(Seq(Chars)) /\ ArgumentSize \in Nat \ {0}
      /\ token = Words[Len(args) + 1] /\ Cardinality(Before(Line, sp)) = Len(args) + 1
  BY <1>0, CommandLineAssumption DEF Typed, Scanning
<1>3. Len(Words) = Cardinality(Begins(Line)) /\ Len(Words) \in Nat
  BY <1>1, BeginsFinite DEF Words, WordsOf
<1>4. Len(args) + 1 <= Len(Words)
  BY <1>1, <1>2, <1>3, BeginsFinite
<1>5. \A n \in 1 .. Len(Words) : Words[n] \in Seq(Chars)
  BY <1>1, WordsTyped DEF Words
<1>6. Truncated(token, ArgumentSize) \in Seq(Chars)
  <2>1. Len(args) + 1 \in 1 .. Len(Words)
    BY <1>2, <1>3, <1>4
  <2>2. token \in Seq(Chars)
    BY <1>2, <1>5, <2>1
  <2> QED
    BY <1>2, <2>2, TruncatedIs
<1> DEFINE w == Truncated(token, ArgumentSize)
<1>7. w = Truncated(Words[Len(args) + 1], ArgumentSize)
  BY <1>2
<1> HIDE DEF w
<1>8. /\ args' \in Seq(Seq(Chars)) /\ Len(args') = Len(args) + 1
      /\ \A n \in 1 .. Len(args) : args'[n] = args[n]
      /\ args'[Len(args) + 1] = w
  BY <1>0, <1>2, <1>6 DEF w
<1>9. Typed'
  BY <1>0, <1>8 DEF Typed
<1>10. Scanning'
  BY <1>0, <1>1, <1>2, <1>8 DEF Scanning
<1>11. Parsed'
  <2>1. ASSUME NEW n \in 1 .. Len(args')
        PROVE  args'[n] = Truncated(Words[n], ArgumentSize)
    <3>1. CASE n = Len(args) + 1
      BY <1>7, <1>8, <3>1
    <3>2. CASE n # Len(args) + 1
      <4>1. n \in 1 .. Len(args)
        BY <1>2, <1>8, <3>2
      <4> QED
        BY <1>0, <1>8, <4>1 DEF Parsed
    <3> QED
      BY <3>1, <3>2
  <2> QED
    BY <1>0, <1>1, <1>4, <1>8, <2>1 DEF Parsed
<1> QED
  BY <1>0, <1>1, <1>9, <1>10, <1>11 DEF IInv, Reading, Delivered, Injected

\* The shell goes back to its prompt, or on to the system call with what it has.
LEMMA GiveUpStep ==
  ASSUME IInv, NoNode \/ LoadFails \/ InjectFails
  PROVE  IInv'
<1>1. /\ UNCHANGED <<i, out, delivered, args, argv>> /\ outOfMemory' \in BOOLEAN
      /\ \/ pc' = "prompt"
         \/ pc = "node" /\ pc' = "system" /\ args # <<>> /\ outOfMemory'
  BY DEF NoNode, LoadFails, InjectFails, reading, parsed, process, IInv, Typed
<1>2. Typed'
  BY <1>1 DEF IInv, Typed
<1>3. CASE pc' = "prompt"
  BY <1>2, <1>3 DEF IInv, Reading, Delivered, Scanning, Parsed, Injected
<1>4. CASE pc = "node" /\ pc' = "system" /\ args # <<>> /\ outOfMemory'
  <2>1. Line' = Line /\ Words' = Words
    BY <1>1, LineStays
  <2> QED
    BY <1>1, <1>2, <1>4, <2>1 DEF IInv, Reading, Delivered, Scanning, Parsed, Injected
<1> QED
  BY <1>1, <1>3, <1>4

\* The program that is loaded is named by the first word.
LEMMA LoadStep ==
  ASSUME IInv, Load
  PROVE  IInv'
<1>0. /\ Typed /\ Delivered /\ Parsed /\ pc = "system" /\ pc' = "inject"
      /\ program' = Truncated(Head(args), NameSize)
      /\ UNCHANGED <<i, out, delivered, args, argv, outOfMemory>>
  BY DEF IInv, Load, reading, parsed
<1>1. /\ Line \in Seq(Chars) /\ Line' = Line /\ Words' = Words /\ delivered # <<>>
  BY <1>0, LineTyped, LineStays DEF Delivered
<1>2. /\ args \in Seq(Seq(Chars)) /\ args # <<>> /\ Len(args) <= Len(Words) /\ argv = <<>>
      /\ \A n \in 1 .. Len(args) : args[n] = Truncated(Words[n], ArgumentSize)
  BY <1>0 DEF Typed, Parsed
<1>3. Len(args) \in Nat \ {0} /\ Head(args) = args[1] /\ Len(Words) \in Nat
  <2>1. Len(Words) \in Nat
    BY <1>1, BeginsFinite DEF Words, WordsOf
  <2>2. Len(args) \in Nat \ {0}
    BY <1>2, EmptySeq
  <2>3. Head(args) = args[1]
    BY <1>2, <2>2
  <2> QED
    BY <2>1, <2>2, <2>3
<1>4. 1 \in 1 .. Len(args) /\ 1 \in 1 .. Len(Words)
  BY <1>2, <1>3
<1> DEFINE w == Words[1]
<1>5. w \in Seq(Chars)
  BY <1>1, <1>4, WordsTyped DEF Words
<1>6. Head(args) = Truncated(w, ArgumentSize)
  BY <1>2, <1>3, <1>4
<1> HIDE DEF w
<1>7. Truncated(Truncated(w, ArgumentSize), NameSize) = Truncated(w, NameSize)
  BY <1>5, CommandLineAssumption, TruncatedTwice
<1>8. program' = Truncated(w, NameSize)
  BY <1>0, <1>6, <1>7
<1>9. Typed'
  BY <1>0 DEF Typed
<1> QED
  BY <1>0, <1>1, <1>2, <1>3, <1>8, <1>9
  DEF IInv, Reading, Delivered, Scanning, Parsed, Injected, w

\* An argument is the word of its node, uncut.
LEMMA InjectStep ==
  ASSUME IInv, InjectArgument
  PROVE  IInv'
<1>0. /\ Typed /\ Delivered /\ Parsed /\ Injected /\ pc = "inject" /\ pc' = "inject"
      /\ argv' = Append(argv, Truncated(args[Len(argv) + 1], ArgumentSize))
      /\ Len(argv) < Len(args)
      /\ UNCHANGED <<i, out, delivered, args, program, outOfMemory>>
  BY DEF IInv, InjectArgument, reading, parsed
<1>1. /\ Line \in Seq(Chars) /\ Line' = Line /\ Words' = Words /\ delivered # <<>>
  BY <1>0, LineTyped, LineStays DEF Delivered
<1>2. /\ args \in Seq(Seq(Chars)) /\ argv \in Seq(Seq(Chars))
      /\ Len(args) \in Nat /\ Len(argv) \in Nat /\ Len(args) <= Len(Words)
      /\ \A n \in 1 .. Len(args) : args[n] = Truncated(Words[n], ArgumentSize)
      /\ \A n \in 1 .. Len(argv) : argv[n] = args[n]
  BY <1>0 DEF Typed, Parsed, Injected
<1>3. Len(argv) + 1 \in 1 .. Len(args) /\ Len(argv) + 1 \in 1 .. Len(Words)
  <2>1. Len(Words) \in Nat
    BY <1>1, BeginsFinite DEF Words, WordsOf
  <2> QED
    BY <1>0, <1>2, <2>1
<1> DEFINE w == Words[Len(argv) + 1]
           a == args[Len(argv) + 1]
<1>4. w \in Seq(Chars)
  BY <1>1, <1>3, WordsTyped DEF Words
<1>5. a = Truncated(w, ArgumentSize) /\ a \in Seq(Chars)
  BY <1>2, <1>3
<1> HIDE DEF w
<1>6. Truncated(Truncated(w, ArgumentSize), ArgumentSize) = Truncated(w, ArgumentSize)
  BY <1>4, CommandLineAssumption, TruncatedTwice
<1>7. argv' = Append(argv, a)
  BY <1>0, <1>5, <1>6
<1>8. /\ argv' \in Seq(Seq(Chars)) /\ Len(argv') = Len(argv) + 1
      /\ \A n \in 1 .. Len(argv) + 1 : argv'[n] = args[n]
  <2> HIDE DEF a
  <2>1. /\ argv' \in Seq(Seq(Chars)) /\ Len(argv') = Len(argv) + 1
        /\ \A n \in 1 .. Len(argv) : argv'[n] = argv[n]
        /\ argv'[Len(argv) + 1] = a
    BY <1>2, <1>5, <1>7
  <2>2. a = args[Len(argv) + 1]
    BY DEF a
  <2>3. ASSUME NEW n \in 1 .. Len(argv) + 1 PROVE argv'[n] = args[n]
    <3>1. n = Len(argv) + 1 \/ n \in 1 .. Len(argv)
      BY <1>2
    <3> QED
      BY <1>2, <2>1, <2>2, <3>1
  <2> QED
    BY <2>1, <2>3
<1>9. Typed'
  BY <1>0, <1>8 DEF Typed
<1>10. Injected'
  BY <1>0, <1>1, <1>2, <1>8 DEF Injected
<1> QED
  BY <1>0, <1>1, <1>9, <1>10 DEF IInv, Reading, Delivered, Scanning, Parsed

\* The program starts with all the arguments.
LEMMA StartStep ==
  ASSUME IInv, Start
  PROVE  IInv'
<1>1. /\ pc = "inject" /\ pc' = "runs" /\ argc' = Len(args) /\ Len(argv) = Len(args)
      /\ UNCHANGED <<i, out, delivered, args, argv, program, outOfMemory>>
  BY DEF Start, reading, parsed
<1>2. Line' = Line /\ Words' = Words
  BY <1>1, LineStays
<1>3. Typed'
  BY <1>1 DEF IInv, Typed
<1> QED
  BY <1>1, <1>2, <1>3 DEF IInv, Reading, Delivered, Scanning, Parsed, Injected

\* No step breaks the invariant.
LEMMA StepPreserves ==
  ASSUME IInv, [Next]_vars
  PROVE  IInv'
<1>1. CASE UNCHANGED vars
  BY <1>1, LineStays
  DEF vars, readVars, parsed, process, IInv, Typed, Reading, Delivered, Scanning, Parsed, Injected
<1>2. CASE Start \/ InjectArgument \/ Load \/ Node \/ Strtok \/ Run \/ Read
  BY <1>2, StartStep, InjectStep, LoadStep, NodeStep, StrtokStep, RunStep, ReadStep
<1>3. CASE NoNode \/ LoadFails \/ InjectFails
  BY <1>3, GiveUpStep
<1> QED
  BY <1>1, <1>2, <1>3 DEF Next, End

\* At first nothing has been read.
LEMMA InitEstablishes ==
  ASSUME Init
  PROVE  IInv
<1>1. /\ pc = "prompt" /\ i = 0 /\ delivered = <<>> /\ args = <<>> /\ argv = <<>>
      /\ outOfMemory = FALSE
      /\ \E c \in Chars \cup {Nul} : out = [n \in 0 .. BufferSize - 1 |-> c]
  BY DEF Init, ReadInit
<1>2. Typed
  <2>1. <<>> \in Seq(Seq(Chars)) /\ 0 \in 0 .. BufferSize - 1
    BY ReadLineAssumption
  <2>2. out \in [0 .. BufferSize - 1 -> Chars \cup {Nul}]
    BY <1>1
  <2> QED
    BY <1>1, <2>1, <2>2 DEF Typed
<1> QED
  BY <1>1, <1>2 DEF IInv, Reading, Delivered, Scanning, Parsed, Injected

-----------------------------------------------------------------------------
(* The screen *)

Glyphs == Chars \cup {Nul} \cup Range(Prompt)
Screens == [row : Nat, col : 0 .. Width - 1, cells : [Cells -> Glyphs]]

\* A cell's place in video memory is that of its row, and then its column.
LEMMA PositionIs ==
  ASSUME NEW t \in Screens
  PROVE  /\ t.row \in Nat /\ t.col \in 0 .. Width - 1 /\ t.cells \in [Cells -> Glyphs]
         /\ Width \in Nat \ {0} /\ Position(t) \in Nat
         /\ Position(t) = t.row * Width + t.col
         /\ (t.row + 1) * Width = t.row * Width + Width
         /\ (t.row - 1) * Width = t.row * Width - Width
         /\ t.row * Width \in Nat
<1>1. t.row \in Nat /\ t.col \in 0 .. Width - 1 /\ t.cells \in [Cells -> Glyphs]
  BY DEF Screens
<1>2. Width \in Nat \ {0}
  BY TerminalAssumption
<1>3. t.row * Width \in Nat
  BY <1>1, <1>2
<1>4. (t.row + 1) * Width = t.row * Width + Width /\ (t.row - 1) * Width = t.row * Width - Width
  BY <1>1, <1>2
<1> QED
  BY <1>1, <1>2, <1>3, <1>4 DEF Position

\* A character is put at the cursor, which goes on, at the end of a row to the next.
LEMMA WriteShows ==
  ASSUME NEW t \in Screens, NEW c \in Glyphs \ {NewLine, BackSpace},
         NEW u, u = terminal_write_char(t, c)
  PROVE  /\ u \in Screens /\ Position(u) = Position(t) + 1
         /\ \A p \in Cells : u.cells[p] = IF p = Position(t) THEN c ELSE t.cells[p]
<1> DEFINE w == t.col + 1 >= Width
           r == IF w THEN t.row + 1 ELSE t.row
           x == IF w THEN 0 ELSE t.col + 1
           s == [t.cells EXCEPT ![t.row * Width + t.col] = c]
<1>0. t.row \in Nat /\ t.col \in 0 .. Width - 1 /\ Width \in Nat \ {0}
  BY PositionIs
<1>1. t = [row |-> t.row, col |-> t.col, cells |-> t.cells]
  BY DEF Screens
<1>2. u = [row |-> r, col |-> x, cells |-> s]
  BY <1>1 DEF terminal_write_char, terminal_put_char
<1>3. r \in Nat /\ x \in 0 .. Width - 1
  BY <1>0
<1>4. s \in [Cells -> Glyphs]
  BY PositionIs
<1>5. r * Width + x = Position(t) + 1
  <2>1. CASE w
    <3>1. t.col + 1 = Width
      BY <1>0, <2>1
    <3>2. r * Width = t.row * Width + Width /\ x = 0
      BY <2>1, PositionIs
    <3> HIDE DEF r, x, w
    <3> QED
      BY <3>1, <3>2, PositionIs
  <2>2. CASE ~w
    <3>1. r = t.row /\ x = t.col + 1
      BY <2>2
    <3> HIDE DEF r, x, w
    <3> QED
      BY <3>1, PositionIs
  <2> QED
    BY <2>1, <2>2
<1>6. \A p \in Cells : s[p] = IF p = Position(t) THEN c ELSE t.cells[p]
  BY PositionIs
<1> HIDE DEF r, x, s
<1> QED
  BY <1>2, <1>3, <1>4, <1>5, <1>6 DEF Screens, Position

\* A backspace clears the cell before the cursor, at the left edge the last one of
\* the row above, and goes there.
LEMMA BackspaceClears ==
  ASSUME NEW t \in Screens, Position(t) > 0,
         NEW u, u = terminal_write_char(t, BackSpace)
  PROVE  /\ u \in Screens /\ Position(u) = Position(t) - 1
         /\ \A p \in Cells : u.cells[p] = IF p = Position(t) - 1 THEN Nul ELSE t.cells[p]
<1> DEFINE r == IF t.col > 0 THEN t.row ELSE t.row - 1
           x == IF t.col > 0 THEN t.col - 1 ELSE Width - 1
           s == [t.cells EXCEPT ![r * Width + x] = Nul]
<1>1. t = [row |-> t.row, col |-> t.col, cells |-> t.cells]
  BY DEF Screens
<1>2. ~(t.row = 0 /\ t.col = 0)
  BY PositionIs
<1>3. u = [row |-> r, col |-> x, cells |-> s]
  <2>1. u = terminal_backspace(t)
    BY TerminalAssumption DEF terminal_write_char
  <2> QED
    BY <1>1, <1>2, <2>1 DEF terminal_backspace, terminal_put_char
<1>4. r \in Nat /\ x \in 0 .. Width - 1
  BY <1>2, PositionIs
<1>5. r * Width + x = Position(t) - 1
  <2>1. CASE t.col > 0
    <3>1. r = t.row /\ x = t.col - 1
      BY <2>1
    <3> HIDE DEF r, x
    <3> QED
      BY <3>1, PositionIs
  <2>2. CASE ~(t.col > 0)
    <3>1. r * Width = t.row * Width - Width /\ x = Width - 1 /\ t.col = 0
      BY <2>2, PositionIs
    <3> HIDE DEF r, x
    <3> QED
      BY <3>1, PositionIs
  <2> QED
    BY <2>1, <2>2
<1>6. s \in [Cells -> Glyphs] /\ \A p \in Cells : s[p] = IF p = Position(t) - 1 THEN Nul ELSE t.cells[p]
  <2>1. t.cells \in [Cells -> Glyphs] /\ Nul \in Glyphs
    BY PositionIs DEF Glyphs
  <2> HIDE DEF r, x
  <2> QED
    BY <1>5, <2>1
<1> HIDE DEF r, x, s
<1> QED
  BY <1>3, <1>4, <1>5, <1>6 DEF Screens, Position

\* A new line shows nothing and goes forward.
LEMMA NewLineAdvances ==
  ASSUME NEW t \in Screens, NEW u, u = terminal_write_char(t, NewLine)
  PROVE  u \in Screens /\ Position(u) >= Position(t) /\ u.cells = t.cells
<1>1. t = [row |-> t.row, col |-> t.col, cells |-> t.cells]
  BY DEF Screens
<1>2. u = [row |-> t.row + 1, col |-> 0, cells |-> t.cells]
  <2>1. u = [t EXCEPT !.row = @ + 1, !.col = 0]
    BY TerminalAssumption DEF terminal_write_char
  <2> QED
    BY <1>1, <2>1
<1>3. (t.row + 1) * Width + 0 >= Position(t)
  BY PositionIs
<1>4. t.row + 1 \in Nat /\ 0 \in 0 .. Width - 1 /\ t.cells \in [Cells -> Glyphs]
  BY PositionIs
<1> QED
  BY <1>2, <1>3, <1>4 DEF Screens, Position

\* The screens that print goes through, one per character.
Shown(g, t, str, n) == IF n = 0 THEN t ELSE terminal_write_char(g[n - 1], str[n])
ShownTo(g, t, str, m) == g = [n \in 0 .. m |-> Shown(g, t, str, n)]

\* print writes one character after the other.
LEMMA PrintGoesOn ==
  ASSUME NEW t, NEW str, Len(str) \in Nat
  PROVE  \E g : /\ print(t, str) = g[Len(str)] /\ g[0] = t
                /\ \A n \in 1 .. Len(str) : g[n] = terminal_write_char(g[n - 1], str[n])
<1> DEFINE N == Len(str)
           S == {m \in 0 .. N : ~\E g : ShownTo(g, t, str, m)}
<1>1. S = {}
  <2> SUFFICES ASSUME S # {} PROVE FALSE
    OBVIOUS
  <2>1. PICK m \in S : \A y \in S : m <= y
    <3>1. S \in SUBSET (0 .. N) /\ N \in Nat
      OBVIOUS
    <3> HIDE DEF S, N
    <3> QED
      BY <3>1, MinOfNaturals
  <2>2. CASE m = 0
    <3>1. ShownTo([n \in 0 .. 0 |-> t], t, str, 0)
      BY DEF ShownTo, Shown
    <3> QED
      BY <2>1, <2>2, <3>1
  <2>3. CASE m # 0
    <3>1. m - 1 \in 0 .. N /\ m - 1 \notin S /\ m \in Nat
      BY <2>1, <2>3
    <3>2. PICK g : ShownTo(g, t, str, m - 1)
      BY <3>1
    <3> DEFINE h == [n \in 0 .. m |-> IF n = m THEN terminal_write_char(g[m - 1], str[m]) ELSE g[n]]
    <3>3. \A n \in 0 .. m - 1 : g[n] = Shown(g, t, str, n)
      BY <3>2 DEF ShownTo
    <3>4. ASSUME NEW n \in 0 .. m PROVE h[n] = Shown(h, t, str, n)
      <4>1. CASE n = m
        <5>1. m - 1 \in 0 .. m /\ m - 1 # m
          BY <3>1
        <5> QED
          BY <2>3, <4>1, <5>1 DEF Shown
      <4>2. CASE n # m
        <5>1. n \in 0 .. m - 1 /\ (n # 0 => n - 1 \in 0 .. m /\ n - 1 # m)
          BY <3>1, <4>2
        <5> QED
          BY <3>3, <4>2, <5>1 DEF Shown
      <4> QED
        BY <4>1, <4>2
    <3>5. h = [n \in 0 .. m |-> h[n]]
      OBVIOUS
    <3> HIDE DEF h
    <3>6. h = [n \in 0 .. m |-> Shown(h, t, str, n)]
      BY <3>4, <3>5
    <3> QED
      BY <2>1, <3>6 DEF ShownTo
  <2> QED
    BY <2>2, <2>3
<1>2. \E g : ShownTo(g, t, str, N)
  BY <1>1
<1>3. PICK g : ShownTo(g, t, str, N) /\ print(t, str) = g[N]
  BY <1>2 DEF ShownTo, Shown, print
<1>4. \A n \in 0 .. N : g[n] = Shown(g, t, str, n)
  BY <1>3 DEF ShownTo
<1>5. \A n \in 1 .. N : n \in 0 .. N /\ n # 0
  OBVIOUS
<1>6. 0 \in 0 .. N
  OBVIOUS
<1> QED
  BY <1>3, <1>4, <1>5, <1>6 DEF Shown

\* The string is shown from the cursor on; everything else stays.
LEMMA PrintShows ==
  ASSUME NEW t \in Screens, NEW str \in Seq(Glyphs \ {NewLine, BackSpace}),
         NEW u, u = print(t, str)
  PROVE  /\ u \in Screens /\ Position(u) = Position(t) + Len(str)
         /\ \A p \in Cells : u.cells[p] =
              IF p \in Position(t) .. Position(t) + Len(str) - 1
                THEN str[p - Position(t) + 1] ELSE t.cells[p]
<1> DEFINE N == Len(str)
           P == Position(t)
           Good(v, n) == /\ v \in Screens /\ Position(v) = P + n
                         /\ \A p \in Cells : v.cells[p] =
                              IF p \in P .. P + n - 1 THEN str[p - P + 1] ELSE t.cells[p]
<1>1. N \in Nat /\ P \in Nat
  BY PositionIs
<1>2. PICK g : /\ u = g[N] /\ g[0] = t
               /\ \A n \in 1 .. N : g[n] = terminal_write_char(g[n - 1], str[n])
  BY <1>1, PrintGoesOn
<1>3. \A p \in Cells : p \in Int
  BY TerminalAssumption DEF Cells
<1> HIDE DEF P
<1>4. Good(g[0], 0)
  <2>1. Position(t) = P + 0
    BY <1>1 DEF P
  <2> QED
    BY <1>1, <1>2, <1>3, <2>1
<1>5. ASSUME NEW n \in 1 .. N, Good(g[n - 1], n - 1) PROVE Good(g[n], n)
  <2> DEFINE v == g[n - 1]
             w == g[n]
             c == str[n]
  <2>1. c \in Glyphs \ {NewLine, BackSpace}
    OBVIOUS
  <2>2. w = terminal_write_char(v, c) /\ v \in Screens /\ Position(v) = P + (n - 1)
    BY <1>2, <1>5
  <2>3. \A p \in Cells : v.cells[p] =
          IF p \in P .. P + (n - 1) - 1 THEN str[p - P + 1] ELSE t.cells[p]
    BY <1>5
  <2> HIDE DEF v, w
  <2>4. /\ w \in Screens /\ Position(w) = Position(v) + 1
        /\ \A p \in Cells : w.cells[p] = IF p = Position(v) THEN c ELSE v.cells[p]
    BY <2>1, <2>2, WriteShows
  <2>5. ASSUME NEW p \in Cells
        PROVE  w.cells[p] = IF p \in P .. P + n - 1 THEN str[p - P + 1] ELSE t.cells[p]
    <3>1. CASE p = P + (n - 1)
      <4>1. p \in P .. P + n - 1 /\ p - P + 1 = n
        BY <1>1, <3>1
      <4> QED
        BY <2>2, <2>4, <3>1, <4>1
    <3>2. CASE p # P + (n - 1)
      <4>1. p \in P .. P + n - 1 <=> p \in P .. P + (n - 1) - 1
        BY <1>1, <1>3, <3>2
      <4> QED
        BY <2>2, <2>3, <2>4, <3>2, <4>1
    <3> QED
      BY <3>1, <3>2
  <2>6. Position(w) = P + n
    BY <1>1, <2>2, <2>4
  <2> QED
    BY <2>4, <2>5, <2>6 DEF w
<1> HIDE DEF Good, N
<1>6. Good(g[N], N)
  <2> DEFINE S == {n \in 0 .. N : ~Good(g[n], n)}
  <2>1. S = {}
    <3> SUFFICES ASSUME S # {} PROVE FALSE
      OBVIOUS
    <3>1. PICK m \in S : \A y \in S : m <= y
      <4>1. S \in SUBSET (0 .. N) /\ N \in Nat
        BY <1>1
      <4> HIDE DEF S
      <4> QED
        BY <4>1, MinOfNaturals
    <3>2. m # 0
      BY <1>4, <3>1
    <3>3. m \in 1 .. N /\ m - 1 \in 0 .. N /\ m - 1 \notin S
      BY <1>1, <3>1, <3>2
    <3> QED
      BY <1>5, <3>1, <3>3
  <2> QED
    BY <1>1, <2>1
<1> QED
  BY <1>2, <1>6 DEF Good, N, P

\* Nothing is on the screen from the cursor on, and before it what has been typed.
Blank == \A p \in Cells : p >= Position(screen) => screen.cells[p] \in {Space, Nul}
OnScreen == screen \in Screens /\ start \in Nat /\ Blank /\ ScreenShowsLine

\* The shell begins on an empty screen, behind its banner.
LEMMA ScreenInit == Init => OnScreen
<1> SUFFICES ASSUME Init PROVE OnScreen
  OBVIOUS
<1> DEFINE t == terminal_intialize
<1>1. t \in Screens /\ t.cells = [p \in Cells |-> Space]
  <2>1. Space \in Glyphs /\ 0 \in 0 .. Width - 1
    BY TerminalAssumption DEF Glyphs
  <2> QED
    BY <2>1 DEF terminal_intialize, Screens
<1>2. screen = terminal_write_char(t, NewLine) /\ start = 0 /\ pc = "prompt"
  BY DEF Init, ReadInit
<1> HIDE DEF t
<1>3. screen \in Screens /\ screen.cells = t.cells
  BY <1>1, <1>2, NewLineAdvances
<1> QED
  BY <1>1, <1>2, <1>3 DEF OnScreen, Blank, ScreenShowsLine

\* The prompt is shown behind everything that was there.
LEMMA PromptStep ==
  ASSUME IInv, OnScreen, ShowPrompt
  PROVE  OnScreen'
<1> DEFINE P == Position(screen)
<1>1. /\ pc' = "read" /\ i' = 0 /\ screen' = print(screen, Prompt)
      /\ start' = Position(screen') /\ out' = out
  BY DEF ShowPrompt
<1>2. Prompt \in Seq(Glyphs \ {NewLine, BackSpace}) /\ Len(Prompt) \in Nat
      /\ DOMAIN Prompt = 1 .. Len(Prompt)
  <2>1. Range(Prompt) \subseteq Glyphs
    BY DEF Glyphs
  <2> QED
    BY <2>1, ReadLineAssumption
<1>3. /\ screen' \in Screens /\ Position(screen)' = P + Len(Prompt)
      /\ \A p \in Cells : screen'.cells[p] =
           IF p \in P .. P + Len(Prompt) - 1 THEN Prompt[p - P + 1] ELSE screen.cells[p]
  <2> DEFINE t == screen
             u == screen'
  <2>1. t \in Screens /\ u = print(t, Prompt)
    BY <1>1 DEF OnScreen
  <2> HIDE DEF t, u
  <2>2. /\ u \in Screens /\ Position(u) = Position(t) + Len(Prompt)
        /\ \A p \in Cells : u.cells[p] =
             IF p \in Position(t) .. Position(t) + Len(Prompt) - 1
               THEN Prompt[p - Position(t) + 1] ELSE t.cells[p]
    BY <1>2, <2>1, PrintShows
  <2>3. Position(u) = Position(screen)'
    BY DEF u, Position
  <2> QED
    BY <2>2, <2>3 DEF t, u
<1>4. P \in Nat
  BY PositionIs DEF OnScreen
<1>5. \A p \in Cells : p \in Int
  BY TerminalAssumption DEF Cells
<1> HIDE DEF P
<1>6. start' = P + Len(Prompt) /\ start' \in Nat
  BY <1>1, <1>2, <1>3, <1>4 DEF Position
<1>7. \A p \in Cells : p >= P + Len(Prompt) => screen'.cells[p] \in {Space, Nul}
  <2> TAKE p \in Cells
  <2> HAVE p >= P + Len(Prompt)
  <2>1. p \notin P .. P + Len(Prompt) - 1 /\ p >= P
    BY <1>2, <1>4, <1>5
  <2> QED
    BY <1>3, <2>1 DEF OnScreen, Blank, P
<1>8. \A k \in DOMAIN Prompt : Shows(start - Len(Prompt) + k - 1, Prompt[k])'
  <2> TAKE k \in DOMAIN Prompt
  <2> DEFINE p == P + k - 1
  <2>1. p \in P .. P + Len(Prompt) - 1 /\ p - P + 1 = k /\ start' - Len(Prompt) + k - 1 = p
    BY <1>2, <1>4, <1>6
  <2> HIDE DEF p
  <2>2. p \in Cells => screen'.cells[p] = Prompt[k]
    BY <1>3, <2>1
  <2> QED
    BY <2>1, <2>2 DEF Shows
<1>9. Blank'
  BY <1>3, <1>7 DEF Blank
<1>10. ScreenShowsLine'
  <2>1. Position(screen)' = start' + i' /\ start' + i' = P + Len(Prompt)
    BY <1>1, <1>2, <1>3, <1>4, <1>6
  <2>2. \A k \in 0 .. i' - 1 : FALSE
    BY <1>1
  <2> QED
    BY <1>7, <1>8, <2>1, <2>2 DEF ScreenShowsLine
<1> QED
  BY <1>3, <1>6, <1>9, <1>10 DEF OnScreen

\* A key that is accepted adds to the line or takes from it on both sides: one cell
\* before or behind the cursor changes, and one byte of the buffer.
LEMMA KeyStep ==
  ASSUME IInv, OnScreen, pc = "read", pc' = "read", start' = start,
         screen' \in Screens, i' \in Nat,
         NEW c, NEW d \in Nat,
         \/ d = i /\ i' = i + 1 /\ out' = [out EXCEPT ![d] = c] /\ d \in DOMAIN out
         \/ d = i - 1 /\ i' = d /\ c = Nul /\ \A k \in 0 .. d - 1 : out'[k] = out[k],
         Position(screen') = start + i',
         \A p \in Cells : screen'.cells[p] = IF p = start + d THEN c ELSE screen.cells[p]
  PROVE  OnScreen'
<1>1. /\ i \in Nat /\ start \in Nat /\ Len(Prompt) \in Nat /\ DOMAIN Prompt = 1 .. Len(Prompt)
      /\ \A p \in Cells : p \in Int
  BY TerminalAssumption, ReadLineAssumption DEF Cells, OnScreen, IInv, Typed
<1>2. /\ Position(screen) = start + i
      /\ \A k \in DOMAIN Prompt : Shows(start - Len(Prompt) + k - 1, Prompt[k])
      /\ \A k \in 0 .. i - 1 : Shows(start + k, out[k])
      /\ \A p \in Cells : p >= start + i => screen.cells[p] \in {Space, Nul}
  BY DEF OnScreen, ScreenShowsLine
<1>3. \A k \in DOMAIN Prompt : Shows(start - Len(Prompt) + k - 1, Prompt[k])'
  <2> TAKE k \in DOMAIN Prompt
  <2>1. start - Len(Prompt) + k - 1 # start + d
    BY <1>1
  <2> QED
    BY <1>2, <2>1 DEF Shows
<1>4. \/ d = i /\ i' = i + 1 /\ out' = [out EXCEPT ![d] = c] /\ d \in DOMAIN out
      \/ d = i - 1 /\ i' = d /\ c = Nul /\ \A k \in 0 .. d - 1 : out'[k] = out[k]
  OBVIOUS
<1>5. \A k \in 0 .. i' - 1 : Shows(start + k, out[k])'
  <2> TAKE k \in 0 .. i' - 1
  <2>1. CASE d = i /\ i' = i + 1 /\ out' = [out EXCEPT ![d] = c] /\ d \in DOMAIN out
    <3>1. CASE k = d
      <4>1. out'[k] = c
        BY <2>1, <3>1
      <4> QED
        BY <3>1, <4>1 DEF Shows
    <3>2. CASE k # d
      <4>1. k \in 0 .. i - 1 /\ start + k # start + d
        BY <1>1, <2>1, <3>2
      <4>2. out'[k] = out[k]
        <5>1. k \in DOMAIN out
          BY <1>1, <4>1, ReadLineAssumption DEF IInv, Typed
        <5> QED
          BY <2>1, <3>2, <5>1
      <4> QED
        BY <1>2, <4>1, <4>2 DEF Shows
    <3> QED
      BY <3>1, <3>2
  <2>2. CASE d = i - 1 /\ i' = d /\ c = Nul /\ \A n \in 0 .. d - 1 : out'[n] = out[n]
    <3>1. k \in 0 .. d - 1 /\ k \in 0 .. i - 1 /\ start + k # start + d
      BY <1>1, <2>2
    <3> QED
      BY <1>2, <2>2, <3>1 DEF Shows
  <2> QED
    BY <1>4, <2>1, <2>2
<1>6. \A p \in Cells : p >= start + i' => screen'.cells[p] \in {Space, Nul}
  <2> TAKE p \in Cells
  <2> HAVE p >= start + i'
  <2>1. p # start + d \/ c = Nul
    BY <1>1, <1>4
  <2>2. p # start + d => p >= start + i
    BY <1>1, <1>4
  <2> QED
    BY <1>2, <2>1, <2>2
<1>7. Position(screen)' = start' + i'
  BY DEF Position
<1>8. Blank'
  BY <1>6, <1>7 DEF Blank
<1>9. ScreenShowsLine'
  BY <1>3, <1>5, <1>6, <1>7 DEF ScreenShowsLine
<1> QED
  BY <1>1, <1>8, <1>9 DEF OnScreen

LEMMA ScreenStep == IInv /\ OnScreen /\ [Next]_vars => OnScreen'
<1> SUFFICES ASSUME IInv, OnScreen, [Next]_vars PROVE OnScreen'
  OBVIOUS
<1> USE DEF OnScreen
<1>1. CASE screen' = screen /\ start' = start /\ pc' # "read"
  BY <1>1 DEF Blank, ScreenShowsLine, Position
<1>2. CASE UNCHANGED readVars
  BY <1>2 DEF readVars, Blank, ScreenShowsLine, Position, Shows
<1>3. CASE ShowPrompt
  BY <1>3, PromptStep
<1>4. ASSUME NEW c \in Chars, Character(c) PROVE OnScreen'
  <2>1. /\ pc = "read" /\ pc' = "read" /\ start' = start /\ i' = i + 1
        /\ out' = [out EXCEPT ![i] = c] /\ i < BufferSize - 1
        /\ screen' = terminal_write_char(screen, c)
    BY <1>4 DEF Character, putchar
  <2>2. /\ i \in Nat /\ i + 1 \in Nat /\ i \in DOMAIN out /\ Position(screen) = start + i
        /\ (start + i) + 1 = start + (i + 1)
    BY <2>1, ReadLineAssumption DEF IInv, Typed, ScreenShowsLine
  <2>3. c \in Glyphs \ {NewLine, BackSpace}
    BY TerminalAssumption DEF Glyphs
  <2>4. /\ screen' \in Screens /\ Position(screen') = start + i'
        /\ \A p \in Cells : screen'.cells[p] = IF p = start + i THEN c ELSE screen.cells[p]
    BY <2>1, <2>2, <2>3, WriteShows
  <2> QED
    BY <2>1, <2>2, <2>4, KeyStep
<1>5. CASE Erase
  <2>1. /\ pc = "read" /\ pc' = "read" /\ start' = start /\ i > 0 /\ i' = i - 1
        /\ out' = [out EXCEPT ![i - 1] = Nul]
        /\ screen' = terminal_write_char(screen, BackSpace)
    BY <1>5 DEF Erase, putchar
  <2>2. /\ i \in Nat /\ i - 1 \in Nat /\ Position(screen) = start + i /\ start + i > 0
        /\ (start + i) - 1 = start + (i - 1)
    BY <2>1 DEF IInv, Typed, ScreenShowsLine
  <2>3. /\ screen' \in Screens /\ Position(screen') = start + i'
        /\ \A p \in Cells : screen'.cells[p] = IF p = start + (i - 1) THEN Nul ELSE screen.cells[p]
    BY <2>1, <2>2, BackspaceClears
  <2>4. \A k \in 0 .. (i - 1) - 1 : out'[k] = out[k]
    <3> TAKE k \in 0 .. (i - 1) - 1
    <3>1. k \in DOMAIN out /\ k # i - 1
      BY <2>2, ReadLineAssumption DEF IInv, Typed
    <3> QED
      BY <2>1, <3>1
  <2> QED
    BY <2>1, <2>2, <2>3, <2>4, KeyStep
<1>6. CASE Run
  <2>1. screen' = terminal_write_char(screen, NewLine) /\ start' = start /\ pc' = "token"
    BY <1>6 DEF Run, putchar
  <2>2. screen' \in Screens /\ Position(screen') >= Position(screen) /\ screen'.cells = screen.cells
    BY <2>1, NewLineAdvances
  <2>3. Position(screen) \in Nat /\ Position(screen') \in Nat /\ \A p \in Cells : p \in Int
    BY <2>2, PositionIs, TerminalAssumption DEF Cells
  <2>4. Blank'
    <3>1. Position(screen)' = Position(screen')
      BY DEF Position
    <3>2. \A p \in Cells : p >= Position(screen') => p >= Position(screen)
      BY <2>2, <2>3
    <3> QED
      BY <2>2, <3>1, <3>2 DEF Blank
  <2> QED
    BY <2>1, <2>2, <2>4 DEF ScreenShowsLine
<1>7. CASE UNCHANGED reading /\ pc' # "read"
  BY <1>1, <1>7 DEF reading
<1>8. CASE EndOfLine
  BY <1>1, <1>8 DEF EndOfLine
<1>9. CASE Read
  BY <1>2, <1>3, <1>4, <1>5, <1>8, <1>9 DEF Read, ReadNext, EraseAtStart
<1>10. CASE Strtok
  <2>1. UNCHANGED reading /\ pc' \in {"prompt", "system", "node"}
    BY <1>10 DEF Strtok
  <2> QED
    BY <1>7, <2>1
<1>11. CASE Node \/ NoNode \/ Load \/ LoadFails \/ InjectFails \/ Start
  BY <1>7, <1>11 DEF Node, NoNode, Load, LoadFails, InjectFails, Start
<1>12. CASE InjectArgument
  BY <1>7, <1>12 DEF InjectArgument
<1>13. CASE End \/ UNCHANGED vars
  BY <1>2, <1>13 DEF End, vars
<1> QED
  BY <1>6, <1>9, <1>10, <1>11, <1>12, <1>13 DEF Next

-----------------------------------------------------------------------------
(* The theorems *)

\* Whatever is typed, however long the lines, and wherever memory runs out, the
\* invariant holds.
THEOREM InductiveInvariant == Spec => []IInv
<1>1. Init => IInv
  BY InitEstablishes
<1>2. IInv /\ [Next]_vars => IInv'
  BY StepPreserves
<1> QED
  BY <1>1, <1>2, PTL DEF Spec

\* When a program runs, its name and arguments are the words of the last line.
LEMMA RunsWithWords ==
  ASSUME IInv
  PROVE  ArgvIsTyped
<1> SUFFICES ASSUME pc = "runs"
             PROVE  LET words == WordsOf(Last(delivered))
                        typed == [n \in 1 .. Len(words) |-> Truncated(words[n], ArgumentSize)]
                    IN  /\ argv # <<>> /\ argc = Len(argv) /\ IsPrefix(argv, typed)
                        /\ outOfMemory \/ argv = typed
                        /\ program = Truncated(words[1], NameSize)
  BY DEF ArgvIsTyped
<1> DEFINE W == Words
           typed == [n \in 1 .. Len(W) |-> Truncated(W[n], ArgumentSize)]
<1>1. /\ args \in Seq(Seq(Chars)) /\ argv \in Seq(Seq(Chars)) /\ args # <<>>
      /\ Len(args) <= Len(W) /\ Len(argv) = Len(args) /\ argc = Len(argv)
      /\ \A n \in 1 .. Len(args) : args[n] = Truncated(W[n], ArgumentSize)
      /\ \A n \in 1 .. Len(argv) : argv[n] = args[n]
      /\ outOfMemory \/ Len(args) = Len(W)
      /\ program = Truncated(W[1], NameSize)
  BY DEF IInv, Typed, Parsed, Injected
<1>2. Line \in Seq(Chars)
  BY LineTyped DEF IInv, Delivered
<1>3. Len(W) \in Nat /\ \A n \in 1 .. Len(W) : W[n] \in Seq(Chars)
  <2>1. \A n \in 1 .. Len(W) : W[n] \in Seq(Chars)
    BY <1>2, WordsTyped DEF Words
  <2>2. Len(W) \in Nat
    BY <1>2, BeginsFinite DEF Words, WordsOf
  <2> QED
    BY <2>1, <2>2
<1> HIDE DEF W
<1>4. \A n \in 1 .. Len(W) : Truncated(W[n], ArgumentSize) \in Seq(Chars)
  BY <1>3, TruncatedIs, CommandLineAssumption
<1>5. /\ typed \in Seq(Seq(Chars)) /\ Len(typed) = Len(W)
      /\ \A n \in 1 .. Len(W) : typed[n] = Truncated(W[n], ArgumentSize)
  <2>1. typed \in [1 .. Len(W) -> Seq(Chars)]
    BY <1>4
  <2> QED
    BY <1>3, <2>1, FunctionIsSequence
<1> HIDE DEF typed
<1>6. \A n \in 1 .. Len(argv) : argv[n] = typed[n]
  BY <1>1, <1>3, <1>5
<1>7. argv # <<>> /\ Len(argv) \in Nat
  BY <1>1
<1>8. IsPrefix(argv, typed)
  <2> DEFINE m == Len(argv)
  <2>1. /\ \A n \in 1 .. m : argv[n] \in Seq(Chars)
        /\ \A n \in 1 .. m : typed[n] \in Seq(Chars)
    BY <1>1, <1>6
  <2>2. m \in Int /\ 1 \in Int /\ m >= 0
    BY <1>7
  <2> HIDE DEF m
  <2>3. /\ SubSeq(argv, 1, m) \in Seq(Seq(Chars)) /\ Len(SubSeq(argv, 1, m)) = m
        /\ \A n \in 1 .. m : SubSeq(argv, 1, m)[n] = argv[n]
    BY <2>1, <2>2, SubSeqProperties
  <2>4. /\ SubSeq(typed, 1, m) \in Seq(Seq(Chars)) /\ Len(SubSeq(typed, 1, m)) = m
        /\ \A n \in 1 .. m : SubSeq(typed, 1, m)[n] = typed[n]
    BY <2>1, <2>2, SubSeqProperties
  <2>5. SubSeq(argv, 1, m) = SubSeq(typed, 1, m)
    BY <1>6, <2>3, <2>4, SeqEqual DEF m
  <2> QED
    BY <1>1, <1>5, <2>5 DEF IsPrefix, m
<1>9. outOfMemory \/ argv = typed
  <2>1. Len(argv) = Len(W) => argv = typed
    BY <1>1, <1>5, <1>6, SeqEqual
  <2> QED
    BY <1>1, <2>1
<1> QED
  BY <1>1, <1>7, <1>8, <1>9 DEF W, typed, Words, Line

\* The program that runs is the first word of the last line, and its arguments are
\* the words, in order, each once and cut at the size of a node; if memory ran out,
\* a beginning of them.
THEOREM ArgumentsAreTyped == Spec => []ArgvIsTyped
<1>1. IInv => ArgvIsTyped
  BY RunsWithWords
<1> QED
  BY <1>1, InductiveInvariant, PTL

\* A key, a backspace and Enter do to the line what the editor's actions do; what is
\* in the buffer behind the line, from earlier lines or from the stack, never shows.
LEMMA ReadImplements ==
  ASSUME IInv, IInv', Read
  PROVE  [Editor!Next]_(Editor!vars)
<1>0. /\ BufferSize \in Nat \ {0, 1} /\ i \in 0 .. BufferSize - 1
      /\ Typed /\ Reading /\ delivered \in Seq(Seq(Chars))
  BY ReadLineAssumption DEF IInv, Typed
<1>1. pc = "read" => /\ Written \in Seq(Chars) /\ Len(Written) = i
                     /\ \A k \in 1 .. i : Written[k] = out[k - 1]
  BY <1>0, WrittenIs
<1>2. CASE EraseAtStart
  BY <1>2 DEF EraseAtStart, readVars, Editor!vars, Written
<1>3. CASE EndOfLine
  <2>1. delivered' = Append(delivered, Written) /\ pc = "read" /\ pc' = "run"
    BY <1>0, <1>3, EnterDelivers DEF EndOfLine
  <2> QED
    BY <2>1 DEF Editor!Next, Editor!Deliver
<1>4. CASE ShowPrompt
  <2>1. pc = "prompt" /\ pc' = "read" /\ i' = 0 /\ UNCHANGED delivered
    BY <1>4 DEF ShowPrompt
  <2>2. Written' = <<>>
    BY <2>1 DEF Written
  <2> QED
    BY <2>1, <2>2 DEF Editor!vars
<1>5. ASSUME NEW c \in Chars, Character(c) PROVE Editor!Next
  <2>1. /\ pc = "read" /\ pc' = "read" /\ i < BufferSize - 1 /\ i' = i + 1
        /\ out' = [out EXCEPT ![i] = c] /\ UNCHANGED delivered
    BY <1>5 DEF Character
  <2>2. Written' = [k \in 1 .. i + 1 |-> out'[k - 1]]
    BY <2>1 DEF Written
  <2>3. /\ \A k \in 1 .. i : out'[k - 1] = Written[k]
        /\ out'[i] = c
    BY <1>0, <1>1, <2>1 DEF Typed
  <2>4. Written' = Append(Written, c)
    <3> DEFINE w == Written
    <3>1. w \in Seq(Chars) /\ Len(w) = i /\ i \in Nat
      BY <1>0, <1>1, <2>1
    <3> HIDE DEF w
    <3>2. /\ Append(w, c) \in Seq(Chars) /\ Len(Append(w, c)) = i + 1
          /\ \A k \in 1 .. i : Append(w, c)[k] = w[k]
          /\ Append(w, c)[i + 1] = c
      BY <3>1
    <3>3. ASSUME NEW k \in 1 .. i + 1 PROVE out'[k - 1] = Append(w, c)[k]
      <4>1. CASE k = i + 1
        BY <2>3, <3>1, <3>2, <4>1
      <4>2. CASE k # i + 1
        <5>1. k \in 1 .. i
          BY <3>1, <4>2
        <5> QED
          BY <2>3, <3>2, <5>1 DEF w
      <4> QED
        BY <4>1, <4>2
    <3> DEFINE u == [k \in 1 .. i + 1 |-> out'[k - 1]]
    <3>4. u \in [1 .. i + 1 -> Chars]
      <4>1. \A k \in 1 .. i + 1 : Append(w, c)[k] \in Chars
        BY <3>2
      <4> QED
        BY <3>3, <4>1
    <3>5. u \in Seq(Chars) /\ Len(u) = i + 1
      <4>1. i + 1 \in Nat
        BY <3>1
      <4> HIDE DEF u
      <4> QED
        BY <3>4, <4>1, FunctionIsSequence
    <3>6. u = Append(w, c)
      <4>1. \A k \in 1 .. i + 1 : u[k] = Append(w, c)[k]
        BY <3>3
      <4> HIDE DEF u
      <4> QED
        BY <3>2, <3>5, <4>1, SeqEqual
    <3> QED
      BY <2>2, <3>6 DEF w
  <2>5. Len(Written) < BufferSize - 1
    BY <1>1, <2>1
  <2>6. Editor!Type(c)
    BY <2>1, <2>4, <2>5 DEF Editor!Type
  <2> QED
    BY <2>6 DEF Editor!Next
<1>6. CASE Erase
  <2>1. /\ pc = "read" /\ pc' = "read" /\ i > 0 /\ i' = i - 1
        /\ out' = [out EXCEPT ![i - 1] = Nul] /\ UNCHANGED delivered
    BY <1>6 DEF Erase
  <2>2. Written' = [k \in 1 .. i - 1 |-> out'[k - 1]]
    BY <2>1 DEF Written
  <2>3. \A k \in 1 .. i - 1 : out'[k - 1] = Written[k]
    BY <1>0, <1>1, <2>1 DEF Typed
  <2>4. Written' = Front(Written) /\ Written # <<>>
    <3> DEFINE w == Written
    <3>1. w \in Seq(Chars) /\ Len(w) = i /\ i \in Nat \ {0}
      BY <1>0, <1>1, <2>1
    <3> HIDE DEF w
    <3>2. Front(w) = SubSeq(w, 1, i - 1) /\ w # <<>>
      BY <3>1 DEF Front
    <3>3. \A k \in 1 .. i - 1 : w[k] \in Chars
      BY <3>1
    <3>4. 1 \in Int /\ i - 1 \in Int /\ i - 1 >= 0
      BY <3>1
    <3>5. /\ SubSeq(w, 1, i - 1) \in Seq(Chars) /\ Len(SubSeq(w, 1, i - 1)) = i - 1
          /\ \A k \in 1 .. i - 1 : SubSeq(w, 1, i - 1)[k] = w[k]
      BY <3>3, <3>4, SubSeqProperties
    <3>6. SubSeq(w, 1, i - 1) = [k \in 1 .. i - 1 |-> SubSeq(w, 1, i - 1)[k]]
      BY <3>4, <3>5
    <3>7. \A k \in 1 .. i - 1 : out'[k - 1] = SubSeq(w, 1, i - 1)[k]
      BY <2>3, <3>5 DEF w
    <3>8. Written' = SubSeq(w, 1, i - 1)
      BY <2>2, <3>6, <3>7
    <3>9. Written' = Front(w) /\ w # <<>>
      BY <3>2, <3>8
    <3> QED
      BY <3>9 DEF w
  <2>5. Editor!Erase
    BY <2>1, <2>4 DEF Editor!Erase, Editor!Front, Front
  <2> QED
    BY <2>5 DEF Editor!Next
<1> QED
  BY <1>2, <1>3, <1>4, <1>5, <1>6 DEF Read, ReadNext

\* The shell's line is the line editor's, whatever the lines before it were.
THEOREM ShellImplementsLineEditor == Spec => ImplementsLineEditor
<1>1. Init => Editor!Init
  BY DEF Init, ReadInit, Editor!Init
<1>2. ASSUME IInv, IInv', [Next]_vars PROVE [Editor!Next]_(Editor!vars)
  <2>1. CASE UNCHANGED vars
    BY <2>1 DEF vars, readVars, Editor!vars, Written
  <2>2. CASE Read
    BY <1>2, <2>2, ReadImplements
  <2>3. ASSUME UNCHANGED delivered, pc # "read", pc' # "read"
        PROVE  UNCHANGED Editor!vars
    BY <2>3 DEF Editor!vars
  <2>4. CASE Run \/ Strtok \/ Node \/ NoNode \/ Load \/ LoadFails \/ InjectArgument
             \/ InjectFails \/ Start
    <3>1. UNCHANGED delivered /\ pc # "read" /\ pc' # "read"
      BY <2>4 DEF Run, Strtok, Node, NoNode, Load, LoadFails, InjectArgument, InjectFails,
                  Start, reading
    <3> QED
      BY <2>3, <3>1
  <2> QED
    BY <1>2, <2>1, <2>2, <2>4 DEF Next, End
<1> QED
  BY <1>1, <1>2, InductiveInvariant, PTL DEF Spec, ImplementsLineEditor, Editor!Spec

\* While a line is read, what the screen shows is what Enter would hand over: for
\* every size of the screen and of the buffer, and every prompt.
THEOREM ScreenIsRight == Spec => []ScreenShowsLine
<1>1. OnScreen => ScreenShowsLine
  BY DEF OnScreen
<1> QED
  BY <1>1, ScreenInit, ScreenStep, InductiveInvariant, PTL DEF Spec
=============================================================================
