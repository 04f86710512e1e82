---------------------------- MODULE MessageProofs ----------------------------
(***************************************************************************)
(* Theorems about the text of messages, for all messages that keep to the  *)
(* limits and for every value of the limits: what readHTTPRequest and      *)
(* readHTTPResponse make of the text of a message, in every framing; what  *)
(* the writers write; that no part of a message is read as one; and that   *)
(* the client reads the proxy's own answers as what they are.  Module      *)
(* Relay says what the symbols of a text are and what the peers send.      *)
(***************************************************************************)
EXTENDS Relay, NaturalsInduction, WellFoundedInduction, TLAPS

-----------------------------------------------------------------------------
(* Induction                                                               *)

\* The least-number principle, which stands for induction.
LEMMA Least ==
  ASSUME NEW T \in SUBSET Nat, NEW t \in T
  PROVE  \E x \in T : \A y \in T : x <= y
<1>1. IsWellFoundedOn(OpToRel(<, Nat), Nat)
  BY NatLessThanWellFounded, Zenon
<1>2. PICK x \in T : \A y \in T : ~ (<<y, x>> \in OpToRel(<, Nat))
  BY <1>1, WFMin, Zenon
<1>3. \A y \in T : ~ (y < x)
  BY <1>2 DEF OpToRel
<1> QED BY <1>3

\* A set of numbers that has zero and, with a number below the bound, the next.
LEMMA Induct ==
  ASSUME NEW M \in Nat, NEW T, 0 \in T, \A n \in 0 .. M - 1 : n \in T => n + 1 \in T
  PROVE  0 .. M \subseteq T
<1> SUFFICES ASSUME NEW n \in 0 .. M, n \notin T PROVE FALSE
  OBVIOUS
<1> DEFINE U == {k \in 0 .. M : k \notin T}
<1>1. U \in SUBSET Nat /\ n \in U
  OBVIOUS
<1>2. PICK k \in U : \A y \in U : k <= y
  BY <1>1, Least
<1>3. k - 1 \in 0 .. M - 1 /\ k - 1 \notin U
  BY <1>2
<1>4. k - 1 \in T /\ (k - 1) + 1 = k
  BY <1>3
<1> QED BY <1>2, <1>3, <1>4

\* f is the values of a loop that takes the one to the next with step.
Loop(f, V, M, base, step) ==
  f \in [0 .. M -> V] /\ f[0] = base /\ \A n \in 1 .. M : f[n] = step[n][f[n - 1]]

\* A loop that takes one value to the next has an outcome after every turn.
LEMMA Iterates ==
  ASSUME NEW V, NEW M \in Nat, NEW base \in V, NEW step \in [1 .. M -> [V -> V]]
  PROVE  \E f : Loop(f, V, M, base, step)
<1> DEFINE Good(f, k) == f[0] = base /\ \A n \in 1 .. k : f[n] = step[n][f[n - 1]]
           T == {k \in 0 .. M : \E f \in [0 .. M -> V] : Good(f, k)}
<1>1. 0 \in T
  <2> DEFINE f == [n \in 0 .. M |-> base]
  <2>1. f \in [0 .. M -> V] /\ f[0] = base
    OBVIOUS
  <2> HIDE DEF f
  <2>2. Good(f, 0) /\ 0 \in 0 .. M
    BY <2>1
  <2> QED BY <2>1, <2>2
<1>2. ASSUME NEW k \in 0 .. M - 1, k \in T PROVE k + 1 \in T
  <2>1. PICK f \in [0 .. M -> V] : Good(f, k)
    BY <1>2
  <2>2. step[k + 1][f[k]] \in V
    OBVIOUS
  <2> DEFINE g == [f EXCEPT ![k + 1] = step[k + 1][f[k]]]
  <2>3. g \in [0 .. M -> V] /\ g[k + 1] = step[k + 1][f[k]] /\ \A n \in 0 .. k : g[n] = f[n]
    BY <2>2
  <2> HIDE DEF g
  <2>4. ASSUME NEW n \in 1 .. k + 1 PROVE g[n] = step[n][g[n - 1]]
    <3>1. CASE n = k + 1
      <4>1. n - 1 = k /\ k \in 0 .. k
        BY <3>1
      <4> QED BY <2>3, <3>1, <4>1
    <3>2. CASE n # k + 1
      <4>1. n \in 1 .. k /\ n \in 0 .. k /\ n - 1 \in 0 .. k
        BY <3>2
      <4> QED BY <2>1, <2>3, <4>1
    <3> QED BY <3>1, <3>2
  <2>5. g[0] = base
    BY <2>1, <2>3
  <2>6. Good(g, k + 1) /\ k + 1 \in 0 .. M
    BY <2>4, <2>5
  <2> QED BY <2>3, <2>6
<1>3. M \in T
  <2> HIDE DEF T
  <2>1. 0 .. M \subseteq T
    BY <1>1, <1>2, Induct
  <2> QED BY <2>1
<1> QED BY <1>3 DEF Loop

-----------------------------------------------------------------------------
(* Fields with certain names                                               *)

\* f is the values of the loop that selects the fields with these names.
Selection(f, a, names) ==
  /\ f \in [0 .. Len(a) -> Seq(Fields)] /\ f[0] = <<>>
  /\ \A n \in 1 .. Len(a) : f[n] = f[n - 1] \o (IF a[n].name \in names THEN <<a[n]>> ELSE <<>>)

\* The turns of Named.
LEMMA NamedTurns ==
  ASSUME NEW a \in Seq(Fields), NEW names
  PROVE  \E f : Selection(f, a, names) /\ Named(a, names) = f[Len(a)]
<1> DEFINE M == Len(a)
           Piece(n) == IF a[n].name \in names THEN <<a[n]>> ELSE <<>>
           selected[n \in 0 .. M] ==
             IF n = 0 THEN <<>>
             ELSE selected[n - 1] \o (IF a[n].name \in names THEN <<a[n]>> ELSE <<>>)
           V == Seq(Fields)
           step == [n \in 1 .. M |-> [s \in V |-> s \o Piece(n)]]
<1>1. M \in Nat /\ <<>> \in V /\ \A n \in 1 .. M : a[n] \in Fields /\ Piece(n) \in V
  OBVIOUS
<1> HIDE DEF M
<1>2. step \in [1 .. M -> [V -> V]]
  <2> HIDE DEF Piece
  <2> QED BY <1>1
<1>3. PICK f : Loop(f, V, M, <<>>, step)
  <2> HIDE DEF step, V
  <2>1. M \in Nat /\ <<>> \in V
    BY <1>1
  <2> QED BY <1>2, <2>1, Iterates
<1>4. ASSUME NEW n \in 0 .. M PROVE f[n] = IF n = 0 THEN <<>> ELSE f[n - 1] \o Piece(n)
  <2>1. CASE n = 0
    BY <1>3, <2>1 DEF Loop
  <2>2. CASE n # 0
    <3>1. n \in 1 .. M /\ n - 1 \in 0 .. M
      BY <1>1, <2>2
    <3>2. f[n] = step[n][f[n - 1]] /\ f[n - 1] \in V
      BY <1>3, <3>1 DEF Loop
    <3> HIDE DEF Piece, V
    <3>3. step[n][f[n - 1]] = f[n - 1] \o Piece(n)
      BY <3>1, <3>2
    <3> QED BY <2>2, <3>2, <3>3
  <2> QED BY <2>1, <2>2
<1>5. f = [n \in 0 .. M |-> IF n = 0 THEN <<>> ELSE f[n - 1] \o Piece(n)]
  <2> HIDE DEF Piece, V, step
  <2> QED BY <1>3, <1>4 DEF Loop
<1>6. selected = [n \in 0 .. M |-> IF n = 0 THEN <<>> ELSE selected[n - 1] \o Piece(n)]
  BY <1>5
<1>7. Named(a, names) = selected[M]
  BY DEF Named, M
<1> HIDE DEF selected, step, Piece
<1> DEFINE T == {n \in 0 .. M : selected[n] \in V}
<1>8. 0 .. M \subseteq T
  <2>1. 0 \in T
    BY <1>1, <1>6
  <2>2. ASSUME NEW n \in 0 .. M - 1, n \in T PROVE n + 1 \in T
    <3>1. n + 1 \in 0 .. M /\ n + 1 # 0 /\ (n + 1) - 1 = n /\ Piece(n + 1) \in V
      BY <1>1
    <3>2. selected[n + 1] = selected[n] \o Piece(n + 1)
      BY <1>6, <3>1
    <3>3. selected[n] \o Piece(n + 1) \in V
      BY <2>2, <3>1
    <3> QED BY <3>1, <3>2, <3>3
  <2> HIDE DEF T
  <2> QED BY <1>1, <2>1, <2>2, Induct
<1>9. selected \in [0 .. M -> V]
  <2> HIDE DEF V
  <2> QED BY <1>6, <1>8
<1>10. selected[0] = <<>>
  BY <1>1, <1>6
<1>11. ASSUME NEW n \in 1 .. M PROVE selected[n] = selected[n - 1] \o Piece(n)
  <2>1. n \in 0 .. M /\ n # 0
    BY <1>1
  <2> QED BY <1>6, <2>1
<1> QED BY <1>7, <1>9, <1>10, <1>11 DEF M, Piece, Selection

\* Named of nothing.
LEMMA NamedNone == ASSUME NEW names PROVE Named(<<>>, names) = <<>>
<1>1. <<>> \in Seq(Fields) /\ Len(<<>>) = 0
  OBVIOUS
<1> QED BY <1>1, NamedTurns DEF Selection

\* Named selects fields.
LEMMA NamedFields == ASSUME NEW names, NEW b \in Seq(Fields) PROVE Named(b, names) \in Seq(Fields)
<1>1. PICK f : Selection(f, b, names) /\ Named(b, names) = f[Len(b)]
  BY NamedTurns
<1> QED BY <1>1 DEF Selection

\* Named of one field more.
LEMMA NamedMore ==
  ASSUME NEW names, NEW b \in Seq(Fields), NEW x \in Fields
  PROVE  /\ Named(b, names) \in Seq(Fields)
         /\ Named(b \o <<x>>, names) = Named(b, names) \o (IF x.name \in names THEN <<x>> ELSE <<>>)
<1> DEFINE c == b \o <<x>>
           M == Len(b)
           Piece(y) == IF y.name \in names THEN <<y>> ELSE <<>>
<1>1. /\ c \in Seq(Fields) /\ Len(c) = M + 1 /\ M \in Nat /\ c[M + 1] = x
      /\ \A n \in 1 .. M : c[n] = b[n]
  OBVIOUS
<1> HIDE DEF c
<1>2. PICK f : Selection(f, b, names) /\ Named(b, names) = f[Len(b)]
  BY NamedTurns
<1>3. PICK h : Selection(h, c, names) /\ Named(c, names) = h[Len(c)]
  BY <1>1, NamedTurns
<1>4. f \in [0 .. M -> Seq(Fields)] /\ f[0] = <<>> /\ \A n \in 1 .. M : f[n] = f[n - 1] \o Piece(b[n])
  BY <1>2 DEF Selection
<1>5. h[0] = <<>> /\ \A n \in 1 .. M + 1 : h[n] = h[n - 1] \o Piece(c[n])
  BY <1>1, <1>3 DEF Selection
<1>6. Named(b, names) = f[M] /\ Named(c, names) = h[M + 1]
  BY <1>1, <1>2, <1>3
<1> HIDE DEF Piece, M
<1> DEFINE T == {n \in 0 .. M : h[n] = f[n]}
<1>7. 0 .. M \subseteq T
  <2>1. 0 \in T
    BY <1>1, <1>4, <1>5
  <2>2. ASSUME NEW n \in 0 .. M - 1, n \in T PROVE n + 1 \in T
    <3>1. n + 1 \in 1 .. M /\ n + 1 \in 0 .. M /\ n + 1 \in 1 .. M + 1 /\ (n + 1) - 1 = n
      BY <1>1
    <3>2. h[n + 1] = h[n] \o Piece(c[n + 1]) /\ c[n + 1] = b[n + 1]
      BY <1>1, <1>5, <3>1
    <3>3. f[n + 1] = f[n] \o Piece(b[n + 1])
      BY <1>4, <3>1
    <3> QED BY <2>2, <3>1, <3>2, <3>3
  <2> HIDE DEF T
  <2> QED BY <1>1, <2>1, <2>2, Induct
<1>8. M \in T
  BY <1>1, <1>7
<1>9. h[M + 1] = h[M] \o Piece(x)
  <2>1. M + 1 \in 1 .. M + 1 /\ (M + 1) - 1 = M
    BY <1>1
  <2> QED BY <1>1, <1>5, <2>1
<1>10. f[M] \in Seq(Fields)
  BY <1>1, <1>4
<1> QED BY <1>6, <1>8, <1>9, <1>10 DEF c, Piece

\* A set of sequences that has the empty one and, with a sequence, its
\* continuations, has them all.
LEMMA SeqInduct ==
  ASSUME NEW S, NEW T, <<>> \in T,
         \A b \in Seq(S), x \in S : b \in T => b \o <<x>> \in T
  PROVE  Seq(S) \subseteq T
<1> SUFFICES ASSUME NEW a \in Seq(S), a \notin T PROVE FALSE
  OBVIOUS
<1> DEFINE U == {k \in Nat : \E s \in Seq(S) : Len(s) = k /\ s \notin T}
<1>1. U \in SUBSET Nat /\ Len(a) \in U
  OBVIOUS
<1>2. PICK k \in U : \A y \in U : k <= y
  BY <1>1, Least
<1>3. PICK s \in Seq(S) : Len(s) = k /\ s \notin T
  BY <1>2
<1>4. s # <<>>
  BY <1>3
<1>5. PICK b \in Seq(S), x \in S : s = b \o <<x>> /\ Len(b) = Len(s) - 1
  <2> DEFINE p == SubSeq(s, 1, Len(s) - 1)
             y == s[Len(s)]
  <2>1. p \in Seq(S) /\ y \in S /\ s = p \o <<y>> /\ Len(p) = Len(s) - 1
    BY <1>4
  <2> HIDE DEF p, y
  <2> QED BY <2>1
<1>6. b \notin T /\ Len(b) \in Nat /\ Len(b) < k
  BY <1>3, <1>5
<1> QED BY <1>2, <1>5, <1>6

\* There are no more fields than before.
LEMMA NamedLength ==
  ASSUME NEW a \in Seq(Fields), NEW names
  PROVE  Len(Named(a, names)) <= Len(a)
<1> DEFINE T == {b \in Seq(Fields) : Len(Named(b, names)) <= Len(b)}
<1>1. <<>> \in T
  <2>1. <<>> \in Seq(Fields) /\ Len(<<>>) = 0
    OBVIOUS
  <2> QED BY <2>1, NamedNone
<1>2. ASSUME NEW b \in Seq(Fields), NEW x \in Fields, b \in T PROVE b \o <<x>> \in T
  <2> DEFINE p == IF x.name \in names THEN <<x>> ELSE <<>>
  <2>1. Named(b \o <<x>>, names) = Named(b, names) \o p /\ Named(b, names) \in Seq(Fields)
    BY NamedMore
  <2>2. b \o <<x>> \in Seq(Fields) /\ Len(b \o <<x>>) = Len(b) + 1 /\ p \in Seq(Fields) /\ Len(p) <= 1
    OBVIOUS
  <2> HIDE DEF p
  <2>3. Len(Named(b, names) \o p) = Len(Named(b, names)) + Len(p)
    BY <2>1, <2>2
  <2> QED BY <1>2, <2>1, <2>2, <2>3
<1> HIDE DEF T
<1>3. Seq(Fields) \subseteq T
  BY <1>1, <1>2, SeqInduct
<1> QED BY <1>3 DEF T

\* Named goes through a concatenation.
LEMMA NamedConcat ==
  ASSUME NEW a \in Seq(Fields), NEW b \in Seq(Fields), NEW names
  PROVE  Named(a \o b, names) = Named(a, names) \o Named(b, names)
<1> DEFINE T == {c \in Seq(Fields) : Named(a \o c, names) = Named(a, names) \o Named(c, names)}
<1>1. Named(a, names) \in Seq(Fields)
  BY NamedFields
<1>2. <<>> \in T
  <2> DEFINE e == <<>>
  <2>1. a \o e = a /\ Named(a, names) \o e = Named(a, names) /\ e \in Seq(Fields)
    BY <1>1
  <2>2. Named(e, names) = e
    BY NamedNone
  <2> HIDE DEF e
  <2>3. e \in T
    BY <2>1, <2>2
  <2> QED BY <2>3 DEF e
<1>3. ASSUME NEW c \in Seq(Fields), NEW x \in Fields, c \in T PROVE c \o <<x>> \in T
  <2> DEFINE p == IF x.name \in names THEN <<x>> ELSE <<>>
  <2>1. /\ a \o c \in Seq(Fields) /\ c \o <<x>> \in Seq(Fields) /\ p \in Seq(Fields)
        /\ a \o (c \o <<x>>) = (a \o c) \o <<x>>
    OBVIOUS
  <2> HIDE DEF p
  <2>2. Named((a \o c) \o <<x>>, names) = Named(a \o c, names) \o p /\ Named(c \o <<x>>, names) = Named(c, names) \o p
    BY <2>1, NamedMore DEF p
  <2>3. Named(c, names) \in Seq(Fields)
    BY NamedFields
  <2>4. (Named(a, names) \o Named(c, names)) \o p = Named(a, names) \o (Named(c, names) \o p)
    BY <1>1, <2>1, <2>3, SMTT(20)
  <2> QED BY <1>3, <2>1, <2>2, <2>4
<1> HIDE DEF T
<1>4. Seq(Fields) \subseteq T
  BY <1>2, <1>3, SeqInduct
<1> QED BY <1>4 DEF T

\* Named of one field.
LEMMA NamedOne ==
  ASSUME NEW x \in Fields, NEW names
  PROVE  Named(<<x>>, names) = IF x.name \in names THEN <<x>> ELSE <<>>
<1> DEFINE e == <<>>
           p == IF x.name \in names THEN <<x>> ELSE <<>>
<1>1. e \in Seq(Fields) /\ e \o <<x>> = <<x>> /\ <<x>> \in Seq(Fields) /\ e \o p = p
  OBVIOUS
<1>2. Named(e, names) = e
  BY NamedNone
<1> HIDE DEF e
<1>3. Named(e \o <<x>>, names) = Named(e, names) \o p
  BY <1>1, NamedMore
<1> QED BY <1>1, <1>2, <1>3

\* Selecting twice.
LEMMA NamedTwice ==
  ASSUME NEW a \in Seq(Fields), NEW S, NEW R
  PROVE  Named(Named(a, S), R) = Named(a, S \cap R)
<1> DEFINE T == {b \in Seq(Fields) : Named(Named(b, S), R) = Named(b, S \cap R)}
<1>1. <<>> \in T
  <2>1. <<>> \in Seq(Fields) /\ Len(<<>>) = 0
    OBVIOUS
  <2> QED BY <2>1, NamedNone
<1>2. ASSUME NEW b \in Seq(Fields), NEW x \in Fields, b \in T PROVE b \o <<x>> \in T
  <2> DEFINE p == IF x.name \in S THEN <<x>> ELSE <<>>
             q == IF x.name \in S \cap R THEN <<x>> ELSE <<>>
  <2>1. /\ b \o <<x>> \in Seq(Fields) /\ p \in Seq(Fields)
    OBVIOUS
  <2>2. Named(p, R) = q
    BY NamedOne, NamedNone
  <2>3. /\ Named(b \o <<x>>, S) = Named(b, S) \o p
        /\ Named(b \o <<x>>, S \cap R) = Named(b, S \cap R) \o q
        /\ Named(b, S) \in Seq(Fields)
    BY NamedMore
  <2> HIDE DEF p, q
  <2>4. Named(Named(b, S) \o p, R) = Named(Named(b, S), R) \o q
    BY <2>1, <2>2, <2>3, NamedConcat
  <2> QED BY <1>2, <2>1, <2>3, <2>4
<1> HIDE DEF T
<1>3. Seq(Fields) \subseteq T
  BY <1>1, <1>2, SeqInduct
<1> QED BY <1>3 DEF T

\* The names of one sequence after another.
LEMMA NamesMore ==
  ASSUME NEW b \in Seq(Fields), NEW c \in Seq(Fields)
  PROVE  /\ ToSet(b \o c) = ToSet(b) \cup ToSet(c) /\ Names(b \o c) = Names(b) \cup Names(c)
         /\ ToSet(b) \subseteq Fields
<1>1. ToSet(b \o c) = ToSet(b) \cup ToSet(c)
  <2>1. ASSUME NEW y \in ToSet(b \o c) PROVE y \in ToSet(b) \cup ToSet(c)
    <3>1. PICK i \in 1 .. Len(b) + Len(c) : y = (b \o c)[i]
      BY DEF ToSet
    <3>2. CASE i <= Len(b)
      BY <3>1, <3>2 DEF ToSet
    <3>3. CASE i > Len(b)
      <4>1. i - Len(b) \in DOMAIN c /\ y = c[i - Len(b)]
        BY <3>1, <3>3
      <4> QED BY <4>1 DEF ToSet
    <3> QED BY <3>1, <3>2, <3>3
  <2>2. ASSUME NEW y \in ToSet(b) PROVE y \in ToSet(b \o c)
    BY DEF ToSet
  <2>3. ASSUME NEW y \in ToSet(c) PROVE y \in ToSet(b \o c)
    <3>1. PICK i \in 1 .. Len(c) : y = c[i]
      BY DEF ToSet
    <3>2. Len(b) + i \in DOMAIN (b \o c) /\ (b \o c)[Len(b) + i] = y
      BY <3>1
    <3> QED BY <3>2 DEF ToSet
  <2> QED BY <2>1, <2>2, <2>3
<1>2. Names(b \o c) = Names(b) \cup Names(c)
  BY <1>1 DEF Names
<1>3. ToSet(b) \subseteq Fields
  BY DEF ToSet
<1> QED BY <1>1, <1>2, <1>3

\* The names of nothing and of one field.
LEMMA NamesNone ==
  /\ ToSet(<<>>) = {} /\ Names(<<>>) = {}
  /\ \A x : ToSet(<<x>>) = {x} /\ Names(<<x>>) = {x.name}
BY DEF ToSet, Names

\* The names of a sequence with one field more.
LEMMA NamesOne ==
  ASSUME NEW b \in Seq(Fields), NEW x \in Fields
  PROVE  Names(b \o <<x>>) = Names(b) \cup {x.name}
<1> DEFINE c == <<x>>
<1>1. c \in Seq(Fields)
  OBVIOUS
<1>2. Names(c) = {x.name}
  BY NamesNone
<1> HIDE DEF c
<1>3. Names(b \o c) = Names(b) \cup Names(c)
  BY <1>1, NamesMore
<1>4. Names(b \o c) = Names(b) \cup {x.name}
  BY <1>2, <1>3
<1> QED BY <1>4 DEF c

\* The members of what is selected.
LEMMA NamedMembers ==
  ASSUME NEW a \in Seq(Fields), NEW S
  PROVE  ToSet(Named(a, S)) = {x \in ToSet(a) : x.name \in S} /\ Names(Named(a, S)) = Names(a) \cap S
<1> DEFINE T == {b \in Seq(Fields) : ToSet(Named(b, S)) = {x \in ToSet(b) : x.name \in S}}
<1>1. <<>> \in T
  <2>1. <<>> \in Seq(Fields) /\ Len(<<>>) = 0
    OBVIOUS
  <2> QED BY <2>1, NamedNone, NamesNone
<1>2. ASSUME NEW b \in Seq(Fields), NEW x \in Fields, b \in T PROVE b \o <<x>> \in T
  <2> DEFINE p == IF x.name \in S THEN <<x>> ELSE <<>>
  <2>1. /\ b \o <<x>> \in Seq(Fields) /\ p \in Seq(Fields) /\ Named(b, S) \in Seq(Fields)
        /\ <<x>> \in Seq(Fields)
    BY NamedFields
  <2>2. ToSet(p) = {y \in {x} : y.name \in S}
    BY NamesNone
  <2>3. Named(b \o <<x>>, S) = Named(b, S) \o p
    BY NamedMore
  <2> HIDE DEF p
  <2>4. ToSet(Named(b, S) \o p) = ToSet(Named(b, S)) \cup ToSet(p)
    BY <2>1, NamesMore
  <2>5. ToSet(b \o <<x>>) = ToSet(b) \cup {x}
    <3>1. ToSet(<<x>>) = {x}
      BY NamesNone
    <3> QED BY <2>1, <3>1, NamesMore, ZenonT(30)
  <2> QED BY <1>2, <2>1, <2>2, <2>3, <2>4, <2>5
<1> HIDE DEF T
<1>3. Seq(Fields) \subseteq T
  BY <1>1, <1>2, SeqInduct
<1>4. ToSet(Named(a, S)) = {x \in ToSet(a) : x.name \in S}
  BY <1>3 DEF T
<1> QED BY <1>4 DEF Names

\* What is selected depends on the names that there are.
LEMMA NamedSame ==
  ASSUME NEW a \in Seq(Fields), NEW S, NEW R, Names(a) \cap S = Names(a) \cap R
  PROVE  Named(a, S) = Named(a, R)
<1> DEFINE T == {b \in Seq(Fields) : Names(b) \cap S = Names(b) \cap R => Named(b, S) = Named(b, R)}
<1>1. <<>> \in T
  <2>1. <<>> \in Seq(Fields) /\ Len(<<>>) = 0
    OBVIOUS
  <2> QED BY <2>1, NamedNone
<1>2. ASSUME NEW b \in Seq(Fields), NEW x \in Fields, b \in T PROVE b \o <<x>> \in T
  <2>1. b \o <<x>> \in Seq(Fields) /\ <<x>> \in Seq(Fields)
    OBVIOUS
  <2>2. Names(b \o <<x>>) = Names(b) \cup {x.name}
    BY NamesOne
  <2>3. SUFFICES ASSUME Names(b \o <<x>>) \cap S = Names(b \o <<x>>) \cap R
                 PROVE  Named(b \o <<x>>, S) = Named(b \o <<x>>, R)
    BY <2>1
  <2>4. Names(b) \cap S = Names(b) \cap R /\ (x.name \in S <=> x.name \in R)
    BY <2>2, <2>3
  <2>5. /\ Named(b \o <<x>>, S) = Named(b, S) \o (IF x.name \in S THEN <<x>> ELSE <<>>)
        /\ Named(b \o <<x>>, R) = Named(b, R) \o (IF x.name \in R THEN <<x>> ELSE <<>>)
    BY NamedMore
  <2> QED BY <1>2, <2>4, <2>5
<1> HIDE DEF T
<1>3. Seq(Fields) \subseteq T
  BY <1>1, <1>2, SeqInduct
<1> QED BY <1>3 DEF T

\* Everything is selected, or nothing.
LEMMA NamedAll ==
  ASSUME NEW a \in Seq(Fields), NEW S
  PROVE  /\ Names(a) \subseteq S => Named(a, S) = a
         /\ Names(a) \cap S = {} => Named(a, S) = <<>>
<1> DEFINE T == {b \in Seq(Fields) : /\ Names(b) \subseteq S => Named(b, S) = b
                                     /\ Names(b) \cap S = {} => Named(b, S) = <<>>}
<1>1. <<>> \in T
  <2>1. <<>> \in Seq(Fields) /\ Len(<<>>) = 0
    OBVIOUS
  <2> QED BY <2>1, NamedNone
<1>2. ASSUME NEW b \in Seq(Fields), NEW x \in Fields, b \in T PROVE b \o <<x>> \in T
  <2>1. b \o <<x>> \in Seq(Fields) /\ <<x>> \in Seq(Fields) /\ <<>> \o <<>> = <<>>
    OBVIOUS
  <2>2. Names(b \o <<x>>) = Names(b) \cup {x.name}
    BY NamesOne
  <2>3. Named(b \o <<x>>, S) = Named(b, S) \o (IF x.name \in S THEN <<x>> ELSE <<>>)
    BY NamedMore
  <2>4. Names(b \o <<x>>) \subseteq S => Named(b \o <<x>>, S) = b \o <<x>>
    BY <1>2, <2>2, <2>3
  <2>5. Names(b \o <<x>>) \cap S = {} => Named(b \o <<x>>, S) = <<>>
    BY <1>2, <2>1, <2>2, <2>3
  <2> QED BY <2>1, <2>4, <2>5
<1> HIDE DEF T
<1>3. Seq(Fields) \subseteq T
  BY <1>1, <1>2, SeqInduct
<1> QED BY <1>3 DEF T

-----------------------------------------------------------------------------
(* The reader                                                              *)

\* Symbols tell what they are.
LEMMA SymbolKinds ==
  /\ EmptyLine \in Symbols /\ EmptyLine.kind = "empty"
  /\ Junk \in Symbols /\ Junk.kind = "junk"
  /\ Byte \in Symbols /\ Byte.kind = "byte"
  /\ \A f \in Fields : f \in Symbols /\ f.kind = "field"
  /\ \A s \in Symbols : s.kind = "empty" <=> s = EmptyLine
  /\ \A d \in Seq(Nat) : SizeLine(d) \in Symbols /\ SizeLine(d).kind = "size" /\ SizeLine(d).digits = d
<1>1. /\ EmptyLine \in Symbols /\ EmptyLine.kind = "empty"
      /\ Junk \in Symbols /\ Junk.kind = "junk"
      /\ Byte \in Symbols /\ Byte.kind = "byte"
      /\ \A f \in Fields : f \in Symbols
  BY DEF Symbols, EmptyLine, Junk, Byte
<1>2. \A f \in Fields : f.kind = "field"
  BY DEF Fields
<1>3. ASSUME NEW s \in Symbols PROVE s.kind = "empty" <=> s = EmptyLine
  BY <1>1, <1>2 DEF Symbols, Junk, Byte
<1>4. ASSUME NEW d \in Seq(Nat)
      PROVE  SizeLine(d) \in Symbols /\ SizeLine(d).kind = "size" /\ SizeLine(d).digits = d
  BY DEF Symbols, SizeLine
<1> QED BY <1>1, <1>2, <1>3, <1>4

\* A read that fails does not read.
LEMMA ReadErrors ==
  ASSUME NEW in, NEW empty, NEW partial
  PROVE  /\ protocolErrorFromRead(in, empty, partial).verdict # "read"
         /\ protocolErrorFromRead(in, empty, partial).verdict # "chunk"
<1>1. \A v : Error(v).verdict = v
  BY DEF Error
<1>2. CASE in.end = "open"
  BY <1>1, <1>2 DEF protocolErrorFromRead
<1>3. CASE in.end = "timeout"
  BY <1>1, <1>3 DEF protocolErrorFromRead
<1>4. CASE in.end # "open" /\ in.end # "timeout" /\ in.end = "fin" /\ empty
  BY <1>1, <1>4 DEF protocolErrorFromRead
<1>5. CASE in.end # "open" /\ in.end # "timeout" /\ ~ (in.end = "fin" /\ empty)
  BY <1>1, <1>5 DEF protocolErrorFromRead
<1> QED BY <1>2, <1>3, <1>4, <1>5

\* The least of a set of numbers.
LEMMA MinIs ==
  ASSUME NEW I \in SUBSET Int, NEW m \in I, \A y \in I : m <= y
  PROVE  Min(I) = m
<1>1. \A x \in I : (\A y \in I : x <= y) => x = m
  OBVIOUS
<1> QED BY <1>1 DEF Min

\* A line is read where one begins.
LEMMA LineReads ==
  ASSUME NEW in, in.symbols \in Seq(Symbols), NEW at \in 1 .. Len(in.symbols),
         in.symbols[at].kind # "byte"
  PROVE  readStrictLine(in, at) = [verdict |-> "read", line |-> in.symbols[at], next |-> at + 1]
<1> DEFINE I == {i \in at .. Len(in.symbols) : in.symbols[i].kind # "byte"}
<1>1. at \in I /\ at # 0 /\ \A i \in I : at <= i
  OBVIOUS
<1>2. Min(I) = at
  <2>1. I \in SUBSET Int
    OBVIOUS
  <2> HIDE DEF I
  <2> QED BY <1>1, <2>1, MinIs
<1>3. SelectInSubSeq(in.symbols, at, Len(in.symbols), LAMBDA s : s.kind # "byte") = at
  BY <1>1, <1>2 DEF SelectInSubSeq
<1> QED BY <1>1, <1>3 DEF readStrictLine

\* If something is read, and is not a malformed line, it begins here.
LEMMA LineRead ==
  ASSUME NEW in, in.symbols \in Seq(Symbols), NEW at \in Nat \ {0},
         readStrictLine(in, at).verdict = "read", readStrictLine(in, at).line # Junk
  PROVE  /\ at \in 1 .. Len(in.symbols) /\ in.symbols[at].kind # "byte"
         /\ readStrictLine(in, at) = [verdict |-> "read", line |-> in.symbols[at], next |-> at + 1]
<1> DEFINE I == {i \in at .. Len(in.symbols) : in.symbols[i].kind # "byte"}
           end == SelectInSubSeq(in.symbols, at, Len(in.symbols), LAMBDA s : s.kind # "byte")
<1>1. end = IF I # {} THEN Min(I) ELSE 0
  BY DEF SelectInSubSeq
<1>2. readStrictLine(in, at) =
        IF end = 0 THEN protocolErrorFromRead(in, TRUE, at <= Len(in.symbols))
        ELSE [verdict |-> "read", line |-> IF end = at THEN in.symbols[at] ELSE Junk, next |-> end + 1]
  BY DEF readStrictLine
<1> HIDE DEF end
<1>3. end # 0
  BY <1>2, ReadErrors
<1>4. end = at
  BY <1>2, <1>3
<1>5. I # {} /\ at = Min(I)
  BY <1>1, <1>3, <1>4
<1>6. I \in SUBSET Nat
  OBVIOUS
<1>7. Min(I) \in I
  <2> HIDE DEF I
  <2>1. \E x \in I : \A y \in I : x <= y
    BY <1>5, <1>6, Least
  <2> QED BY <2>1 DEF Min
<1>8. at \in I
  BY <1>5, <1>7
<1> QED BY <1>2, <1>3, <1>4, <1>8

\* A source without symbols.
LEMMA NothingToRead ==
  ASSUME NEW in, in.symbols = <<>>
  PROVE  readStrictLine(in, 1) = protocolErrorFromRead(in, TRUE, FALSE)
<1>1. Len(in.symbols) = 0 /\ {i \in 1 .. Len(in.symbols) : in.symbols[i].kind # "byte"} = {}
  OBVIOUS
<1>2. SelectInSubSeq(in.symbols, 1, Len(in.symbols), LAMBDA s : s.kind # "byte") = 0
  BY <1>1 DEF SelectInSubSeq
<1>3. (1 <= Len(in.symbols)) = FALSE
  BY <1>1
<1> QED BY <1>2, <1>3 DEF readStrictLine

\* in holds a block of fields from at, which ends with the empty line at e.
BlockAt(in, at, e) ==
  /\ e \in at .. Len(in.symbols) /\ in.symbols[e] = EmptyLine
  /\ \A j \in at .. e - 1 : in.symbols[j].kind = "field"

\* There is one block.
LEMMA OneBlock ==
  ASSUME NEW in, NEW at \in Nat, NEW d \in Nat, NEW e \in Nat, BlockAt(in, at, d), BlockAt(in, at, e)
  PROVE  d = e
BY SymbolKinds DEF BlockAt

\* The reader as it unfolds.
LEMMA HeaderBlockUnfolds ==
  ASSUME NEW in, NEW at, NEW max
  PROVE  LET stop == SelectInSubSeq(in.symbols, at, Len(in.symbols), LAMBDA s : s.kind # "field")
             end  == IF stop = 0 THEN Len(in.symbols) + 1 ELSE stop
             r    == readStrictLine(in, end)
         IN readHeaderBlock(in, at, max) =
              IF end - at > max THEN Error("bad")
              ELSE IF r.verdict # "read" THEN r
              ELSE IF r.line # EmptyLine THEN Error("bad")
              ELSE [verdict |-> "read", fields |-> SubSeq(in.symbols, at, end - 1), next |-> r.next]
<1> DEFINE stop == SelectInSubSeq(in.symbols, at, Len(in.symbols), LAMBDA s : s.kind # "field")
           end == IF stop = 0 THEN Len(in.symbols) + 1 ELSE stop
           r == readStrictLine(in, end)
           x == IF r.line # EmptyLine THEN Error("bad")
                ELSE [verdict |-> "read", fields |-> SubSeq(in.symbols, at, end - 1), next |-> r.next]
<1>1. readHeaderBlock(in, at, max) =
        IF end - at > max THEN Error("bad")
        ELSE CHOOSE y \in {IF q.verdict = "read"
                           THEN IF q.line # EmptyLine THEN Error("bad")
                                ELSE [verdict |-> "read", fields |-> SubSeq(in.symbols, at, end - 1), next |-> q.next]
                           ELSE q : q \in {r}} : TRUE
  BY DEF readHeaderBlock, Then, When
<1> HIDE DEF r, end, stop
<1> QED BY <1>1 DEF r, end, stop

\* A block of fields is read.
LEMMA BlockReads ==
  ASSUME NEW in, in.symbols \in Seq(Symbols), NEW at \in Nat \ {0}, NEW e \in Nat, NEW max \in Nat,
         BlockAt(in, at, e), e - at <= max
  PROVE  readHeaderBlock(in, at, max) =
           [verdict |-> "read", fields |-> SubSeq(in.symbols, at, e - 1), next |-> e + 1]
<1> DEFINE I == {i \in at .. Len(in.symbols) : in.symbols[i].kind # "field"}
           stop == SelectInSubSeq(in.symbols, at, Len(in.symbols), LAMBDA s : s.kind # "field")
<1>1. e \in I /\ e # 0 /\ I \in SUBSET Int /\ \A i \in I : e <= i
  BY SymbolKinds DEF BlockAt
<1>2. Min(I) = e
  <2> HIDE DEF I
  <2> QED BY <1>1, MinIs
<1>3. stop = e
  BY <1>1, <1>2 DEF SelectInSubSeq
<1>4. e \in 1 .. Len(in.symbols) /\ in.symbols[e] = EmptyLine /\ in.symbols[e].kind # "byte"
  BY SymbolKinds DEF BlockAt
<1>5. readStrictLine(in, e) = [verdict |-> "read", line |-> EmptyLine, next |-> e + 1]
  BY <1>4, LineReads
<1> HIDE DEF I, stop
<1>6. (IF stop = 0 THEN Len(in.symbols) + 1 ELSE stop) = e
  BY <1>1, <1>3
<1>7. ~ (e - at > max)
  BY <1>4
<1> QED BY <1>5, <1>6, <1>7, HeaderBlockUnfolds DEF stop

\* What is read as a block is one.
LEMMA BlockRead ==
  ASSUME NEW in, in.symbols \in Seq(Symbols), NEW at \in 1 .. Len(in.symbols) + 1, NEW max \in Nat,
         readHeaderBlock(in, at, max).verdict = "read"
  PROVE  \E e \in Nat :
           /\ BlockAt(in, at, e) /\ e - at <= max
           /\ readHeaderBlock(in, at, max) =
                [verdict |-> "read", fields |-> SubSeq(in.symbols, at, e - 1), next |-> e + 1]
<1> DEFINE I == {i \in at .. Len(in.symbols) : in.symbols[i].kind # "field"}
           stop == SelectInSubSeq(in.symbols, at, Len(in.symbols), LAMBDA s : s.kind # "field")
           end == IF stop = 0 THEN Len(in.symbols) + 1 ELSE stop
           r == readStrictLine(in, end)
<1>1. stop = IF I # {} THEN Min(I) ELSE 0
  BY DEF SelectInSubSeq
<1>2. readHeaderBlock(in, at, max) =
              IF end - at > max THEN Error("bad")
              ELSE IF r.verdict # "read" THEN r
              ELSE IF r.line # EmptyLine THEN Error("bad")
              ELSE [verdict |-> "read", fields |-> SubSeq(in.symbols, at, end - 1), next |-> r.next]
  BY HeaderBlockUnfolds
<1>3. Error("bad").verdict # "read"
  BY DEF Error
<1>4. I \in SUBSET Nat
  OBVIOUS
<1>5. I # {} => Min(I) \in I /\ \A y \in I : Min(I) <= y
  <2> HIDE DEF I
  <2>1. I # {} => \E x \in I : \A y \in I : x <= y
    BY <1>4, Least
  <2> QED BY <1>4, <2>1 DEF Min
<1>6. stop = 0 \/ (stop \in I /\ \A y \in I : stop <= y)
  BY <1>1, <1>5
<1>7. end \in at .. Len(in.symbols) + 1 /\ \A j \in at .. end - 1 : j \notin I
  <2>1. CASE stop = 0
    <3>1. I = {}
      BY <1>1, <1>5, <2>1
    <3> QED BY <2>1, <3>1
  <2>2. CASE stop \in I /\ stop # 0 /\ \A y \in I : stop <= y
    <3>1. stop \in at .. Len(in.symbols) /\ end = stop
      BY <2>2
    <3>2. \A j \in at .. stop - 1 : ~ (stop <= j)
      BY <3>1
    <3> HIDE DEF I, stop
    <3> QED BY <2>2, <3>1, <3>2
  <2> QED BY <1>6, <2>1, <2>2
<1> HIDE DEF stop, r, end
<1>8. ~ (end - at > max) /\ r.verdict = "read" /\ r.line = EmptyLine
  BY <1>2, <1>3
<1>9. EmptyLine # Junk
  BY SymbolKinds
<1>10. end \in Nat \ {0}
  BY <1>7
<1>11. /\ end \in 1 .. Len(in.symbols)
       /\ r = [verdict |-> "read", line |-> in.symbols[end], next |-> end + 1]
  BY <1>8, <1>9, <1>10, LineRead DEF r
<1>12. BlockAt(in, at, end)
  <2>1. in.symbols[end] = EmptyLine
    BY <1>8, <1>11
  <2>2. \A j \in at .. end - 1 : j \in at .. Len(in.symbols)
    BY <1>7, <1>11
  <2> QED BY <1>7, <1>11, <2>1, <2>2 DEF BlockAt
<1>13. r.next = end + 1
  BY <1>11
<1>14. readHeaderBlock(in, at, max) =
         [verdict |-> "read", fields |-> SubSeq(in.symbols, at, end - 1), next |-> end + 1]
  BY <1>2, <1>8, <1>13
<1>15. end - at <= max
  BY <1>7, <1>8
<1> QED BY <1>10, <1>12, <1>14, <1>15

-----------------------------------------------------------------------------
(* Sizes of chunks                                                         *)

\* One digit more, as in parseChunkSizeLine.
Shifted(size, d) ==
  IF size = -1 \/ d \notin 0 .. Base - 1 \/ size > (MaxUint - d) \div Base THEN -1 ELSE size * Base + d

\* f is the values of the loop of parseChunkSizeLine.
SizeLoop(f, digits) ==
  /\ f \in [0 .. Len(digits) -> Int] /\ f[0] = 0
  /\ \A n \in 1 .. Len(digits) : f[n] = Shifted(f[n - 1], digits[n])

\* The turns of parseChunkSizeLine.
LEMMA SizeTurns ==
  ASSUME NEW a \in Seq(Nat)
  PROVE  \E f : SizeLoop(f, a) /\ parseChunkSizeLine(a) = IF a = <<>> THEN -1 ELSE f[Len(a)]
<1> DEFINE M == Len(a)
           size[n \in 0 .. M] == IF n = 0 THEN 0 ELSE Shifted(size[n - 1], a[n])
           step == [n \in 1 .. M |-> [s \in Int |-> Shifted(s, a[n])]]
<1>1. M \in Nat /\ \A n \in 1 .. M : a[n] \in Nat
  OBVIOUS
<1>2. ASSUME NEW s \in Int, NEW d \in Nat PROVE Shifted(s, d) \in Int
  BY LimitsAssumption DEF Shifted
<1> HIDE DEF M
<1>3. step \in [1 .. M -> [Int -> Int]]
  BY <1>1, <1>2
<1>4. PICK f : Loop(f, Int, M, 0, step)
  <2> DEFINE V == Int  zero == 0
  <2>1. zero \in V /\ step \in [1 .. M -> [V -> V]]
    BY <1>3
  <2> HIDE DEF step, V, zero
  <2>2. \E f : Loop(f, V, M, zero, step)
    BY <1>1, <2>1, Iterates
  <2> QED BY <2>2 DEF V, zero
<1>5. ASSUME NEW n \in 0 .. M PROVE f[n] = IF n = 0 THEN 0 ELSE Shifted(f[n - 1], a[n])
  <2>1. CASE n = 0
    BY <1>4, <2>1 DEF Loop
  <2>2. CASE n # 0
    <3>1. n \in 1 .. M /\ n - 1 \in 0 .. M
      BY <1>1, <2>2
    <3>2. f[n] = step[n][f[n - 1]] /\ f[n - 1] \in Int
      BY <1>4, <3>1 DEF Loop
    <3>3. step[n][f[n - 1]] = Shifted(f[n - 1], a[n])
      BY <3>1, <3>2
    <3> QED BY <2>2, <3>2, <3>3
  <2> QED BY <2>1, <2>2
<1>6. f = [n \in 0 .. M |-> IF n = 0 THEN 0 ELSE Shifted(f[n - 1], a[n])]
  <2> HIDE DEF step
  <2> QED BY <1>4, <1>5 DEF Loop
<1>7. size = [n \in 0 .. M |-> IF n = 0 THEN 0 ELSE Shifted(size[n - 1], a[n])]
  BY <1>6
<1>8. parseChunkSizeLine(a) = IF a = <<>> THEN -1 ELSE size[M]
  BY DEF parseChunkSizeLine, M, Shifted
<1> HIDE DEF size, step
<1> DEFINE T == {n \in 0 .. M : size[n] \in Int}
<1>9. 0 .. M \subseteq T
  <2>1. 0 \in T
    BY <1>1, <1>7
  <2>2. ASSUME NEW n \in 0 .. M - 1, n \in T PROVE n + 1 \in T
    <3>1. n + 1 \in 0 .. M /\ n + 1 # 0 /\ (n + 1) - 1 = n /\ a[n + 1] \in Nat
      BY <1>1
    <3>2. size[n + 1] = Shifted(size[n], a[n + 1])
      BY <1>7, <3>1
    <3> QED BY <1>2, <2>2, <3>1, <3>2
  <2> HIDE DEF T
  <2> QED BY <1>1, <2>1, <2>2, Induct
<1>10. size \in [0 .. M -> Int]
  BY <1>7, <1>9
<1>11. size[0] = 0
  BY <1>1, <1>7
<1>12. ASSUME NEW n \in 1 .. M PROVE size[n] = Shifted(size[n - 1], a[n])
  <2>1. n \in 0 .. M /\ n # 0
    BY <1>1
  <2> QED BY <1>7, <2>1
<1>13. SizeLoop(size, a)
  BY <1>10, <1>11, <1>12 DEF M, SizeLoop
<1> QED BY <1>8, <1>13 DEF M

\* The number that digits stand for; none stand for zero.
ValueOf(digits) == IF digits = <<>> THEN 0 ELSE parseChunkSizeLine(digits)

\* One digit more.
LEMMA ValueMore ==
  ASSUME NEW b \in Seq(Nat), NEW x \in Nat
  PROVE  /\ ValueOf(b) \in Int
         /\ ValueOf(b \o <<x>>) = Shifted(ValueOf(b), x)
         /\ parseChunkSizeLine(b \o <<x>>) = ValueOf(b \o <<x>>)
<1> DEFINE c == b \o <<x>>
           M == Len(b)
<1>1. /\ c \in Seq(Nat) /\ Len(c) = M + 1 /\ M \in Nat /\ c[M + 1] = x /\ c # <<>>
      /\ (b = <<>> <=> M = 0)
      /\ \A n \in 1 .. M : c[n] = b[n]
  OBVIOUS
<1> HIDE DEF c
<1>2. PICK f : SizeLoop(f, b) /\ parseChunkSizeLine(b) = IF b = <<>> THEN -1 ELSE f[Len(b)]
  BY SizeTurns
<1>3. PICK h : SizeLoop(h, c) /\ parseChunkSizeLine(c) = IF c = <<>> THEN -1 ELSE h[Len(c)]
  BY <1>1, SizeTurns
<1>4. f \in [0 .. M -> Int] /\ f[0] = 0 /\ \A n \in 1 .. M : f[n] = Shifted(f[n - 1], b[n])
  BY <1>2 DEF SizeLoop
<1>5. h[0] = 0 /\ \A n \in 1 .. M + 1 : h[n] = Shifted(h[n - 1], c[n])
  BY <1>1, <1>3 DEF SizeLoop
<1>6. ValueOf(b) = f[M] /\ ValueOf(c) = h[M + 1] /\ parseChunkSizeLine(c) = ValueOf(c)
  BY <1>1, <1>2, <1>3, <1>4 DEF ValueOf
<1> HIDE DEF M
<1> DEFINE T == {n \in 0 .. M : h[n] = f[n]}
<1>7. 0 .. M \subseteq T
  <2>1. 0 \in T
    BY <1>1, <1>4, <1>5
  <2>2. ASSUME NEW n \in 0 .. M - 1, n \in T PROVE n + 1 \in T
    <3>1. n + 1 \in 1 .. M /\ n + 1 \in 0 .. M /\ n + 1 \in 1 .. M + 1 /\ (n + 1) - 1 = n
      BY <1>1
    <3>2. h[n + 1] = Shifted(h[n], c[n + 1]) /\ c[n + 1] = b[n + 1]
      BY <1>1, <1>5, <3>1
    <3>3. f[n + 1] = Shifted(f[n], b[n + 1])
      BY <1>4, <3>1
    <3> QED BY <2>2, <3>1, <3>2, <3>3
  <2> HIDE DEF T
  <2> QED BY <1>1, <2>1, <2>2, Induct
<1>8. M \in T
  BY <1>1, <1>7
<1>9. h[M + 1] = Shifted(h[M], x)
  <2>1. M + 1 \in 1 .. M + 1 /\ (M + 1) - 1 = M
    BY <1>1
  <2> QED BY <1>1, <1>5, <2>1
<1>10. f[M] \in Int
  BY <1>1, <1>4
<1> QED BY <1>6, <1>8, <1>9, <1>10 DEF c

\* A leading zero does not change a size.
LEMMA LeadingZero ==
  ASSUME NEW a \in Seq(Nat)
  PROVE  parseChunkSizeLine(<<0>> \o a) = ValueOf(a)
<1> DEFINE T == {b \in Seq(Nat) : ValueOf(<<0>> \o b) = ValueOf(b)}
           e == <<>>
<1>1. e \in Seq(Nat) /\ e \o <<0>> = <<0>> /\ <<0>> \o e = <<0>> /\ ValueOf(e) = 0
  BY DEF ValueOf
<1>2. Shifted(0, 0) = 0
  BY LimitsAssumption DEF Shifted
<1> HIDE DEF e
<1>3. e \in T
  <2>1. ValueOf(e \o <<0>>) = Shifted(ValueOf(e), 0)
    BY <1>1, ValueMore
  <2> QED BY <1>1, <1>2, <2>1
<1>4. ASSUME NEW b \in Seq(Nat), NEW x \in Nat, b \in T PROVE b \o <<x>> \in T
  <2>1. /\ <<0>> \o b \in Seq(Nat) /\ b \o <<x>> \in Seq(Nat)
        /\ <<0>> \o (b \o <<x>>) = (<<0>> \o b) \o <<x>>
    OBVIOUS
  <2>2. ValueOf((<<0>> \o b) \o <<x>>) = Shifted(ValueOf(<<0>> \o b), x)
    BY <2>1, ValueMore
  <2>3. ValueOf(b \o <<x>>) = Shifted(ValueOf(b), x)
    BY ValueMore
  <2> QED BY <1>4, <2>1, <2>2, <2>3
<1> HIDE DEF T
<1>5. Seq(Nat) \subseteq T
  BY <1>3, <1>4, SeqInduct DEF e
<1>6. ValueOf(<<0>> \o a) = ValueOf(a)
  BY <1>5 DEF T
<1>7. <<0>> \o a # <<>>
  OBVIOUS
<1> QED BY <1>6, <1>7 DEF ValueOf

-----------------------------------------------------------------------------
(* Numerals of sizes                                                       *)

\* Append is a concatenation.
LEMMA AppendIs == ASSUME NEW S, NEW s \in Seq(S), NEW x \in S PROVE Append(s, x) = s \o <<x>>
OBVIOUS

\* g is Numeral up to k.
NumeralTo(g, k) ==
  /\ g \in [0 .. k -> Seq(Nat)]
  /\ \A n \in 0 .. k : g[n] = IF n < Base THEN <<n>> ELSE Append(g[n \div Base], n % Base)

\* Division with a remainder.
LEMMA DivMod ==
  ASSUME NEW n \in Nat, NEW b \in Nat \ {0}
  PROVE  n = (n \div b) * b + (n % b) /\ n % b \in 0 .. b - 1 /\ n \div b \in Nat
OBVIOUS

\* Dividing a number by the base.
LEMMA Divides ==
  ASSUME NEW n \in Nat, n >= Base
  PROVE  /\ n \div Base \in 0 .. n - 1 /\ n % Base \in 0 .. Base - 1 /\ n % Base \in Nat
         /\ n = (n \div Base) * Base + (n % Base)
<1>1. Base \in Nat \ {0} /\ Base \in Nat \ {0, 1}
  BY LimitsAssumption
<1> DEFINE q == n \div Base
           d == n % Base
<1>2. n = q * Base + d /\ d \in 0 .. Base - 1 /\ q \in Nat
  BY <1>1, DivMod
<1> HIDE DEF q, d
<1>3. q < n
  BY <1>1, <1>2
<1>4. q \in 0 .. n - 1 /\ d \in Nat
  BY <1>1, <1>2, <1>3
<1>5. q \in 0 .. n - 1 /\ d \in 0 .. Base - 1 /\ d \in Nat /\ n = q * Base + d
  BY <1>2, <1>4
<1> QED BY <1>5 DEF q, d

\* There is one up to every number.
LEMMA NumeralsExist == ASSUME NEW k \in Nat PROVE \E g : NumeralTo(g, k)
<1> DEFINE T == {n \in Nat : ~ \E g : NumeralTo(g, n)}
<1> SUFFICES ASSUME k \in T PROVE FALSE
  OBVIOUS
<1>1. PICK m \in T : \A y \in T : m <= y
  <2>1. T \in SUBSET Nat
    OBVIOUS
  <2> HIDE DEF T
  <2> QED BY <2>1, Least
<1>2. CASE m = 0
  <2> DEFINE g == [n \in 0 .. 0 |-> <<0>>]
  <2>1. g \in [0 .. 0 -> Seq(Nat)] /\ g[0] = <<0>> /\ 0 < Base
    BY LimitsAssumption
  <2> HIDE DEF g
  <2>2. NumeralTo(g, 0)
    BY <2>1 DEF NumeralTo
  <2> QED BY <1>1, <1>2, <2>2
<1>3. CASE m # 0
  <2>1. m - 1 \in Nat /\ m - 1 \notin T
    BY <1>1, <1>3
  <2>2. PICK g : NumeralTo(g, m - 1)
    BY <2>1
  <2> DEFINE last == IF m < Base THEN <<m>> ELSE Append(g[m \div Base], m % Base)
             h == [n \in 0 .. m |-> IF n = m THEN last ELSE g[n]]
  <2>3. last \in Seq(Nat)
    <3>1. CASE m < Base
      BY <3>1
    <3>2. CASE ~ (m < Base)
      <4>1. m >= Base /\ m \in Nat
        BY <3>2, LimitsAssumption
      <4>2. m \div Base \in 0 .. m - 1 /\ m % Base \in Nat
        BY <4>1, Divides
      <4>3. g[m \div Base] \in Seq(Nat)
        BY <2>2, <4>2 DEF NumeralTo
      <4> QED BY <3>2, <4>2, <4>3
    <3> QED BY <3>1, <3>2
  <2>4. \A n \in 0 .. m - 1 : g[n] \in Seq(Nat)
    BY <2>2 DEF NumeralTo
  <2> HIDE DEF last
  <2>5. h \in [0 .. m -> Seq(Nat)] /\ h[m] = last /\ \A n \in 0 .. m - 1 : h[n] = g[n]
    <3>1. \A n \in 0 .. m : n # m => n \in 0 .. m - 1
      OBVIOUS
    <3> QED BY <2>3, <2>4, <3>1
  <2> HIDE DEF h
  <2>6. ASSUME NEW n \in 0 .. m PROVE h[n] = IF n < Base THEN <<n>> ELSE Append(h[n \div Base], n % Base)
    <3>1. n >= Base => n \div Base \in 0 .. n - 1
      BY Divides
    <3>2. n >= Base => h[n \div Base] = g[n \div Base]
      BY <2>5, <3>1
    <3>3. CASE n = m
      <4>1. h[n] = last
        BY <2>5, <3>3
      <4>2. last = IF n < Base THEN <<n>> ELSE Append(g[n \div Base], n % Base)
        BY <3>3 DEF last
      <4> QED BY <3>2, <4>1, <4>2, LimitsAssumption
    <3>4. CASE n # m
      <4>1. n \in 0 .. m - 1
        BY <3>4
      <4>2. h[n] = IF n < Base THEN <<n>> ELSE Append(g[n \div Base], n % Base)
        BY <2>2, <2>5, <4>1 DEF NumeralTo
      <4> QED BY <3>2, <4>2, LimitsAssumption
    <3> QED BY <3>3, <3>4
  <2>7. NumeralTo(h, m)
    BY <2>5, <2>6 DEF NumeralTo
  <2> QED BY <1>1, <2>7
<1> QED BY <1>2, <1>3

\* They agree.
LEMMA NumeralsAgree ==
  ASSUME NEW k \in Nat, NEW l \in Nat, NEW g, NEW h, NumeralTo(g, k), NumeralTo(h, l),
         NEW n \in Nat, n <= k, n <= l
  PROVE  g[n] = h[n]
<1> DEFINE T == {m \in Nat : m <= k /\ m <= l /\ g[m] # h[m]}
<1> SUFFICES ASSUME n \in T PROVE FALSE
  OBVIOUS
<1>1. PICK m \in T : \A y \in T : m <= y
  <2>1. T \in SUBSET Nat
    OBVIOUS
  <2> HIDE DEF T
  <2> QED BY <2>1, Least
<1>2. /\ g[m] = IF m < Base THEN <<m>> ELSE Append(g[m \div Base], m % Base)
      /\ h[m] = IF m < Base THEN <<m>> ELSE Append(h[m \div Base], m % Base)
  BY <1>1, SMTT(20) DEF NumeralTo
<1>3. m >= Base
  BY <1>1, <1>2, LimitsAssumption
<1>4. m \div Base \in 0 .. m - 1
  BY <1>1, <1>3, Divides
<1>5. m \div Base \notin T
  BY <1>1, <1>4
<1>6. g[m \div Base] = h[m \div Base]
  BY <1>1, <1>4, <1>5
<1> QED BY <1>1, <1>2, <1>6

\* Numeral is what its definition says.
LEMMA NumeralIs ==
  ASSUME NEW n \in Nat
  PROVE  /\ Numeral[n] \in Seq(Nat)
         /\ Numeral[n] = IF n < Base THEN <<n>> ELSE Append(Numeral[n \div Base], n % Base)
<1> DEFINE Upto(k) == CHOOSE g : NumeralTo(g, k)
           H == [m \in Nat |-> Upto(m)[m]]
<1>1. ASSUME NEW m \in Nat PROVE NumeralTo(Upto(m), m)
  BY NumeralsExist
<1> HIDE DEF Upto
<1>2. ASSUME NEW m \in Nat
      PROVE  H[m] \in Seq(Nat) /\ H[m] = IF m < Base THEN <<m>> ELSE Append(H[m \div Base], m % Base)
  <2>1. NumeralTo(Upto(m), m) /\ H[m] = Upto(m)[m]
    BY <1>1
  <2>2. /\ H[m] \in Seq(Nat)
        /\ H[m] = IF m < Base THEN <<m>> ELSE Append(Upto(m)[m \div Base], m % Base)
    BY <2>1 DEF NumeralTo
  <2>3. ASSUME m >= Base PROVE Upto(m)[m \div Base] = H[m \div Base]
    <3>1. m \div Base \in Nat /\ m \div Base <= m
      BY <2>3, Divides
    <3>2. NumeralTo(Upto(m \div Base), m \div Base) /\ H[m \div Base] = Upto(m \div Base)[m \div Base]
      BY <1>1, <3>1
    <3> QED BY <2>1, <3>1, <3>2, NumeralsAgree
  <2> HIDE DEF H
  <2> QED BY <2>2, <2>3, LimitsAssumption
<1>3. H = [m \in Nat |-> IF m < Base THEN <<m>> ELSE Append(H[m \div Base], m % Base)]
  <2>1. H = [m \in Nat |-> H[m]]
    OBVIOUS
  <2> HIDE DEF H
  <2> QED BY <1>2, <2>1
<1>4. Numeral = [m \in Nat |-> IF m < Base THEN <<m>> ELSE Append(Numeral[m \div Base], m % Base)]
  <2> HIDE DEF H
  <2> QED BY <1>3 DEF Numeral
<1>5. \A m \in Nat : Numeral[m] = IF m < Base THEN <<m>> ELSE Append(Numeral[m \div Base], m % Base)
  BY <1>4
<1> DEFINE T == {m \in Nat : Numeral[m] \notin Seq(Nat)}
<1>6. ASSUME NEW t \in T PROVE FALSE
  <2>1. PICK m \in T : \A y \in T : m <= y
    <3>1. T \in SUBSET Nat
      OBVIOUS
    <3> HIDE DEF T
    <3> QED BY <1>6, <3>1, Least
  <2>2. CASE m < Base
    <3>1. m \in Nat /\ Numeral[m] \notin Seq(Nat)
      BY <2>1
    <3>2. Numeral[m] = <<m>>
      BY <1>5, <2>2, <3>1
    <3> QED BY <3>1, <3>2
  <2>3. CASE ~ (m < Base)
    <3>1. m >= Base /\ m \in Nat
      BY <2>1, <2>3, LimitsAssumption
    <3>2. m \div Base \in 0 .. m - 1 /\ m % Base \in Nat
      BY <3>1, Divides
    <3>3. Numeral[m \div Base] \in Seq(Nat)
      BY <2>1, <3>2
    <3>4. Numeral[m] = Append(Numeral[m \div Base], m % Base)
      BY <1>5, <2>3, <3>1
    <3>5. Append(Numeral[m \div Base], m % Base) \in Seq(Nat)
      BY <3>2, <3>3
    <3> QED BY <2>1, <3>4, <3>5
  <2> QED BY <2>2, <2>3
<1> QED BY <1>5, <1>6

\* The size that is written is the size that is read.
THEOREM NumeralValue ==
  ASSUME NEW n \in 0 .. MaxUint
  PROVE  ValueOf(Numeral[n]) = n /\ parseChunkSizeLine(Numeral[n]) = n
<1> DEFINE Right(m) == ValueOf(Numeral[m]) = m /\ parseChunkSizeLine(Numeral[m]) = m
           T == {m \in 0 .. MaxUint : ~ Right(m)}
<1> SUFFICES ASSUME n \in T PROVE FALSE
  OBVIOUS
<1>1. PICK m \in T : \A y \in T : m <= y
  <2>1. T \in SUBSET Nat
    BY LimitsAssumption
  <2> HIDE DEF T
  <2> QED BY <2>1, Least
<1>2. m \in Nat /\ m <= MaxUint /\ MaxUint \in Nat /\ Base \in Nat \ {0, 1}
  BY <1>1, LimitsAssumption
<1>3. CASE m < Base
  <2> DEFINE e == <<>>
  <2>1. e \in Seq(Nat) /\ ValueOf(e) = 0 /\ e \o <<m>> = <<m>>
    BY <1>2 DEF ValueOf
  <2>2. Numeral[m] = <<m>>
    BY <1>2, <1>3, NumeralIs
  <2> HIDE DEF e
  <2>3. ValueOf(e \o <<m>>) = Shifted(ValueOf(e), m) /\ parseChunkSizeLine(e \o <<m>>) = ValueOf(e \o <<m>>)
    BY <1>2, <2>1, ValueMore
  <2>4. Shifted(0, m) = m
    <3>1. (MaxUint - m) \div Base >= 0
      BY <1>2
    <3> QED BY <1>2, <1>3, <3>1 DEF Shifted
  <2> QED BY <1>1, <2>1, <2>2, <2>3, <2>4
<1>4. CASE ~ (m < Base)
  <2> DEFINE q == m \div Base
             d == m % Base
  <2>1. q \in 0 .. m - 1 /\ d \in 0 .. Base - 1 /\ d \in Nat /\ m = q * Base + d
    <3>1. m >= Base
      BY <1>2, <1>4
    <3> QED BY <1>2, <3>1, Divides
  <2>2. Numeral[q] \in Seq(Nat) /\ Numeral[m] = Append(Numeral[q], d)
    <3>1. Numeral[m] = Append(Numeral[m \div Base], m % Base)
      BY <1>2, <1>4, NumeralIs
    <3>2. q \in Nat
      BY <1>2, <2>1
    <3> HIDE DEF q
    <3>3. Numeral[q] \in Seq(Nat)
      BY <3>2, NumeralIs
    <3> QED BY <3>1, <3>3 DEF q
  <2> HIDE DEF q, d
  <2>3. ValueOf(Numeral[q]) = q
    BY <1>1, <1>2, <2>1
  <2>4. Numeral[m] = Numeral[q] \o <<d>>
    BY <2>1, <2>2, AppendIs
  <2>5. /\ ValueOf(Numeral[m]) = Shifted(q, d)
        /\ parseChunkSizeLine(Numeral[m]) = ValueOf(Numeral[m])
    BY <2>1, <2>2, <2>3, <2>4, ValueMore
  <2>6. q <= (MaxUint - d) \div Base
    <3>1. q * Base <= MaxUint - d /\ MaxUint - d \in Nat
      BY <1>2, <2>1
    <3> QED BY <1>2, <2>1, <3>1
  <2>7. Shifted(q, d) = m
    BY <1>2, <2>1, <2>6 DEF Shifted
  <2> QED BY <1>1, <2>5, <2>7
<1> QED BY <1>3, <1>4

\* One digit more makes a number Base times as large.
LEMMA SizeValueMore ==
  /\ SizeValue(<<>>) = 0
  /\ \A b \in Seq(Nat), x \in Nat : SizeValue(b) \in Nat /\ SizeValue(b \o <<x>>) = SizeValue(b) * Base + x
<1> DEFINE Grown(s, d) == s * Base + d
           Turned(f, a) == /\ f \in [0 .. Len(a) -> Nat] /\ f[0] = 0
                            /\ \A n \in 1 .. Len(a) : f[n] = Grown(f[n - 1], a[n])
<1>2. ASSUME NEW a \in Seq(Nat) PROVE \E f : Turned(f, a) /\ SizeValue(a) = f[Len(a)]
  <2> DEFINE M == Len(a)
             value[n \in 0 .. M] == IF n = 0 THEN 0 ELSE Grown(value[n - 1], a[n])
             step == [n \in 1 .. M |-> [s \in Nat |-> Grown(s, a[n])]]
  <2>1. M \in Nat /\ \A n \in 1 .. M : a[n] \in Nat
    OBVIOUS
  <2>2. ASSUME NEW s \in Nat, NEW d \in Nat PROVE Grown(s, d) \in Nat
    BY LimitsAssumption
  <2>3. SizeValue(a) = value[M]
    BY DEF SizeValue
  <2> HIDE DEF M, Grown
  <2>4. step \in [1 .. M -> [Nat -> Nat]]
    BY <2>1, <2>2
  <2>5. PICK f : Loop(f, Nat, M, 0, step)
    <3> DEFINE V == Nat  zero == 0
    <3>1. zero \in V /\ step \in [1 .. M -> [V -> V]]
      BY <2>4
    <3> HIDE DEF step, V, zero
    <3>2. \E f : Loop(f, V, M, zero, step)
      BY <2>1, <3>1, Iterates
    <3> QED BY <3>2 DEF V, zero
  <2>6. ASSUME NEW n \in 0 .. M PROVE f[n] = IF n = 0 THEN 0 ELSE Grown(f[n - 1], a[n])
    <3>1. CASE n = 0
      BY <2>5, <3>1 DEF Loop
    <3>2. CASE n # 0
      <4>1. n \in 1 .. M /\ n - 1 \in 0 .. M
        BY <2>1, <3>2
      <4>2. f[n] = step[n][f[n - 1]] /\ f[n - 1] \in Nat
        BY <2>5, <4>1 DEF Loop
      <4>3. step[n][f[n - 1]] = Grown(f[n - 1], a[n])
        BY <4>1, <4>2
      <4> QED BY <3>2, <4>2, <4>3
    <3> QED BY <3>1, <3>2
  <2>7. f = [n \in 0 .. M |-> IF n = 0 THEN 0 ELSE Grown(f[n - 1], a[n])]
    <3> HIDE DEF step
    <3> QED BY <2>5, <2>6 DEF Loop
  <2>8. value = [n \in 0 .. M |-> IF n = 0 THEN 0 ELSE Grown(value[n - 1], a[n])]
    BY <2>7
  <2> HIDE DEF value, step
  <2> DEFINE T == {n \in 0 .. M : value[n] \in Nat}
  <2>9. 0 .. M \subseteq T
    <3>1. 0 \in T
      BY <2>1, <2>8
    <3>2. ASSUME NEW n \in 0 .. M - 1, n \in T PROVE n + 1 \in T
      <4>1. n + 1 \in 0 .. M /\ n + 1 # 0 /\ (n + 1) - 1 = n /\ a[n + 1] \in Nat
        BY <2>1
      <4>2. value[n + 1] = Grown(value[n], a[n + 1])
        BY <2>8, <4>1
      <4> QED BY <2>2, <3>2, <4>1, <4>2
    <3> HIDE DEF T
    <3> QED BY <2>1, <3>1, <3>2, Induct
  <2>10. value \in [0 .. M -> Nat]
    BY <2>8, <2>9
  <2>11. value[0] = 0
    BY <2>1, <2>8
  <2>12. ASSUME NEW n \in 1 .. M PROVE value[n] = Grown(value[n - 1], a[n])
    <3>1. n \in 0 .. M /\ n # 0
      BY <2>1
    <3> QED BY <2>8, <3>1
  <2>13. Turned(value, a)
    BY <2>10, <2>11, <2>12 DEF M
  <2> QED BY <2>3, <2>13 DEF M
<1>3. ASSUME NEW b \in Seq(Nat), NEW x \in Nat
      PROVE  SizeValue(b) \in Nat /\ SizeValue(b \o <<x>>) = Grown(SizeValue(b), x)
  <2> DEFINE c == b \o <<x>>
             M == Len(b)
  <2>1. c \in Seq(Nat) /\ Len(c) = M + 1 /\ M \in Nat /\ c[M + 1] = x /\ \A n \in 1 .. M : c[n] = b[n]
    OBVIOUS
  <2> HIDE DEF c, Grown
  <2>2. PICK f : Turned(f, b) /\ SizeValue(b) = f[Len(b)]
    BY <1>2
  <2>3. PICK h : Turned(h, c) /\ SizeValue(c) = h[Len(c)]
    BY <1>2, <2>1
  <2>4. f \in [0 .. M -> Nat] /\ f[0] = 0 /\ \A n \in 1 .. M : f[n] = Grown(f[n - 1], b[n])
    BY <2>2
  <2>5. h[0] = 0 /\ \A n \in 1 .. M + 1 : h[n] = Grown(h[n - 1], c[n])
    BY <2>1, <2>3
  <2>6. SizeValue(b) = f[M] /\ SizeValue(c) = h[M + 1]
    BY <2>1, <2>2, <2>3
  <2> HIDE DEF M
  <2> DEFINE T == {n \in 0 .. M : h[n] = f[n]}
  <2>7. 0 .. M \subseteq T
    <3>1. 0 \in T
      BY <2>1, <2>4, <2>5
    <3>2. ASSUME NEW n \in 0 .. M - 1, n \in T PROVE n + 1 \in T
      <4>1. n + 1 \in 1 .. M /\ n + 1 \in 0 .. M /\ n + 1 \in 1 .. M + 1 /\ (n + 1) - 1 = n
        BY <2>1
      <4>2. h[n + 1] = Grown(h[n], c[n + 1]) /\ c[n + 1] = b[n + 1]
        BY <2>1, <2>5, <4>1
      <4>3. f[n + 1] = Grown(f[n], b[n + 1])
        BY <2>4, <4>1
      <4> QED BY <3>2, <4>1, <4>2, <4>3
    <3> HIDE DEF T
    <3> QED BY <2>1, <3>1, <3>2, Induct
  <2>8. M + 1 \in 1 .. M + 1 /\ (M + 1) - 1 = M /\ M \in 0 .. M
    BY <2>1
  <2>9. h[M] = f[M] /\ f[M] \in Nat
    BY <2>4, <2>7, <2>8
  <2>10. h[M + 1] = Grown(h[M], x)
    BY <2>1, <2>5, <2>8
  <2> QED BY <2>6, <2>9, <2>10 DEF c
<1>4. SizeValue(<<>>) = 0
  <2> DEFINE e == <<>>
  <2>1. e \in Seq(Nat) /\ Len(e) = 0
    OBVIOUS
  <2> HIDE DEF e
  <2>2. PICK f : Turned(f, e) /\ SizeValue(e) = f[Len(e)]
    BY <1>2, <2>1
  <2> QED BY <2>1, <2>2 DEF e
<1> QED BY <1>3, <1>4

\* A digit more overflows exactly when the number does.
LEMMA Overflows ==
  ASSUME NEW v \in Nat, NEW d \in Nat, NEW base \in Nat \ {0, 1}, NEW max \in Nat
  PROVE  v > (max - d) \div base <=> v * base + d > max
<1> DEFINE q == (max - d) \div base
           r == (max - d) % base
<1>1. q \in Int /\ r \in 0 .. base - 1 /\ max - d = base * q + r
  OBVIOUS
<1> HIDE DEF q, r
<1>2. CASE v > q
  <2>1. v >= q + 1
    BY <1>1, <1>2
  <2>2. base * v >= base * (q + 1)
    BY <1>1, <2>1
  <2>3. base * (q + 1) = base * q + base
    BY <1>1
  <2> QED BY <1>1, <1>2, <2>2, <2>3 DEF q
<1>3. CASE ~ (v > q)
  <2>1. base * v <= base * q
    BY <1>1, <1>3
  <2> QED BY <1>1, <1>3, <2>1 DEF q
<1> QED BY <1>2, <1>3

\* A size is the number that the digits stand for, if they are digits and the
\* number fits the integer: parseChunkSizeLine never wraps around.
THEOREM SizesExact ==
  ASSUME NEW a \in Seq(Nat), a # <<>>
  PROVE  parseChunkSizeLine(a) =
           IF ToSet(a) \subseteq 0 .. Base - 1 /\ SizeValue(a) <= MaxUint THEN SizeValue(a) ELSE -1
<1> DEFINE Right(b) == ValueOf(b) = IF ToSet(b) \subseteq 0 .. Base - 1 /\ SizeValue(b) <= MaxUint
                                    THEN SizeValue(b) ELSE -1
           T == {b \in Seq(Nat) : Right(b)}
           e == <<>>
<1>0. MaxUint \in Nat /\ Base \in Nat \ {0, 1}
  BY LimitsAssumption
<1>1. e \in T
  <2>1. ValueOf(e) = 0 /\ ToSet(e) = {} /\ SizeValue(e) = 0 /\ e \in Seq(Nat)
    BY SizeValueMore, NamesNone DEF ValueOf
  <2> QED BY <1>0, <2>1
<1>2. ASSUME NEW b \in Seq(Nat), NEW x \in Nat, b \in T PROVE b \o <<x>> \in T
  <2> DEFINE c == b \o <<x>>
  <2>1. c \in Seq(Nat) /\ ToSet(c) = ToSet(b) \cup {x}
    <3>1. c \in Seq(Nat) /\ Len(c) = Len(b) + 1 /\ c[Len(b) + 1] = x /\ (\A n \in 1 .. Len(b) : c[n] = b[n])
          /\ Len(b) \in Nat /\ DOMAIN b = 1 .. Len(b) /\ DOMAIN c = 1 .. Len(c)
      OBVIOUS
    <3> HIDE DEF c
    <3>2. ASSUME NEW y \in ToSet(c) PROVE y \in ToSet(b) \cup {x}
      <4>1. PICK n \in 1 .. Len(b) + 1 : y = c[n]
        BY <3>1 DEF ToSet
      <4>2. n = Len(b) + 1 \/ n \in 1 .. Len(b)
        BY <3>1
      <4> QED BY <3>1, <4>1, <4>2 DEF ToSet
    <3>3. ASSUME NEW y \in ToSet(b) PROVE y \in ToSet(c)
      <4>1. PICK n \in 1 .. Len(b) : y = b[n]
        BY <3>1 DEF ToSet
      <4>2. n \in 1 .. Len(c) /\ y = c[n]
        BY <3>1, <4>1
      <4> QED BY <3>1, <4>2 DEF ToSet
    <3>4. x \in ToSet(c)
      <4>1. Len(b) + 1 \in 1 .. Len(c)
        BY <3>1
      <4> QED BY <3>1, <4>1 DEF ToSet
    <3> QED BY <3>1, <3>2, <3>3, <3>4
  <2>2. ValueOf(c) = Shifted(ValueOf(b), x)
    BY ValueMore
  <2>3. SizeValue(b) \in Nat /\ SizeValue(c) = SizeValue(b) * Base + x
    BY SizeValueMore
  <2>4. Right(b)
    BY <1>2
  <2> HIDE DEF c
  <2> DEFINE v == SizeValue(b)  w == SizeValue(c)
  <2>5. v \in Nat /\ w = v * Base + x
    BY <2>3
  <2> HIDE DEF v, w, T
  <2>6. w >= v /\ w \in Nat
    <3>1. v * Base >= v /\ v * Base \in Nat
      BY <1>0, <2>5
    <3>2. \A k \in Nat : k >= v => k + x >= v /\ k + x \in Nat
      BY <2>5
    <3> QED BY <2>5, <3>1, <3>2
  <2>7. v > (MaxUint - x) \div Base <=> w > MaxUint
    BY <1>0, <2>5, Overflows
  <2>8. CASE ToSet(b) \subseteq 0 .. Base - 1 /\ v <= MaxUint
    <3>1. ValueOf(b) = v /\ v # -1
      BY <2>4, <2>5, <2>8 DEF v
    <3>2. ValueOf(c) = IF x \notin 0 .. Base - 1 \/ w > MaxUint THEN -1 ELSE w
      BY <2>2, <2>5, <2>7, <3>1 DEF Shifted
    <3>3. ToSet(c) \subseteq 0 .. Base - 1 <=> x \in 0 .. Base - 1
      BY <2>1, <2>8
    <3>4. ~ (w > MaxUint) <=> w <= MaxUint
      BY <1>0, <2>6
    <3>5. Right(c)
      BY <3>2, <3>3, <3>4 DEF w
    <3> QED BY <2>1, <3>5 DEF T, c
  <2>9. CASE ~ (ToSet(b) \subseteq 0 .. Base - 1 /\ v <= MaxUint)
    <3>1. ValueOf(b) = -1
      BY <2>4, <2>9 DEF v
    <3>2. ValueOf(c) = -1
      BY <2>2, <3>1 DEF Shifted
    <3>3. ~ (ToSet(c) \subseteq 0 .. Base - 1 /\ w <= MaxUint)
      BY <1>0, <2>1, <2>5, <2>6, <2>9
    <3>4. Right(c)
      BY <3>2, <3>3 DEF w
    <3> QED BY <2>1, <3>4 DEF T, c
  <2> QED BY <2>8, <2>9
<1>3. Seq(Nat) \subseteq T
  <2> HIDE DEF T
  <2> QED BY <1>1, <1>2, SeqInduct DEF e
<1>4. ValueOf(a) = parseChunkSizeLine(a)
  BY DEF ValueOf
<1> QED BY <1>3, <1>4

-----------------------------------------------------------------------------
(* Bodies                                                                  *)

\* A body of a known length is read if it is there.
LEMMA FixedReads ==
  ASSUME NEW in, in.symbols \in Seq(Symbols), NEW at \in Nat \ {0}, NEW n \in Nat
  PROVE  readFixedBody(in, at, n) =
           IF at + n - 1 > Len(in.symbols) THEN protocolErrorFromRead(in, at > Len(in.symbols), TRUE)
           ELSE Body(SubSeq(in.symbols, at, at + n - 1), <<>>, at + n)
BY DEF readFixedBody

\* The chunks that were read so far.
ChunksRead(body, next) == [verdict |-> "chunk", body |-> body, next |-> next]

\* The size that a line gives.
SizeOf(line) == IF line.kind = "size" THEN parseChunkSizeLine(line.digits) ELSE -1

\* readChunk as it unfolds.
LEMMA ChunkUnfolds ==
  ASSUME NEW in, NEW soFar
  PROVE  LET r == readStrictLine(in, soFar.next)
             size == SizeOf(r.line)
             block == readHeaderBlock(in, r.next, MaxTrailerFields)
             data == readFixedBody(in, r.next, size)
         IN readChunk(in, soFar) =
              IF r.verdict # "read" THEN r
              ELSE IF size = -1 THEN Error("bad")
              ELSE IF size = 0 THEN
                IF block.verdict # "read" THEN block
                ELSE IF validateTrailers(block.fields) THEN Body(soFar.body, block.fields, block.next)
                ELSE Error("bad")
              ELSE IF size > MaxBodyBytes - Len(soFar.body) THEN Error("too large")
              ELSE IF data.verdict # "read" THEN data
              ELSE IF \/ data.next > Len(in.symbols)
                      \/ data.next = Len(in.symbols) /\ in.symbols[data.next] = Byte
              THEN protocolErrorFromRead(in, data.next > Len(in.symbols), TRUE)
              ELSE IF in.symbols[data.next] # EmptyLine THEN Error("bad")
              ELSE ChunksRead(soFar.body \o data.body, data.next + 1)
<1> DEFINE r == readStrictLine(in, soFar.next)
           size == SizeOf(r.line)
           block == readHeaderBlock(in, r.next, MaxTrailerFields)
           data == readFixedBody(in, r.next, size)
           last == IF block.verdict # "read" THEN block
                   ELSE IF validateTrailers(block.fields) THEN Body(soFar.body, block.fields, block.next)
                   ELSE Error("bad")
           more == IF data.verdict # "read" THEN data
                   ELSE IF \/ data.next > Len(in.symbols)
                           \/ data.next = Len(in.symbols) /\ in.symbols[data.next] = Byte
                   THEN protocolErrorFromRead(in, data.next > Len(in.symbols), TRUE)
                   ELSE IF in.symbols[data.next] # EmptyLine THEN Error("bad")
                   ELSE ChunksRead(soFar.body \o data.body, data.next + 1)
           lastChosen == CHOOSE y \in {IF b.verdict = "read" THEN
                           (IF validateTrailers(b.fields) THEN Body(soFar.body, b.fields, b.next)
                            ELSE Error("bad")) ELSE b : b \in {block}} : TRUE
           moreChosen == CHOOSE y \in {IF d.verdict = "read" THEN
                           (IF \/ d.next > Len(in.symbols)
                               \/ d.next = Len(in.symbols) /\ in.symbols[d.next] = Byte
                            THEN protocolErrorFromRead(in, d.next > Len(in.symbols), TRUE)
                            ELSE IF in.symbols[d.next] # EmptyLine THEN Error("bad")
                            ELSE [verdict |-> "chunk", body |-> soFar.body \o d.body, next |-> d.next + 1])
                           ELSE d : d \in {data}} : TRUE
           Turn(q) == LET z == SizeOf(q.line)
                          b == readHeaderBlock(in, q.next, MaxTrailerFields)
                          d == readFixedBody(in, q.next, z)
                      IN  IF z = -1 THEN Error("bad")
                          ELSE IF z = 0 THEN
                            CHOOSE y \in {IF bb.verdict = "read" THEN
                           (IF validateTrailers(bb.fields) THEN Body(soFar.body, bb.fields, bb.next)
                            ELSE Error("bad")) ELSE bb : bb \in {b}} : TRUE
                          ELSE IF z > MaxBodyBytes - Len(soFar.body) THEN Error("too large")
                          ELSE CHOOSE y \in {IF dd.verdict = "read" THEN
                           (IF \/ dd.next > Len(in.symbols)
                               \/ dd.next = Len(in.symbols) /\ in.symbols[dd.next] = Byte
                            THEN protocolErrorFromRead(in, dd.next > Len(in.symbols), TRUE)
                            ELSE IF in.symbols[dd.next] # EmptyLine THEN Error("bad")
                            ELSE [verdict |-> "chunk", body |-> soFar.body \o dd.body, next |-> dd.next + 1])
                           ELSE dd : dd \in {d}} : TRUE
<1>1. readChunk(in, soFar) = CHOOSE x \in {IF q.verdict = "read" THEN Turn(q) ELSE q : q \in {r}} : TRUE
  BY DEF readChunk, Then, When, SizeOf
<1>2. Turn(r) = IF size = -1 THEN Error("bad")
                ELSE IF size = 0 THEN lastChosen
                ELSE IF size > MaxBodyBytes - Len(soFar.body) THEN Error("too large")
                ELSE moreChosen
  OBVIOUS
<1>3. lastChosen = last
  <2> HIDE DEF block
  <2> QED OBVIOUS
<1>4. moreChosen = more
  <2> DEFINE F(d) == IF d.verdict = "read" THEN
                           (IF \/ d.next > Len(in.symbols)
                               \/ d.next = Len(in.symbols) /\ in.symbols[d.next] = Byte
                            THEN protocolErrorFromRead(in, d.next > Len(in.symbols), TRUE)
                            ELSE IF in.symbols[d.next] # EmptyLine THEN Error("bad")
                            ELSE [verdict |-> "chunk", body |-> soFar.body \o d.body, next |-> d.next + 1])
                           ELSE d
  <2> HIDE DEF data
  <2>1. F(data) = more
    BY DEF ChunksRead
  <2>2. moreChosen = CHOOSE y \in {F(d) : d \in {data}} : TRUE
    OBVIOUS
  <2> HIDE DEF F
  <2>3. (CHOOSE y \in {F(d) : d \in {data}} : TRUE) = F(data)
    OBVIOUS
  <2> HIDE DEF moreChosen, more
  <2> QED BY <2>1, <2>2, <2>3
<1> HIDE DEF Turn, lastChosen, moreChosen, r, size
<1>5. readChunk(in, soFar) = IF r.verdict = "read" THEN Turn(r) ELSE r
  BY <1>1
<1> QED BY <1>2, <1>3, <1>4, <1>5 DEF size, r

\* A line gives a size or none.
LEMMA SizeIs ==
  ASSUME NEW line \in Symbols
  PROVE  SizeOf(line) \in Nat \cup {-1} /\ (SizeOf(line) # -1 => line.kind = "size")
<1> DEFINE T == {b \in Seq(Nat) : ValueOf(b) \in Nat \cup {-1}}
           N == Nat
           e == <<>>
<1>1. e \in T
  BY DEF ValueOf
<1>2. ASSUME NEW b \in Seq(N), NEW x \in N, b \in T PROVE b \o <<x>> \in T
  <2>1. ValueOf(b \o <<x>>) = Shifted(ValueOf(b), x) /\ ValueOf(b) \in Nat \cup {-1}
    BY <1>2, ValueMore
  <2>2. Shifted(ValueOf(b), x) \in Nat \cup {-1}
    <3> HIDE DEF T
    <3> DEFINE v == ValueOf(b)
    <3>1. v \in Nat \cup {-1} /\ Base \in Nat
      BY <2>1, LimitsAssumption
    <3>2. CASE v = -1
      BY <3>2 DEF Shifted
    <3>3. CASE v # -1
      <4>1. v \in Nat /\ v * Base + x \in Nat
        BY <3>1, <3>3
      <4> QED BY <4>1 DEF Shifted
    <3> QED BY <3>2, <3>3
  <2> QED BY <2>1, <2>2
<1>3. Seq(N) \subseteq T
  <2> HIDE DEF T, N
  <2> QED BY <1>1, <1>2, SeqInduct
<1>4. CASE line.kind = "size"
  <2>1. line.digits \in Seq(Nat)
    BY <1>4, SymbolKinds DEF Symbols, Fields, EmptyLine, Junk, Byte
  <2>2. ValueOf(line.digits) \in Nat \cup {-1}
    BY <1>3, <2>1
  <2>3. parseChunkSizeLine(line.digits) \in Nat \cup {-1}
    <3>1. CASE line.digits = <<>>
      BY <3>1 DEF parseChunkSizeLine
    <3>2. CASE line.digits # <<>>
      BY <2>2, <3>2 DEF ValueOf
    <3> QED BY <3>1, <3>2
  <2> QED BY <1>4, <2>3 DEF SizeOf
<1>5. CASE line.kind # "size"
  BY <1>5 DEF SizeOf
<1> QED BY <1>4, <1>5

\* Another chunk can be read after the chunks c.
MoreAt(in, c) ==
  LET n == SizeOf(in.symbols[c.next])
  IN /\ c.next \in 1 .. Len(in.symbols) /\ n \in Nat \ {0} /\ n <= MaxBodyBytes - Len(c.body)
     /\ c.next + n + 1 <= Len(in.symbols) /\ in.symbols[c.next + n + 1] = EmptyLine

\* The chunks with the one that follows.
After(in, c) ==
  LET n == SizeOf(in.symbols[c.next])
  IN ChunksRead(c.body \o SubSeq(in.symbols, c.next + 1, c.next + n), c.next + n + 2)

\* The last chunk follows the chunks c, with trailers up to the line at e.
LastAt(in, c, e) ==
  /\ c.next \in 1 .. Len(in.symbols) /\ SizeOf(in.symbols[c.next]) = 0
  /\ BlockAt(in, c.next + 1, e) /\ e - (c.next + 1) <= MaxTrailerFields
  /\ validateTrailers(SubSeq(in.symbols, c.next + 1, e - 1))

\* Lines that give a size are read.
LEMMA SizeLineReads ==
  ASSUME NEW in, in.symbols \in Seq(Symbols), NEW at \in 1 .. Len(in.symbols), SizeOf(in.symbols[at]) # -1
  PROVE  readStrictLine(in, at) = [verdict |-> "read", line |-> in.symbols[at], next |-> at + 1]
<1>1. in.symbols[at] \in Symbols
  OBVIOUS
<1>2. in.symbols[at].kind # "byte"
  BY <1>1, SizeIs
<1> QED BY <1>2, LineReads

\* Another chunk.
LEMMA MoreReads ==
  ASSUME NEW in, in.symbols \in Seq(Symbols), NEW c, MoreAt(in, c)
  PROVE  readChunk(in, c) = After(in, c)
<1> DEFINE r == readStrictLine(in, c.next)
           n == SizeOf(in.symbols[c.next])
           at == c.next
           data == readFixedBody(in, r.next, n)
<1>1. /\ at \in 1 .. Len(in.symbols) /\ n \in Nat \ {0} /\ n <= MaxBodyBytes - Len(c.body)
      /\ at + n + 1 <= Len(in.symbols) /\ in.symbols[at + n + 1] = EmptyLine
  BY DEF MoreAt
<1> HIDE DEF n
<1>2. r = [verdict |-> "read", line |-> in.symbols[at], next |-> at + 1]
  <2>1. SizeOf(in.symbols[at]) # -1
    BY <1>1 DEF n
  <2> QED BY <1>1, <2>1, SizeLineReads
<1>3. SizeOf(r.line) = n /\ r.verdict = "read" /\ r.next = at + 1
  BY <1>2 DEF n
<1> HIDE DEF r
<1>4. data = Body(SubSeq(in.symbols, at + 1, at + n), <<>>, at + n + 1)
  <2>1. /\ at + 1 \in Nat \ {0} /\ n \in Nat /\ ~ ((at + 1) + n - 1 > Len(in.symbols))
        /\ (at + 1) + n - 1 = at + n /\ (at + 1) + n = at + n + 1
    BY <1>1
  <2>2. readFixedBody(in, at + 1, n) = Body(SubSeq(in.symbols, at + 1, (at + 1) + n - 1), <<>>, (at + 1) + n)
    BY <2>1, FixedReads
  <2> QED BY <1>3, <2>1, <2>2
<1> HIDE DEF data
<1>5. /\ data.verdict = "read" /\ data.next = at + n + 1
      /\ data.body = SubSeq(in.symbols, at + 1, at + n)
  BY <1>4 DEF Body
<1>6. ~ (data.next > Len(in.symbols)) /\ in.symbols[data.next] = EmptyLine /\ EmptyLine # Byte
  BY <1>1, <1>5, SymbolKinds
<1>7. n # -1 /\ n # 0 /\ ~ (n > MaxBodyBytes - Len(c.body))
  BY <1>1, LimitsAssumption
<1>8. readChunk(in, c) = ChunksRead(c.body \o data.body, data.next + 1)
  BY <1>3, <1>5, <1>6, <1>7, ChunkUnfolds DEF r, data
<1>9. data.next + 1 = at + n + 2
  BY <1>1, <1>5
<1> QED BY <1>5, <1>8, <1>9 DEF After, n

\* The last chunk.
LEMMA LastReads ==
  ASSUME NEW in, in.symbols \in Seq(Symbols), NEW c, NEW e \in Nat, LastAt(in, c, e)
  PROVE  readChunk(in, c) = Body(c.body, SubSeq(in.symbols, c.next + 1, e - 1), e + 1)
<1> DEFINE r == readStrictLine(in, c.next)
           at == c.next
           block == readHeaderBlock(in, r.next, MaxTrailerFields)
<1>1. at \in 1 .. Len(in.symbols) /\ SizeOf(in.symbols[at]) = 0
  BY DEF LastAt
<1>2. r = [verdict |-> "read", line |-> in.symbols[at], next |-> at + 1]
  BY <1>1, SizeLineReads
<1>3. SizeOf(r.line) = 0 /\ r.verdict = "read" /\ r.next = at + 1
  BY <1>1, <1>2
<1> HIDE DEF r
<1>4. block = [verdict |-> "read", fields |-> SubSeq(in.symbols, at + 1, e - 1), next |-> e + 1]
  <2>1. at + 1 \in Nat \ {0} /\ MaxTrailerFields \in Nat
    BY <1>1, LimitsAssumption
  <2>2. BlockAt(in, at + 1, e) /\ e - (at + 1) <= MaxTrailerFields
    BY DEF LastAt
  <2>3. readHeaderBlock(in, at + 1, MaxTrailerFields) =
          [verdict |-> "read", fields |-> SubSeq(in.symbols, at + 1, e - 1), next |-> e + 1]
    BY <2>1, <2>2, BlockReads
  <2> QED BY <1>3, <2>3
<1> HIDE DEF block
<1>5. /\ block.verdict = "read" /\ block.next = e + 1
      /\ block.fields = SubSeq(in.symbols, at + 1, e - 1)
  BY <1>4
<1>6. validateTrailers(block.fields)
  BY <1>5 DEF LastAt
<1> DEFINE size == SizeOf(r.line)
           data == readFixedBody(in, r.next, size)
<1>7. readChunk(in, c) =
        IF r.verdict # "read" THEN r
        ELSE IF size = -1 THEN Error("bad")
        ELSE IF size = 0 THEN
          IF block.verdict # "read" THEN block
          ELSE IF validateTrailers(block.fields) THEN Body(c.body, block.fields, block.next)
          ELSE Error("bad")
        ELSE IF size > MaxBodyBytes - Len(c.body) THEN Error("too large")
        ELSE IF data.verdict # "read" THEN data
        ELSE IF \/ data.next > Len(in.symbols)
                \/ data.next = Len(in.symbols) /\ in.symbols[data.next] = Byte
        THEN protocolErrorFromRead(in, data.next > Len(in.symbols), TRUE)
        ELSE IF in.symbols[data.next] # EmptyLine THEN Error("bad")
        ELSE ChunksRead(c.body \o data.body, data.next + 1)
  BY ChunkUnfolds DEF r, block
<1>8. size = 0 /\ size # -1
  BY <1>3
<1> HIDE DEF size, data
<1>9. readChunk(in, c) = Body(c.body, block.fields, block.next)
  BY <1>3, <1>5, <1>6, <1>7, <1>8
<1> QED BY <1>5, <1>9

\* What readChunk has read.
LEMMA ChunkRead ==
  ASSUME NEW in, in.symbols \in Seq(Symbols), NEW b \in Seq(Symbols), NEW at \in Nat \ {0},
         NEW c, c = ChunksRead(b, at), readChunk(in, c).verdict \in {"chunk", "read"}
  PROVE  \/ readChunk(in, c).verdict = "chunk" /\ MoreAt(in, c)
         \/ readChunk(in, c).verdict = "read" /\ \E e \in Nat : LastAt(in, c, e)
<1>0. c.next = at /\ c.body = b
  BY DEF ChunksRead
<1> DEFINE r == readStrictLine(in, c.next)
           size == SizeOf(r.line)
           block == readHeaderBlock(in, r.next, MaxTrailerFields)
           data == readFixedBody(in, r.next, size)
<1>1. readChunk(in, c) =
        IF r.verdict # "read" THEN r
        ELSE IF size = -1 THEN Error("bad")
        ELSE IF size = 0 THEN
          IF block.verdict # "read" THEN block
          ELSE IF validateTrailers(block.fields) THEN Body(c.body, block.fields, block.next)
          ELSE Error("bad")
        ELSE IF size > MaxBodyBytes - Len(c.body) THEN Error("too large")
        ELSE IF data.verdict # "read" THEN data
        ELSE IF \/ data.next > Len(in.symbols)
                \/ data.next = Len(in.symbols) /\ in.symbols[data.next] = Byte
        THEN protocolErrorFromRead(in, data.next > Len(in.symbols), TRUE)
        ELSE IF in.symbols[data.next] # EmptyLine THEN Error("bad")
        ELSE ChunksRead(c.body \o data.body, data.next + 1)
  BY ChunkUnfolds
<1>2. /\ Error("bad").verdict \notin {"chunk", "read"} /\ Error("too large").verdict \notin {"chunk", "read"}
      /\ \A empty : protocolErrorFromRead(in, empty, TRUE).verdict \notin {"chunk", "read"}
  BY ReadErrors DEF Error
<1>3. r.verdict # "chunk"
  BY ReadErrors DEF readStrictLine
<1>4. r.verdict = "read" /\ size # -1
  <2> HIDE DEF r, size, block, data
  <2> QED BY <1>1, <1>2, <1>3
<1>5. /\ at \in 1 .. Len(in.symbols) /\ in.symbols[at].kind # "byte"
      /\ r = [verdict |-> "read", line |-> in.symbols[at], next |-> at + 1]
  <2>1. r.line # Junk
    BY <1>4, SymbolKinds DEF SizeOf
  <2> QED BY <1>0, <1>4, <2>1, LineRead
<1>6. size = SizeOf(in.symbols[at]) /\ r.next = at + 1 /\ in.symbols[at] \in Symbols
  BY <1>5
<1> HIDE DEF r
<1>7. size \in Nat
  BY <1>4, <1>6, SizeIs
<1>8. CASE size = 0
  <2>1. block.verdict # "chunk"
    <3>1. block = readHeaderBlock(in, at + 1, MaxTrailerFields)
      BY <1>6
    <3> HIDE DEF block
    <3> DEFINE stop == SelectInSubSeq(in.symbols, at + 1, Len(in.symbols), LAMBDA s : s.kind # "field")
               end == IF stop = 0 THEN Len(in.symbols) + 1 ELSE stop
               q == readStrictLine(in, end)
    <3>2. block = IF end - (at + 1) > MaxTrailerFields THEN Error("bad")
                  ELSE IF q.verdict # "read" THEN q
                  ELSE IF q.line # EmptyLine THEN Error("bad")
                  ELSE [verdict |-> "read", fields |-> SubSeq(in.symbols, at + 1, end - 1), next |-> q.next]
      BY <3>1, HeaderBlockUnfolds
    <3>3. q.verdict # "chunk"
      BY ReadErrors DEF readStrictLine
    <3> HIDE DEF end, q
    <3> QED BY <1>2, <3>2, <3>3
  <2>2. block.verdict = "read" /\ validateTrailers(block.fields)
        /\ readChunk(in, c) = Body(c.body, block.fields, block.next)
    <3> HIDE DEF size, block, data
    <3> QED BY <1>1, <1>2, <1>4, <1>8, <2>1
  <2>3. PICK e \in Nat :
          /\ BlockAt(in, at + 1, e) /\ e - (at + 1) <= MaxTrailerFields
          /\ readHeaderBlock(in, at + 1, MaxTrailerFields) =
               [verdict |-> "read", fields |-> SubSeq(in.symbols, at + 1, e - 1), next |-> e + 1]
    <3>1. at + 1 \in 1 .. Len(in.symbols) + 1 /\ MaxTrailerFields \in Nat
      BY <1>5, LimitsAssumption
    <3>2. readHeaderBlock(in, at + 1, MaxTrailerFields).verdict = "read"
      BY <1>6, <2>2
    <3> QED BY <3>1, <3>2, BlockRead
  <2>4. block.fields = SubSeq(in.symbols, at + 1, e - 1)
    <3>1. block = [verdict |-> "read", fields |-> SubSeq(in.symbols, at + 1, e - 1), next |-> e + 1]
      BY <1>6, <2>3
    <3> HIDE DEF block
    <3> QED BY <3>1
  <2>5. LastAt(in, c, e)
    BY <1>0, <1>5, <1>6, <1>8, <2>2, <2>3, <2>4 DEF LastAt
  <2> QED BY <2>2, <2>5 DEF Body
<1>9. CASE size # 0
  <2>1. /\ ~ (size > MaxBodyBytes - Len(c.body))
        /\ data.verdict = "read" \/ (readChunk(in, c) = data)
    <3> HIDE DEF size, block, data
    <3> QED BY <1>1, <1>2, <1>4, <1>9
  <2>2. data = IF (at + 1) + size - 1 > Len(in.symbols) THEN protocolErrorFromRead(in, at + 1 > Len(in.symbols), TRUE)
               ELSE Body(SubSeq(in.symbols, at + 1, (at + 1) + size - 1), <<>>, (at + 1) + size)
    <3> HIDE DEF size
    <3>1. at + 1 \in Nat \ {0}
      BY <1>5
    <3> QED BY <1>6, <1>7, <3>1, FixedReads, ZenonT(30)
  <2> HIDE DEF data
  <2>3. ~ ((at + 1) + size - 1 > Len(in.symbols)) /\ data.verdict = "read" /\ data.next = (at + 1) + size
    <3> HIDE DEF size
    <3>1. CASE (at + 1) + size - 1 > Len(in.symbols)
      BY <1>2, <2>1, <2>2, <3>1
    <3>2. CASE ~ ((at + 1) + size - 1 > Len(in.symbols))
      BY <2>2, <3>2 DEF Body
    <3> QED BY <3>1, <3>2
  <2>4. /\ ~ (data.next > Len(in.symbols)) /\ in.symbols[data.next] = EmptyLine
        /\ readChunk(in, c) = ChunksRead(c.body \o data.body, data.next + 1)
    <3> HIDE DEF size, block
    <3> QED BY <1>1, <1>2, <1>4, <1>9, <2>1, <2>3
  <2>5. MoreAt(in, c)
    <3> HIDE DEF size
    <3>1. Len(b) \in Nat /\ MaxBodyBytes \in Nat
      BY LimitsAssumption
    <3>2. (at + 1) + size = at + size + 1 /\ at + size + 1 <= Len(in.symbols) /\ size <= MaxBodyBytes - Len(b)
      BY <1>0, <1>5, <1>7, <2>1, <2>3, <2>4, <3>1
    <3>3. in.symbols[at + size + 1] = EmptyLine
      BY <2>3, <2>4, <3>2
    <3> QED BY <1>0, <1>5, <1>6, <1>7, <1>9, <3>2, <3>3 DEF MoreAt
  <2> QED BY <2>4, <2>5 DEF ChunksRead
<1> QED BY <1>8, <1>9

\* What has been read while chunks are being read.
Chunked == {ChunksRead(p[1], p[2]) : p \in Seq(Symbols) \X (Nat \ {0})}

\* Chunks and their members.
LEMMA ChunkedIs ==
  /\ \A b \in Seq(Symbols), k \in Nat \ {0} : ChunksRead(b, k) \in Chunked
  /\ \A c \in Chunked : c.verdict = "chunk" /\ c.body \in Seq(Symbols) /\ c.next \in Nat \ {0}
                        /\ c = ChunksRead(c.body, c.next)
<1>1. ASSUME NEW b \in Seq(Symbols), NEW k \in Nat \ {0} PROVE ChunksRead(b, k) \in Chunked
  <2> DEFINE p == <<b, k>>
  <2>1. p \in Seq(Symbols) \X (Nat \ {0}) /\ p[1] = b /\ p[2] = k
    OBVIOUS
  <2> HIDE DEF p
  <2> QED BY <2>1 DEF Chunked
<1>2. ASSUME NEW c \in Chunked
      PROVE  c.verdict = "chunk" /\ c.body \in Seq(Symbols) /\ c.next \in Nat \ {0} /\ c = ChunksRead(c.body, c.next)
  <2>1. PICK p \in Seq(Symbols) \X (Nat \ {0}) : c = ChunksRead(p[1], p[2])
    BY DEF Chunked
  <2>2. p[1] \in Seq(Symbols) /\ p[2] \in Nat \ {0}
    OBVIOUS
  <2> QED BY <2>1, <2>2 DEF ChunksRead
<1> QED BY <1>1, <1>2

\* A turn of the loop of readChunkedBody.
ChunkTurn(in, c) == IF c.verdict = "chunk" THEN readChunk(in, c) ELSE c

\* f is the values of the loop of readChunkedBody.
ChunkLoop(f, in, at) ==
  /\ f[0] = ChunksRead(<<>>, at) /\ \A n \in 1 .. MaxChunkCount : f[n] = ChunkTurn(in, f[n - 1])
  /\ \A n \in 0 .. MaxChunkCount : f[n].verdict = "chunk" => f[n] \in Chunked

\* f is the loop that readChunkedBody is the outcome of.
Runs(f, in, at) ==
  /\ ChunkLoop(f, in, at)
  /\ readChunkedBody(in, at) = IF f[MaxChunkCount].verdict = "chunk" THEN Error("bad") ELSE f[MaxChunkCount]

\* A chunk more.
LEMMA AfterIs ==
  ASSUME NEW in, in.symbols \in Seq(Symbols), NEW c \in Chunked, MoreAt(in, c)
  PROVE  After(in, c) \in Chunked /\ After(in, c).next > c.next
<1> DEFINE n == SizeOf(in.symbols[c.next])
           x == c.body \o SubSeq(in.symbols, c.next + 1, c.next + n)
<1>1. n \in Nat /\ c.next \in Nat \ {0} /\ c.body \in Seq(Symbols) /\ c.next + n + 1 <= Len(in.symbols)
  BY ChunkedIs DEF MoreAt
<1> HIDE DEF n
<1>2. x \in Seq(Symbols) /\ c.next + n + 2 \in Nat \ {0} /\ c.next + n + 2 > c.next
  BY <1>1
<1>3. After(in, c) = ChunksRead(x, c.next + n + 2)
  BY DEF After, n
<1> HIDE DEF x
<1>4. ChunksRead(x, c.next + n + 2) \in Chunked
  BY <1>2, ChunkedIs
<1> QED BY <1>2, <1>3, <1>4 DEF ChunksRead

\* Chunks are read one after the other.
LEMMA ChunkStays ==
  ASSUME NEW in, in.symbols \in Seq(Symbols), NEW c \in Chunked, readChunk(in, c).verdict = "chunk"
  PROVE  MoreAt(in, c) /\ readChunk(in, c) = After(in, c) /\ readChunk(in, c) \in Chunked
<1>1. c.body \in Seq(Symbols) /\ c.next \in Nat \ {0} /\ c = ChunksRead(c.body, c.next)
  BY ChunkedIs
<1>2. MoreAt(in, c)
  BY <1>1, ChunkRead
<1>3. readChunk(in, c) = After(in, c)
  BY <1>2, MoreReads
<1> QED BY <1>2, <1>3, AfterIs

\* The turns of readChunkedBody.
LEMMA ChunkTurns ==
  ASSUME NEW in, in.symbols \in Seq(Symbols), NEW at \in Nat \ {0}
  PROVE  \E f : Runs(f, in, at)
<1> DEFINE M == MaxChunkCount
           V == Chunked \cup {readChunk(in, c) : c \in Chunked}
           base == ChunksRead(<<>>, at)
           soFar[n \in 0 .. M] == IF n = 0 THEN base ELSE ChunkTurn(in, soFar[n - 1])
           step == [n \in 1 .. M |-> [v \in V |-> ChunkTurn(in, v)]]
<1>1. M \in Nat \ {0} /\ base \in V /\ base.verdict = "chunk" /\ base \in Chunked
  <2> DEFINE e == <<>>
  <2>1. e \in Seq(Symbols)
    OBVIOUS
  <2> HIDE DEF e
  <2>2. ChunksRead(e, at) \in Chunked
    BY <2>1, ChunkedIs
  <2>3. base \in Chunked
    BY <2>2 DEF e
  <2> HIDE DEF base
  <2> QED BY <2>3, LimitsAssumption, ChunkedIs
<1>2. ASSUME NEW v \in V PROVE ChunkTurn(in, v) \in V /\ (v.verdict = "chunk" => v \in Chunked)
  <2>1. v.verdict = "chunk" => v \in Chunked
    <3>1. CASE v \in Chunked
      BY <3>1
    <3>2. CASE v \notin Chunked
      <4>1. PICK c \in Chunked : v = readChunk(in, c)
        BY <3>2
      <4> QED BY <4>1, ChunkStays
    <3> QED BY <3>1, <3>2
  <2> QED BY <2>1 DEF ChunkTurn
<1> HIDE DEF M, V, base
<1>3. step \in [1 .. M -> [V -> V]]
  BY <1>1, <1>2
<1>4. PICK f : Loop(f, V, M, base, step)
  <2> HIDE DEF step
  <2> QED BY <1>1, <1>3, Iterates
<1>5. ASSUME NEW n \in 0 .. M PROVE f[n] = IF n = 0 THEN base ELSE ChunkTurn(in, f[n - 1])
  <2>1. CASE n = 0
    BY <1>4, <2>1 DEF Loop
  <2>2. CASE n # 0
    <3>1. n \in 1 .. M /\ n - 1 \in 0 .. M
      BY <1>1, <2>2
    <3>2. f[n] = step[n][f[n - 1]] /\ f[n - 1] \in V
      BY <1>4, <3>1 DEF Loop
    <3>3. step[n][f[n - 1]] = ChunkTurn(in, f[n - 1])
      BY <3>1, <3>2
    <3> QED BY <2>2, <3>2, <3>3
  <2> QED BY <2>1, <2>2
<1>6. f = [n \in 0 .. M |-> IF n = 0 THEN base ELSE ChunkTurn(in, f[n - 1])]
  <2> HIDE DEF step
  <2> QED BY <1>4, <1>5 DEF Loop
<1>7. soFar = [n \in 0 .. M |-> IF n = 0 THEN base ELSE ChunkTurn(in, soFar[n - 1])]
  BY <1>6
<1>8. readChunkedBody(in, at) = IF soFar[M].verdict = "chunk" THEN Error("bad") ELSE soFar[M]
  <2> DEFINE told[n \in 0 .. M] ==
               IF n = 0 THEN [verdict |-> "chunk", body |-> <<>>, next |-> at]
               ELSE When("chunk", told[n - 1], LAMBDA chunks : readChunk(in, chunks))
  <2>1. readChunkedBody(in, at) = When("chunk", told[M], LAMBDA unfinished : Error("bad"))
    BY DEF readChunkedBody, M
  <2>2. ASSUME NEW c PROVE When("chunk", c, LAMBDA chunks : readChunk(in, chunks)) = ChunkTurn(in, c)
    <3>1. When("chunk", c, LAMBDA chunks : readChunk(in, chunks)) =
            CHOOSE x \in {IF r.verdict = "chunk" THEN readChunk(in, r) ELSE r : r \in {c}} : TRUE
      BY DEF When
    <3>2. (CHOOSE x \in {IF r.verdict = "chunk" THEN readChunk(in, r) ELSE r : r \in {c}} : TRUE)
            = IF c.verdict = "chunk" THEN readChunk(in, c) ELSE c
      OBVIOUS
    <3> QED BY <3>1, <3>2 DEF ChunkTurn
  <2>3. told = soFar
    BY <2>2 DEF base, ChunksRead
  <2> HIDE DEF soFar, told
  <2>4. When("chunk", told[M], LAMBDA unfinished : Error("bad")) =
          CHOOSE x \in {IF r.verdict = "chunk" THEN Error("bad") ELSE r : r \in {told[M]}} : TRUE
    BY DEF When
  <2> DEFINE z == told[M]
  <2>5. (CHOOSE x \in {IF r.verdict = "chunk" THEN Error("bad") ELSE r : r \in {z}} : TRUE)
          = IF z.verdict = "chunk" THEN Error("bad") ELSE z
    <3> HIDE DEF z
    <3> QED OBVIOUS
  <2> QED BY <2>1, <2>3, <2>4, <2>5
<1> HIDE DEF soFar, step
<1> DEFINE T == {n \in 0 .. M : soFar[n] \in V}
<1>9. 0 .. M \subseteq T
  <2>1. 0 \in T
    BY <1>1, <1>7
  <2>2. ASSUME NEW n \in 0 .. M - 1, n \in T PROVE n + 1 \in T
    <3>1. n + 1 \in 0 .. M /\ n + 1 # 0 /\ (n + 1) - 1 = n
      BY <1>1
    <3>2. soFar[n + 1] = ChunkTurn(in, soFar[n])
      BY <1>7, <3>1
    <3> QED BY <1>2, <2>2, <3>1, <3>2
  <2> HIDE DEF T
  <2> QED BY <1>1, <2>1, <2>2, Induct
<1>10. soFar[0] = base
  BY <1>1, <1>7
<1>11. ASSUME NEW n \in 1 .. M PROVE soFar[n] = ChunkTurn(in, soFar[n - 1])
  <2>1. n \in 0 .. M /\ n # 0
    BY <1>1
  <2> QED BY <1>7, <2>1
<1>12. ASSUME NEW n \in 0 .. M, soFar[n].verdict = "chunk" PROVE soFar[n] \in Chunked
  BY <1>2, <1>9, <1>12
<1>13. ChunkLoop(soFar, in, at)
  BY <1>10, <1>11, <1>12 DEF M, base, ChunkLoop
<1> QED BY <1>8, <1>13 DEF M, Runs

\* After a, in holds a line, then p, then the empty line.
Stands(in, a, line, p, rest) == in.symbols = a \o (<<line>> \o p \o <<EmptyLine>>) \o rest

\* A chunk in its place.
LEMMA ChunkFits ==
  ASSUME NEW in, NEW a \in Seq(Symbols), NEW line \in Symbols, NEW p \in Seq(Symbols), NEW rest \in Seq(Symbols),
         Stands(in, a, line, p, rest),
         SizeOf(line) = Len(p), Len(p) > 0,
         NEW b \in Seq(Symbols), Len(b) + Len(p) <= MaxBodyBytes
  PROVE  readChunk(in, ChunksRead(b, Len(a) + 1)) = ChunksRead(b \o p, Len(a) + Len(p) + 3)
<1> DEFINE c == ChunksRead(b, Len(a) + 1)
           s == in.symbols
<1>0. s = a \o (<<line>> \o p \o <<EmptyLine>>) \o rest
  BY DEF Stands
<1>1. EmptyLine \in Symbols
  BY SymbolKinds
<1> HIDE DEF s
<1>2. /\ s \in Seq(Symbols) /\ Len(s) = Len(a) + Len(p) + 2 + Len(rest)
      /\ s[Len(a) + 1] = line /\ s[Len(a) + Len(p) + 2] = EmptyLine
      /\ SubSeq(s, Len(a) + 2, Len(a) + 1 + Len(p)) = p
      /\ Len(a) \in Nat /\ Len(p) \in Nat /\ Len(rest) \in Nat /\ Len(b) \in Nat
  BY <1>0, <1>1
<1>3. c.next = Len(a) + 1 /\ c.body = b
  BY DEF ChunksRead
<1> HIDE DEF c
<1>4. /\ c.next \in 1 .. Len(s) /\ SizeOf(s[c.next]) = Len(p) /\ Len(p) \in Nat \ {0}
      /\ Len(p) <= MaxBodyBytes - Len(c.body) /\ c.next + Len(p) + 1 <= Len(s)
      /\ c.next + Len(p) + 1 = Len(a) + Len(p) + 2 /\ c.next + 1 = Len(a) + 2
      /\ c.next + Len(p) = Len(a) + 1 + Len(p) /\ c.next + Len(p) + 2 = Len(a) + Len(p) + 3
  BY <1>2, <1>3, LimitsAssumption
<1>5. s[c.next + Len(p) + 1] = EmptyLine
  BY <1>2, <1>4
<1>6. MoreAt(in, c)
  BY <1>4, <1>5 DEF MoreAt, s
<1>7. readChunk(in, c) = After(in, c)
  BY <1>2, <1>6, MoreReads DEF s
<1>8. After(in, c) = ChunksRead(b \o p, Len(a) + Len(p) + 3)
  BY <1>2, <1>3, <1>4 DEF After, s
<1> QED BY <1>7, <1>8 DEF c

\* The last chunk in its place.
LEMMA LastFits ==
  ASSUME NEW in, NEW a \in Seq(Symbols), NEW line \in Symbols, NEW t \in Seq(Fields), NEW rest \in Seq(Symbols),
         Stands(in, a, line, t, rest),
         SizeOf(line) = 0, Len(t) <= MaxTrailerFields, validateTrailers(t), NEW b \in Seq(Symbols)
  PROVE  readChunk(in, ChunksRead(b, Len(a) + 1)) = Body(b, t, Len(a) + Len(t) + 3)
<1> DEFINE c == ChunksRead(b, Len(a) + 1)
           s == in.symbols
           e == Len(a) + Len(t) + 2
<1>0. s = a \o (<<line>> \o t \o <<EmptyLine>>) \o rest
  BY DEF Stands
<1> HIDE DEF s
<1>1. EmptyLine \in Symbols /\ t \in Seq(Symbols) /\ \A i \in 1 .. Len(t) : t[i].kind = "field"
  <2>1. \A i \in 1 .. Len(t) : t[i] \in Fields
    OBVIOUS
  <2>2. Fields \subseteq Symbols
    BY DEF Symbols
  <2> QED BY <2>1, <2>2, SymbolKinds
<1>2. /\ s \in Seq(Symbols) /\ Len(s) = Len(a) + Len(t) + 2 + Len(rest)
      /\ s[Len(a) + 1] = line /\ s[Len(a) + Len(t) + 2] = EmptyLine
      /\ SubSeq(s, Len(a) + 2, Len(a) + 1 + Len(t)) = t
      /\ Len(a) \in Nat /\ Len(t) \in Nat /\ Len(rest) \in Nat /\ Len(b) \in Nat
  BY <1>0, <1>1
<1>3. \A j \in Len(a) + 2 .. Len(a) + 1 + Len(t) : s[j] = t[j - Len(a) - 1] /\ j - Len(a) - 1 \in 1 .. Len(t)
  BY <1>0, <1>1
<1>4. c.next = Len(a) + 1 /\ c.body = b
  BY DEF ChunksRead
<1> HIDE DEF c
<1>5. /\ c.next \in 1 .. Len(s) /\ SizeOf(s[c.next]) = 0 /\ e \in Nat
      /\ c.next + 1 = Len(a) + 2 /\ e - 1 = Len(a) + 1 + Len(t) /\ e - (c.next + 1) = Len(t)
      /\ e + 1 = Len(a) + Len(t) + 3 /\ e \in Len(a) + 2 .. Len(s)
  BY <1>2, <1>4
<1>6. BlockAt(in, c.next + 1, e)
  BY <1>1, <1>2, <1>3, <1>5 DEF BlockAt, s
<1>7. LastAt(in, c, e)
  <2> HIDE DEF e
  <2> QED BY <1>2, <1>5, <1>6 DEF LastAt, s
<1>8. readChunk(in, c) = Body(c.body, SubSeq(s, c.next + 1, e - 1), e + 1)
  <2> HIDE DEF e
  <2> QED BY <1>2, <1>5, <1>7, LastReads DEF s
<1> QED BY <1>2, <1>4, <1>5, <1>8 DEF c

\* After its last turn a loop keeps its value.
LEMMA LoopStays ==
  ASSUME NEW in, NEW at, NEW f, ChunkLoop(f, in, at), NEW k \in 0 .. MaxChunkCount, f[k].verdict # "chunk"
  PROVE  f[MaxChunkCount] = f[k]
<1> DEFINE M == MaxChunkCount - k
           T == {n \in 0 .. M : f[k + n] = f[k]}
<1>1. MaxChunkCount \in Nat /\ k \in Nat /\ M \in Nat /\ k + 0 = k /\ k + M = MaxChunkCount
  BY LimitsAssumption
<1>2. 0 \in T
  BY <1>1
<1>3. ASSUME NEW n \in 0 .. M - 1, n \in T PROVE n + 1 \in T
  <2>1. k + (n + 1) \in 1 .. MaxChunkCount /\ (k + (n + 1)) - 1 = k + n /\ n + 1 \in 0 .. M
    BY <1>1
  <2>2. f[k + (n + 1)] = ChunkTurn(in, f[k + n])
    BY <2>1 DEF ChunkLoop
  <2> QED BY <1>3, <2>1, <2>2 DEF ChunkTurn
<1>4. 0 .. M \subseteq T
  <2> HIDE DEF T, M
  <2> QED BY <1>1, <1>2, <1>3, Induct
<1>5. M \in 0 .. M
  BY <1>1
<1> QED BY <1>1, <1>4, <1>5

\* The last chunk ends the body.
LEMMA LastTurn ==
  ASSUME NEW in, NEW at, NEW f, ChunkLoop(f, in, at), NEW k \in 0 .. MaxChunkCount - 1,
         NEW a \in Seq(Symbols), NEW line \in Symbols, NEW t \in Seq(Fields), NEW rest \in Seq(Symbols),
         Stands(in, a, line, t, rest),
         SizeOf(line) = 0, Len(t) <= MaxTrailerFields, validateTrailers(t), NEW b \in Seq(Symbols),
         f[k] = ChunksRead(b, Len(a) + 1)
  PROVE  f[MaxChunkCount] = Body(b, t, Len(a) + Len(t) + 3)
<1> DEFINE x == Body(b, t, Len(a) + Len(t) + 3)
<1>0. MaxChunkCount \in Nat
  BY LimitsAssumption
<1>1. k + 1 \in 1 .. MaxChunkCount /\ (k + 1) - 1 = k /\ k + 1 \in 0 .. MaxChunkCount
  BY <1>0
<1>2. f[k + 1] = ChunkTurn(in, f[k])
  BY <1>1 DEF ChunkLoop
<1>3. readChunk(in, f[k]) = x
  <2>1. readChunk(in, ChunksRead(b, Len(a) + 1)) = Body(b, t, Len(a) + Len(t) + 3)
    BY LastFits
  <2> QED BY <2>1
<1>4. f[k + 1] = x
  BY <1>2, <1>3 DEF ChunkTurn, ChunksRead
<1>5. x.verdict # "chunk"
  BY DEF Body
<1> HIDE DEF x
<1>6. f[MaxChunkCount] = x
  BY <1>1, <1>4, <1>5, LoopStays
<1> QED BY <1>6 DEF x

\* The turn after k adds p to b.
Adds(f, k, b, p, next) == f[k + 1] = ChunksRead(b \o p, next)

\* One chunk more.
LEMMA NextTurn ==
  ASSUME NEW in, NEW at, NEW f, ChunkLoop(f, in, at), NEW k \in 0 .. MaxChunkCount - 1,
         NEW a \in Seq(Symbols), NEW line \in Symbols, NEW p \in Seq(Symbols), NEW rest \in Seq(Symbols),
         Stands(in, a, line, p, rest),
         SizeOf(line) = Len(p), Len(p) > 0,
         NEW b \in Seq(Symbols), Len(b) + Len(p) <= MaxBodyBytes, f[k] = ChunksRead(b, Len(a) + 1)
  PROVE  Adds(f, k, b, p, Len(a) + Len(p) + 3)
<1>1. k + 1 \in 1 .. MaxChunkCount /\ (k + 1) - 1 = k
  BY LimitsAssumption
<1>2. f[k + 1] = ChunkTurn(in, f[k])
  BY <1>1 DEF ChunkLoop
<1>3. readChunk(in, f[k]) = ChunksRead(b \o p, Len(a) + Len(p) + 3)
  <2>1. readChunk(in, ChunksRead(b, Len(a) + 1)) = ChunksRead(b \o p, Len(a) + Len(p) + 3)
    BY ChunkFits
  <2> QED BY <2>1
<1> QED BY <1>2, <1>3 DEF Adds, ChunkTurn, ChunksRead

\* f is the values of FlattenSeq.
FlatLoop(f, s) ==
  /\ f[0] = <<>> /\ \A n \in 0 .. Len(s) : f[n] \in Seq(Symbols)
  /\ \A n \in 1 .. Len(s) : f[n] = f[n - 1] \o s[n]

\* The turns of FlattenSeq.
LEMMA FlatTurns ==
  ASSUME NEW s \in Seq(Seq(Symbols))
  PROVE  \E f : FlatLoop(f, s) /\ FlattenSeq(s) = f[Len(s)]
<1> DEFINE M == Len(s)
           V == Seq(Symbols)
           e == <<>>
           flatten[i \in 1 .. M] == IF i = 1 THEN s[i] ELSE flatten[i - 1] \o s[i]
           step == [n \in 1 .. M |-> [v \in V |-> v \o s[n]]]
<1>1. M \in Nat /\ e \in V /\ \A n \in 1 .. M : s[n] \in V
  OBVIOUS
<1>2. \A v \in V, w \in V : v \o w \in V /\ e \o w = w
  OBVIOUS
<1>3. FlattenSeq(s) = IF M = 0 THEN s ELSE flatten[M]
  BY DEF FlattenSeq
<1>4. M = 0 => s = e
  OBVIOUS
<1> HIDE DEF M, V, e
<1>5. step \in [1 .. M -> [V -> V]]
  BY <1>1, <1>2
<1>6. PICK f : Loop(f, V, M, e, step)
  <2> HIDE DEF step
  <2> QED BY <1>1, <1>5, Iterates
<1>7. /\ f[0] = e /\ \A n \in 0 .. M : f[n] \in V
      /\ \A n \in 1 .. M : f[n] = f[n - 1] \o s[n]
  <2>1. f \in [0 .. M -> V] /\ f[0] = e /\ \A n \in 1 .. M : f[n] = step[n][f[n - 1]]
    BY <1>6 DEF Loop
  <2>2. ASSUME NEW n \in 1 .. M PROVE f[n] = f[n - 1] \o s[n]
    <3>1. n - 1 \in 0 .. M
      BY <1>1
    <3>2. f[n - 1] \in V
      BY <2>1, <3>1
    <3> QED BY <2>1, <3>2
  <2> QED BY <2>1, <2>2
<1> HIDE DEF step
<1> DEFINE g == [i \in 1 .. M |-> f[i]]
<1>8. g = [i \in 1 .. M |-> IF i = 1 THEN s[i] ELSE g[i - 1] \o s[i]]
  <2>1. ASSUME NEW i \in 1 .. M PROVE f[i] = IF i = 1 THEN s[i] ELSE g[i - 1] \o s[i]
    <3>1. CASE i = 1
      <4>1. f[i] = f[i - 1] \o s[i] /\ s[i] \in V
        BY <1>1, <1>7
      <4>2. i - 1 = 0
        BY <3>1
      <4>3. f[i] = s[i]
        BY <1>2, <1>7, <4>1, <4>2
      <4> QED BY <3>1, <4>3
    <3>2. CASE i # 1
      <4>1. i - 1 \in 1 .. M
        BY <1>1, <3>2
      <4> QED BY <1>7, <3>2, <4>1
    <3> QED BY <3>1, <3>2
  <2> QED BY <2>1
<1>9. flatten = [i \in 1 .. M |-> IF i = 1 THEN s[i] ELSE flatten[i - 1] \o s[i]]
  <2> HIDE DEF g
  <2> QED BY <1>8
<1> HIDE DEF flatten, g
<1> DEFINE T == {n \in 0 .. M : n > 0 => flatten[n] = f[n]}
<1>10. 0 .. M \subseteq T
  <2>1. 0 \in T
    BY <1>1
  <2>2. ASSUME NEW n \in 0 .. M - 1, n \in T PROVE n + 1 \in T
    <3>1. n + 1 \in 1 .. M /\ (n + 1) - 1 = n /\ n + 1 \in 0 .. M
      BY <1>1
    <3>2. flatten[n + 1] = IF n + 1 = 1 THEN s[n + 1] ELSE flatten[n] \o s[n + 1]
      BY <1>9, <3>1
    <3>3. f[n + 1] = f[n] \o s[n + 1]
      BY <1>7, <3>1
    <3>4. CASE n = 0
      <4>1. f[n + 1] = s[n + 1]
        BY <1>1, <1>2, <1>7, <3>1, <3>3, <3>4
      <4> QED BY <3>1, <3>2, <3>4, <4>1
    <3>5. CASE n # 0
      <4>1. n > 0 /\ n + 1 # 1
        BY <3>5
      <4> QED BY <2>2, <3>1, <3>2, <3>3, <4>1
    <3> QED BY <3>4, <3>5
  <2> HIDE DEF T
  <2> QED BY <1>1, <2>1, <2>2, Induct
<1>11. FlattenSeq(s) = f[M]
  <2>1. CASE M = 0
    BY <1>3, <1>4, <1>7, <2>1
  <2>2. CASE M # 0
    <3>1. M \in 0 .. M /\ M > 0
      BY <1>1, <2>2
    <3> QED BY <1>3, <1>10, <2>2, <3>1
  <2> QED BY <2>1, <2>2
<1>12. FlatLoop(f, s)
  BY <1>7 DEF FlatLoop, M, V, e
<1> QED BY <1>11, <1>12 DEF M

\* FlattenSeq of one sequence more.
LEMMA FlatMore ==
  ASSUME NEW s \in Seq(Seq(Symbols)), NEW x \in Seq(Symbols)
  PROVE  FlattenSeq(s) \in Seq(Symbols) /\ FlattenSeq(s \o <<x>>) = FlattenSeq(s) \o x
<1> DEFINE c == s \o <<x>>
           M == Len(s)
<1>1. /\ c \in Seq(Seq(Symbols)) /\ Len(c) = M + 1 /\ M \in Nat /\ c[M + 1] = x
      /\ \A n \in 1 .. M : c[n] = s[n]
  OBVIOUS
<1> HIDE DEF c
<1>2. PICK f : FlatLoop(f, s) /\ FlattenSeq(s) = f[Len(s)]
  BY FlatTurns
<1>3. PICK h : FlatLoop(h, c) /\ FlattenSeq(c) = h[Len(c)]
  BY <1>1, FlatTurns
<1>4. f[0] = <<>> /\ (\A n \in 0 .. M : f[n] \in Seq(Symbols)) /\ \A n \in 1 .. M : f[n] = f[n - 1] \o s[n]
  BY <1>2 DEF FlatLoop
<1>5. h[0] = <<>> /\ \A n \in 1 .. M + 1 : h[n] = h[n - 1] \o c[n]
  BY <1>1, <1>3 DEF FlatLoop
<1>6. FlattenSeq(s) = f[M] /\ FlattenSeq(c) = h[M + 1]
  BY <1>1, <1>2, <1>3
<1> HIDE DEF M
<1> DEFINE T == {n \in 0 .. M : h[n] = f[n]}
<1>7. 0 .. M \subseteq T
  <2>1. 0 \in T
    BY <1>1, <1>4, <1>5
  <2>2. ASSUME NEW n \in 0 .. M - 1, n \in T PROVE n + 1 \in T
    <3>1. n + 1 \in 1 .. M /\ n + 1 \in 0 .. M /\ n + 1 \in 1 .. M + 1 /\ (n + 1) - 1 = n
      BY <1>1
    <3>2. h[n + 1] = h[n] \o c[n + 1] /\ c[n + 1] = s[n + 1]
      BY <1>1, <1>5, <3>1
    <3>3. f[n + 1] = f[n] \o s[n + 1]
      BY <1>4, <3>1
    <3> QED BY <2>2, <3>1, <3>2, <3>3
  <2> HIDE DEF T
  <2> QED BY <1>1, <2>1, <2>2, Induct
<1>8. M + 1 \in 1 .. M + 1 /\ (M + 1) - 1 = M /\ M \in 0 .. M
  BY <1>1
<1>9. h[M + 1] = h[M] \o x /\ h[M] = f[M] /\ f[M] \in Seq(Symbols)
  BY <1>1, <1>4, <1>5, <1>7, <1>8
<1> QED BY <1>6, <1>9 DEF c

\* FlattenSeq of nothing.
LEMMA FlatNone == FlattenSeq(<<>>) = <<>>
BY DEF FlattenSeq

\* A chunk as peers write it.
ChunkOf(p) == <<SizeLine(<<0>> \o Numeral[Len(p)])>> \o p \o <<EmptyLine>>

\* The size line of a peer's chunk.
LEMMA ChunkOfIs ==
  ASSUME NEW p \in Seq(Symbols)
  PROVE  /\ ChunkOf(p) \in Seq(Symbols)
         /\ SizeLine(<<0>> \o Numeral[Len(p)]) \in Symbols
         /\ Len(p) <= MaxBodyBytes => SizeOf(SizeLine(<<0>> \o Numeral[Len(p)])) = Len(p)
<1> DEFINE n == Len(p)
           d == <<0>> \o Numeral[n]
           line == SizeLine(d)
<1>1. n \in Nat
  OBVIOUS
<1> HIDE DEF n
<1>2. Numeral[n] \in Seq(Nat)
  BY <1>1, NumeralIs
<1>3. d \in Seq(Nat)
  <2> DEFINE z == <<0>>
             m == Numeral[n]
  <2>1. z \in Seq(Nat) /\ m \in Seq(Nat)
    BY <1>2
  <2> HIDE DEF z, m
  <2>2. z \o m \in Seq(Nat)
    BY <2>1
  <2> QED BY <2>2 DEF z, m
<1> HIDE DEF d
<1>4. line \in Symbols /\ line.kind = "size" /\ line.digits = d
  BY <1>3, SymbolKinds
<1>5. ASSUME n <= MaxBodyBytes PROVE SizeOf(line) = n
  <2>1. n \in 0 .. MaxUint
    BY <1>1, <1>5, LimitsAssumption
  <2>2. parseChunkSizeLine(d) = n
    BY <1>2, <2>1, LeadingZero, NumeralValue DEF d
  <2> QED BY <1>4, <2>2 DEF SizeOf
<1>6. EmptyLine \in Symbols
  BY SymbolKinds
<1> HIDE DEF line
<1>7. <<line>> \o p \o <<EmptyLine>> \in Seq(Symbols)
  BY <1>4, <1>6
<1> QED BY <1>4, <1>5, <1>7 DEF ChunkOf, n, d, line

\* One chunk more.
LEMMA SplitMore ==
  ASSUME NEW s \in Seq(Seq(Symbols)), NEW p \in Seq(Symbols)
  PROVE  Chunks(s) \in Seq(Symbols) /\ Chunks(s \o <<p>>) = Chunks(s) \o ChunkOf(p)
<1> DEFINE Map(z) == [i \in DOMAIN z |-> ChunkOf(z[i])]
           c == s \o <<p>>
<1>1. \A z : Chunks(z) = FlattenSeq(Map(z))
  BY DEF Chunks, ChunkOf
<1>2. \A q \in Seq(Symbols) : ChunkOf(q) \in Seq(Symbols)
  BY ChunkOfIs
<1>3. /\ c \in Seq(Seq(Symbols)) /\ Len(c) = Len(s) + 1 /\ c[Len(s) + 1] = p
      /\ \A n \in 1 .. Len(s) : c[n] = s[n] /\ s[n] \in Seq(Symbols)
      /\ DOMAIN c = 1 .. Len(s) + 1 /\ DOMAIN s = 1 .. Len(s) /\ Len(s) \in Nat
  OBVIOUS
<1> HIDE DEF c
<1>4. Map(s) \in Seq(Seq(Symbols)) /\ Len(Map(s)) = Len(s)
  BY <1>2, <1>3
<1>5. Map(c) = Map(s) \o <<ChunkOf(p)>>
  <2> DEFINE k == ChunkOf(p)
             S == Seq(Symbols)
             u == Map(s)
             v == Map(c)
  <2>1. k \in S /\ u \in Seq(S) /\ Len(u) = Len(s)
    BY <1>2, <1>4
  <2>2. /\ v = [i \in 1 .. Len(s) + 1 |-> ChunkOf(c[i])]
        /\ \A i \in 1 .. Len(s) : v[i] = u[i]
        /\ v[Len(s) + 1] = k
    BY <1>3
  <2> HIDE DEF k, S, u
  <2>3. DOMAIN (u \o <<k>>) = 1 .. Len(s) + 1 /\ u \o <<k>> = [i \in 1 .. Len(s) + 1 |-> (u \o <<k>>)[i]]
    BY <1>3, <2>1
  <2>4. ASSUME NEW i \in 1 .. Len(s) + 1 PROVE ChunkOf(c[i]) = (u \o <<k>>)[i]
    <3> HIDE DEF v
    <3>1. v[i] = ChunkOf(c[i])
      BY <2>2
    <3>2. CASE i = Len(s) + 1
      BY <1>3, <2>1, <2>2, <3>1, <3>2
    <3>3. CASE i # Len(s) + 1
      <4>1. i \in 1 .. Len(s)
        BY <1>3, <3>3
      <4>2. (u \o <<k>>)[i] = u[i]
        BY <1>3, <2>1, <4>1
      <4> QED BY <2>2, <3>1, <4>1, <4>2
    <3> QED BY <3>2, <3>3
  <2> HIDE DEF v
  <2>5. v = u \o <<k>>
    BY <2>2, <2>3, <2>4
  <2> QED BY <2>5 DEF k, u, v
<1> HIDE DEF Map
<1>6. FlattenSeq(Map(s) \o <<ChunkOf(p)>>) = FlattenSeq(Map(s)) \o ChunkOf(p) /\ FlattenSeq(Map(s)) \in Seq(Symbols)
  BY <1>2, <1>4, FlatMore
<1> QED BY <1>1, <1>5, <1>6 DEF c

\* Concatenation can be regrouped.
Regrouped(a, b, c, d) ==
  a \o (b \o c) \o d = a \o b \o (c \o d) /\ a \o (b \o c) \o d = (a \o b) \o c \o d

\* Sequences of symbols can be regrouped.
LEMMA Regroup ==
  ASSUME NEW S, NEW a \in Seq(S), NEW b \in Seq(S), NEW c \in Seq(S), NEW d \in Seq(S)
  PROVE  Regrouped(a, b, c, d)
<1> DEFINE ab == a \o b
           bc == b \o c
<1>1. ab \in Seq(S) /\ bc \in Seq(S) /\ a \o bc = ab \o c
  OBVIOUS
<1> HIDE DEF ab, bc
<1>2. (ab \o c) \o d = ab \o (c \o d)
  BY <1>1, SMTT(20)
<1>3. (a \o bc) \o d = ab \o (c \o d) /\ (a \o bc) \o d = (ab \o c) \o d
  BY <1>1, <1>2
<1> QED BY <1>3 DEF ab, bc, Regrouped

\* A chunk has at least one byte.
Pieces == Seq(Symbols) \ {<<>>}

\* However it is split, a body is read after the turns for its chunks.
SplitRead(split) ==
  \A in, at, f : \A pre \in Seq(Symbols), rest \in Seq(Symbols) :
    /\ in.symbols = pre \o Chunks(split) \o rest /\ at = Len(pre) + 1 /\ ChunkLoop(f, in, at)
    /\ Len(split) <= MaxChunkCount /\ Len(FlattenSeq(split)) <= MaxBodyBytes
    => f[Len(split)] = ChunksRead(FlattenSeq(split), Len(pre) + Len(Chunks(split)) + 1)

\* Sequences of pieces.
LEMMA PiecesAre ==
  ASSUME NEW s \in Seq(Pieces), NEW p \in Pieces
  PROVE  /\ s \in Seq(Seq(Symbols)) /\ p \in Seq(Symbols) /\ Len(p) > 0
         /\ s \o <<p>> \in Seq(Pieces) /\ Len(s \o <<p>>) = Len(s) + 1 /\ Len(s) \in Nat
<1>1. Pieces \subseteq Seq(Symbols) /\ Len(p) > 0
  BY DEF Pieces
<1> QED BY <1>1

\* By induction, a body in any number of chunks is read to its end.
THEOREM SplitReads == \A split \in Seq(Pieces) : SplitRead(split)
<1> DEFINE T == {split \in Seq(Pieces) : SplitRead(split)}
           e == <<>>
<1>1. e \in T
  <2>1. Chunks(e) = <<>> /\ FlattenSeq(e) = <<>> /\ Len(e) = 0 /\ e \in Seq(Pieces)
    BY FlatNone DEF Chunks
  <2> HIDE DEF e
  <2>2. ASSUME NEW in, NEW at, NEW f, NEW pre \in Seq(Symbols), at = Len(pre) + 1, ChunkLoop(f, in, at)
        PROVE  f[0] = ChunksRead(<<>>, Len(pre) + 0 + 1)
    <3>1. Len(pre) + 0 + 1 = Len(pre) + 1
      OBVIOUS
    <3> QED BY <2>2, <3>1 DEF ChunkLoop
  <2>3. Len(<<>>) = 0
    OBVIOUS
  <2>4. SplitRead(e)
    BY <2>1, <2>2, <2>3 DEF SplitRead
  <2> QED BY <2>1, <2>4
<1>2. ASSUME NEW s \in Seq(Pieces), NEW p \in Pieces, s \in T PROVE s \o <<p>> \in T
  <2> DEFINE c == s \o <<p>>
             line == SizeLine(<<0>> \o Numeral[Len(p)])
             flat == FlattenSeq(s)
             text == Chunks(s)
  <2>0. /\ s \in Seq(Seq(Symbols)) /\ p \in Seq(Symbols) /\ Len(p) > 0
        /\ c \in Seq(Pieces) /\ Len(c) = Len(s) + 1 /\ Len(s) \in Nat
    BY PiecesAre
  <2>1. text \in Seq(Symbols) /\ Chunks(c) = text \o ChunkOf(p)
    BY <2>0, SplitMore
  <2>2. flat \in Seq(Symbols) /\ FlattenSeq(c) = flat \o p
    BY <2>0, FlatMore
  <2>3. SplitRead(s)
    BY <1>2
  <2> HIDE DEF T, c, flat, text
  <2> SUFFICES SplitRead(c)
    BY <2>0 DEF T, c
  <2> SUFFICES ASSUME NEW in, NEW at, NEW f, NEW pre \in Seq(Symbols), NEW rest \in Seq(Symbols),
                      in.symbols = pre \o Chunks(c) \o rest, at = Len(pre) + 1, ChunkLoop(f, in, at),
                      Len(c) <= MaxChunkCount, Len(FlattenSeq(c)) <= MaxBodyBytes
               PROVE  f[Len(c)] = ChunksRead(FlattenSeq(c), Len(pre) + Len(Chunks(c)) + 1)
    BY DEF SplitRead
  <2>4. ChunkOf(p) \in Seq(Symbols) /\ line \in Symbols
    BY <2>0, ChunkOfIs
  <2>5. Len(flat \o p) = Len(flat) + Len(p) /\ Len(flat) \in Nat /\ Len(p) \in Nat /\ MaxBodyBytes \in Nat
    BY <2>0, <2>2, LimitsAssumption
  <2>6. /\ Len(flat) + Len(p) <= MaxBodyBytes /\ Len(flat) <= MaxBodyBytes /\ Len(p) <= MaxBodyBytes
        /\ Len(s) <= MaxChunkCount /\ Len(s) \in 0 .. MaxChunkCount - 1
    BY <2>0, <2>2, <2>5, LimitsAssumption, SMTT(20)
  <2>7. SizeOf(line) = Len(p)
    BY <2>0, <2>6, ChunkOfIs
  <2>8. ChunkOf(p) = <<line>> \o p \o <<EmptyLine>>
    BY DEF ChunkOf
  <2> HIDE DEF line
  <2>9. f[Len(s)] = ChunksRead(flat, Len(pre) + Len(text) + 1)
    <3> DEFINE more == ChunkOf(p) \o rest
    <3>1. more \in Seq(Symbols) /\ Regrouped(pre, text, ChunkOf(p), rest)
      BY <2>1, <2>4, Regroup
    <3>2. in.symbols = pre \o text \o more
      BY <2>1, <3>1 DEF Regrouped
    <3> HIDE DEF more
    <3> QED BY <2>3, <2>6, <3>1, <3>2 DEF SplitRead, text, flat
  <2> DEFINE a == pre \o text
  <2>10. a \in Seq(Symbols) /\ Len(a) = Len(pre) + Len(text) /\ Len(a) \in Nat /\ Len(pre) \in Nat
           /\ Len(text) \in Nat
    BY <2>1
  <2>11. Stands(in, a, line, p, rest)
    <3>0. Regrouped(pre, text, ChunkOf(p), rest)
      BY <2>1, <2>4, Regroup
    <3>1. in.symbols = a \o ChunkOf(p) \o rest
      BY <2>1, <3>0 DEF Regrouped
    <3> HIDE DEF a
    <3> QED BY <2>8, <3>1 DEF Stands
  <2> HIDE DEF a
  <2>12. f[Len(s)] = ChunksRead(flat, Len(a) + 1)
    BY <2>9, <2>10
  <2>13. f[Len(s) + 1] = ChunksRead(flat \o p, Len(a) + Len(p) + 3)
    <3> DEFINE k == Len(s)
    <3>1. k \in 0 .. MaxChunkCount - 1 /\ f[k] = ChunksRead(flat, Len(a) + 1)
      BY <2>6, <2>12
    <3> HIDE DEF k
    <3>2. Adds(f, k, flat, p, Len(a) + Len(p) + 3)
      BY <2>0, <2>2, <2>4, <2>6, <2>7, <2>10, <2>11, <3>1, NextTurn
    <3> QED BY <3>2 DEF Adds, k
  <2>14. EmptyLine \in Symbols
    BY SymbolKinds
  <2>15. Len(<<line>> \o p \o <<EmptyLine>>) = Len(p) + 2
    BY <2>0, <2>4, <2>14
  <2>16. Len(Chunks(c)) = Len(text) + Len(p) + 2
    BY <2>1, <2>4, <2>5, <2>8, <2>10, <2>15
  <2>17. Len(a) + Len(p) + 3 = Len(pre) + Len(Chunks(c)) + 1
    BY <2>5, <2>10, <2>16
  <2> QED BY <2>0, <2>2, <2>13, <2>17
<1>3. Seq(Pieces) \subseteq T
  <2> HIDE DEF T
  <2> QED BY <1>1, <1>2, SeqInduct
<1> QED BY <1>3

\* The bytes of a body one by one.
Singles(body) == [i \in DOMAIN body |-> <<body[i]>>]

\* They are pieces, as many as the body has bytes, and make up the body.
LEMMA SinglesAre ==
  ASSUME NEW body \in Seq(Symbols)
  PROVE  Singles(body) \in Seq(Pieces) /\ Len(Singles(body)) = Len(body) /\ FlattenSeq(Singles(body)) = body
<1> DEFINE T == {b \in Seq(Symbols) : FlattenSeq(Singles(b)) = b}
           e == <<>>
<1>1. ASSUME NEW b \in Seq(Symbols) PROVE Singles(b) \in Seq(Pieces) /\ Len(Singles(b)) = Len(b)
  <2>1. ASSUME NEW i \in DOMAIN b PROVE <<b[i]>> \in Pieces
    BY DEF Pieces
  <2> QED BY <2>1 DEF Singles
<1>2. e \in T
  BY FlatNone DEF Singles
<1>3. ASSUME NEW b \in Seq(Symbols), NEW x \in Symbols, b \in T PROVE b \o <<x>> \in T
  <2> DEFINE c == b \o <<x>>
             k == <<x>>
             u == Singles(b)
             v == Singles(c)
  <2>1. /\ c \in Seq(Symbols) /\ Len(c) = Len(b) + 1 /\ c[Len(b) + 1] = x /\ Len(b) \in Nat
        /\ \A n \in 1 .. Len(b) : c[n] = b[n]
        /\ DOMAIN c = 1 .. Len(b) + 1 /\ DOMAIN b = 1 .. Len(b) /\ k \in Seq(Symbols)
    OBVIOUS
  <2>2. u \in Seq(Seq(Symbols)) /\ Len(u) = Len(b)
    <3>1. Pieces \subseteq Seq(Symbols)
      BY DEF Pieces
    <3>2. u \in Seq(Pieces) /\ Len(u) = Len(b)
      BY <1>1
    <3> HIDE DEF u
    <3> QED BY <3>1, <3>2
  <2> HIDE DEF c
  <2>3. /\ v = [i \in 1 .. Len(b) + 1 |-> <<c[i]>>]
        /\ \A i \in 1 .. Len(b) : v[i] = u[i]
        /\ v[Len(b) + 1] = k
    BY <2>1 DEF Singles
  <2> HIDE DEF k, u
  <2>4. DOMAIN (u \o <<k>>) = 1 .. Len(b) + 1 /\ u \o <<k>> = [i \in 1 .. Len(b) + 1 |-> (u \o <<k>>)[i]]
    BY <2>1, <2>2
  <2>5. ASSUME NEW i \in 1 .. Len(b) + 1 PROVE v[i] = (u \o <<k>>)[i]
    <3> HIDE DEF v
    <3>1. CASE i = Len(b) + 1
      <4>1. (u \o <<k>>)[Len(u) + 1] = k
        BY <2>1, <2>2
      <4> QED BY <2>2, <2>3, <3>1, <4>1
    <3>2. CASE i # Len(b) + 1
      <4>1. i \in 1 .. Len(b)
        BY <2>1, <3>2
      <4>2. (u \o <<k>>)[i] = u[i]
        BY <2>1, <2>2, <4>1
      <4> QED BY <2>3, <4>1, <4>2
    <3> QED BY <3>1, <3>2
  <2>6. v = u \o <<k>>
    <3>1. v = [i \in 1 .. Len(b) + 1 |-> v[i]]
      BY <2>3
    <3> HIDE DEF v
    <3> QED BY <2>4, <2>5, <3>1
  <2>7. FlattenSeq(v) = FlattenSeq(u) \o k
    <3> HIDE DEF v
    <3> QED BY <2>1, <2>2, <2>6, FlatMore
  <2>8. FlattenSeq(u) = b
    BY <1>3 DEF u
  <2>9. FlattenSeq(Singles(c)) = c
    BY <2>7, <2>8 DEF v, k, c
  <2> QED BY <2>1, <2>9 DEF c
<1>4. Seq(Symbols) \subseteq T
  <2> HIDE DEF T
  <2> QED BY <1>2, <1>3, SeqInduct
<1> QED BY <1>1, <1>4

\* With this framing, text is read as a body with trailers, wherever it stands.
Frames(framing, text, body, t) ==
  /\ text \in Seq(Symbols)
  /\ \A in : \A pre \in Seq(Symbols), rest \in Seq(Symbols) :
       in.symbols = pre \o text \o rest =>
         readBody(in, Len(pre) + 1, framing) = Body(body, t, Len(pre) + Len(text) + 1)

\* No body.
LEMMA FramesNone == ASSUME NEW g, g.mode = "none" PROVE Frames(g, <<>>, <<>>, <<>>)
<1>1. <<>> \in Seq(Symbols) /\ Len(<<>>) = 0
  OBVIOUS
<1>2. ASSUME NEW in, NEW pre \in Seq(Symbols)
      PROVE  readBody(in, Len(pre) + 1, g) = Body(<<>>, <<>>, Len(pre) + 0 + 1)
  <2>1. Len(pre) + 0 + 1 = Len(pre) + 1
    OBVIOUS
  <2> QED BY <2>1 DEF readBody
<1> QED BY <1>1, <1>2 DEF Frames

\* A body of a known length.
LEMMA FramesFixed ==
  ASSUME NEW g, NEW body \in Seq(Symbols), g.mode = "fixed", g.length = Len(body)
  PROVE  Frames(g, body, body, <<>>)
<1> SUFFICES ASSUME NEW in, NEW pre \in Seq(Symbols), NEW rest \in Seq(Symbols),
                    in.symbols = pre \o body \o rest
             PROVE  readBody(in, Len(pre) + 1, g) = Body(body, <<>>, Len(pre) + Len(body) + 1)
  BY DEF Frames
<1> DEFINE at == Len(pre) + 1
           s == in.symbols
<1>1. readBody(in, at, g) = readFixedBody(in, at, Len(body))
  BY DEF readBody
<1>2. /\ s \in Seq(Symbols) /\ Len(s) = Len(pre) + Len(body) + Len(rest)
      /\ SubSeq(s, Len(pre) + 1, Len(pre) + Len(body)) = body
      /\ Len(pre) \in Nat /\ Len(body) \in Nat /\ Len(rest) \in Nat
  OBVIOUS
<1> HIDE DEF s
<1>3. /\ ~ (at + Len(body) - 1 > Len(s)) /\ at + Len(body) - 1 = Len(pre) + Len(body)
      /\ at + Len(body) = Len(pre) + Len(body) + 1 /\ at \in Nat \ {0}
  BY <1>2
<1> HIDE DEF at
<1>4. readFixedBody(in, at, Len(body)) = Body(SubSeq(s, at, at + Len(body) - 1), <<>>, at + Len(body))
  BY <1>2, <1>3, FixedReads DEF s
<1> QED BY <1>1, <1>2, <1>3, <1>4 DEF at

\* The line of the last chunk.
LEMMA ZeroLine == SizeLine(<<0>>) \in Symbols /\ SizeOf(SizeLine(<<0>>)) = 0
<1> DEFINE d == <<0>>
           e == <<>>
<1>1. d \in Seq(Nat) /\ e \in Seq(Nat) /\ d \o e = d
  OBVIOUS
<1>2. parseChunkSizeLine(d \o e) = ValueOf(e)
  BY <1>1, LeadingZero
<1>3. parseChunkSizeLine(d) = 0
  <2> HIDE DEF d
  <2> QED BY <1>1, <1>2 DEF ValueOf
<1> HIDE DEF d
<1>4. SizeLine(d) \in Symbols /\ SizeLine(d).kind = "size" /\ SizeLine(d).digits = d
  BY <1>1, SymbolKinds
<1>5. SizeLine(d) \in Symbols /\ SizeOf(SizeLine(d)) = 0
  BY <1>3, <1>4 DEF SizeOf
<1> QED BY <1>5 DEF d

\* The size line of the chunk that ends a body.
ZeroSize == SizeLine(<<0>>)

\* What ends a body in chunks.
LastChunk(t) == <<ZeroSize>> \o t \o <<EmptyLine>>

\* A loop that is where the last chunk stands reads the whole body.
LEMMA LastChunkReads ==
  ASSUME NEW g, g.mode = "chunked", NEW in, NEW at,
         NEW f, Runs(f, in, at), NEW k \in 0 .. MaxChunkCount - 1,
         NEW a \in Seq(Symbols), NEW t \in Seq(Fields), NEW rest \in Seq(Symbols),
         Stands(in, a, ZeroSize, t, rest),
         Len(t) <= MaxTrailerFields, validateTrailers(t), NEW b \in Seq(Symbols),
         f[k] = ChunksRead(b, Len(a) + 1)
  PROVE  readBody(in, at, g) = Body(b, t, Len(a) + Len(t) + 3)
<1>1. readBody(in, at, g) = readChunkedBody(in, at)
  BY DEF readBody
<1> DEFINE line == ZeroSize
           x == Body(b, t, Len(a) + Len(t) + 3)
<1>2. line \in Symbols /\ SizeOf(line) = 0 /\ Stands(in, a, line, t, rest)
  BY ZeroLine DEF ZeroSize
<1> HIDE DEF line
<1>3. f[MaxChunkCount] = Body(b, t, Len(a) + Len(t) + 3)
  <2>1. ChunkLoop(f, in, at)
    BY DEF Runs
  <2> QED BY <1>2, <2>1, LastTurn
<1>4. x.verdict = "read"
  BY DEF Body
<1> HIDE DEF x
<1>5. f[MaxChunkCount] = x
  BY <1>3 DEF x
<1> QED BY <1>1, <1>4, <1>5 DEF Runs, x

\* What ends a body in chunks is symbols.
LEMMA LastChunkIs ==
  ASSUME NEW t \in Seq(Fields)
  PROVE  LastChunk(t) \in Seq(Symbols) /\ Len(LastChunk(t)) = Len(t) + 2 /\ t \in Seq(Symbols)
<1> DEFINE line == ZeroSize
<1>1. line \in Symbols /\ EmptyLine \in Symbols /\ Fields \subseteq Symbols
  BY ZeroLine, SymbolKinds DEF Symbols, ZeroSize
<1>2. t \in Seq(Symbols)
  BY <1>1
<1> HIDE DEF line
<1>3. <<line>> \o t \o <<EmptyLine>> \in Seq(Symbols) /\ Len(<<line>> \o t \o <<EmptyLine>>) = Len(t) + 2
  BY <1>1, <1>2
<1> QED BY <1>2, <1>3 DEF LastChunk, line

\* After k turns that begin with these chunks, a loop has read body.
ChunksTurn(chunks, body, k) ==
  \A in, at, f : \A pre \in Seq(Symbols), rest \in Seq(Symbols) :
    in.symbols = pre \o chunks \o rest /\ at = Len(pre) + 1 /\ ChunkLoop(f, in, at)
    => f[k] = ChunksRead(body, Len(pre) + Len(chunks) + 1)

\* Chunks with the last one.
InChunks(chunks, t) == chunks \o LastChunk(t)

\* Chunks that a loop has read, and the last one.
LEMMA FramesChunks ==
  ASSUME NEW g, g.mode = "chunked", NEW chunks \in Seq(Symbols), NEW body \in Seq(Symbols),
         NEW t \in Seq(Fields), Len(t) <= MaxTrailerFields, validateTrailers(t),
         NEW k \in 0 .. MaxChunkCount - 1,
         ChunksTurn(chunks, body, k)
  PROVE  Frames(g, InChunks(chunks, t), body, t)
<1> DEFINE last == LastChunk(t)
           text == chunks \o last
<1>1. last \in Seq(Symbols) /\ text \in Seq(Symbols) /\ Len(text) = Len(chunks) + Len(t) + 2 /\ Len(t) \in Nat
  <2>1. last \in Seq(Symbols) /\ Len(last) = Len(t) + 2 /\ Len(t) \in Nat
    BY LastChunkIs
  <2> HIDE DEF last
  <2>2. chunks \o last \in Seq(Symbols)
    BY <2>1
  <2>3. Len(chunks \o last) = Len(chunks) + Len(last)
    <3>1. last \in Seq(Symbols)
      BY <2>1
    <3> QED BY <3>1
  <2>4. Len(chunks) \in Nat
    OBVIOUS
  <2> DEFINE m == Len(chunks)
             n == Len(last)
             l == Len(t)
  <2>5. Len(text) = m + n /\ m \in Nat /\ n = l + 2 /\ l \in Nat
    BY <2>1, <2>3, <2>4
  <2> HIDE DEF text, m, n, l
  <2>6. Len(text) = m + l + 2
    BY <2>5
  <2> QED BY <2>2, <2>5, <2>6 DEF text, m, l
<1> HIDE DEF last
<1> SUFFICES ASSUME NEW in, NEW pre \in Seq(Symbols), NEW rest \in Seq(Symbols), in.symbols = pre \o text \o rest
             PROVE  readBody(in, Len(pre) + 1, g) = Body(body, t, Len(pre) + Len(text) + 1)
  BY <1>1 DEF Frames, InChunks, last
<1> DEFINE at == Len(pre) + 1
           more == last \o rest
           a == pre \o chunks
<1>2. Regrouped(pre, chunks, last, rest)
  BY <1>1, Regroup
<1>3. in.symbols = pre \o chunks \o more /\ in.symbols = a \o last \o rest
  BY <1>2 DEF Regrouped
<1>4. /\ more \in Seq(Symbols) /\ a \in Seq(Symbols) /\ Len(a) = Len(pre) + Len(chunks) /\ at \in Nat \ {0}
      /\ Len(pre) \in Nat /\ Len(chunks) \in Nat
  BY <1>1
<1>5. in.symbols \in Seq(Symbols)
  BY <1>1
<1> HIDE DEF more, a, text
<1>6. PICK f : Runs(f, in, at)
  <2> HIDE DEF at
  <2> QED BY <1>4, <1>5, ChunkTurns
<1>7. f[k] = ChunksRead(body, Len(pre) + Len(chunks) + 1)
  BY <1>3, <1>4, <1>6 DEF ChunksTurn, Runs
<1>8. f[k] = ChunksRead(body, Len(a) + 1)
  BY <1>4, <1>7
<1>9. Stands(in, a, ZeroSize, t, rest)
  BY <1>3 DEF Stands, last, LastChunk
<1> HIDE DEF at
<1>10. readBody(in, at, g) = Body(body, t, Len(a) + Len(t) + 3)
  <2>1. at \in Nat \ {0} /\ a \in Seq(Symbols)
    BY <1>4
  <2> QED BY <2>1, <1>6, <1>8, <1>9, LastChunkReads
<1>11. Len(a) + Len(t) + 3 = Len(pre) + Len(text) + 1
  BY <1>1, <1>4
<1> QED BY <1>10, <1>11 DEF at

\* Chunks as peers write them.
LEMMA FramesSplit ==
  ASSUME NEW g, g.mode = "chunked", NEW split \in Seq(Pieces), Len(split) < MaxChunkCount,
         NEW body, FlattenSeq(split) = body, Len(body) <= MaxBodyBytes,
         NEW t \in Seq(Fields), Len(t) <= MaxTrailerFields, validateTrailers(t)
  PROVE  Frames(g, InChunks(Chunks(split), t), body, t)
<1> DEFINE chunks == Chunks(split)
           k == Len(split)
<1>1. split \in Seq(Seq(Symbols)) /\ k \in Nat
  <2>1. Pieces \subseteq Seq(Symbols)
    BY DEF Pieces
  <2> QED BY <2>1
<1>2. chunks \in Seq(Symbols) /\ body \in Seq(Symbols)
  <2> DEFINE e == <<>>
  <2>1. e \in Seq(Symbols)
    OBVIOUS
  <2> HIDE DEF e
  <2> QED BY <1>1, <2>1, SplitMore, FlatMore
<1>3. k \in 0 .. MaxChunkCount - 1 /\ Len(split) <= MaxChunkCount
  BY <1>1, LimitsAssumption
<1>4. SplitRead(split)
  BY SplitReads
<1>5. ASSUME NEW in, NEW at, NEW f, NEW pre \in Seq(Symbols), NEW rest \in Seq(Symbols),
             in.symbols = pre \o chunks \o rest, at = Len(pre) + 1, ChunkLoop(f, in, at)
      PROVE  f[k] = ChunksRead(body, Len(pre) + Len(chunks) + 1)
  BY <1>3, <1>4, <1>5 DEF SplitRead
<1>6. ChunksTurn(chunks, body, k)
  BY <1>5 DEF ChunksTurn
<1> HIDE DEF chunks, k
<1>7. Frames(g, InChunks(chunks, t), body, t)
  BY <1>2, <1>3, <1>6, FramesChunks
<1> QED BY <1>7 DEF chunks

\* Chunks as the writer writes them.
LEMMA FramesWritten ==
  ASSUME NEW g, g.mode = "chunked", NEW body \in Seq(Symbols), Len(body) <= MaxBodyBytes, Len(body) < MaxChunkCount,
         NEW t \in Seq(Fields), Len(t) <= MaxTrailerFields, validateTrailers(t)
  PROVE  Frames(g, writeMessageBody("chunked", body, t), body, t)
<1> DEFINE last == LastChunk(t)
<1>0. last \in Seq(Symbols) /\ last = <<SizeLine(<<0>>)>> \o t \o <<EmptyLine>> /\ t \in Seq(Symbols)
  BY LastChunkIs DEF LastChunk, ZeroSize
<1>1. CASE body = <<>>
  <2> DEFINE e == <<>>
  <2>1. writeMessageBody("chunked", body, t) = e \o last
    <3>1. writeMessageBody("chunked", body, t) = <<>> \o <<SizeLine(<<0>>)>> \o t \o <<EmptyLine>>
      BY <1>1 DEF writeMessageBody
    <3> DEFINE line == SizeLine(<<0>>)
    <3>2. line \in Symbols /\ EmptyLine \in Symbols
      BY ZeroLine, SymbolKinds
    <3> HIDE DEF line
    <3>3. <<>> \o <<line>> \o t \o <<EmptyLine>> = e \o (<<line>> \o t \o <<EmptyLine>>)
      BY <1>0, <3>2
    <3> QED BY <1>0, <3>1, <3>3 DEF line
  <2>2. e \in Seq(Symbols) /\ Len(e) = 0 /\ 0 \in 0 .. MaxChunkCount - 1
    BY LimitsAssumption
  <2>3. ASSUME NEW in, NEW at, NEW f, NEW pre \in Seq(Symbols), NEW rest \in Seq(Symbols),
               in.symbols = pre \o e \o rest, at = Len(pre) + 1, ChunkLoop(f, in, at)
        PROVE  f[0] = ChunksRead(e, Len(pre) + Len(e) + 1)
    <3>1. Len(pre) + Len(e) + 1 = Len(pre) + 1
      BY <2>2
    <3> QED BY <2>3, <3>1 DEF ChunkLoop
  <2> HIDE DEF e
  <2>4. Frames(g, InChunks(e, t), e, t)
    <3> DEFINE k == 0
    <3>1. k \in 0 .. MaxChunkCount - 1
      BY <2>2
    <3>2. ASSUME NEW in, NEW at, NEW f, NEW pre \in Seq(Symbols), NEW rest \in Seq(Symbols),
                 in.symbols = pre \o e \o rest, at = Len(pre) + 1, ChunkLoop(f, in, at)
          PROVE  f[k] = ChunksRead(e, Len(pre) + Len(e) + 1)
      BY <2>3, <3>2
    <3>3. ChunksTurn(e, e, k)
      BY <3>2 DEF ChunksTurn
    <3> HIDE DEF k
    <3> QED BY <2>2, <3>1, <3>3, FramesChunks
  <2> QED BY <1>1, <2>1, <2>4 DEF e, InChunks
<1>2. CASE body # <<>>
  <2> DEFINE line == SizeLine(Numeral[Len(body)])
             chunk == <<line>> \o body \o <<EmptyLine>>
             zero == SizeLine(<<0>>)
  <2>1. Len(body) \in Nat /\ Len(body) > 0 /\ Len(body) \in 0 .. MaxUint /\ EmptyLine \in Symbols
    BY <1>2, LimitsAssumption, SymbolKinds
  <2>2. Numeral[Len(body)] \in Seq(Nat) /\ parseChunkSizeLine(Numeral[Len(body)]) = Len(body)
    BY <2>1, NumeralIs, NumeralValue
  <2>3. line \in Symbols /\ SizeOf(line) = Len(body)
    BY <2>2, SymbolKinds DEF SizeOf
  <2>4. writeMessageBody("chunked", body, t) = chunk \o <<zero>> \o t \o <<EmptyLine>>
    BY <1>2 DEF writeMessageBody
  <2>5. zero \in Symbols
    BY ZeroLine
  <2> HIDE DEF line, zero
  <2>6. chunk \in Seq(Symbols) /\ Len(chunk) = Len(body) + 2
    BY <2>1, <2>3
  <2>7. writeMessageBody("chunked", body, t) = chunk \o last
    <3> HIDE DEF chunk
    <3>1. chunk \o <<zero>> \o t \o <<EmptyLine>> = chunk \o (<<zero>> \o t \o <<EmptyLine>>)
      <4> DEFINE u == <<zero>>
                 v == <<EmptyLine>>
                 ut == u \o t
      <4>1. u \in Seq(Symbols) /\ v \in Seq(Symbols) /\ ut \in Seq(Symbols)
        BY <1>0, <2>1, <2>5
      <4> HIDE DEF u, v
      <4>2. (chunk \o u) \o t = chunk \o ut
        BY <1>0, <2>6, <4>1
      <4> HIDE DEF ut
      <4>3. (chunk \o ut) \o v = chunk \o (ut \o v)
        BY <2>6, <4>1
      <4>4. ((chunk \o u) \o t) \o v = chunk \o (ut \o v)
        BY <4>2, <4>3
      <4> QED BY <4>4 DEF u, v, ut
    <3> QED BY <1>0, <2>4, <3>1 DEF zero
  <2> DEFINE k == 1
             e == <<>>
  <2>8. k \in 0 .. MaxChunkCount - 1 /\ 0 \in 0 .. MaxChunkCount - 1 /\ k = 0 + 1
    BY <2>1, LimitsAssumption
  <2>9. ASSUME NEW in, NEW at, NEW f, NEW pre \in Seq(Symbols), NEW rest \in Seq(Symbols),
               in.symbols = pre \o chunk \o rest, at = Len(pre) + 1, ChunkLoop(f, in, at)
        PROVE  f[k] = ChunksRead(body, Len(pre) + Len(chunk) + 1)
    <3> DEFINE z == 0
    <3>1. Stands(in, pre, line, body, rest)
      BY <2>9 DEF Stands
    <3>2. f[z] = ChunksRead(e, Len(pre) + 1) /\ e \in Seq(Symbols) /\ Len(e) = 0 /\ e \o body = body /\ z + 1 = k
      BY <2>9 DEF ChunkLoop
    <3>3. z \in 0 .. MaxChunkCount - 1
      BY <2>8
    <3> HIDE DEF e, z, k, chunk
    <3>4. Len(e) + Len(body) <= MaxBodyBytes
      BY <2>1, <3>2
    <3>5. Adds(f, z, e, body, Len(pre) + Len(body) + 3)
      BY <2>1, <2>3, <2>9, <3>1, <3>2, <3>3, <3>4, NextTurn
    <3>6. f[k] = ChunksRead(body, Len(pre) + Len(body) + 3)
      BY <3>2, <3>5 DEF Adds
    <3>7. Len(pre) + Len(body) + 3 = Len(pre) + Len(chunk) + 1
      BY <2>1, <2>6
    <3> QED BY <3>6, <3>7
  <2>10. ChunksTurn(chunk, body, k)
    BY <2>9 DEF ChunksTurn
  <2> HIDE DEF k, chunk, last
  <2>11. Frames(g, InChunks(chunk, t), body, t)
    BY <2>6, <2>8, <2>10, FramesChunks
  <2> QED BY <2>7, <2>11 DEF last, InChunks
<1> QED BY <1>1, <1>2

\* How peers split a body into chunks.
LEMMA SplitsAre ==
  ASSUME NEW body \in Seq(Symbols), Len(body) < MaxChunkCount, NEW split \in ChunkSplits(body)
  PROVE  split \in Seq(Pieces) /\ FlattenSeq(split) = body /\ Len(split) < MaxChunkCount
<1>1. CASE body = <<>>
  <2>1. split = <<>>
    BY <1>1 DEF ChunkSplits
  <2>2. Len(<<>>) = 0 /\ 0 < MaxChunkCount
    BY LimitsAssumption
  <2> QED BY <1>1, <2>1, <2>2, FlatNone
<1>2. CASE body # <<>>
  <2>1. split = <<body>> \/ split = Singles(body)
    BY <1>2 DEF ChunkSplits, Singles
  <2>2. CASE split = <<body>>
    <3> DEFINE e == <<>>
               P == Pieces
    <3>1. e \in Seq(Seq(Symbols)) /\ e \o <<body>> = <<body>> /\ e \o body = body
      OBVIOUS
    <3>2. FlattenSeq(e) = e
      BY FlatNone
    <3> HIDE DEF e
    <3>3. FlattenSeq(e \o <<body>>) = FlattenSeq(e) \o body
      BY <3>1, FlatMore
    <3>4. FlattenSeq(<<body>>) = body
      BY <3>1, <3>2, <3>3
    <3>5. body \in P
      BY <1>2 DEF Pieces
    <3> HIDE DEF P
    <3>6. <<body>> \in Seq(P) /\ Len(<<body>>) = 1
      BY <3>5
    <3>7. 1 < MaxChunkCount
      BY <1>2, LimitsAssumption
    <3> QED BY <2>2, <3>4, <3>6, <3>7 DEF P
  <2>3. CASE split = Singles(body)
    BY <2>3, SinglesAre
  <2> QED BY <2>1, <2>2, <2>3
<1> QED BY <1>1, <1>2

-----------------------------------------------------------------------------
(* Messages                                                                *)

\* What readHTTPRequest makes of what it has read.
RequestRead(start, block, framing, body) ==
  [verdict |-> "read", next |-> body.next,
   message |-> [method |-> start.line.method, target |-> start.line.target,
                headers |-> block.fields, mode |-> framing.mode, body |-> body.body,
                trailers |-> body.trailers, keepAlive |-> ~ HasToken(block.fields, "Connection", "close")]]

\* readHTTPRequest as it unfolds.
LEMMA RequestUnfolds ==
  ASSUME NEW in
  PROVE  LET start == readStartLine(in, "request")
             block == readHeaderBlock(in, start.next, MaxHeaderFields)
             valid == validateRequestHeaders(block.fields)
             framing == determineBodyFraming(block.fields)
             body == readBody(in, block.next, framing)
         IN readHTTPRequest(in) =
              IF start.verdict # "read" THEN start
              ELSE IF block.verdict # "read" THEN block
              ELSE IF valid.verdict # "read" THEN valid
              ELSE IF framing.verdict # "read" THEN framing
              ELSE IF body.verdict # "read" THEN body
              ELSE RequestRead(start, block, framing, body)
<1> DEFINE start == readStartLine(in, "request")
           block == readHeaderBlock(in, start.next, MaxHeaderFields)
           valid == validateRequestHeaders(block.fields)
           framing == determineBodyFraming(block.fields)
           body == readBody(in, block.next, framing)
           F5(s, b, f, o) == IF o.verdict = "read" THEN RequestRead(s, b, f, o) ELSE o
           F4(s, b, f) == IF f.verdict = "read"
                            THEN (CHOOSE x \in {F5(s, b, f, o) : o \in {readBody(in, b.next, f)}} : TRUE)
                            ELSE f
           F3(s, b, v) == IF v.verdict = "read"
                            THEN (CHOOSE x \in {F4(s, b, f) : f \in {determineBodyFraming(b.fields)}} : TRUE)
                            ELSE v
           F2(s, b) == IF b.verdict = "read"
                         THEN (CHOOSE x \in {F3(s, b, v) : v \in {validateRequestHeaders(b.fields)}} : TRUE)
                         ELSE b
           F1(s) == IF s.verdict = "read"
                      THEN (CHOOSE x \in {F2(s, b) : b \in {readHeaderBlock(in, s.next, MaxHeaderFields)}} : TRUE)
                      ELSE s
<1>1. readHTTPRequest(in) = CHOOSE x \in {F1(s) : s \in {start}} : TRUE
  BY DEF readHTTPRequest, Then, When, RequestRead
<1>2. ASSUME NEW s, NEW b, NEW f, NEW o
      PROVE  (CHOOSE x \in {F5(s, b, f, p) : p \in {o}} : TRUE) = F5(s, b, f, o)
  <2> HIDE DEF F5
  <2> QED OBVIOUS
<1>3. ASSUME NEW s, NEW b, NEW f PROVE (CHOOSE x \in {F4(s, b, g) : g \in {f}} : TRUE) = F4(s, b, f)
  <2> HIDE DEF F4
  <2> QED OBVIOUS
<1>4. ASSUME NEW s, NEW b, NEW v PROVE (CHOOSE x \in {F3(s, b, g) : g \in {v}} : TRUE) = F3(s, b, v)
  <2> HIDE DEF F3
  <2> QED OBVIOUS
<1>5. ASSUME NEW s, NEW b PROVE (CHOOSE x \in {F2(s, g) : g \in {b}} : TRUE) = F2(s, b)
  <2> HIDE DEF F2
  <2> QED OBVIOUS
<1>6. ASSUME NEW s PROVE (CHOOSE x \in {F1(g) : g \in {s}} : TRUE) = F1(s)
  <2> HIDE DEF F1
  <2> QED OBVIOUS
<1>7. readHTTPRequest(in) = F1(start)
  <2> HIDE DEF F1, start
  <2> QED BY <1>1, <1>6
<1> HIDE DEF start
<1>8. F1(start) = IF start.verdict = "read" THEN F2(start, block) ELSE start
  <2> HIDE DEF F2
  <2> QED BY <1>5
<1> HIDE DEF F1, block
<1>9. F2(start, block) = IF block.verdict = "read" THEN F3(start, block, valid) ELSE block
  <2> HIDE DEF F3
  <2> QED BY <1>4
<1> HIDE DEF F2, valid
<1>10. F3(start, block, valid) = IF valid.verdict = "read" THEN F4(start, block, framing) ELSE valid
  <2> HIDE DEF F4
  <2> QED BY <1>3
<1> HIDE DEF F3, framing
<1>11. F4(start, block, framing) = IF framing.verdict = "read" THEN F5(start, block, framing, body) ELSE framing
  <2> HIDE DEF F5
  <2> QED BY <1>2
<1> HIDE DEF F4, body
<1>12. readHTTPRequest(in) =
              IF start.verdict # "read" THEN start
              ELSE IF block.verdict # "read" THEN block
              ELSE IF valid.verdict # "read" THEN valid
              ELSE IF framing.verdict # "read" THEN framing
              ELSE IF body.verdict # "read" THEN body
              ELSE RequestRead(start, block, framing, body)
  BY <1>7, <1>8, <1>9, <1>10, <1>11
<1> QED BY <1>12 DEF start, block, valid, framing, body

\* readStartLine as it unfolds.
LEMMA StartUnfolds ==
  ASSUME NEW in, NEW kind
  PROVE  readStartLine(in, kind) =
           IF readStrictLine(in, 1).verdict # "read" THEN readStrictLine(in, 1)
           ELSE IF readStrictLine(in, 1).line.kind = kind THEN readStrictLine(in, 1) ELSE Error("bad")
<1> DEFINE r == readStrictLine(in, 1)
           F(q) == IF q.verdict = "read" THEN (IF q.line.kind = kind THEN q ELSE Error("bad")) ELSE q
<1>1. readStartLine(in, kind) = CHOOSE x \in {F(q) : q \in {r}} : TRUE
  BY DEF readStartLine, Then, When
<1>2. ASSUME NEW s PROVE (CHOOSE x \in {F(q) : q \in {s}} : TRUE) = F(s)
  <2> HIDE DEF F
  <2> QED OBVIOUS
<1>3. readStartLine(in, kind) = F(r)
  <2> HIDE DEF F, r
  <2> QED BY <1>1, <1>2
<1> HIDE DEF r
<1> QED BY <1>3 DEF r

\* A start line is read.
LEMMA StartReads ==
  ASSUME NEW in, in.symbols \in Seq(Symbols), in.symbols # <<>>, in.symbols[1].kind \in {"request", "status"}
  PROVE  readStartLine(in, in.symbols[1].kind) = [verdict |-> "read", line |-> in.symbols[1], next |-> 2]
<1>1. 1 \in 1 .. Len(in.symbols) /\ 1 + 1 = 2 /\ in.symbols[1].kind # "byte"
  OBVIOUS
<1> DEFINE r == readStrictLine(in, 1)
<1>2. r = [verdict |-> "read", line |-> in.symbols[1], next |-> 2]
  BY <1>1, LineReads
<1> HIDE DEF r
<1> QED BY <1>2, StartUnfolds DEF r

\* A start line that was read is there.
LEMMA StartRead ==
  ASSUME NEW in, in.symbols \in Seq(Symbols), NEW kind, kind \in {"request", "status"},
         readStartLine(in, kind).verdict = "read"
  PROVE  /\ in.symbols # <<>> /\ in.symbols[1].kind = kind
         /\ readStartLine(in, kind) = [verdict |-> "read", line |-> in.symbols[1], next |-> 2]
<1> DEFINE r == readStrictLine(in, 1)
<1>1. /\ readStartLine(in, kind) = IF r.verdict # "read" THEN r ELSE IF r.line.kind = kind THEN r ELSE Error("bad")
      /\ Error("bad").verdict # "read"
  BY StartUnfolds DEF Error
<1> HIDE DEF r
<1>2. r.verdict = "read" /\ r.line.kind = kind /\ readStartLine(in, kind) = r
  BY <1>1
<1>3. r.line # Junk
  BY <1>2, SymbolKinds
<1>4. 1 \in 1 .. Len(in.symbols) /\ r = [verdict |-> "read", line |-> in.symbols[1], next |-> 1 + 1]
  <2> DEFINE at == 1
  <2>1. at \in Nat \ {0} /\ readStrictLine(in, at) = r
    BY DEF r
  <2> HIDE DEF at
  <2>2. at \in 1 .. Len(in.symbols) /\ r = [verdict |-> "read", line |-> in.symbols[at], next |-> at + 1]
    BY <1>2, <1>3, <2>1, LineRead
  <2> QED BY <2>2 DEF at
<1>5. in.symbols # <<>> /\ r.line = in.symbols[1] /\ 1 + 1 = 2
  BY <1>4
<1> QED BY <1>2, <1>4, <1>5

\* in begins with a request that can be read, whose header ends at e.
RequestAt(in, e) ==
  /\ in.symbols # <<>> /\ in.symbols[1].kind = "request"
  /\ BlockAt(in, 2, e) /\ e - 2 <= MaxHeaderFields
  /\ validateRequestHeaders(SubSeq(in.symbols, 2, e - 1)).verdict = "read"
  /\ determineBodyFraming(SubSeq(in.symbols, 2, e - 1)).verdict = "read"
  /\ readBody(in, e + 1, determineBodyFraming(SubSeq(in.symbols, 2, e - 1))).verdict = "read"

\* What is read of it.
RequestOf(in, e) ==
  LET fields == SubSeq(in.symbols, 2, e - 1)
      framing == determineBodyFraming(fields)
      body == readBody(in, e + 1, framing)
  IN [verdict |-> "read", next |-> body.next,
      message |-> [method |-> in.symbols[1].method, target |-> in.symbols[1].target,
                   headers |-> fields, mode |-> framing.mode, body |-> body.body,
                   trailers |-> body.trailers, keepAlive |-> ~ HasToken(fields, "Connection", "close")]]

\* A request is read.
LEMMA RequestReads ==
  ASSUME NEW in, in.symbols \in Seq(Symbols), NEW e \in Nat, RequestAt(in, e)
  PROVE  readHTTPRequest(in) = RequestOf(in, e)
<1> DEFINE start == readStartLine(in, "request")
           block == readHeaderBlock(in, start.next, MaxHeaderFields)
           valid == validateRequestHeaders(block.fields)
           framing == determineBodyFraming(block.fields)
           body == readBody(in, block.next, framing)
           fields == SubSeq(in.symbols, 2, e - 1)
<1>1. readHTTPRequest(in) =
              IF start.verdict # "read" THEN start
              ELSE IF block.verdict # "read" THEN block
              ELSE IF valid.verdict # "read" THEN valid
              ELSE IF framing.verdict # "read" THEN framing
              ELSE IF body.verdict # "read" THEN body
              ELSE RequestRead(start, block, framing, body)
  BY RequestUnfolds
<1>2. start = [verdict |-> "read", line |-> in.symbols[1], next |-> 2]
  <2>1. in.symbols # <<>> /\ in.symbols[1].kind = "request"
    BY DEF RequestAt
  <2> QED BY <2>1, StartReads
<1> HIDE DEF start
<1>3. start.verdict = "read" /\ start.line = in.symbols[1] /\ start.next = 2
  BY <1>2
<1>4. block = [verdict |-> "read", fields |-> fields, next |-> e + 1]
  <2> DEFINE at == 2
  <2>1. at \in Nat \ {0} /\ BlockAt(in, at, e) /\ e - at <= MaxHeaderFields /\ MaxHeaderFields \in Nat
    BY LimitsAssumption DEF RequestAt
  <2> HIDE DEF at
  <2>2. readHeaderBlock(in, at, MaxHeaderFields) =
          [verdict |-> "read", fields |-> SubSeq(in.symbols, at, e - 1), next |-> e + 1]
    BY <2>1, BlockReads
  <2> QED BY <1>3, <2>2 DEF at
<1> HIDE DEF block
<1>5. block.verdict = "read" /\ block.fields = fields /\ block.next = e + 1
  <2> HIDE DEF fields
  <2> QED BY <1>4
<1>6. valid.verdict = "read" /\ framing.verdict = "read" /\ body.verdict = "read"
  BY <1>5 DEF RequestAt
<1>7. readHTTPRequest(in) = RequestRead(start, block, framing, body)
  <2> HIDE DEF valid, framing, body
  <2> QED BY <1>1, <1>3, <1>5, <1>6
<1>8. framing = determineBodyFraming(fields) /\ body = readBody(in, e + 1, determineBodyFraming(fields))
  BY <1>5
<1> HIDE DEF framing, body
<1>9. RequestRead(start, block, framing, body) = RequestOf(in, e)
  BY <1>3, <1>5, <1>8 DEF RequestRead, RequestOf
<1> QED BY <1>7, <1>9

\* What has been read is a request.
LEMMA RequestParts ==
  ASSUME NEW in, in.symbols \in Seq(Symbols), readHTTPRequest(in).verdict = "read"
  PROVE  \E e \in Nat : RequestAt(in, e)
<1> DEFINE start == readStartLine(in, "request")
           block == readHeaderBlock(in, start.next, MaxHeaderFields)
           valid == validateRequestHeaders(block.fields)
           framing == determineBodyFraming(block.fields)
           body == readBody(in, block.next, framing)
<1>1. readHTTPRequest(in) =
              IF start.verdict # "read" THEN start
              ELSE IF block.verdict # "read" THEN block
              ELSE IF valid.verdict # "read" THEN valid
              ELSE IF framing.verdict # "read" THEN framing
              ELSE IF body.verdict # "read" THEN body
              ELSE RequestRead(start, block, framing, body)
  BY RequestUnfolds
<1>2. /\ start.verdict = "read" /\ block.verdict = "read" /\ valid.verdict = "read"
      /\ framing.verdict = "read" /\ body.verdict = "read"
  <2> HIDE DEF start, block, valid, framing, body
  <2> QED BY <1>1
<1>3. in.symbols # <<>> /\ in.symbols[1].kind = "request" /\ start.next = 2
  <2>1. /\ in.symbols # <<>> /\ in.symbols[1].kind = "request"
        /\ start = [verdict |-> "read", line |-> in.symbols[1], next |-> 2]
    BY <1>2, StartRead
  <2> HIDE DEF start
  <2> QED BY <2>1
<1> HIDE DEF start
<1> DEFINE at == 2
<1>4. at \in 1 .. Len(in.symbols) + 1 /\ MaxHeaderFields \in Nat /\ start.next = at
  BY <1>3, LimitsAssumption
<1> HIDE DEF at
<1>5. PICK e \in Nat :
           /\ BlockAt(in, at, e) /\ e - at <= MaxHeaderFields
           /\ readHeaderBlock(in, at, MaxHeaderFields) =
                [verdict |-> "read", fields |-> SubSeq(in.symbols, at, e - 1), next |-> e + 1]
  <2>1. readHeaderBlock(in, at, MaxHeaderFields).verdict = "read"
    BY <1>2, <1>4
  <2> QED BY <1>4, <2>1, BlockRead
<1>6. block = [verdict |-> "read", fields |-> SubSeq(in.symbols, at, e - 1), next |-> e + 1]
  BY <1>4, <1>5
<1> HIDE DEF block
<1>7. block.fields = SubSeq(in.symbols, at, e - 1) /\ block.next = e + 1
  BY <1>6
<1>8. RequestAt(in, e)
  BY <1>2, <1>3, <1>5, <1>7 DEF RequestAt, at
<1> QED BY <1>8

\* The mode of the body of a response.
ModeOf(status, method, mode) ==
  IF responseMustNotHaveBody(method, status) THEN "none"
  ELSE IF mode = "none" THEN "close-delimited" ELSE mode

\* What readHTTPResponse refuses a header for.
Refuses(status, headers) ==
  \/ ~ validateConnectionFields(headers) \/ ~ validateResponseFramingHeaders(status, headers)
  \/ status = 101 \/ Upgrades(headers)

\* What readHTTPResponse makes of what it has read.
ResponseRead(start, block, mode, body) ==
  [verdict |-> "read", next |-> body.next,
   message |-> [status |-> start.line.status, headers |-> block.fields, mode |-> mode, body |-> body.body,
                trailers |-> body.trailers,
                keepAlive |-> mode # "close-delimited" /\ ~ HasToken(block.fields, "Connection", "close")]]

\* readHTTPResponse as it unfolds.
LEMMA ResponseUnfolds ==
  ASSUME NEW in, NEW method
  PROVE  LET start == readStartLine(in, "status")
             block == readHeaderBlock(in, start.next, MaxHeaderFields)
             framing == determineBodyFraming(block.fields)
             mode == ModeOf(start.line.status, method, framing.mode)
             body == readBody(in, block.next, [framing EXCEPT !.mode = mode])
         IN readHTTPResponse(in, method) =
              IF start.verdict # "read" THEN start
              ELSE IF block.verdict # "read" THEN block
              ELSE IF Refuses(start.line.status, block.fields) THEN Error("bad")
              ELSE IF framing.verdict # "read" THEN framing
              ELSE IF body.verdict # "read" THEN body
              ELSE ResponseRead(start, block, mode, body)
<1> DEFINE start == readStartLine(in, "status")
           block == readHeaderBlock(in, start.next, MaxHeaderFields)
           framing == determineBodyFraming(block.fields)
           mode == ModeOf(start.line.status, method, framing.mode)
           body == readBody(in, block.next, [framing EXCEPT !.mode = mode])
           Mode(s, f) == ModeOf(s.line.status, method, f.mode)
           F4(s, b, f, o) == IF o.verdict = "read" THEN ResponseRead(s, b, Mode(s, f), o) ELSE o
           F3(s, b, f) == IF f.verdict = "read"
                            THEN (CHOOSE x \in {F4(s, b, f, o) : o \in {readBody(in, b.next, [f EXCEPT !.mode = Mode(s, f)])}} : TRUE)
                            ELSE f
           F2(s, b) == IF b.verdict = "read"
                       THEN (IF Refuses(s.line.status, b.fields) THEN Error("bad")
                             ELSE CHOOSE x \in {F3(s, b, f) : f \in {determineBodyFraming(b.fields)}} : TRUE)
                       ELSE b
           F1(s) == IF s.verdict = "read"
                      THEN (CHOOSE x \in {F2(s, b) : b \in {readHeaderBlock(in, s.next, MaxHeaderFields)}} : TRUE)
                      ELSE s
<1>1. readHTTPResponse(in, method) = CHOOSE x \in {F1(s) : s \in {start}} : TRUE
  BY DEF readHTTPResponse, Then, When, ResponseRead, Refuses, ModeOf
<1>2. ASSUME NEW s, NEW b, NEW f, NEW o
      PROVE  (CHOOSE x \in {F4(s, b, f, p) : p \in {o}} : TRUE) = F4(s, b, f, o)
  <2> HIDE DEF F4
  <2> QED OBVIOUS
<1>3. ASSUME NEW s, NEW b, NEW f PROVE (CHOOSE x \in {F3(s, b, g) : g \in {f}} : TRUE) = F3(s, b, f)
  <2> HIDE DEF F3
  <2> QED OBVIOUS
<1>5. ASSUME NEW s, NEW b PROVE (CHOOSE x \in {F2(s, g) : g \in {b}} : TRUE) = F2(s, b)
  <2> HIDE DEF F2
  <2> QED OBVIOUS
<1>6. ASSUME NEW s PROVE (CHOOSE x \in {F1(g) : g \in {s}} : TRUE) = F1(s)
  <2> HIDE DEF F1
  <2> QED OBVIOUS
<1>7. readHTTPResponse(in, method) = F1(start)
  <2> HIDE DEF F1, start
  <2> QED BY <1>1, <1>6
<1> HIDE DEF start
<1>8. F1(start) = IF start.verdict = "read" THEN F2(start, block) ELSE start
  <2> HIDE DEF F2
  <2> QED BY <1>5
<1> HIDE DEF F1, block
<1>9. F2(start, block) = IF block.verdict = "read"
                         THEN (IF Refuses(start.line.status, block.fields)
                           THEN Error("bad") ELSE F3(start, block, framing))
                         ELSE block
  <2> HIDE DEF F3
  <2> QED BY <1>3
<1> HIDE DEF F2, framing
<1>10. F3(start, block, framing) = IF framing.verdict = "read" THEN F4(start, block, framing, body) ELSE framing
  <2> HIDE DEF F4
  <2> QED BY <1>2
<1> HIDE DEF F3, body
<1>11. F4(start, block, framing, body) = IF body.verdict = "read"
         THEN ResponseRead(start, block, mode, body) ELSE body
  OBVIOUS
<1> HIDE DEF F4, mode
<1>12. readHTTPResponse(in, method) =
              IF start.verdict # "read" THEN start
              ELSE IF block.verdict # "read" THEN block
              ELSE IF Refuses(start.line.status, block.fields) THEN Error("bad")
              ELSE IF framing.verdict # "read" THEN framing
              ELSE IF body.verdict # "read" THEN body
              ELSE ResponseRead(start, block, mode, body)
  BY <1>7, <1>8, <1>9, <1>10, <1>11
<1> QED BY <1>12 DEF start, block, framing, mode, body

\* How the body of a response is framed.
ResponseFraming(status, method, fields) ==
  [determineBodyFraming(fields) EXCEPT !.mode = ModeOf(status, method, determineBodyFraming(fields).mode)]

\* in begins with a response that can be read, whose header ends at e.
ResponseAt(in, method, e) ==
  /\ in.symbols # <<>> /\ in.symbols[1].kind = "status"
  /\ BlockAt(in, 2, e) /\ e - 2 <= MaxHeaderFields
  /\ ~ Refuses(in.symbols[1].status, SubSeq(in.symbols, 2, e - 1))
  /\ determineBodyFraming(SubSeq(in.symbols, 2, e - 1)).verdict = "read"
  /\ readBody(in, e + 1, ResponseFraming(in.symbols[1].status, method, SubSeq(in.symbols, 2, e - 1))).verdict = "read"

\* What is read of it.
ResponseOf(in, method, e) ==
  LET fields == SubSeq(in.symbols, 2, e - 1)
      status == in.symbols[1].status
      mode == ModeOf(status, method, determineBodyFraming(fields).mode)
      body == readBody(in, e + 1, ResponseFraming(status, method, fields))
  IN [verdict |-> "read", next |-> body.next,
      message |-> [status |-> status, headers |-> fields, mode |-> mode, body |-> body.body,
                   trailers |-> body.trailers,
                   keepAlive |-> mode # "close-delimited" /\ ~ HasToken(fields, "Connection", "close")]]

\* A response is read.
LEMMA ResponseReads ==
  ASSUME NEW in, in.symbols \in Seq(Symbols), NEW method, NEW e \in Nat, ResponseAt(in, method, e)
  PROVE  readHTTPResponse(in, method) = ResponseOf(in, method, e)
<1> DEFINE start == readStartLine(in, "status")
           block == readHeaderBlock(in, start.next, MaxHeaderFields)
           framing == determineBodyFraming(block.fields)
           mode == ModeOf(start.line.status, method, framing.mode)
           body == readBody(in, block.next, [framing EXCEPT !.mode = mode])
           fields == SubSeq(in.symbols, 2, e - 1)
           status == in.symbols[1].status
<1>1. readHTTPResponse(in, method) =
              IF start.verdict # "read" THEN start
              ELSE IF block.verdict # "read" THEN block
              ELSE IF Refuses(start.line.status, block.fields) THEN Error("bad")
              ELSE IF framing.verdict # "read" THEN framing
              ELSE IF body.verdict # "read" THEN body
              ELSE ResponseRead(start, block, mode, body)
  BY ResponseUnfolds
<1>2. start = [verdict |-> "read", line |-> in.symbols[1], next |-> 2]
  <2>1. in.symbols # <<>> /\ in.symbols[1].kind = "status"
    BY DEF ResponseAt
  <2> QED BY <2>1, StartReads
<1> HIDE DEF start
<1>3. start.verdict = "read" /\ start.line = in.symbols[1] /\ start.next = 2 /\ start.line.status = status
  BY <1>2
<1>4. block = [verdict |-> "read", fields |-> fields, next |-> e + 1]
  <2> DEFINE at == 2
  <2>1. at \in Nat \ {0} /\ BlockAt(in, at, e) /\ e - at <= MaxHeaderFields /\ MaxHeaderFields \in Nat
    BY LimitsAssumption DEF ResponseAt
  <2> HIDE DEF at
  <2>2. readHeaderBlock(in, at, MaxHeaderFields) =
          [verdict |-> "read", fields |-> SubSeq(in.symbols, at, e - 1), next |-> e + 1]
    BY <2>1, BlockReads
  <2> QED BY <1>3, <2>2 DEF at
<1> HIDE DEF block
<1>5. block.verdict = "read" /\ block.fields = fields /\ block.next = e + 1
  <2> HIDE DEF fields
  <2> QED BY <1>4
<1>6. [framing EXCEPT !.mode = mode] = ResponseFraming(status, method, fields)
  <2> HIDE DEF fields, status
  <2> QED BY <1>3, <1>5 DEF ResponseFraming
<1>7. ~ Refuses(start.line.status, block.fields) /\ framing.verdict = "read" /\ body.verdict = "read"
  <2>1. body = readBody(in, e + 1, ResponseFraming(status, method, fields))
    <3> HIDE DEF fields, status, mode
    <3> QED BY <1>5, <1>6
  <2> HIDE DEF body
  <2> QED BY <1>3, <1>5, <2>1 DEF ResponseAt
<1>8. body = readBody(in, e + 1, ResponseFraming(status, method, fields))
  <2> HIDE DEF fields, status, mode
  <2> QED BY <1>5, <1>6
<1>9. mode = ModeOf(status, method, determineBodyFraming(fields).mode)
  <2> HIDE DEF fields, status
  <2> QED BY <1>3, <1>5
<1>10. readHTTPResponse(in, method) = ResponseRead(start, block, mode, body)
  <2> HIDE DEF framing, body, mode
  <2> QED BY <1>1, <1>3, <1>5, <1>7
<1> HIDE DEF framing, body, mode
<1>11. ResponseRead(start, block, mode, body) = ResponseOf(in, method, e)
  BY <1>3, <1>5, <1>8, <1>9 DEF ResponseRead, ResponseOf
<1> QED BY <1>10, <1>11

\* What has been read is a response.
LEMMA ResponseParts ==
  ASSUME NEW in, in.symbols \in Seq(Symbols), NEW method, readHTTPResponse(in, method).verdict = "read"
  PROVE  \E e \in Nat : ResponseAt(in, method, e)
<1> DEFINE start == readStartLine(in, "status")
           block == readHeaderBlock(in, start.next, MaxHeaderFields)
           framing == determineBodyFraming(block.fields)
           mode == ModeOf(start.line.status, method, framing.mode)
           body == readBody(in, block.next, [framing EXCEPT !.mode = mode])
<1>1. readHTTPResponse(in, method) =
              IF start.verdict # "read" THEN start
              ELSE IF block.verdict # "read" THEN block
              ELSE IF Refuses(start.line.status, block.fields) THEN Error("bad")
              ELSE IF framing.verdict # "read" THEN framing
              ELSE IF body.verdict # "read" THEN body
              ELSE ResponseRead(start, block, mode, body)
  BY ResponseUnfolds
<1>2. /\ start.verdict = "read" /\ block.verdict = "read" /\ ~ Refuses(start.line.status, block.fields)
      /\ framing.verdict = "read" /\ body.verdict = "read"
  <2>1. Error("bad").verdict # "read"
    BY DEF Error
  <2> HIDE DEF start, block, framing, body, mode
  <2> QED BY <1>1, <2>1
<1>3. in.symbols # <<>> /\ in.symbols[1].kind = "status" /\ start.next = 2 /\ start.line = in.symbols[1]
  <2>1. /\ in.symbols # <<>> /\ in.symbols[1].kind = "status"
        /\ start = [verdict |-> "read", line |-> in.symbols[1], next |-> 2]
    BY <1>2, StartRead
  <2> HIDE DEF start
  <2> QED BY <2>1
<1> HIDE DEF start
<1> DEFINE at == 2
<1>4. at \in 1 .. Len(in.symbols) + 1 /\ MaxHeaderFields \in Nat /\ start.next = at
  BY <1>3, LimitsAssumption
<1> HIDE DEF at
<1>5. PICK e \in Nat :
           /\ BlockAt(in, at, e) /\ e - at <= MaxHeaderFields
           /\ readHeaderBlock(in, at, MaxHeaderFields) =
                [verdict |-> "read", fields |-> SubSeq(in.symbols, at, e - 1), next |-> e + 1]
  <2>1. readHeaderBlock(in, at, MaxHeaderFields).verdict = "read"
    BY <1>2, <1>4
  <2> QED BY <1>4, <2>1, BlockRead
<1>6. block = [verdict |-> "read", fields |-> SubSeq(in.symbols, at, e - 1), next |-> e + 1]
  BY <1>4, <1>5
<1> HIDE DEF block
<1>7. block.fields = SubSeq(in.symbols, at, e - 1) /\ block.next = e + 1
  BY <1>6
<1>8. ResponseAt(in, method, e)
  <2>1. body = readBody(in, e + 1, ResponseFraming(in.symbols[1].status, method, SubSeq(in.symbols, at, e - 1)))
    BY <1>3, <1>7 DEF ResponseFraming
  <2> HIDE DEF body
  <2> QED BY <1>2, <1>3, <1>5, <1>7, <2>1 DEF ResponseAt, at
<1> QED BY <1>8

-----------------------------------------------------------------------------
(* Messages as they are sent                                               *)

\* A message as it is sent.
Wire(start, headers, text) == <<start>> \o headers \o <<EmptyLine>> \o text

\* in holds a message, and the rest.
Holds(in, start, headers, text, rest) ==
  in.symbols = <<start>> \o headers \o <<EmptyLine>> \o text \o rest

\* in goes on with text after pre.
Precedes(in, pre, text, rest) == in.symbols = pre \o text \o rest

\* Where the parts of a message stand.
LEMMA WireParts ==
  ASSUME NEW start \in Symbols, NEW headers \in Seq(Fields), NEW text \in Seq(Symbols), NEW rest \in Seq(Symbols),
         NEW in, Holds(in, start, headers, text, rest)
  PROVE  /\ in.symbols \in Seq(Symbols) /\ in.symbols # <<>> /\ in.symbols[1] = start
         /\ Len(headers) + 2 \in Nat /\ BlockAt(in, 2, Len(headers) + 2)
         /\ SubSeq(in.symbols, 2, Len(headers) + 1) = headers
         /\ \E pre \in Seq(Symbols) : Precedes(in, pre, text, rest) /\ Len(pre) = Len(headers) + 2
<1> DEFINE s == in.symbols
           pre == <<start>> \o headers \o <<EmptyLine>>
           n == Len(headers)
<1>1. EmptyLine \in Symbols /\ headers \in Seq(Symbols) /\ n \in Nat /\ \A i \in 1 .. n : headers[i].kind = "field"
  <2>1. \A i \in 1 .. Len(headers) : headers[i] \in Fields
    OBVIOUS
  <2>2. Fields \subseteq Symbols
    BY DEF Symbols
  <2> QED BY <2>1, <2>2, SymbolKinds
<1>2. s = pre \o text \o rest
  BY DEF Holds
<1>3. pre \in Seq(Symbols) /\ pre[1] = start /\ pre[n + 2] = EmptyLine /\ SubSeq(pre, 2, n + 1) = headers
  BY <1>1
<1>4. Len(pre) = n + 2
  BY <1>1
<1>5. \A j \in 2 .. n + 1 : pre[j] = headers[j - 1] /\ j - 1 \in 1 .. n
  BY <1>1
<1> HIDE DEF pre, s
<1>6. /\ s \in Seq(Symbols) /\ Len(s) >= n + 2 /\ s # <<>> /\ \A j \in 1 .. n + 2 : s[j] = pre[j]
      /\ SubSeq(s, 2, n + 1) = SubSeq(pre, 2, n + 1)
  BY <1>1, <1>2, <1>3, <1>4
<1>7. BlockAt(in, 2, n + 2)
  <2>1. n + 2 \in 2 .. Len(s) /\ s[n + 2] = EmptyLine
    BY <1>1, <1>3, <1>6
  <2>2. ASSUME NEW j \in 2 .. n + 2 - 1 PROVE s[j].kind = "field"
    <3>1. j \in 2 .. n + 1 /\ j \in 1 .. n + 2
      BY <1>1
    <3> QED BY <1>1, <1>5, <1>6, <3>1
  <2> QED BY <2>1, <2>2 DEF BlockAt, s
<1>8. s[1] = start
  BY <1>1, <1>3, <1>6
<1>9. Precedes(in, pre, text, rest) /\ Len(pre) = n + 2
  BY <1>2, <1>4 DEF Precedes, s
<1>10. SubSeq(s, 2, n + 1) = headers
  BY <1>3, <1>6
<1> QED BY <1>1, <1>3, <1>6, <1>7, <1>8, <1>9, <1>10 DEF s

\* The verdict of a reader that has read text, and nothing else, as the message g.
Taken(text, g) == [verdict |-> "read", next |-> Len(text) + 1, message |-> g]

\* in holds text, and the rest.
Starts(in, text, rest) == in.symbols = text \o rest

\* text is read as the request g, whatever comes after it.
ReadsRequest(text, g) ==
  /\ text \in Seq(Symbols)
  /\ \A in : \A rest \in Seq(Symbols) : Starts(in, text, rest) => readHTTPRequest(in) = Taken(text, g)

\* text is read as the response g to a request with that method.
ReadsResponse(text, method, g) ==
  /\ text \in Seq(Symbols)
  /\ \A in : \A rest \in Seq(Symbols) : Starts(in, text, rest) => readHTTPResponse(in, method) = Taken(text, g)

\* The whole of text is read as the response g, if the connection ends there.
ReadToEnd(text, method, g) ==
  /\ text \in Seq(Symbols)
  /\ \A in : in.symbols = text /\ in.end = "fin" => readHTTPResponse(in, method) = Taken(text, g)

\* The parts of a message and what it is.
LEMMA WireIs ==
  ASSUME NEW start \in Symbols, NEW headers \in Seq(Fields), NEW text \in Seq(Symbols)
  PROVE  /\ Wire(start, headers, text) \in Seq(Symbols)
         /\ Len(Wire(start, headers, text)) = Len(headers) + 2 + Len(text)
         /\ \A in : \A rest \in Seq(Symbols) :
              Starts(in, Wire(start, headers, text), rest) => Holds(in, start, headers, text, rest)
<1>1. EmptyLine \in Symbols /\ headers \in Seq(Symbols)
  <2>1. Fields \subseteq Symbols
    BY DEF Symbols
  <2> QED BY <2>1, SymbolKinds
<1> QED BY <1>1 DEF Wire, Starts, Holds

\* The request that the parts of a message make.
RequestFrom(method, target, headers, mode, body, t) ==
  [method |-> method, target |-> target, headers |-> headers, mode |-> mode, body |-> body,
   trailers |-> t, keepAlive |-> ~ HasToken(headers, "Connection", "close")]

\* A request that is well framed is read.
LEMMA RequestWire ==
  ASSUME NEW method \in STRING, NEW target \in Nat, NEW headers \in Seq(Fields), NEW text \in Seq(Symbols),
         Len(headers) <= MaxHeaderFields, validateRequestHeaders(headers).verdict = "read",
         determineBodyFraming(headers).verdict = "read",
         NEW body, NEW t, Frames(determineBodyFraming(headers), text, body, t)
  PROVE  ReadsRequest(Wire(RequestLine(method, target), headers, text),
                      RequestFrom(method, target, headers, determineBodyFraming(headers).mode, body, t))
<1> DEFINE start == RequestLine(method, target)
           w == Wire(start, headers, text)
           g == RequestFrom(method, target, headers, determineBodyFraming(headers).mode, body, t)
           e == Len(headers) + 2
           framing == determineBodyFraming(headers)
<1>1. start \in Symbols /\ start.kind = "request" /\ start.method = method /\ start.target = target
  BY DEF RequestLine, Symbols
<1> HIDE DEF start
<1>2. w \in Seq(Symbols) /\ Len(w) = Len(headers) + 2 + Len(text)
  BY <1>1, WireIs
<1> SUFFICES ASSUME NEW in, NEW rest \in Seq(Symbols), Starts(in, w, rest)
             PROVE  readHTTPRequest(in) = Taken(w, g)
  BY <1>2 DEF ReadsRequest, start
<1>3. Holds(in, start, headers, text, rest)
  BY <1>1, WireIs
<1>4. /\ in.symbols \in Seq(Symbols) /\ in.symbols # <<>> /\ in.symbols[1] = start
      /\ e \in Nat /\ BlockAt(in, 2, e) /\ SubSeq(in.symbols, 2, Len(headers) + 1) = headers
  BY <1>1, <1>3, WireParts
<1>5. PICK pre \in Seq(Symbols) : Precedes(in, pre, text, rest) /\ Len(pre) = e
  BY <1>1, <1>3, WireParts
<1>6. Len(headers) \in Nat /\ Len(text) \in Nat /\ e - 1 = Len(headers) + 1 /\ e - 2 = Len(headers)
  OBVIOUS
<1> HIDE DEF e, w
<1>7. SubSeq(in.symbols, 2, e - 1) = headers
  BY <1>4, <1>6
<1>8. readBody(in, Len(pre) + 1, framing) = Body(body, t, Len(pre) + Len(text) + 1)
  BY <1>5 DEF Frames, Precedes
<1>9. readBody(in, e + 1, framing) = Body(body, t, Len(w) + 1)
  <2>1. Len(pre) + Len(text) + 1 = Len(w) + 1
    BY <1>2, <1>5, <1>6 DEF e
  <2> QED BY <1>5, <1>8, <2>1
<1> DEFINE fields == SubSeq(in.symbols, 2, e - 1)
           read == readBody(in, e + 1, framing)
<1>13. fields = headers
  BY <1>7
<1>14. read = [verdict |-> "read", body |-> body, trailers |-> t, next |-> Len(w) + 1]
  BY <1>9 DEF Body
<1>15. framing = determineBodyFraming(headers)
  OBVIOUS
<1> HIDE DEF framing, fields
<1>16. read.verdict = "read" /\ read.body = body /\ read.trailers = t /\ read.next = Len(w) + 1
  <2> HIDE DEF read
  <2> QED BY <1>14
<1>17. e - 2 <= MaxHeaderFields
  BY <1>6
<1>18. framing = determineBodyFraming(fields)
  BY <1>13, <1>15
<1>19. validateRequestHeaders(fields).verdict = "read" /\ framing.verdict = "read"
  BY <1>13, <1>15
<1>10. RequestAt(in, e)
  <2>1. in.symbols # <<>> /\ in.symbols[1].kind = "request" /\ BlockAt(in, 2, e)
    BY <1>1, <1>4
  <2>2. readBody(in, e + 1, determineBodyFraming(fields)).verdict = "read"
    BY <1>16, <1>18
  <2>3. determineBodyFraming(fields).verdict = "read"
    BY <1>18, <1>19
  <2> QED BY <2>1, <2>2, <2>3, <1>17, <1>19 DEF RequestAt, fields
<1>11. readHTTPRequest(in) = RequestOf(in, e)
  BY <1>4, <1>10, RequestReads
<1>12. RequestOf(in, e) = Taken(w, g)
  <2>1. RequestOf(in, e) =
          [verdict |-> "read", next |-> read.next,
           message |-> [method |-> in.symbols[1].method, target |-> in.symbols[1].target,
                        headers |-> fields, mode |-> framing.mode, body |-> read.body,
                        trailers |-> read.trailers, keepAlive |-> ~ HasToken(fields, "Connection", "close")]]
    BY <1>18 DEF RequestOf, fields
  <2> HIDE DEF read
  <2>2. in.symbols[1].method = method /\ in.symbols[1].target = target
    BY <1>1, <1>4
  <2> QED BY <2>1, <2>2, <1>13, <1>15, <1>16 DEF Taken, RequestFrom
<1> QED BY <1>11, <1>12

\* The response that the parts of a message make.
ResponseFrom(status, headers, mode, body, t) ==
  [status |-> status, headers |-> headers, mode |-> mode, body |-> body, trailers |-> t,
   keepAlive |-> mode # "close-delimited" /\ ~ HasToken(headers, "Connection", "close")]

\* A response whose body can be read is read.
LEMMA ResponseStands ==
  ASSUME NEW status \in Nat, NEW method, NEW headers \in Seq(Fields), NEW text \in Seq(Symbols),
           NEW rest \in Seq(Symbols),
         NEW in, Holds(in, StatusLine(status), headers, text, rest),
         Len(headers) <= MaxHeaderFields, ~ Refuses(status, headers),
         determineBodyFraming(headers).verdict = "read",
         NEW body, NEW t, NEW n,
         readBody(in, Len(headers) + 3, ResponseFraming(status, method, headers)) = Body(body, t, n)
  PROVE  readHTTPResponse(in, method) =
           [verdict |-> "read", next |-> n,
            message |-> ResponseFrom(status, headers, ModeOf(status, method, determineBodyFraming(headers).mode), body, t)]
<1> DEFINE start == StatusLine(status)
           mode == ModeOf(status, method, determineBodyFraming(headers).mode)
           g == ResponseFrom(status, headers, mode, body, t)
           e == Len(headers) + 2
           framing == ResponseFraming(status, method, headers)
<1>1. start \in Symbols /\ start.kind = "status" /\ start.status = status
  BY DEF StatusLine, Symbols
<1>3. Holds(in, start, headers, text, rest)
  OBVIOUS
<1> HIDE DEF start
<1>4. /\ in.symbols \in Seq(Symbols) /\ in.symbols # <<>> /\ in.symbols[1] = start
      /\ e \in Nat /\ BlockAt(in, 2, e) /\ SubSeq(in.symbols, 2, Len(headers) + 1) = headers
  BY <1>1, <1>3, WireParts
<1>6. Len(headers) \in Nat /\ e - 1 = Len(headers) + 1 /\ e - 2 = Len(headers) /\ e + 1 = Len(headers) + 3
  OBVIOUS
<1>9. readBody(in, e + 1, framing) = Body(body, t, n)
  <2> HIDE DEF e, framing
  <2> QED BY <1>6 DEF framing
<1> HIDE DEF e
<1>7. SubSeq(in.symbols, 2, e - 1) = headers
  BY <1>4, <1>6
<1> DEFINE fields == SubSeq(in.symbols, 2, e - 1)
           read == readBody(in, e + 1, framing)
<1>13. fields = headers
  BY <1>7
<1>14. read = [verdict |-> "read", body |-> body, trailers |-> t, next |-> n]
  BY <1>9 DEF Body
<1>15. framing = ResponseFraming(status, method, headers)
         /\ mode = ModeOf(status, method, determineBodyFraming(headers).mode)
  OBVIOUS
<1> HIDE DEF framing, fields, mode
<1>16. read.verdict = "read" /\ read.body = body /\ read.trailers = t /\ read.next = n
  <2> HIDE DEF read
  <2> QED BY <1>14
<1>17. e - 2 <= MaxHeaderFields
  BY <1>6
<1>20. in.symbols[1].status = status /\ in.symbols[1].kind = "status" /\ in.symbols # <<>> /\ BlockAt(in, 2, e)
  BY <1>1, <1>4
<1>18. framing = ResponseFraming(in.symbols[1].status, method, fields)
  BY <1>13, <1>15, <1>20
<1>19. determineBodyFraming(fields).verdict = "read" /\ ~ Refuses(in.symbols[1].status, fields)
  BY <1>13, <1>20
<1>10. ResponseAt(in, method, e)
  <2>2. readBody(in, e + 1, ResponseFraming(in.symbols[1].status, method, fields)).verdict = "read"
    BY <1>16, <1>18
  <2> QED BY <2>2, <1>17, <1>19, <1>20 DEF ResponseAt, fields
<1>11. readHTTPResponse(in, method) = ResponseOf(in, method, e)
  BY <1>4, <1>10, ResponseReads
<1>12. ResponseOf(in, method, e) = [verdict |-> "read", next |-> n, message |-> g]
  <2>1. ResponseOf(in, method, e) =
          [verdict |-> "read", next |-> read.next,
           message |-> [status |-> status, headers |-> fields, mode |-> mode, body |-> read.body,
                        trailers |-> read.trailers,
                        keepAlive |-> mode # "close-delimited" /\ ~ HasToken(fields, "Connection", "close")]]
    BY <1>13, <1>15, <1>18, <1>20 DEF ResponseOf, fields
  <2> HIDE DEF read
  <2> QED BY <2>1, <1>13, <1>15, <1>16 DEF ResponseFrom
<1> QED BY <1>11, <1>12 DEF start, mode

\* A response that is well framed is read.
LEMMA ResponseWire ==
  ASSUME NEW status \in Nat, NEW method, NEW headers \in Seq(Fields), NEW text \in Seq(Symbols),
         Len(headers) <= MaxHeaderFields, ~ Refuses(status, headers),
         determineBodyFraming(headers).verdict = "read",
         NEW body, NEW t, Frames(ResponseFraming(status, method, headers), text, body, t)
  PROVE  ReadsResponse(Wire(StatusLine(status), headers, text), method,
                       ResponseFrom(status, headers, ModeOf(status, method, determineBodyFraming(headers).mode), body, t))
<1> DEFINE start == StatusLine(status)
           w == Wire(start, headers, text)
           g == ResponseFrom(status, headers, ModeOf(status, method, determineBodyFraming(headers).mode), body, t)
           framing == ResponseFraming(status, method, headers)
<1>1. start \in Symbols
  BY DEF StatusLine, Symbols
<1> HIDE DEF start
<1>2. w \in Seq(Symbols) /\ Len(w) = Len(headers) + 2 + Len(text)
  BY <1>1, WireIs
<1> SUFFICES ASSUME NEW in, NEW rest \in Seq(Symbols), Starts(in, w, rest)
             PROVE  readHTTPResponse(in, method) = Taken(w, g)
  BY <1>2 DEF ReadsResponse, start
<1>3. Holds(in, start, headers, text, rest)
  BY <1>1, WireIs
<1>5. PICK pre \in Seq(Symbols) : Precedes(in, pre, text, rest) /\ Len(pre) = Len(headers) + 2
  BY <1>1, <1>3, WireParts
<1>6. Len(headers) \in Nat /\ Len(text) \in Nat
  OBVIOUS
<1> HIDE DEF w, framing
<1>8. readBody(in, Len(pre) + 1, framing) = Body(body, t, Len(pre) + Len(text) + 1)
  BY <1>5 DEF Frames, Precedes, framing
<1>9. readBody(in, Len(headers) + 3, framing) = Body(body, t, Len(w) + 1)
  <2>1. Len(pre) + Len(text) + 1 = Len(w) + 1 /\ Len(pre) + 1 = Len(headers) + 3
    BY <1>2, <1>5, <1>6
  <2> QED BY <1>8, <2>1
<1>10. readHTTPResponse(in, method) = [verdict |-> "read", next |-> Len(w) + 1, message |-> g]
  BY <1>3, <1>9, ResponseStands DEF start, framing
<1> QED BY <1>10 DEF Taken

-----------------------------------------------------------------------------
(* The header of a message                                                 *)

\* What frames a body.
FieldOf(mode, length) ==
  IF mode = "fixed" THEN <<Field("Content-Length", <<>>, length)>>
  ELSE IF mode = "chunked" THEN <<Field("Transfer-Encoding", <<"chunked">>, 0)>> ELSE <<>>

\* The framing that a header describes.
FramedBy(h, mode, length) == determineBodyFraming(h) = [verdict |-> "read", mode |-> mode, length |-> length]

\* Fields are fields.
LEMMA FieldIs ==
  ASSUME NEW name \in STRING, NEW tokens \in Seq(STRING), NEW number \in Int
  PROVE  /\ Field(name, tokens, number) \in Fields /\ Field(name, tokens, number).name = name
         /\ Field(name, tokens, number).tokens = tokens /\ Field(name, tokens, number).number = number
BY DEF Field, Fields

\* Sequences of one.
LEMMA TupleIs == \A S : <<>> \in Seq(S) /\ \A x \in S : <<x>> \in Seq(S)
OBVIOUS

\* The field that frames a body.
LEMMA FieldOfIs ==
  ASSUME NEW mode, NEW length \in Nat
  PROVE  /\ FieldOf(mode, length) \in Seq(Fields) /\ Len(FieldOf(mode, length)) <= 1
         /\ Names(FieldOf(mode, length)) \subseteq {"Content-Length", "Transfer-Encoding"}
<1> DEFINE none == <<>>
           chunked == <<"chunked">>
           zero == 0
<1>0. none \in Seq(STRING) /\ chunked \in Seq(STRING) /\ length \in Int /\ zero \in Int
  <2>1. "chunked" \in STRING
    BY StringAssumption
  <2> QED BY <2>1, TupleIs
<1> HIDE DEF none, chunked, zero
<1>1. /\ Field("Content-Length", none, length) \in Fields
      /\ Field("Content-Length", none, length).name = "Content-Length"
  BY <1>0, StringAssumption, FieldIs
<1>2. /\ Field("Transfer-Encoding", chunked, zero) \in Fields
      /\ Field("Transfer-Encoding", chunked, zero).name = "Transfer-Encoding"
  BY <1>0, StringAssumption, FieldIs
<1>3. FieldOf(mode, length) =
        IF mode = "fixed" THEN <<Field("Content-Length", none, length)>>
        ELSE IF mode = "chunked" THEN <<Field("Transfer-Encoding", chunked, zero)>> ELSE <<>>
  BY DEF FieldOf, none, chunked, zero
<1> QED BY <1>1, <1>2, <1>3, NamesNone

\* The lengths or codings of a header, and its framing.
LEMMA FramingIs ==
  ASSUME NEW h, NEW length \in 0 .. MaxBodyBytes
  PROVE  /\ Values(h, "Transfer-Encoding") = <<>> /\ Values(h, "Content-Length") = <<>> => FramedBy(h, "none", 0)
         /\ Values(h, "Transfer-Encoding") = <<>> /\ Values(h, "Content-Length") = FieldOf("fixed", length)
            => FramedBy(h, "fixed", length)
         /\ Values(h, "Transfer-Encoding") = FieldOf("chunked", 0) /\ Values(h, "Content-Length") = <<>>
            => FramedBy(h, "chunked", 0)
<1> DEFINE codings == Values(h, "Transfer-Encoding")
           lengths == Values(h, "Content-Length")
           coding == Field("Transfer-Encoding", <<"chunked">>, 0)
           field == Field("Content-Length", <<>>, length)
<1>1. determineBodyFraming(h) =
        IF codings # <<>>
        THEN IF lengths # <<>> THEN Error("bad")
             ELSE IF onlyChunkedTransferCoding(codings) THEN [verdict |-> "read", mode |-> "chunked", length |-> 0]
                  ELSE Error("coding")
        ELSE IF lengths = <<>> THEN [verdict |-> "read", mode |-> "none", length |-> 0]
             ELSE IF parseContentLengths(lengths) < 0 THEN Error("bad")
             ELSE IF parseContentLengths(lengths) > MaxBodyBytes THEN Error("too large")
             ELSE [verdict |-> "read", mode |-> "fixed", length |-> parseContentLengths(lengths)]
  BY DEF determineBodyFraming
<1>2. FieldOf("chunked", 0) = <<coding>> /\ FieldOf("fixed", length) = <<field>>
  BY DEF FieldOf
<1>3. coding.tokens = <<"chunked">>
  BY DEF Field
<1>8. field.number = length
  BY DEF Field
<1>4. length \in Nat /\ MaxBodyBytes \in Nat /\ length <= MaxBodyBytes
  BY LimitsAssumption
<1> HIDE DEF codings, lengths, coding, field
<1>5. codings = <<>> /\ lengths = <<>> => FramedBy(h, "none", 0)
  BY <1>1 DEF FramedBy
<1>6. ASSUME codings = <<coding>>, lengths = <<>> PROVE FramedBy(h, "chunked", 0)
  <2>1. codings # <<>> /\ onlyChunkedTransferCoding(codings)
    BY <1>3, <1>6 DEF onlyChunkedTransferCoding
  <2> QED BY <1>1, <1>6, <2>1 DEF FramedBy
<1>7. ASSUME codings = <<>>, lengths = <<field>> PROVE FramedBy(h, "fixed", length)
  <2>1. ToSet(lengths) = {field} /\ lengths[1] = field /\ lengths # <<>>
    BY <1>7, NamesNone
  <2>2. parseContentLengths(lengths) = length
    BY <1>8, <2>1 DEF parseContentLengths
  <2>3. ~ parseContentLengths(lengths) < 0 /\ ~ parseContentLengths(lengths) > MaxBodyBytes
    BY <1>4, <2>2
  <2>4. lengths # <<>> /\ codings = <<>>
    BY <1>7, <2>1
  <2> QED BY <1>1, <2>2, <2>3, <2>4 DEF FramedBy
<1> QED BY <1>2, <1>5, <1>6, <1>7 DEF codings, lengths

\* The fields of two headers, one after the other.
Join(a, b) == a \o b

\* The joined header has the length, the names and the fields of both, in order.
LEMMA JoinIs ==
  ASSUME NEW a \in Seq(Fields), NEW b \in Seq(Fields)
  PROVE  /\ Join(a, b) \in Seq(Fields) /\ Len(Join(a, b)) = Len(a) + Len(b)
         /\ Names(Join(a, b)) = Names(a) \cup Names(b) /\ ToSet(Join(a, b)) = ToSet(a) \cup ToSet(b)
         /\ \A S : Named(Join(a, b), S) = Join(Named(a, S), Named(b, S))
<1>1. a \o b \in Seq(Fields) /\ Len(a \o b) = Len(a) + Len(b)
  OBVIOUS
<1>2. ToSet(a \o b) = ToSet(a) \cup ToSet(b) /\ Names(a \o b) = Names(a) \cup Names(b)
  BY NamesMore
<1>3. ASSUME NEW S PROVE Named(a \o b, S) = Named(a, S) \o Named(b, S)
  BY NamedConcat
<1> QED BY <1>1, <1>2, <1>3 DEF Join

\* Joining nothing, and joining three.
LEMMA JoinNone ==
  ASSUME NEW a \in Seq(Fields)
  PROVE  Join(a, <<>>) = a /\ Join(<<>>, a) = a
BY DEF Join

\* Three headers are joined in either order.
LEMMA JoinThree ==
  ASSUME NEW a \in Seq(Fields), NEW b \in Seq(Fields), NEW c \in Seq(Fields)
  PROVE  Join(Join(a, b), c) = Join(a, Join(b, c))
BY DEF Join

\* A header with the field that frames a body, and what follows it.
With(h, mode, length, t) == Join(Join(h, FieldOf(mode, length)), t)

\* The fields of a header with the one that frames a body.
LEMMA WithIs ==
  ASSUME NEW h \in Seq(Fields), NEW mode, NEW length \in Nat, NEW t \in Seq(Fields)
  PROVE  /\ With(h, mode, length, t) \in Seq(Fields)
         /\ Len(With(h, mode, length, t)) <= Len(h) + 1 + Len(t)
         /\ Names(With(h, mode, length, t)) = Names(h) \cup Names(FieldOf(mode, length)) \cup Names(t)
         /\ ToSet(With(h, mode, length, t)) = ToSet(h) \cup ToSet(FieldOf(mode, length)) \cup ToSet(t)
         /\ \A S : Named(With(h, mode, length, t), S) = Join(Join(Named(h, S),
              Named(FieldOf(mode, length), S)), Named(t, S))
<1> DEFINE f == FieldOf(mode, length)
<1>1. f \in Seq(Fields) /\ Len(f) \in Nat /\ Len(f) <= 1
  BY FieldOfIs
<1> HIDE DEF f
<1>2. /\ Join(h, f) \in Seq(Fields) /\ Len(Join(h, f)) = Len(h) + Len(f)
      /\ Names(Join(h, f)) = Names(h) \cup Names(f) /\ ToSet(Join(h, f)) = ToSet(h) \cup ToSet(f)
      /\ \A S : Named(Join(h, f), S) = Join(Named(h, S), Named(f, S))
  BY <1>1, JoinIs
<1> DEFINE u == Join(h, f)
<1>3. /\ Join(u, t) \in Seq(Fields) /\ Len(Join(u, t)) = Len(u) + Len(t)
      /\ Names(Join(u, t)) = Names(u) \cup Names(t) /\ ToSet(Join(u, t)) = ToSet(u) \cup ToSet(t)
      /\ \A S : Named(Join(u, t), S) = Join(Named(u, S), Named(t, S))
  <2>1. u \in Seq(Fields)
    BY <1>2
  <2> HIDE DEF u
  <2> QED BY <2>1, JoinIs
<1>4. Len(h) \in Nat /\ Len(t) \in Nat
  OBVIOUS
<1> QED BY <1>1, <1>2, <1>3, <1>4 DEF With, f

\* The names that are declared are strings.
LEMMA DeclaredNames ==
  ASSUME NEW a \in Seq(Fields), NEW h, a # <<>>
  PROVE  \E names \in Seq(STRING) : appendTrailerDeclaration(h, a) = Append(h, Field("Trailer", names, 0))
<1> DEFINE M == Len(a)
           Piece(s, n) == IF Contains(s, a[n].name) THEN <<>> ELSE <<a[n].name>>
           names[n \in 0 .. M] ==
             IF n = 0 THEN <<>>
             ELSE LET name == a[n].name
                  IN names[n - 1] \o (IF Contains(names[n - 1], name) THEN <<>> ELSE <<name>>)
           V == Seq(STRING)
           step == [n \in 1 .. M |-> [s \in V |-> s \o Piece(s, n)]]
<1>1. M \in Nat /\ <<>> \in V /\ \A n \in 1 .. M : \A s \in V : Piece(s, n) \in V
  <2>1. M \in Nat /\ \A n \in 1 .. M : a[n] \in Fields
    OBVIOUS
  <2>2. \A n \in 1 .. M : a[n].name \in STRING
    BY <2>1 DEF Fields
  <2>3. <<>> \in V /\ \A n \in 1 .. M : <<a[n].name>> \in V
    BY <2>2, TupleIs
  <2> QED BY <2>1, <2>3
<1> HIDE DEF M
<1>2. step \in [1 .. M -> [V -> V]]
  <2>1. \A n \in 1 .. M : \A s \in V : s \o Piece(s, n) \in V
    <3> HIDE DEF Piece
    <3> QED BY <1>1
  <2> HIDE DEF Piece, V
  <2> QED BY <2>1
<1>3. PICK f : Loop(f, V, M, <<>>, step)
  <2> HIDE DEF step, V
  <2>1. M \in Nat /\ <<>> \in V
    BY <1>1
  <2> QED BY <1>2, <2>1, Iterates
<1>4. ASSUME NEW n \in 0 .. M PROVE f[n] = IF n = 0 THEN <<>> ELSE f[n - 1] \o Piece(f[n - 1], n)
  <2>1. CASE n = 0
    BY <1>3, <2>1 DEF Loop
  <2>2. CASE n # 0
    <3>1. n \in 1 .. M /\ n - 1 \in 0 .. M
      BY <1>1, <2>2
    <3>2. f[n] = step[n][f[n - 1]] /\ f[n - 1] \in V
      BY <1>3, <3>1 DEF Loop
    <3> HIDE DEF Piece, V
    <3>3. step[n][f[n - 1]] = f[n - 1] \o Piece(f[n - 1], n)
      BY <3>1, <3>2
    <3> QED BY <2>2, <3>2, <3>3
  <2> QED BY <2>1, <2>2
<1>5. f = [n \in 0 .. M |-> IF n = 0 THEN <<>> ELSE f[n - 1] \o Piece(f[n - 1], n)]
  <2> HIDE DEF Piece, V, step
  <2> QED BY <1>3, <1>4 DEF Loop
<1>6. names = [n \in 0 .. M |-> IF n = 0 THEN <<>> ELSE names[n - 1] \o Piece(names[n - 1], n)]
  BY <1>5
<1>7. appendTrailerDeclaration(h, a) = Append(h, Field("Trailer", names[M], 0))
  BY DEF appendTrailerDeclaration, M
<1> HIDE DEF names, step, Piece
<1> DEFINE T == {n \in 0 .. M : names[n] \in V}
<1>8. 0 .. M \subseteq T
  <2>1. 0 \in T
    BY <1>1, <1>6
  <2>2. ASSUME NEW n \in 0 .. M - 1, n \in T PROVE n + 1 \in T
    <3>1. n + 1 \in 0 .. M /\ n + 1 \in 1 .. M /\ n + 1 # 0 /\ (n + 1) - 1 = n
      BY <1>1
    <3>2. names[n + 1] = names[n] \o Piece(names[n], n + 1)
      BY <1>6, <3>1
    <3>3. names[n] \o Piece(names[n], n + 1) \in V
      <4>1. names[n] \in V /\ Piece(names[n], n + 1) \in V
        BY <1>1, <2>2, <3>1
      <4> QED BY <4>1
    <3> QED BY <3>1, <3>2, <3>3
  <2> HIDE DEF T
  <2> QED BY <1>1, <2>1, <2>2, Induct
<1>9. names[M] \in V
  BY <1>1, <1>8
<1> QED BY <1>7, <1>9

\* The header that declareFraming writes.
Declaring(h, mode, body, t, d) == declareFraming(h, mode, body, t) = With(h, mode, Len(body), d)

\* declareFraming adds the field that frames a body and, perhaps, one that
\* declares trailers.
LEMMA Declares ==
  ASSUME NEW h \in Seq(Fields), NEW mode \in {"none", "fixed", "chunked"}, NEW body \in Seq(Symbols),
           NEW t \in Seq(Fields)
  PROVE  \E d \in Seq(Fields) : Len(d) <= 1 /\ Names(d) \subseteq {"Trailer"} /\ Declaring(h, mode, body, t, d)
<1> DEFINE empty == <<>>
<1>0. empty \in Seq(Fields) /\ Len(empty) <= 1 /\ Names(empty) \subseteq {"Trailer"} /\ Len(body) \in Nat
  BY NamesNone
<1>1. CASE mode = "none"
  <2>1. With(h, mode, Len(body), empty) = h
    BY <1>1 DEF With, Join, FieldOf
  <2>2. declareFraming(h, mode, body, t) = h
    BY <1>1 DEF declareFraming
  <2> HIDE DEF empty
  <2> QED BY <1>0, <2>1, <2>2 DEF Declaring
<1>2. CASE mode = "fixed"
  <2>1. With(h, mode, Len(body), empty) = Append(h, Field("Content-Length", <<>>, Len(body)))
    <3>1. FieldOf(mode, Len(body)) \in Seq(Fields)
      BY <1>0, FieldOfIs
    <3>2. With(h, mode, Len(body), empty) = h \o FieldOf(mode, Len(body))
      BY <3>1 DEF With, Join
    <3>3. FieldOf(mode, Len(body)) = <<Field("Content-Length", <<>>, Len(body))>>
      BY <1>2 DEF FieldOf
    <3> DEFINE x == Field("Content-Length", <<>>, Len(body))
    <3> HIDE DEF x
    <3>4. h \o <<x>> = Append(h, x)
      OBVIOUS
    <3> QED BY <3>2, <3>3, <3>4 DEF x
  <2>2. declareFraming(h, mode, body, t) = Append(h, Field("Content-Length", <<>>, Len(body)))
    BY <1>2 DEF declareFraming
  <2> HIDE DEF empty
  <2> QED BY <1>0, <2>1, <2>2 DEF Declaring
<1>3. CASE mode = "chunked"
  <2> DEFINE x == Field("Transfer-Encoding", <<"chunked">>, 0)
  <2>1. declareFraming(h, mode, body, t) = appendTrailerDeclaration(Append(h, x), t)
    BY <1>3 DEF declareFraming
  <2>2. FieldOf(mode, Len(body)) = <<x>> /\ FieldOf(mode, Len(body)) \in Seq(Fields)
    <3>1. FieldOf(mode, Len(body)) = <<x>>
      BY <1>3 DEF FieldOf
    <3> QED BY <1>0, <3>1, FieldOfIs
  <2> HIDE DEF x
  <2>3. Append(h, x) = h \o <<x>> /\ Append(h, x) \in Seq(Fields)
    BY <2>2
  <2>4. CASE t = <<>>
    <3>1. appendTrailerDeclaration(Append(h, x), t) = h \o <<x>>
      BY <2>3, <2>4 DEF appendTrailerDeclaration
    <3>2. With(h, mode, Len(body), empty) = h \o <<x>>
      BY <2>2, <2>3 DEF With, Join
    <3> HIDE DEF empty
    <3> QED BY <1>0, <2>1, <3>1, <3>2 DEF Declaring
  <2>5. CASE t # <<>>
    <3>1. PICK names \in Seq(STRING) :
            appendTrailerDeclaration(Append(h, x), t) = Append(Append(h, x), Field("Trailer", names, 0))
      BY <2>5, DeclaredNames
    <3> DEFINE f == Field("Trailer", names, 0)
               d == <<f>>
    <3>2. f \in Fields /\ f.name = "Trailer"
      BY StringAssumption, FieldIs
    <3> HIDE DEF f
    <3>3. d \in Seq(Fields) /\ Len(d) <= 1 /\ Names(d) \subseteq {"Trailer"}
      BY <3>2, NamesNone
    <3>4. Append(Append(h, x), f) = (h \o <<x>>) \o <<f>>
      BY <2>2, <2>3, <3>2
    <3>5. With(h, mode, Len(body), d) = (h \o <<x>>) \o <<f>>
      BY <2>2 DEF With, Join
    <3> HIDE DEF d
    <3> QED BY <2>1, <3>1, <3>3, <3>4, <3>5 DEF Declaring, f
  <2> QED BY <2>4, <2>5
<1> QED BY <1>1, <1>2, <1>3

\* The fields that the writer adds.
Additions == {"Content-Length", "Transfer-Encoding", "Trailer", "Connection"}

\* What the writer may say of the connection.
Closings == {<<>>, <<Field("Connection", <<"close">>, 0)>>}

\* A header as the writer completes it: it adds to h what frames the body.
HeaderFor(g, h, mode, length) ==
  /\ g \in Seq(Fields) /\ Len(g) <= Len(h) + 3
  /\ FramedBy(g, mode, IF mode = "fixed" THEN length ELSE 0)
  /\ validateConnectionFields(g) /\ ~ Upgrades(g)
  /\ mode = "none" => Names(g) \cap {"Content-Length", "Transfer-Encoding"} = {}
  /\ mode = "fixed" => "Content-Length" \in Names(g)
  /\ \A S : S \cap Additions = {} => Named(g, S) = Named(h, S)
  /\ ToSet(h) \subseteq ToSet(g) /\ Names(g) \subseteq Names(h) \cup Additions

\* A body that is framed apart from the other fields.
LEMMA FramedWith ==
  ASSUME NEW h \in Seq(Fields), NEW mode \in {"none", "fixed", "chunked"}, NEW length \in 0 .. MaxBodyBytes,
         NEW d \in Seq(Fields), (Names(h) \cup Names(d)) \cap {"Content-Length", "Transfer-Encoding"} = {}
  PROVE  FramedBy(With(h, mode, length, d), mode, IF mode = "fixed" THEN length ELSE 0)
<1> DEFINE f == FieldOf(mode, length)
           w == With(h, mode, length, d)
<1>0. length \in Nat /\ f \in Seq(Fields)
  BY LimitsAssumption, FieldOfIs
<1>1. ASSUME NEW name \in {"Content-Length", "Transfer-Encoding"} PROVE Values(w, name) = Values(f, name)
  <2>1. Named(w, {name}) = Join(Join(Named(h, {name}), Named(f, {name})), Named(d, {name}))
    BY <1>0, WithIs
  <2>2. Named(h, {name}) = <<>> /\ Named(d, {name}) = <<>>
    BY NamedAll
  <2>3. Named(f, {name}) \in Seq(Fields)
    BY <1>0, NamedFields
  <2> QED BY <2>1, <2>2, <2>3, JoinNone DEF Values
<1>2. CASE mode = "none"
  <2>1. f = <<>>
    BY <1>2 DEF FieldOf
  <2>2. \A name : Values(f, name) = <<>>
    BY <2>1, NamedNone DEF Values
  <2> QED BY <1>1, <1>2, <2>2, FramingIs
<1>3. CASE mode = "fixed"
  <2> DEFINE x == Field("Content-Length", <<>>, length)
  <2>1. f = <<x>> /\ x.name = "Content-Length" /\ x \in Fields
    <3>1. f = <<x>>
      BY <1>3 DEF FieldOf
    <3>2. \A tokens \in Seq(STRING) : Field("Content-Length", tokens, length) \in Fields
                                      /\ Field("Content-Length", tokens, length).name = "Content-Length"
      BY <1>0, StringAssumption, FieldIs
    <3> QED BY <3>1, <3>2, TupleIs
  <2> HIDE DEF x
  <2>2. Values(f, "Content-Length") = f /\ Values(f, "Transfer-Encoding") = <<>>
    BY <2>1, NamedOne DEF Values
  <2>3. f = FieldOf("fixed", length)
    BY <1>3
  <2> HIDE DEF f, w
  <2>4. Values(w, "Content-Length") = FieldOf("fixed", length) /\ Values(w, "Transfer-Encoding") = <<>>
    BY <1>1, <2>2, <2>3
  <2>5. FramedBy(w, "fixed", length)
    BY <2>4, FramingIs
  <2> QED BY <1>3, <2>5 DEF w
<1>4. CASE mode = "chunked"
  <2> DEFINE x == Field("Transfer-Encoding", <<"chunked">>, 0)
  <2>1. f = <<x>> /\ x.name = "Transfer-Encoding" /\ x \in Fields
    <3>1. f = <<x>>
      BY <1>4 DEF FieldOf
    <3>2. x.name = "Transfer-Encoding"
      BY DEF Field
    <3> QED BY <1>0, <3>1, <3>2
  <2>3. f = FieldOf("chunked", 0)
    BY <1>4 DEF FieldOf
  <2> HIDE DEF x
  <2>2. Values(f, "Transfer-Encoding") = f /\ Values(f, "Content-Length") = <<>>
    BY <2>1, NamedOne DEF Values
  <2> HIDE DEF f, w
  <2>4. Values(w, "Transfer-Encoding") = FieldOf("chunked", 0) /\ Values(w, "Content-Length") = <<>>
    BY <1>1, <2>2, <2>3
  <2>5. FramedBy(w, "chunked", 0)
    BY <2>4, FramingIs
  <2> QED BY <1>4, <2>5 DEF w
<1> QED BY <1>2, <1>3, <1>4

\* The header that the writer makes of h.
LEMMA HeaderIs ==
  ASSUME NEW h \in Seq(Fields), Names(h) \cap (Additions \cup {"Upgrade"}) = {}, NEW c \in Closings,
         NEW mode \in {"none", "fixed", "chunked"}, NEW length \in 0 .. MaxBodyBytes,
         NEW d \in Seq(Fields), Len(d) <= 1, Names(d) \subseteq {"Trailer"}
  PROVE  HeaderFor(With(Join(h, c), mode, length, d), h, mode, length)
<1> DEFINE f == FieldOf(mode, length)
           b == Join(h, c)
           g == With(b, mode, length, d)
           close == Field("Connection", <<"close">>, 0)
<1>1. length \in Nat /\ f \in Seq(Fields) /\ Names(f) \subseteq {"Content-Length", "Transfer-Encoding"}
  BY LimitsAssumption, FieldOfIs
<1>2. close \in Fields /\ close.name = "Connection" /\ close.tokens = <<"close">>
  <2> DEFINE tokens == <<"close">>
             zero == 0
  <2>1. tokens \in Seq(STRING) /\ zero \in Int
    BY StringAssumption, TupleIs
  <2> HIDE DEF tokens, zero
  <2>2. \A x : x = Field("Connection", tokens, zero) => x \in Fields /\ x.name = "Connection" /\ x.tokens = tokens
    BY <2>1, StringAssumption, FieldIs
  <2> QED BY <2>2 DEF tokens, zero
<1> HIDE DEF close
<1>3. c \in Seq(Fields) /\ Len(c) <= 1 /\ Len(c) \in Nat /\ ToSet(c) \subseteq {close}
        /\ Names(c) \subseteq {"Connection"}
  <2>1. c = <<>> \/ c = <<close>>
    BY DEF Closings, close
  <2>2. CASE c = <<>>
    BY <2>2, NamesNone
  <2>3. CASE c = <<close>>
    BY <2>3, <1>2, NamesNone
  <2> QED BY <2>1, <2>2, <2>3
<1>4. /\ b \in Seq(Fields) /\ Len(b) = Len(h) + Len(c) /\ ToSet(b) = ToSet(h) \cup ToSet(c)
      /\ Names(b) = Names(h) \cup Names(c) /\ \A S : Named(b, S) = Join(Named(h, S), Named(c, S))
  BY <1>3, JoinIs
<1> HIDE DEF b
<1>5. /\ g \in Seq(Fields) /\ Len(g) <= Len(b) + 1 + Len(d)
      /\ Names(g) = Names(b) \cup Names(f) \cup Names(d)
      /\ ToSet(g) = ToSet(b) \cup ToSet(f) \cup ToSet(d)
      /\ \A S : Named(g, S) = Join(Join(Named(b, S), Named(f, S)), Named(d, S))
  BY <1>1, <1>4, WithIs
<1>6. Len(g) <= Len(h) + 3
  <2>1. Len(h) \in Nat /\ Len(d) \in Nat
    OBVIOUS
  <2>2. Len(g) \in Nat
    BY <1>5
  <2> HIDE DEF g
  <2> QED BY <1>3, <1>4, <1>5, <2>1, <2>2
<1>7. FramedBy(g, mode, IF mode = "fixed" THEN length ELSE 0)
  <2>1. (Names(b) \cup Names(d)) \cap {"Content-Length", "Transfer-Encoding"} = {}
    BY <1>3, <1>4 DEF Additions
  <2> QED BY <1>4, <2>1, FramedWith
<1> HIDE DEF g
<1>8. ASSUME NEW x \in ToSet(g), x.name = "Connection" PROVE x = close
  <2>1. x.name \notin Names(h) /\ x.name \notin Names(f) /\ x.name \notin Names(d)
    BY <1>1, <1>8 DEF Additions
  <2>2. x \notin ToSet(h) /\ x \notin ToSet(f) /\ x \notin ToSet(d)
    BY <2>1 DEF Names
  <2> QED BY <1>3, <1>4, <1>5, <2>2
<1>9. validateConnectionFields(g) /\ ~ Upgrades(g)
  <2>1. ToSet(close.tokens) = {"close"}
    BY <1>2, NamesNone
  <2>2. "Upgrade" \notin Names(g)
    BY <1>1, <1>3, <1>4, <1>5
  <2>3. ASSUME NEW token, HasToken(g, "Connection", token) PROVE token = "close"
    <3>1. PICK x \in ToSet(g) : x.name = "Connection" /\ token \in ToSet(x.tokens)
      BY <2>3 DEF HasToken
    <3> QED BY <1>8, <2>1, <3>1
  <2>4. "" # "close" /\ "upgrade" # "close"
    OBVIOUS
  <2> QED BY <2>2, <2>3, <2>4 DEF validateConnectionFields, Upgrades
<1>10. mode = "none" => Names(g) \cap {"Content-Length", "Transfer-Encoding"} = {}
  <2>1. mode = "none" => Names(f) = {}
    BY NamesNone DEF FieldOf
  <2> QED BY <2>1, <1>3, <1>4, <1>5 DEF Additions
<1>11. mode = "fixed" => "Content-Length" \in Names(g)
  <2>1. Field("Content-Length", <<>>, length).name = "Content-Length"
    BY DEF Field
  <2>2. mode = "fixed" => Names(f) = {"Content-Length"}
    BY <2>1, NamesNone DEF FieldOf
  <2> QED BY <2>2, <1>5
<1>12. ASSUME NEW S, S \cap Additions = {} PROVE Named(g, S) = Named(h, S)
  <2>1. Named(c, S) = <<>> /\ Named(f, S) = <<>> /\ Named(d, S) = <<>>
    <3>1. Names(c) \cap S = {} /\ Names(f) \cap S = {} /\ Names(d) \cap S = {}
      BY <1>1, <1>3, <1>12 DEF Additions
    <3> QED BY <1>1, <1>3, <3>1, NamedAll
  <2>2. Named(h, S) \in Seq(Fields)
    BY NamedFields
  <2> QED BY <1>4, <1>5, <2>1, <2>2, JoinNone
<1>13. ToSet(h) \subseteq ToSet(g) /\ Names(g) \subseteq Names(h) \cup Additions
  BY <1>1, <1>3, <1>4, <1>5 DEF Additions
<1> QED BY <1>5, <1>6, <1>7, <1>9, <1>10, <1>11, <1>12, <1>13 DEF HeaderFor, g, b

-----------------------------------------------------------------------------
(* What the writer writes is read                                          *)

\* A body as the writer writes it is read.
LEMMA BodyWritten ==
  ASSUME NEW g, NEW mode \in {"none", "fixed", "chunked"}, g.mode = mode,
         NEW body \in Seq(Symbols), Len(body) <= MaxBodyBytes, mode = "chunked" => Len(body) < MaxChunkCount,
         NEW t \in Seq(Fields), Len(t) <= MaxTrailerFields, validateTrailers(t),
         mode = "fixed" => g.length = Len(body), mode = "none" => body = <<>>, mode # "chunked" => t = <<>>
  PROVE  Frames(g, writeMessageBody(mode, body, t), body, t)
<1>1. CASE mode = "none"
  <2>1. writeMessageBody(mode, body, t) = <<>> /\ body = <<>> /\ t = <<>>
    BY <1>1 DEF writeMessageBody
  <2> QED BY <1>1, <2>1, FramesNone
<1>2. CASE mode = "fixed"
  <2>1. writeMessageBody(mode, body, t) = body /\ t = <<>>
    BY <1>2 DEF writeMessageBody
  <2> QED BY <1>2, <2>1, FramesFixed
<1>3. CASE mode = "chunked"
  BY <1>3, FramesWritten
<1> QED BY <1>1, <1>2, <1>3

\* The responses that the proxy writes, and the fields that they keep.
Answers == [status : Nat, headers : Seq(Fields), mode : {"none", "fixed", "chunked"},
            body : Seq(Symbols), trailers : Seq(Fields), close : BOOLEAN]

\* What the writer needs of a response, with the fields h that it keeps.
Sendable(r, h) ==
  /\ r \in Answers /\ h = withoutFramingHeaders(r.headers)
  /\ Names(r.headers) \cap {"Connection", "Upgrade"} = {} /\ Len(h) + 3 <= MaxHeaderFields
  /\ ~ Interim(r.status)
  /\ Len(r.body) <= MaxBodyBytes
  /\ r.mode = "chunked" => Len(r.body) < MaxChunkCount
  /\ Len(r.trailers) <= MaxTrailerFields /\ validateTrailers(r.trailers)
  /\ r.mode = "none" => r.body = <<>>
  /\ r.mode # "chunked" => r.trailers = <<>>

\* The mode and the text of the body that the writer writes.
BodyMode(r) == IF r.mode = "none" THEN "fixed" ELSE r.mode

\* The mode that the header announces: a HEAD or 304 answer announces its body.
FramedMode(r, method) ==
  IF ~ responseMustNotHaveBody(method, r.status) THEN BodyMode(r)
  ELSE IF method = "HEAD" \/ r.status = 304 THEN "fixed" ELSE "none"

\* The text of the body: none where the method or the status forbids it.
TextBody(r, method) ==
  IF responseMustNotHaveBody(method, r.status) THEN <<>>
  ELSE writeMessageBody(BodyMode(r), r.body, r.trailers)

\* g is the header that the writer gives the response.
WrittenAs(r, method, g) ==
  writeHTTPResponse(r, method) =
    [verdict |-> "written", symbols |-> Wire(StatusLine(r.status), g, TextBody(r, method))]

\* The header without the fields that frame a body.
LEMMA KeptIs ==
  ASSUME NEW a \in Seq(Fields)
  PROVE  /\ withoutFramingHeaders(a) \in Seq(Fields)
         /\ Names(withoutFramingHeaders(a)) \subseteq Names(a) \ {"Content-Length", "Transfer-Encoding", "Trailer"}
         /\ ToSet(withoutFramingHeaders(a)) \subseteq ToSet(a)
<1> DEFINE S == STRING \ {"Content-Length", "Transfer-Encoding", "Trailer"}
<1>1. withoutFramingHeaders(a) = Named(a, S)
  BY DEF withoutFramingHeaders
<1>2. Named(a, S) \in Seq(Fields)
  BY NamedFields
<1>3. ToSet(Named(a, S)) = {x \in ToSet(a) : x.name \in S} /\ Names(Named(a, S)) = Names(a) \cap S
  BY NamedMembers
<1> QED BY <1>1, <1>2, <1>3

\* The writer writes what can be sent.
LEMMA AnswerWritten ==
  ASSUME NEW r, NEW h, Sendable(r, h), NEW method
  PROVE  \E g : HeaderFor(g, h, FramedMode(r, method), Len(r.body)) /\ WrittenAs(r, method, g)
<1> DEFINE noBody == responseMustNotHaveBody(method, r.status)
           close == Field("Connection", <<"close">>, 0)
           c == IF r.close THEN <<close>> ELSE <<>>
           mode == IF r.mode = "none" /\ ~ noBody THEN "fixed" ELSE r.mode
           framed == FramedMode(r, method)
<1>1. /\ r.headers \in Seq(Fields) /\ r.body \in Seq(Symbols) /\ r.trailers \in Seq(Fields)
      /\ r.mode \in {"none", "fixed", "chunked"} /\ r.close \in BOOLEAN /\ r.status \in Nat
  BY DEF Sendable, Answers
<1>2. /\ h \in Seq(Fields) /\ Names(h) \subseteq Names(r.headers) \ {"Content-Length", "Transfer-Encoding", "Trailer"}
      /\ ToSet(h) \subseteq ToSet(r.headers)
  BY <1>1, KeptIs DEF Sendable
<1>3. Names(h) \cap (Additions \cup {"Upgrade"}) = {}
  BY <1>2 DEF Additions, Sendable
<1>4. \A token : ~ HasToken(h, "Connection", token) /\ ~ HasToken(r.headers, "Connection", token)
  <2>1. "Connection" \notin Names(h) /\ "Connection" \notin Names(r.headers)
    BY <1>2 DEF Sendable
  <2> QED BY <2>1 DEF Names, HasToken
<1>5. c \in Closings
  BY DEF Closings
<1>6. framed \in {"none", "fixed", "chunked"}
  BY <1>1 DEF FramedMode, BodyMode
<1>7. Len(r.body) \in 0 .. MaxBodyBytes
  BY <1>1, LimitsAssumption DEF Sendable
<1>8. (IF r.close /\ ~ HasToken(h, "Connection", "close")
       THEN Append(h, Field("Connection", <<"close">>, 0)) ELSE h) = Join(h, c)
  <2>1. CASE r.close
    <3>1. Append(h, close) = h \o <<close>>
      <4> HIDE DEF close
      <4> QED BY <1>2
    <3> QED BY <1>4, <2>1, <3>1 DEF Join
  <2>2. CASE ~ r.close
    BY <1>2, <2>2, JoinNone
  <2> QED BY <2>1, <2>2
<1>9. Join(h, c) \in Seq(Fields)
  <2>1. c \in Seq(Fields)
    <3>1. \A tokens \in Seq(STRING) : Field("Connection", tokens, 0) \in Fields
      BY StringAssumption, FieldIs
    <3>2. close \in Fields
      BY <3>1, StringAssumption, TupleIs
    <3> HIDE DEF close
    <3> QED BY <3>2, TupleIs
  <2> HIDE DEF c
  <2> QED BY <1>2, <2>1, JoinIs
<1> HIDE DEF c
<1>10. PICK d \in Seq(Fields) :
         Len(d) <= 1 /\ Names(d) \subseteq {"Trailer"} /\ Declaring(Join(h, c), framed, r.body, r.trailers, d)
  BY <1>1, <1>6, <1>9, Declares
<1> DEFINE g == With(Join(h, c), framed, Len(r.body), d)
<1>11. HeaderFor(g, h, framed, Len(r.body))
  BY <1>2, <1>3, <1>5, <1>6, <1>7, <1>10, HeaderIs
<1>12. framed = IF ~ noBody THEN mode ELSE IF method = "HEAD" \/ r.status = 304 THEN "fixed" ELSE "none"
  BY DEF FramedMode, BodyMode
<1>13. declareFraming(Join(h, c), framed, r.body, r.trailers) = g
  BY <1>10 DEF Declaring
<1>14. TextBody(r, method) = IF noBody THEN <<>> ELSE writeMessageBody(mode, r.body, r.trailers)
  BY DEF TextBody, BodyMode
<1>15. ~ (\/ ~ validateConnectionFields(r.headers) \/ Upgrades(r.headers)
          \/ r.status = 101 \/ ~ validateTrailers(r.trailers)
          \/ mode = "close-delimited")
  <2>1. "Upgrade" \notin Names(r.headers) /\ validateTrailers(r.trailers)
    BY DEF Sendable
  <2>2. r.status # 101
    BY <1>1 DEF Sendable, Interim
  <2> QED BY <1>1, <1>4, <2>1, <2>2 DEF validateConnectionFields, Upgrades
<1>16. h = withoutFramingHeaders(r.headers)
  BY DEF Sendable
<1>17. writeHTTPResponse(r, method) =
         [verdict |-> "written", symbols |-> <<StatusLine(r.status)>> \o g \o <<EmptyLine>> \o TextBody(r, method)]
  <2> DEFINE headers == withoutFramingHeaders(r.headers)
             closing == IF r.close /\ ~ HasToken(headers, "Connection", "close")
                        THEN Append(headers, Field("Connection", <<"close">>, 0)) ELSE headers
             fr == IF ~ noBody THEN mode
                   ELSE IF method = "HEAD" \/ r.status = 304 THEN "fixed" ELSE "none"
             text == IF noBody THEN <<>> ELSE writeMessageBody(mode, r.body, r.trailers)
  <2>1. writeHTTPResponse(r, method) =
          IF \/ ~ validateConnectionFields(r.headers) \/ Upgrades(r.headers)
             \/ r.status = 101 \/ ~ validateTrailers(r.trailers)
             \/ mode = "close-delimited"
          THEN Error("refused")
          ELSE Written(StatusLine(r.status), declareFraming(closing, fr, r.body, r.trailers), text)
    BY DEF writeHTTPResponse
  <2>2. closing = Join(h, c)
    BY <1>8, <1>16
  <2>3. fr = framed /\ text = TextBody(r, method)
    BY <1>12, <1>14
  <2> HIDE DEF noBody, mode, framed, g, headers, closing, fr, text
  <2>4. writeHTTPResponse(r, method) = Written(StatusLine(r.status), g, TextBody(r, method))
    BY <1>13, <1>15, <2>1, <2>2, <2>3
  <2> QED BY <2>4 DEF Written
<1> QED BY <1>11, <1>17 DEF WrittenAs, Wire

\* A header that a response may have.
LEMMA NotRefused ==
  ASSUME NEW status \in Nat, ~ Interim(status), NEW g, NEW h \in Seq(Fields), NEW mode, NEW length,
         HeaderFor(g, h, mode, length), Len(h) + 3 <= MaxHeaderFields
  PROVE  /\ status = 204 /\ mode = "fixed" => Refuses(status, g)
         /\ ~ (status = 204 /\ mode # "none") => ~ Refuses(status, g)
         /\ g \in Seq(Fields) /\ Len(g) <= MaxHeaderFields
         /\ determineBodyFraming(g).verdict = "read" /\ determineBodyFraming(g).mode = mode
         /\ mode = "fixed" => determineBodyFraming(g).length = length
<1>1. g \in Seq(Fields) /\ Len(g) <= Len(h) + 3 /\ validateConnectionFields(g) /\ ~ Upgrades(g)
  BY DEF HeaderFor
<1>2. status # 101
  BY DEF Interim
<1>3. mode = "none" => Names(g) \cap {"Content-Length", "Transfer-Encoding"} = {}
  BY DEF HeaderFor
<1>4. mode = "fixed" => "Content-Length" \in Names(g)
  BY DEF HeaderFor
<1>5. ~ (status = 204 /\ mode # "none") => ~ Refuses(status, g)
  BY <1>1, <1>2, <1>3 DEF Refuses, validateResponseFramingHeaders
<1>6. status = 204 /\ mode = "fixed" => Refuses(status, g)
  BY <1>4 DEF Refuses, validateResponseFramingHeaders
<1>7. determineBodyFraming(g) = [verdict |-> "read", mode |-> mode, length |-> IF mode = "fixed" THEN length ELSE 0]
  BY DEF HeaderFor, FramedBy
<1>8. Len(g) <= MaxHeaderFields
  <2>1. Len(g) \in Nat /\ Len(h) \in Nat /\ MaxHeaderFields \in Nat
    BY <1>1, LimitsAssumption
  <2> QED BY <1>1, <2>1
<1>9. /\ determineBodyFraming(g).verdict = "read" /\ determineBodyFraming(g).mode = mode
      /\ mode = "fixed" => determineBodyFraming(g).length = length
  BY <1>7
<1> QED BY <1>1, <1>5, <1>6, <1>8, <1>9

\* A 204 cannot have a length.
LEMMA LengthRefused ==
  ASSUME NEW g, NEW h, NEW mode, NEW length, HeaderFor(g, h, mode, length), mode = "fixed", NEW status, status = 204
  PROVE  Refuses(status, g)
BY DEF HeaderFor, Refuses, validateResponseFramingHeaders

\* The framing of a response whose header frames its body.
LEMMA ResponseFramingIs ==
  ASSUME NEW g, NEW h, NEW mode, NEW length, HeaderFor(g, h, mode, length), NEW status, NEW method
  PROVE  /\ ResponseFraming(status, method, g).mode = ModeOf(status, method, mode)
         /\ mode = "fixed" => ResponseFraming(status, method, g).length = length
<1>1. determineBodyFraming(g) = [verdict |-> "read", mode |-> mode, length |-> IF mode = "fixed" THEN length ELSE 0]
  BY DEF HeaderFor, FramedBy
<1> DEFINE m == ModeOf(status, method, determineBodyFraming(g).mode)
<1>2. ResponseFraming(status, method, g) = [determineBodyFraming(g) EXCEPT !.mode = m]
  BY DEF ResponseFraming
<1>3. m = ModeOf(status, method, mode)
  BY <1>1
<1> HIDE DEF m
<1> QED BY <1>1, <1>2, <1>3

\* An answer without a body is read, whatever the header says of a body.
LEMMA BareRead ==
  ASSUME NEW status \in Nat, ~ Interim(status), NEW g, NEW h \in Seq(Fields), NEW mode, NEW length,
         HeaderFor(g, h, mode, length), Len(h) + 3 <= MaxHeaderFields, status = 204 => mode = "none",
         NEW method, responseMustNotHaveBody(method, status)
  PROVE  ReadsResponse(Wire(StatusLine(status), g, <<>>), method, ResponseFrom(status, g, "none", <<>>, <<>>))
<1>1. /\ ~ Refuses(status, g) /\ g \in Seq(Fields) /\ Len(g) <= MaxHeaderFields
      /\ determineBodyFraming(g).verdict = "read"
  BY NotRefused
<1>2. ResponseFraming(status, method, g).mode = "none"
  BY ResponseFramingIs DEF ModeOf
<1> DEFINE empty == <<>>
<1>3. empty \in Seq(Symbols) /\ Frames(ResponseFraming(status, method, g), empty, empty, empty)
  BY <1>2, FramesNone
<1>4. ModeOf(status, method, determineBodyFraming(g).mode) = "none"
  BY DEF ModeOf
<1> HIDE DEF empty
<1>5. ReadsResponse(Wire(StatusLine(status), g, empty), method,
                    ResponseFrom(status, g, ModeOf(status, method, determineBodyFraming(g).mode), empty, empty))
  BY <1>1, <1>3, ResponseWire
<1> QED BY <1>4, <1>5 DEF empty

\* An answer with a body is read.
LEMMA FullRead ==
  ASSUME NEW r, NEW h, Sendable(r, h), NEW g, HeaderFor(g, h, BodyMode(r), Len(r.body)),
         NEW method, ~ responseMustNotHaveBody(method, r.status)
  PROVE  ReadsResponse(Wire(StatusLine(r.status), g, writeMessageBody(BodyMode(r), r.body, r.trailers)), method,
                       ResponseFrom(r.status, g, BodyMode(r), r.body, r.trailers))
<1> DEFINE mode == BodyMode(r)
           text == writeMessageBody(mode, r.body, r.trailers)
           framing == ResponseFraming(r.status, method, g)
<1>1. /\ r.body \in Seq(Symbols) /\ r.trailers \in Seq(Fields) /\ r.status \in Nat
      /\ mode \in {"fixed", "chunked"}
  BY DEF Sendable, Answers, BodyMode
<1>2. h \in Seq(Fields)
  BY KeptIs DEF Sendable, Answers
<1>3. ~ Interim(r.status) /\ Len(h) + 3 <= MaxHeaderFields /\ r.status # 204
  BY DEF Sendable, responseMustNotHaveBody
<1>4. /\ ~ Refuses(r.status, g) /\ g \in Seq(Fields) /\ Len(g) <= MaxHeaderFields
      /\ determineBodyFraming(g).verdict = "read" /\ determineBodyFraming(g).mode = mode
  BY <1>1, <1>2, <1>3, NotRefused
<1>5. ModeOf(r.status, method, mode) = mode
  BY <1>1 DEF ModeOf
<1>6. framing.mode = mode /\ (mode = "fixed" => framing.length = Len(r.body))
  BY <1>5, ResponseFramingIs
<1>7. /\ Len(r.body) <= MaxBodyBytes /\ (mode = "chunked" => Len(r.body) < MaxChunkCount)
      /\ Len(r.trailers) <= MaxTrailerFields /\ validateTrailers(r.trailers)
  BY DEF Sendable, BodyMode
<1>8. mode # "chunked" => r.trailers = <<>>
  BY DEF Sendable, BodyMode
<1> HIDE DEF mode, framing
<1>9. Frames(framing, text, r.body, r.trailers)
  BY <1>1, <1>6, <1>7, <1>8, BodyWritten
<1>10. text \in Seq(Symbols)
  BY <1>9 DEF Frames
<1>11. ReadsResponse(Wire(StatusLine(r.status), g, text), method,
                     ResponseFrom(r.status, g, ModeOf(r.status, method, determineBodyFraming(g).mode), r.body, r.trailers))
  BY <1>1, <1>4, <1>9, <1>10, ResponseWire DEF framing
<1> QED BY <1>4, <1>5, <1>11 DEF mode

\* No continuation of text is read as a response.
Refused(text, method) ==
  \A in : \A rest \in Seq(Symbols) : Starts(in, text, rest) => readHTTPResponse(in, method).verdict # "read"

\* A response whose header is refused is not read.
LEMMA HeaderRefused ==
  ASSUME NEW status \in Nat, NEW g \in Seq(Fields), Refuses(status, g), NEW text \in Seq(Symbols), NEW method
  PROVE  Refused(Wire(StatusLine(status), g, text), method)
<1> DEFINE start == StatusLine(status)
           w == Wire(start, g, text)
<1>1. start \in Symbols /\ start.status = status
  BY DEF StatusLine, Symbols
<1> HIDE DEF start
<1> SUFFICES ASSUME NEW in, NEW rest \in Seq(Symbols), Starts(in, w, rest),
                      readHTTPResponse(in, method).verdict = "read"
             PROVE  FALSE
  BY DEF Refused, start
<1>2. Holds(in, start, g, text, rest)
  BY <1>1, WireIs
<1>3. /\ in.symbols \in Seq(Symbols) /\ in.symbols[1] = start /\ Len(g) + 2 \in Nat
      /\ BlockAt(in, 2, Len(g) + 2) /\ SubSeq(in.symbols, 2, Len(g) + 1) = g
  BY <1>1, <1>2, WireParts
<1>4. PICK e \in Nat : ResponseAt(in, method, e)
  BY <1>3, ResponseParts
<1>5. BlockAt(in, 2, e) /\ ~ Refuses(in.symbols[1].status, SubSeq(in.symbols, 2, e - 1))
  BY <1>4 DEF ResponseAt
<1>6. e = Len(g) + 2
  BY <1>3, <1>5, OneBlock
<1>7. e - 1 = Len(g) + 1
  <2>1. Len(g) \in Nat
    OBVIOUS
  <2> QED BY <1>6, <2>1
<1> QED BY <1>1, <1>3, <1>5, <1>7

-----------------------------------------------------------------------------
(* Messages that break off                                                 *)

\* c is a part of text, or of it with its last line begun.
Cut(c, text) ==
  /\ c \in Seq(Symbols) /\ text \in Seq(Symbols) /\ Len(c) < Len(text)
  /\ \A i \in 1 .. Len(c) : c[i] = text[i] \/ (i = Len(c) /\ c[i] = Byte)

\* The ways to break off.
LEMMA CutsAre ==
  ASSUME NEW text \in Seq(Symbols), NEW c \in Cuts(text)
  PROVE  Cut(c, text)
<1> USE DEF Cuts, Cut
<1>1. CASE c \in {SubSeq(text, 1, n) : n \in 0 .. Len(text) - 1}
  BY <1>1
<1>2. CASE c \in {Append(SubSeq(text, 1, n), Byte) : n \in 0 .. Len(text) - 2}
  <2>1. PICK n \in 0 .. Len(text) - 2 : c = Append(SubSeq(text, 1, n), Byte)
    BY <1>2
  <2>2. Byte \in Symbols
    BY SymbolKinds
  <2> HIDE DEF Byte
  <2> DEFINE b == SubSeq(text, 1, n)
  <2>3. b \in Seq(Symbols) /\ Len(b) = n /\ \A i \in 1 .. n : b[i] = text[i]
    OBVIOUS
  <2> HIDE DEF b
  <2>4. Append(b, Byte) \in Seq(Symbols) /\ Len(Append(b, Byte)) = n + 1
        /\ \A i \in 1 .. n + 1 : Append(b, Byte)[i] = IF i = n + 1 THEN Byte ELSE b[i]
    BY <2>2, <2>3
  <2> QED BY <2>1, <2>3, <2>4 DEF b
<1> QED BY <1>1, <1>2

\* Up to an empty line nothing is missing.
LEMMA CutAgrees ==
  ASSUME NEW c, NEW text, Cut(c, text), NEW e \in 1 .. Len(c), c[e] = EmptyLine
  PROVE  /\ e < Len(text) /\ text[e] = EmptyLine /\ \A i \in 1 .. e : c[i] = text[i]
         /\ \A i \in 1 .. e, j \in 0 .. e : SubSeq(c, i, j) = SubSeq(text, i, j)
<1>1. c[e] # Byte
  BY DEF EmptyLine, Byte
<1>2. \A i \in 1 .. e : c[i] = text[i]
  BY <1>1 DEF Cut
<1>3. e < Len(text) /\ c \in Seq(Symbols) /\ text \in Seq(Symbols)
  BY DEF Cut
<1>4. \A i \in 1 .. e, j \in 0 .. e : SubSeq(c, i, j) = SubSeq(text, i, j)
  BY <1>2, <1>3
<1> QED BY <1>2, <1>3, <1>4

\* The same block is there before it breaks off.
LEMMA CutBlock ==
  ASSUME NEW in, NEW on, Cut(in.symbols, on.symbols), NEW at \in Nat \ {0}, NEW e \in Nat, BlockAt(in, at, e)
  PROVE  BlockAt(on, at, e) /\ e < Len(on.symbols) /\ \A i \in 1 .. e : in.symbols[i] = on.symbols[i]
<1>1. e \in 1 .. Len(in.symbols) /\ in.symbols[e] = EmptyLine /\ e \in at .. Len(in.symbols)
  BY DEF BlockAt, Cut
<1>2. e < Len(on.symbols) /\ on.symbols[e] = EmptyLine /\ \A i \in 1 .. e : in.symbols[i] = on.symbols[i]
  BY <1>1, CutAgrees
<1>3. Len(on.symbols) \in Nat
  BY DEF Cut
<1> QED BY <1>1, <1>2, <1>3 DEF BlockAt

\* Another chunk is there too.
LEMMA CutMore ==
  ASSUME NEW in, NEW on, Cut(in.symbols, on.symbols), NEW c \in Chunked, MoreAt(in, c)
  PROVE  MoreAt(on, c) /\ After(on, c) = After(in, c)
<1> DEFINE n == SizeOf(in.symbols[c.next])
<1>1. /\ c.next \in 1 .. Len(in.symbols) /\ n \in Nat \ {0} /\ n <= MaxBodyBytes - Len(c.body)
      /\ c.next + n + 1 <= Len(in.symbols) /\ in.symbols[c.next + n + 1] = EmptyLine
  BY DEF MoreAt
<1> DEFINE e == c.next + n + 1
<1>2. e \in 1 .. Len(in.symbols) /\ in.symbols[e] = EmptyLine
  BY <1>1 DEF Cut
<1>3. /\ e < Len(on.symbols) /\ on.symbols[e] = EmptyLine /\ \A i \in 1 .. e : in.symbols[i] = on.symbols[i]
      /\ \A i \in 1 .. e, j \in 0 .. e : SubSeq(in.symbols, i, j) = SubSeq(on.symbols, i, j)
  <2> HIDE DEF e
  <2> QED BY <1>2, CutAgrees
<1>4. c.next \in 1 .. e /\ c.next + 1 \in 1 .. e /\ c.next + n \in 0 .. e
  BY <1>1
<1>5. on.symbols[c.next] = in.symbols[c.next]
      /\ SubSeq(in.symbols, c.next + 1, c.next + n) = SubSeq(on.symbols, c.next + 1, c.next + n)
  BY <1>3, <1>4
<1>6. Len(on.symbols) \in Nat /\ Len(in.symbols) \in Nat /\ c.next \in Nat
  BY <1>1 DEF Cut
<1>7. c.next \in 1 .. Len(on.symbols) /\ c.next + n + 1 <= Len(on.symbols)
  BY <1>1, <1>3, <1>6
<1>8. MoreAt(on, c)
  BY <1>1, <1>3, <1>5, <1>7 DEF MoreAt
<1> QED BY <1>5, <1>8 DEF After

\* So is the last chunk.
LEMMA CutLast ==
  ASSUME NEW in, NEW on, Cut(in.symbols, on.symbols), NEW c \in Chunked, NEW e \in Nat, LastAt(in, c, e)
  PROVE  LastAt(on, c, e) /\ e < Len(on.symbols)
<1>1. /\ c.next \in 1 .. Len(in.symbols) /\ SizeOf(in.symbols[c.next]) = 0
      /\ BlockAt(in, c.next + 1, e) /\ e - (c.next + 1) <= MaxTrailerFields
      /\ validateTrailers(SubSeq(in.symbols, c.next + 1, e - 1))
  BY DEF LastAt
<1>2. Len(on.symbols) \in Nat /\ Len(in.symbols) \in Nat /\ c.next \in Nat /\ c.next + 1 \in Nat \ {0}
  BY <1>1 DEF Cut
<1> DEFINE at == c.next + 1
<1>8. at \in Nat \ {0} /\ BlockAt(in, at, e)
  BY <1>1, <1>2
<1>3. BlockAt(on, at, e) /\ e < Len(on.symbols) /\ \A i \in 1 .. e : in.symbols[i] = on.symbols[i]
  <2> HIDE DEF at
  <2> QED BY <1>8, CutBlock
<1>4. e \in c.next + 1 .. Len(in.symbols) /\ in.symbols[e] = EmptyLine
  BY <1>1 DEF BlockAt
<1>5. \A i \in 1 .. e, j \in 0 .. e : SubSeq(in.symbols, i, j) = SubSeq(on.symbols, i, j)
  BY <1>2, <1>4, CutAgrees
<1>6. c.next \in 1 .. e /\ c.next + 1 \in 1 .. e /\ e - 1 \in 0 .. e /\ c.next \in 1 .. Len(on.symbols)
  BY <1>1, <1>2, <1>3, <1>4
<1>7. on.symbols[c.next] = in.symbols[c.next]
      /\ SubSeq(in.symbols, c.next + 1, e - 1) = SubSeq(on.symbols, c.next + 1, e - 1)
  BY <1>3, <1>5, <1>6
<1> QED BY <1>1, <1>3, <1>6, <1>7 DEF LastAt

\* A body in chunks that breaks off is not read, if the whole is read to its end.
LEMMA CutChunks ==
  ASSUME NEW in, NEW on, Cut(in.symbols, on.symbols), NEW at \in Nat \ {0},
         readChunkedBody(in, at).verdict = "read"
  PROVE  readChunkedBody(on, at).verdict = "read" /\ readChunkedBody(on, at).next <= Len(on.symbols)
<1>0. in.symbols \in Seq(Symbols) /\ on.symbols \in Seq(Symbols) /\ MaxChunkCount \in Nat
  BY LimitsAssumption DEF Cut
<1>1. PICK f : Runs(f, in, at)
  BY <1>0, ChunkTurns
<1>2. PICK g : Runs(g, on, at)
  BY <1>0, ChunkTurns
<1>3. ChunkLoop(f, in, at) /\ ChunkLoop(g, on, at)
  BY <1>1, <1>2 DEF Runs
<1> DEFINE Ended == g[MaxChunkCount].verdict = "read" /\ g[MaxChunkCount].next <= Len(on.symbols)
           T == {k \in 0 .. MaxChunkCount : /\ f[k].verdict = "chunk" => g[k] = f[k]
                                            /\ f[k].verdict = "read" => Ended}
<1>4. 0 \in T
  <2>1. f[0] = ChunksRead(<<>>, at) /\ g[0] = ChunksRead(<<>>, at)
    BY <1>3 DEF ChunkLoop
  <2>2. f[0].verdict = "chunk"
    BY <2>1 DEF ChunksRead
  <2> QED BY <1>0, <2>1, <2>2
<1>5. ASSUME NEW n \in 0 .. MaxChunkCount - 1, n \in T PROVE n + 1 \in T
  <2> HIDE DEF Ended
  <2>1. n + 1 \in 1 .. MaxChunkCount /\ n + 1 \in 0 .. MaxChunkCount /\ n \in 0 .. MaxChunkCount /\ n + 1 - 1 = n
    BY <1>0
  <2>2. f[n + 1] = ChunkTurn(in, f[n]) /\ g[n + 1] = ChunkTurn(on, g[n])
    BY <1>3, <2>1 DEF ChunkLoop
  <2>3. CASE f[n].verdict # "chunk"
    <3>1. f[n + 1] = f[n]
      BY <2>2, <2>3 DEF ChunkTurn
    <3> QED BY <1>5, <2>1, <2>3, <3>1
  <2>4. CASE f[n].verdict = "chunk"
    <3> DEFINE c == f[n]
    <3>1. c \in Chunked /\ g[n] = c
      BY <1>3, <1>5, <2>1, <2>4 DEF ChunkLoop
    <3>2. f[n + 1] = readChunk(in, c) /\ g[n + 1] = readChunk(on, c)
      BY <2>2, <2>4, <3>1 DEF ChunkTurn
    <3> HIDE DEF c
    <3>3. f[n + 1].verdict = "chunk" => g[n + 1] = f[n + 1]
      <4> SUFFICES ASSUME readChunk(in, c).verdict = "chunk" PROVE readChunk(on, c) = readChunk(in, c)
        BY <3>2
      <4>1. MoreAt(in, c) /\ readChunk(in, c) = After(in, c)
        BY <1>0, <3>1, ChunkStays
      <4>2. MoreAt(on, c) /\ After(on, c) = After(in, c)
        BY <3>1, <4>1, CutMore
      <4>3. readChunk(on, c) = After(on, c)
        BY <1>0, <4>2, MoreReads
      <4> QED BY <4>1, <4>2, <4>3
    <3>4. ASSUME f[n + 1].verdict = "read" PROVE Ended
      <4>1. c.body \in Seq(Symbols) /\ c.next \in Nat \ {0} /\ c = ChunksRead(c.body, c.next)
        BY <3>1, ChunkedIs
      <4>2. readChunk(in, c).verdict = "read"
        BY <3>2, <3>4
      <4>3. \E e \in Nat : LastAt(in, c, e)
        <5> DEFINE b == c.body
                   m == c.next
        <5>1. b \in Seq(Symbols) /\ m \in Nat \ {0} /\ c = ChunksRead(b, m)
          BY <4>1
        <5> HIDE DEF b, m
        <5> QED BY <1>0, <4>2, <5>1, ChunkRead
      <4>4. PICK e \in Nat : LastAt(in, c, e)
        BY <4>3
      <4>5. LastAt(on, c, e) /\ e < Len(on.symbols)
        BY <3>1, <4>4, CutLast
      <4>6. g[n + 1] = Body(c.body, SubSeq(on.symbols, c.next + 1, e - 1), e + 1)
        BY <1>0, <3>2, <4>5, LastReads
      <4>7. g[n + 1].verdict = "read" /\ g[n + 1].next = e + 1
        BY <4>6 DEF Body
      <4>8. g[MaxChunkCount] = g[n + 1]
        <5> DEFINE k == n + 1
        <5>1. k \in 0 .. MaxChunkCount /\ g[k].verdict # "chunk"
          BY <2>1, <4>7
        <5> HIDE DEF k
        <5>2. g[MaxChunkCount] = g[k]
          BY <1>3, <5>1, LoopStays
        <5> QED BY <5>2 DEF k
      <4>9. e + 1 <= Len(on.symbols)
        BY <1>0, <4>5
      <4> QED BY <4>7, <4>8, <4>9 DEF Ended
    <3> QED BY <2>1, <3>3, <3>4
  <2> QED BY <2>3, <2>4
<1>6. 0 .. MaxChunkCount \subseteq T
  <2> HIDE DEF T
  <2> QED BY <1>0, <1>4, <1>5, Induct
<1>7. readChunkedBody(in, at) = IF f[MaxChunkCount].verdict = "chunk" THEN Error("bad") ELSE f[MaxChunkCount]
  BY <1>1 DEF Runs
<1>8. f[MaxChunkCount].verdict = "read"
  BY <1>7 DEF Error
<1>9. MaxChunkCount \in T
  BY <1>0, <1>6
<1>10. Ended
  BY <1>8, <1>9
<1>11. readChunkedBody(on, at) = g[MaxChunkCount]
  <2>1. g[MaxChunkCount].verdict # "chunk"
    BY <1>10
  <2> QED BY <1>2, <2>1 DEF Runs
<1> QED BY <1>10, <1>11

\* The length of a body that has one.
Measured(framing) == framing.mode = "fixed" => framing.length \in Nat

\* Nor is any body that tells its own end.
LEMMA CutBody ==
  ASSUME NEW in, NEW on, Cut(in.symbols, on.symbols), NEW at \in 1 .. Len(in.symbols) + 1,
         NEW framing, framing.mode \in {"none", "fixed", "chunked"}, Measured(framing),
         readBody(in, at, framing).verdict = "read"
  PROVE  readBody(on, at, framing).verdict = "read" => readBody(on, at, framing).next <= Len(on.symbols)
<1>0. in.symbols \in Seq(Symbols) /\ on.symbols \in Seq(Symbols) /\ Len(in.symbols) < Len(on.symbols)
  BY DEF Cut
<1>0a. at \in Nat \ {0} /\ Len(in.symbols) \in Nat /\ Len(on.symbols) \in Nat /\ at <= Len(on.symbols)
  BY <1>0
<1>1. CASE framing.mode = "none"
  <2>1. readBody(on, at, framing) = Body(<<>>, <<>>, at)
    BY <1>1 DEF readBody
  <2>2. readBody(on, at, framing).next = at
    BY <2>1 DEF Body
  <2> QED BY <1>0a, <2>2
<1>2. CASE framing.mode = "fixed"
  <2> DEFINE n == framing.length
  <2>1. n \in Nat
    BY <1>2 DEF Measured
  <2>2. readBody(in, at, framing) = readFixedBody(in, at, n) /\ readBody(on, at, framing) = readFixedBody(on, at, n)
    BY <1>2 DEF readBody
  <2> HIDE DEF n
  <2>3. readFixedBody(in, at, n) =
           IF at + n - 1 > Len(in.symbols) THEN protocolErrorFromRead(in, at > Len(in.symbols), TRUE)
           ELSE Body(SubSeq(in.symbols, at, at + n - 1), <<>>, at + n)
    BY <1>0, <1>0a, <2>1, FixedReads
  <2>4. at + n - 1 <= Len(in.symbols)
    <3>1. protocolErrorFromRead(in, at > Len(in.symbols), TRUE).verdict # "read"
      BY ReadErrors
    <3>2. ~ (at + n - 1 > Len(in.symbols))
      BY <2>2, <2>3, <3>1
    <3> QED BY <1>0a, <2>1, <3>2
  <2>5. readFixedBody(on, at, n) =
           IF at + n - 1 > Len(on.symbols) THEN protocolErrorFromRead(on, at > Len(on.symbols), TRUE)
           ELSE Body(SubSeq(on.symbols, at, at + n - 1), <<>>, at + n)
    BY <1>0, <1>0a, <2>1, FixedReads
  <2>6. ~ (at + n - 1 > Len(on.symbols)) /\ at + n <= Len(on.symbols)
    BY <1>0, <1>0a, <2>1, <2>4
  <2>7. readFixedBody(on, at, n).next = at + n
    BY <2>5, <2>6 DEF Body
  <2> QED BY <2>2, <2>6, <2>7
<1>3. CASE framing.mode = "chunked"
  <2>1. readBody(in, at, framing) = readChunkedBody(in, at) /\ readBody(on, at, framing) = readChunkedBody(on, at)
    BY <1>3 DEF readBody
  <2>2. readChunkedBody(on, at).next <= Len(on.symbols)
    BY <1>0a, <2>1, CutChunks
  <2> QED BY <2>1, <2>2
<1> QED BY <1>1, <1>2, <1>3

\* The fields of a block are fields.
LEMMA BlockFields ==
  ASSUME NEW in, in.symbols \in Seq(Symbols), NEW e \in Nat, BlockAt(in, 2, e)
  PROVE  SubSeq(in.symbols, 2, e - 1) \in Seq(Fields) /\ e \in 2 .. Len(in.symbols)
<1>1. e \in 2 .. Len(in.symbols) /\ \A j \in 2 .. e - 1 : in.symbols[j].kind = "field"
  BY DEF BlockAt
<1>2. \A s \in Symbols : s.kind = "field" => s \in Fields
  BY DEF Symbols, EmptyLine, Junk, Byte, Fields
<1>3. \A j \in 2 .. e - 1 : in.symbols[j] \in Fields
  <2> TAKE j \in 2 .. e - 1
  <2>1. in.symbols[j] \in Symbols
    BY <1>1
  <2> QED BY <1>1, <1>2, <2>1
<1>4. Len(in.symbols) \in Nat
  OBVIOUS
<1>5. \A i \in 1 .. e - 2 : in.symbols[i + 1] \in Fields
  <2> TAKE i \in 1 .. e - 2
  <2>1. i + 1 \in 2 .. e - 1
    BY <1>1
  <2> QED BY <1>3, <2>1
<1> HIDE DEF Fields, Symbols
<1>6. SubSeq(in.symbols, 2, e - 1) = [i \in 1 .. e - 2 |-> in.symbols[i + 1]]
  BY <1>1, <1>4
<1>7. SubSeq(in.symbols, 2, e - 1) \in [1 .. e - 2 -> Fields]
  BY <1>5, <1>6
<1>8. SubSeq(in.symbols, 2, e - 1) \in Seq(Fields)
  <2> DEFINE n == e - 2
             z == SubSeq(in.symbols, 2, e - 1)
  <2>1. n \in Nat /\ z \in [1 .. n -> Fields]
    BY <1>1, <1>7
  <2> HIDE DEF n, z
  <2>2. z \in Seq(Fields)
    BY <2>1
  <2> QED BY <2>2 DEF z
<1> QED BY <1>1, <1>8

\* A framing that was determined.
LEMMA FramingMeasured ==
  ASSUME NEW h \in Seq(Fields), determineBodyFraming(h).verdict = "read"
  PROVE  /\ determineBodyFraming(h).mode \in {"none", "fixed", "chunked"}
         /\ Measured(determineBodyFraming(h))
<1> DEFINE codings == Values(h, "Transfer-Encoding")
           lengths == Values(h, "Content-Length")
           length == parseContentLengths(lengths)
           None0 == [verdict |-> "read", mode |-> "none", length |-> 0]
           Chunked0 == [verdict |-> "read", mode |-> "chunked", length |-> 0]
           Fixed0 == [verdict |-> "read", mode |-> "fixed", length |-> length]
<1>1. determineBodyFraming(h) =
        IF codings # <<>>
        THEN IF lengths # <<>> THEN Error("bad")
             ELSE IF onlyChunkedTransferCoding(codings) THEN Chunked0 ELSE Error("coding")
        ELSE IF lengths = <<>> THEN None0
             ELSE IF length < 0 THEN Error("bad")
             ELSE IF length > MaxBodyBytes THEN Error("too large") ELSE Fixed0
  BY DEF determineBodyFraming
<1>2. \A k : Error(k).verdict = k
  BY DEF Error
<1>3. lengths \in Seq(Fields)
  BY NamedFields DEF Values
<1>4. lengths # <<>> => length \in Int
  <2> SUFFICES ASSUME lengths # <<>> PROVE length \in Int
    OBVIOUS
  <2> HIDE DEF lengths
  <2>1. lengths[1] \in Fields
    BY <1>3
  <2>2. lengths[1].number \in Int
    BY <2>1 DEF Fields
  <2> QED BY <2>2 DEF parseContentLengths
<1> HIDE DEF codings, lengths, length
<1>5. \/ determineBodyFraming(h) = None0 \/ determineBodyFraming(h) = Chunked0
      \/ determineBodyFraming(h) = Fixed0 /\ lengths # <<>> /\ ~ (length < 0)
  BY <1>1, <1>2
<1>6. CASE determineBodyFraming(h) = None0
  BY <1>6 DEF Measured
<1>7. CASE determineBodyFraming(h) = Chunked0
  BY <1>7 DEF Measured
<1>8. CASE determineBodyFraming(h) = Fixed0 /\ lengths # <<>> /\ ~ (length < 0)
  <2>1. length \in Nat
    BY <1>4, <1>8
  <2> QED BY <1>8, <2>1 DEF Measured
<1> QED BY <1>5, <1>6, <1>7, <1>8

\* A request that breaks off is not read.
THEOREM CutRequest ==
  ASSUME NEW text, NEW g, ReadsRequest(text, g), NEW in, Cut(in.symbols, text)
  PROVE  readHTTPRequest(in).verdict # "read"
<1> SUFFICES ASSUME readHTTPRequest(in).verdict = "read" PROVE FALSE
  OBVIOUS
<1> DEFINE on == [symbols |-> text, end |-> "open"]
<1>1. on.symbols = text
  OBVIOUS
<1>2. text \in Seq(Symbols) /\ in.symbols \in Seq(Symbols)
  BY DEF Cut
<1> HIDE DEF on
<1>3. readHTTPRequest(on) = Taken(text, g)
  <2> DEFINE none == <<>>
  <2>1. none \in Seq(Symbols) /\ on.symbols = text \o none
    BY <1>1, <1>2
  <2> HIDE DEF none
  <2> QED BY <2>1 DEF ReadsRequest, Starts
<1>4. readHTTPRequest(on).verdict = "read" /\ readHTTPRequest(on).next = Len(text) + 1
  BY <1>3 DEF Taken
<1>5. PICK e \in Nat : RequestAt(in, e)
  BY <1>2, RequestParts
<1>6. PICK d \in Nat : RequestAt(on, d)
  BY <1>1, <1>2, <1>4, RequestParts
<1>7. Cut(in.symbols, on.symbols)
  BY <1>1
<1>8. BlockAt(in, 2, e) /\ BlockAt(on, 2, d)
  BY <1>5, <1>6 DEF RequestAt
<1>9. BlockAt(on, 2, e) /\ \A i \in 1 .. e : in.symbols[i] = on.symbols[i]
  <2> DEFINE at == 2
  <2>1. at \in Nat \ {0} /\ BlockAt(in, at, e)
    BY <1>8
  <2> HIDE DEF at
  <2>2. BlockAt(on, at, e) /\ e < Len(on.symbols) /\ \A i \in 1 .. e : in.symbols[i] = on.symbols[i]
    BY <1>7, <2>1, CutBlock
  <2> QED BY <2>2 DEF at
<1>10. d = e
  BY <1>8, <1>9, OneBlock
<1> DEFINE fields == SubSeq(in.symbols, 2, e - 1)
           framing == determineBodyFraming(fields)
<1>11. e \in 2 .. Len(in.symbols) /\ fields \in Seq(Fields)
  BY <1>2, <1>8, BlockFields
<1>12. SubSeq(on.symbols, 2, e - 1) = fields
  <2>1. e \in 1 .. Len(in.symbols) /\ in.symbols[e] = EmptyLine /\ 2 \in 1 .. e /\ e - 1 \in 0 .. e
    BY <1>2, <1>8, <1>11 DEF BlockAt
  <2> QED BY <1>7, <2>1, CutAgrees
<1>13. framing.verdict = "read" /\ readBody(in, e + 1, framing).verdict = "read"
  BY <1>5 DEF RequestAt
<1>14. readBody(on, e + 1, framing).verdict = "read"
  BY <1>6, <1>10, <1>12 DEF RequestAt
<1>15. readBody(on, e + 1, framing).next = Len(text) + 1
  <2>1. readHTTPRequest(on) = RequestOf(on, e)
    BY <1>1, <1>2, <1>6, <1>10, RequestReads
  <2>2. RequestOf(on, e).next = readBody(on, e + 1, framing).next
    BY <1>12 DEF RequestOf
  <2> QED BY <1>4, <2>1, <2>2
<1>16. framing.mode \in {"none", "fixed", "chunked"} /\ Measured(framing)
  BY <1>11, <1>13, FramingMeasured
<1>17. readBody(on, e + 1, framing).next <= Len(on.symbols)
  <2> DEFINE at == e + 1
  <2>1. at \in 1 .. Len(in.symbols) + 1
    BY <1>2, <1>11
  <2> HIDE DEF at, framing
  <2>2. readBody(in, at, framing).verdict = "read" /\ readBody(on, at, framing).verdict = "read"
    BY <1>13, <1>14 DEF at
  <2>3. readBody(on, at, framing).next <= Len(on.symbols)
    BY <1>7, <1>16, <2>1, <2>2, CutBody
  <2> QED BY <2>3 DEF at
<1> QED BY <1>1, <1>2, <1>15, <1>17

\* The framing of a response whose header was read.
LEMMA ResponseMeasured ==
  ASSUME NEW h \in Seq(Fields), determineBodyFraming(h).verdict = "read", NEW status, NEW method
  PROVE  /\ ResponseFraming(status, method, h).mode \in {"none", "fixed", "chunked", "close-delimited"}
         /\ Measured(ResponseFraming(status, method, h))
         /\ ResponseFraming(status, method, h).mode = ModeOf(status, method, determineBodyFraming(h).mode)
<1>1. PICK framing : framing = determineBodyFraming(h)
  OBVIOUS
<1>2. framing.mode \in {"none", "fixed", "chunked"} /\ Measured(framing)
  BY <1>1, FramingMeasured
<1>3. PICK mode : mode = ModeOf(status, method, framing.mode)
  OBVIOUS
<1>4. mode \in {"none", "fixed", "chunked", "close-delimited"} /\ (mode = "fixed" => framing.mode = "fixed")
  BY <1>2, <1>3 DEF ModeOf
<1>5. ResponseFraming(status, method, h) = [framing EXCEPT !.mode = mode]
  BY <1>1, <1>3 DEF ResponseFraming
<1>6. \E m, l : framing = [verdict |-> "read", mode |-> m, length |-> l]
  <2> DEFINE codings == Values(h, "Transfer-Encoding")
             lengths == Values(h, "Content-Length")
             length == parseContentLengths(lengths)
  <2>1. framing =
          IF codings # <<>>
          THEN IF lengths # <<>> THEN Error("bad")
               ELSE IF onlyChunkedTransferCoding(codings)
                    THEN [verdict |-> "read", mode |-> "chunked", length |-> 0] ELSE Error("coding")
          ELSE IF lengths = <<>> THEN [verdict |-> "read", mode |-> "none", length |-> 0]
               ELSE IF length < 0 THEN Error("bad")
               ELSE IF length > MaxBodyBytes THEN Error("too large")
                    ELSE [verdict |-> "read", mode |-> "fixed", length |-> length]
    BY <1>1 DEF determineBodyFraming
  <2>2. \A k : Error(k).verdict = k
    BY DEF Error
  <2>3. framing.verdict = "read"
    BY <1>1
  <2> HIDE DEF codings, lengths, length
  <2> QED BY <2>1, <2>2, <2>3
<1>7. PICK m, l : framing = [verdict |-> "read", mode |-> m, length |-> l]
  BY <1>6
<1>8. [framing EXCEPT !.mode = mode] = [verdict |-> "read", mode |-> mode, length |-> l] /\ framing.length = l
  BY <1>7
<1> QED BY <1>1, <1>2, <1>3, <1>4, <1>5, <1>8 DEF Measured

\* A response that breaks off is read only if the end of the connection ends it.
LEMMA CutAnswer ==
  ASSUME NEW in, NEW on, NEW method, Cut(in.symbols, on.symbols), readHTTPResponse(in, method).verdict = "read",
         readHTTPResponse(on, method).verdict = "read", readHTTPResponse(on, method).next = Len(on.symbols) + 1
  PROVE  in.end = "fin" /\ on.end = "fin" /\ \E e \in Nat : BlockAt(in, 2, e)
<1>2. on.symbols \in Seq(Symbols) /\ in.symbols \in Seq(Symbols)
  BY DEF Cut
<1>5. PICK e \in Nat : ResponseAt(in, method, e)
  BY <1>2, ResponseParts
<1>6. PICK d \in Nat : ResponseAt(on, method, d)
  BY <1>2, ResponseParts
<1>8. BlockAt(in, 2, e) /\ BlockAt(on, 2, d)
  BY <1>5, <1>6 DEF ResponseAt
<1>9. BlockAt(on, 2, e) /\ \A i \in 1 .. e : in.symbols[i] = on.symbols[i]
  <2> DEFINE at == 2
  <2>1. at \in Nat \ {0} /\ BlockAt(in, at, e)
    BY <1>8
  <2> HIDE DEF at
  <2>2. BlockAt(on, at, e) /\ e < Len(on.symbols) /\ \A i \in 1 .. e : in.symbols[i] = on.symbols[i]
    BY <2>1, CutBlock
  <2> QED BY <2>2 DEF at
<1>10. d = e
  BY <1>8, <1>9, OneBlock
<1> DEFINE fields == SubSeq(in.symbols, 2, e - 1)
           status == in.symbols[1].status
           framing == ResponseFraming(status, method, fields)
<1>11. e \in 2 .. Len(in.symbols) /\ fields \in Seq(Fields)
  BY <1>2, <1>8, BlockFields
<1>12. SubSeq(on.symbols, 2, e - 1) = fields
  <2>1. e \in 1 .. Len(in.symbols) /\ in.symbols[e] = EmptyLine /\ 2 \in 1 .. e /\ e - 1 \in 0 .. e
    BY <1>2, <1>8, <1>11 DEF BlockAt
  <2> QED BY <2>1, CutAgrees
<1>12a. on.symbols[1].status = status
  <2>1. 1 \in 1 .. e
    BY <1>2, <1>11
  <2> QED BY <1>9, <2>1
<1>13. determineBodyFraming(fields).verdict = "read" /\ readBody(in, e + 1, framing).verdict = "read"
  BY <1>5 DEF ResponseAt
<1>14. readBody(on, e + 1, framing).verdict = "read"
  BY <1>6, <1>10, <1>12, <1>12a DEF ResponseAt
<1>15. readBody(on, e + 1, framing).next = Len(on.symbols) + 1
  <2>1. readHTTPResponse(on, method) = ResponseOf(on, method, e)
    BY <1>2, <1>6, <1>10, ResponseReads
  <2>2. ResponseOf(on, method, e).next = readBody(on, e + 1, framing).next
    BY <1>12, <1>12a DEF ResponseOf
  <2> QED BY <2>1, <2>2
<1>16. framing.mode \in {"none", "fixed", "chunked", "close-delimited"} /\ Measured(framing)
  BY <1>11, <1>13, ResponseMeasured
<1> HIDE DEF framing
<1>17. framing.mode \notin {"none", "fixed", "chunked"}
  <2> SUFFICES ASSUME framing.mode \in {"none", "fixed", "chunked"} PROVE FALSE
    OBVIOUS
  <2> DEFINE at == e + 1
  <2>1. at \in 1 .. Len(in.symbols) + 1
    BY <1>2, <1>11
  <2> HIDE DEF at
  <2>2. readBody(in, at, framing).verdict = "read" /\ readBody(on, at, framing).verdict = "read"
    BY <1>13, <1>14 DEF at
  <2>3. readBody(on, at, framing).next <= Len(on.symbols)
    BY <1>16, <2>1, <2>2, CutBody
  <2> QED BY <1>2, <1>15, <2>3 DEF at
<1>18. framing.mode = "close-delimited"
  BY <1>16, <1>17
<1>19. in.end = "fin" /\ on.end = "fin"
  <2>1. \A x, at : readCloseDelimitedBody(x, at).verdict = "read" => x.end = "fin"
    <3> TAKE x, at
    <3>1. protocolErrorFromRead(x, FALSE, TRUE).verdict # "read"
      BY ReadErrors
    <3>2. Error("too large").verdict # "read"
      BY DEF Error
    <3> QED BY <3>1, <3>2 DEF readCloseDelimitedBody
  <2>2. \A x : readBody(x, e + 1, framing) = readCloseDelimitedBody(x, e + 1)
    BY <1>18 DEF readBody
  <2> QED BY <1>13, <1>14, <2>1, <2>2
<1> QED BY <1>8, <1>19

\* A response that tells its own end is not read if it breaks off.
THEOREM CutResponse ==
  ASSUME NEW text, NEW method, NEW g, ReadsResponse(text, method, g), NEW in, Cut(in.symbols, text)
  PROVE  readHTTPResponse(in, method).verdict # "read"
<1> DEFINE on == [symbols |-> text, end |-> "open"]
<1>1. on.symbols = text /\ on.end # "fin"
  OBVIOUS
<1>2. text \in Seq(Symbols)
  BY DEF Cut
<1> HIDE DEF on
<1>3. readHTTPResponse(on, method) = Taken(text, g)
  <2> DEFINE none == <<>>
  <2>1. none \in Seq(Symbols) /\ on.symbols = text \o none
    BY <1>1, <1>2
  <2> HIDE DEF none
  <2> QED BY <2>1 DEF ReadsResponse, Starts
<1>4. readHTTPResponse(on, method).verdict = "read" /\ readHTTPResponse(on, method).next = Len(on.symbols) + 1
  BY <1>1, <1>3 DEF Taken
<1>5. Cut(in.symbols, on.symbols)
  BY <1>1
<1> QED BY <1>1, <1>4, <1>5, CutAnswer

\* One that ends with the connection is not, unless its header is there.
LEMMA CutToEnd ==
  ASSUME NEW text, NEW method, NEW g, ReadToEnd(text, method, g), NEW in, Cut(in.symbols, text),
         in.end = "fin" => \A e \in Nat : ~ BlockAt(in, 2, e)
  PROVE  readHTTPResponse(in, method).verdict # "read"
<1> DEFINE on == [symbols |-> text, end |-> "fin"]
<1>1. on.symbols = text /\ on.end = "fin"
  OBVIOUS
<1> HIDE DEF on
<1>3. readHTTPResponse(on, method) = Taken(text, g)
  BY <1>1 DEF ReadToEnd
<1>4. readHTTPResponse(on, method).verdict = "read" /\ readHTTPResponse(on, method).next = Len(on.symbols) + 1
  BY <1>1, <1>3 DEF Taken
<1>5. Cut(in.symbols, on.symbols)
  BY <1>1
<1> QED BY <1>4, <1>5, CutAnswer

\* A source without symbols gives nothing.
LEMMA NothingRead ==
  ASSUME NEW in, in.symbols = <<>>
  PROVE  /\ readHTTPRequest(in) = protocolErrorFromRead(in, TRUE, FALSE)
         /\ \A method : readHTTPResponse(in, method) = protocolErrorFromRead(in, TRUE, FALSE)
<1>1. readStrictLine(in, 1) = protocolErrorFromRead(in, TRUE, FALSE)
  BY NothingToRead
<1>2. readStrictLine(in, 1).verdict # "read"
  BY <1>1, ReadErrors
<1>3. \A kind : readStartLine(in, kind) = protocolErrorFromRead(in, TRUE, FALSE)
  BY <1>1, <1>2, StartUnfolds
<1>4. protocolErrorFromRead(in, TRUE, FALSE).verdict # "read"
  BY ReadErrors
<1>5. readHTTPRequest(in) = protocolErrorFromRead(in, TRUE, FALSE)
  <2> DEFINE start == readStartLine(in, "request")
             block == readHeaderBlock(in, start.next, MaxHeaderFields)
             valid == validateRequestHeaders(block.fields)
             framing == determineBodyFraming(block.fields)
             body == readBody(in, block.next, framing)
  <2>1. readHTTPRequest(in) =
              IF start.verdict # "read" THEN start
              ELSE IF block.verdict # "read" THEN block
              ELSE IF valid.verdict # "read" THEN valid
              ELSE IF framing.verdict # "read" THEN framing
              ELSE IF body.verdict # "read" THEN body
              ELSE RequestRead(start, block, framing, body)
    BY RequestUnfolds
  <2>2. start = protocolErrorFromRead(in, TRUE, FALSE)
    BY <1>3
  <2> HIDE DEF start, block, valid, framing, body
  <2> QED BY <1>4, <2>1, <2>2
<1>6. ASSUME NEW method PROVE readHTTPResponse(in, method) = protocolErrorFromRead(in, TRUE, FALSE)
  <2> DEFINE start == readStartLine(in, "status")
             block == readHeaderBlock(in, start.next, MaxHeaderFields)
             framing == determineBodyFraming(block.fields)
             mode == ModeOf(start.line.status, method, framing.mode)
             body == readBody(in, block.next, [framing EXCEPT !.mode = mode])
  <2>1. readHTTPResponse(in, method) =
              IF start.verdict # "read" THEN start
              ELSE IF block.verdict # "read" THEN block
              ELSE IF Refuses(start.line.status, block.fields) THEN Error("bad")
              ELSE IF framing.verdict # "read" THEN framing
              ELSE IF body.verdict # "read" THEN body
              ELSE ResponseRead(start, block, mode, body)
    BY ResponseUnfolds
  <2>2. start = protocolErrorFromRead(in, TRUE, FALSE)
    BY <1>3
  <2> HIDE DEF start, block, framing, mode, body
  <2> QED BY <1>4, <2>1, <2>2
<1> QED BY <1>5, <1>6

-----------------------------------------------------------------------------
(* Malformed messages                                                      *)

\* Fields with a name that none of them has, or that one of them has.
LEMMA ValuesAre ==
  ASSUME NEW h \in Seq(Fields), NEW name
  PROVE  /\ Values(h, name) \in Seq(Fields) /\ (Values(h, name) = <<>> <=> name \notin Names(h))
         /\ \A i \in 1 .. Len(Values(h, name)) : Values(h, name)[i].number \in Int
<1> DEFINE v == Values(h, name)
<1>1. v \in Seq(Fields) /\ Names(v) = Names(h) \cap {name}
  BY NamedFields, NamedMembers DEF Values
<1> HIDE DEF v
<1>2. ASSUME v = <<>> PROVE name \notin Names(h)
  BY <1>1, <1>2, NamesNone
<1>3. ASSUME v # <<>> PROVE name \in Names(h)
  <2>1. 1 \in DOMAIN v
    BY <1>1, <1>3
  <2>2. v[1].name \in Names(v)
    BY <2>1 DEF Names, ToSet
  <2> QED BY <1>1, <2>2
<1>4. ASSUME NEW i \in 1 .. Len(v) PROVE v[i].number \in Int
  <2>1. v[i] \in Fields
    BY <1>1
  <2> QED BY <2>1 DEF Fields
<1> QED BY <1>1, <1>2, <1>3, <1>4 DEF v

\* A header that does not say how its body is framed is refused.
LEMMA MisframedFails ==
  ASSUME NEW h \in Seq(Fields), Misframed(h)
  PROVE  determineBodyFraming(h).verdict # "read"
<1> DEFINE codings == Values(h, "Transfer-Encoding")
           lengths == Values(h, "Content-Length")
           length == parseContentLengths(lengths)
           None0 == [verdict |-> "read", mode |-> "none", length |-> 0]
           Chunked0 == [verdict |-> "read", mode |-> "chunked", length |-> 0]
           Fixed0 == [verdict |-> "read", mode |-> "fixed", length |-> length]
<1>1. determineBodyFraming(h) =
        IF codings # <<>>
        THEN IF lengths # <<>> THEN Error("bad")
             ELSE IF onlyChunkedTransferCoding(codings) THEN Chunked0 ELSE Error("coding")
        ELSE IF lengths = <<>> THEN None0
             ELSE IF length < 0 THEN Error("bad")
             ELSE IF length > MaxBodyBytes THEN Error("too large") ELSE Fixed0
  BY DEF determineBodyFraming
<1>2. Error("bad").verdict = "bad" /\ Error("coding").verdict = "coding" /\ Error("too large").verdict = "too large"
  BY DEF Error
<1>3. lengths \in Seq(Fields) /\ \A i \in 1 .. Len(lengths) : lengths[i].number \in Int
  BY ValuesAre
<1>4. \/ codings # <<>> /\ (lengths # <<>> \/ ~ onlyChunkedTransferCoding(codings))
      \/ \E l \in ToSet(lengths) : l.number \notin 0 .. MaxBodyBytes \/ l.number # lengths[1].number
  BY DEF Misframed, onlyChunkedTransferCoding
<1> HIDE DEF codings, lengths
<1>5. CASE codings # <<>> /\ (lengths # <<>> \/ ~ onlyChunkedTransferCoding(codings))
  BY <1>1, <1>2, <1>5
<1>6. CASE \E l \in ToSet(lengths) : l.number \notin 0 .. MaxBodyBytes \/ l.number # lengths[1].number
  <2>1. PICK i \in 1 .. Len(lengths) :
             lengths[i].number \notin 0 .. MaxBodyBytes \/ lengths[i].number # lengths[1].number
    BY <1>3, <1>6 DEF ToSet
  <2>2. lengths # <<>> /\ lengths[i] \in ToSet(lengths) /\ 1 \in 1 .. Len(lengths) /\ lengths[1] \in ToSet(lengths)
    BY <1>3, <2>1 DEF ToSet
  <2>3. lengths[i].number \in Int /\ lengths[1].number \in Int /\ MaxBodyBytes \in Nat
    BY <1>3, <2>2, LimitsAssumption
  <2>4. CASE \E l \in ToSet(lengths) : l.number # lengths[1].number
    <3>1. length = -1
      BY <2>4 DEF parseContentLengths
    <3> HIDE DEF length
    <3>2. length < 0
      BY <3>1
    <3> QED BY <1>1, <1>2, <2>2, <3>2
  <2>5. CASE ~ \E l \in ToSet(lengths) : l.number # lengths[1].number
    <3>1. length = lengths[1].number /\ lengths[i].number = lengths[1].number
      BY <2>2, <2>5 DEF parseContentLengths
    <3>2. length \in Int /\ length \notin 0 .. MaxBodyBytes
      BY <2>1, <2>3, <3>1
    <3> HIDE DEF length
    <3>3. length < 0 \/ length > MaxBodyBytes
      BY <2>3, <3>2
    <3> QED BY <1>1, <1>2, <2>2, <3>3
  <2> QED BY <2>4, <2>5
<1> QED BY <1>4, <1>5, <1>6

\* The mode that a header gives to the body.
LEMMA FramingModes ==
  ASSUME NEW h \in Seq(Fields)
  PROVE  /\ "Transfer-Encoding" \in Names(h) /\ determineBodyFraming(h).verdict = "read"
              => determineBodyFraming(h).mode = "chunked"
         /\ Names(h) \cap {"Content-Length", "Transfer-Encoding"} = {} => determineBodyFraming(h).mode = "none"
<1> DEFINE codings == Values(h, "Transfer-Encoding")
           lengths == Values(h, "Content-Length")
           length == parseContentLengths(lengths)
           None0 == [verdict |-> "read", mode |-> "none", length |-> 0]
           Chunked0 == [verdict |-> "read", mode |-> "chunked", length |-> 0]
           Fixed0 == [verdict |-> "read", mode |-> "fixed", length |-> length]
<1>1. determineBodyFraming(h) =
        IF codings # <<>>
        THEN IF lengths # <<>> THEN Error("bad")
             ELSE IF onlyChunkedTransferCoding(codings) THEN Chunked0 ELSE Error("coding")
        ELSE IF lengths = <<>> THEN None0
             ELSE IF length < 0 THEN Error("bad")
             ELSE IF length > MaxBodyBytes THEN Error("too large") ELSE Fixed0
  BY DEF determineBodyFraming
<1>2. Error("bad").verdict = "bad" /\ Error("coding").verdict = "coding"
  BY DEF Error
<1>3. /\ codings = <<>> <=> "Transfer-Encoding" \notin Names(h)
      /\ lengths = <<>> <=> "Content-Length" \notin Names(h)
  BY ValuesAre
<1>4. Chunked0.mode = "chunked" /\ None0.mode = "none"
  OBVIOUS
<1> HIDE DEF codings, lengths, length, None0, Chunked0, Fixed0
<1>5. ASSUME "Transfer-Encoding" \in Names(h), determineBodyFraming(h).verdict = "read"
      PROVE  determineBodyFraming(h) = Chunked0
  BY <1>1, <1>2, <1>3, <1>5
<1>6. ASSUME Names(h) \cap {"Content-Length", "Transfer-Encoding"} = {} PROVE determineBodyFraming(h) = None0
  BY <1>1, <1>3, <1>6
<1> QED BY <1>4, <1>5, <1>6

\* Where in holds tail after a.
HasTail(in, a, tail, rest) ==
  /\ in.symbols \in Seq(Symbols) /\ Len(in.symbols) = Len(a) + Len(tail) + Len(rest)
  /\ \A j \in 1 .. Len(tail) : in.symbols[Len(a) + j] = tail[j]
  /\ \A i \in 1 .. Len(tail) + 1 : \A j \in i - 1 .. Len(tail) :
       SubSeq(in.symbols, Len(a) + i, Len(a) + j) = SubSeq(tail, i, j)

\* What follows a stands there.
LEMMA TailStands ==
  ASSUME NEW in, NEW a \in Seq(Symbols), NEW tail \in Seq(Symbols), NEW rest \in Seq(Symbols),
         Precedes(in, a, tail, rest)
  PROVE  HasTail(in, a, tail, rest)
<1> DEFINE s == in.symbols
<1>1. s = a \o tail \o rest
  BY DEF Precedes
<1> HIDE DEF s
<1>2. s \in Seq(Symbols) /\ Len(s) = Len(a) + Len(tail) + Len(rest)
  BY <1>1
<1>3. \A j \in 1 .. Len(tail) : s[Len(a) + j] = tail[j]
  BY <1>1
<1>4. ASSUME NEW i \in 1 .. Len(tail) + 1, NEW j \in i - 1 .. Len(tail)
      PROVE  SubSeq(s, Len(a) + i, Len(a) + j) = SubSeq(tail, i, j)
  <2> DEFINE n == j - i + 1
             x == Len(a) + i
             y == Len(a) + j
  <2>1. /\ n \in Nat /\ i \in Nat /\ j \in Nat /\ x \in Nat /\ y \in Nat /\ y - x + 1 = n
        /\ \A k \in 1 .. n : x + k - 1 = Len(a) + (i + k - 1) /\ i + k - 1 \in 1 .. Len(tail)
    OBVIOUS
  <2>2. SubSeq(tail, i, j) = [k \in 1 .. n |-> tail[i + k - 1]]
    OBVIOUS
  <2> HIDE DEF n, x, y
  <2>3. SubSeq(s, x, y) = [k \in 1 .. n |-> s[x + k - 1]]
    BY <1>2, <2>1
  <2>4. \A k \in 1 .. n : s[x + k - 1] = tail[i + k - 1]
    BY <1>3, <2>1
  <2> QED BY <2>2, <2>3, <2>4 DEF x, y
<1> QED BY <1>2, <1>3, <1>4 DEF s, HasTail

\* Where a chunk should be, none is.
LEMMA NoChunk ==
  ASSUME NEW in, NEW a \in Seq(Symbols), NEW tail \in Seq(Symbols), NEW rest \in Seq(Symbols),
         Precedes(in, a, tail, rest), NEW split, FlattenSeq(split) \in Seq(Symbols), Misplaced(split, tail),
         Len(split) # MaxChunkCount
  PROVE  LET c == ChunksRead(FlattenSeq(split), Len(a) + 1)
         IN ~ MoreAt(in, c) /\ \A e \in Nat : ~ LastAt(in, c, e)
<1> DEFINE s == in.symbols
<1>1. /\ s \in Seq(Symbols) /\ Len(s) = Len(a) + Len(tail) + Len(rest)
      /\ \A j \in 1 .. Len(tail) : s[Len(a) + j] = tail[j]
      /\ \A i \in 1 .. Len(tail) + 1 : \A j \in i - 1 .. Len(tail) :
           SubSeq(s, Len(a) + i, Len(a) + j) = SubSeq(tail, i, j)
  <2>1. HasTail(in, a, tail, rest)
    BY TailStands
  <2> QED BY <2>1 DEF HasTail
<1> DEFINE flat == FlattenSeq(split)
           c == ChunksRead(flat, Len(a) + 1)
           d == tail[1].digits
           value == SizeValue(d)
           trailers == SubSeq(tail, 2, Len(tail) - 1)
           n == SizeOf(tail[1])
<1>2. c.next = Len(a) + 1 /\ c.body = flat /\ Len(a) \in Nat /\ Len(flat) \in Nat /\ Len(tail) \in Nat
      /\ MaxBodyBytes \in Nat /\ MaxUint \in Nat /\ MaxBodyBytes <= MaxUint
  BY LimitsAssumption DEF ChunksRead
<1>3. /\ Len(flat) <= MaxBodyBytes /\ tail # <<>>
      /\ \/ tail[1].kind # "size"
         \/ /\ tail[1].kind = "size"
            /\ \/ d = <<>> \/ ~ (ToSet(d) \subseteq 0 .. Base - 1)
               \/ value > MaxBodyBytes - Len(flat)
               \/ value > 0 /\ value + 2 <= Len(tail) /\ tail[value + 2] # EmptyLine
               \/ /\ value = 0 /\ Len(tail) > 1 /\ Last(tail) = EmptyLine /\ trailers \in Seq(Fields)
                  /\ Len(trailers) > MaxTrailerFields \/ ~ validateTrailers(trailers)
  BY DEF Misplaced
<1> HIDE DEF c, flat, s, value, trailers
<1>4. 1 \in 1 .. Len(tail) /\ s[c.next] = tail[1] /\ tail[1] \in Symbols
  BY <1>1, <1>2, <1>3
<1>5. n \in Nat \cup {-1} /\ (tail[1].kind # "size" => n = -1)
  BY <1>4, SizeIs
<1>6. tail[1].kind = "size" =>
        /\ d = <<>> \/ ~ (ToSet(d) \subseteq 0 .. Base - 1) => n = -1
        /\ value \in Nat /\ (n = -1 \/ n = value) /\ (d # <<>> /\ value = 0 => n \in {0, -1})
  <2> SUFFICES ASSUME tail[1].kind = "size"
               PROVE  /\ d = <<>> \/ ~ (ToSet(d) \subseteq 0 .. Base - 1) => n = -1
                      /\ value \in Nat /\ (n = -1 \/ n = value) /\ (d # <<>> /\ value = 0 => n \in {0, -1})
    OBVIOUS
  <2>1. d \in Seq(Nat)
    BY <1>4 DEF Symbols, Fields, EmptyLine, Junk, Byte
  <2>2. n = parseChunkSizeLine(d)
    BY DEF SizeOf
  <2> HIDE DEF d, n
  <2>3. value \in Nat
    <3>1. 0 \in Nat
      OBVIOUS
    <3> QED BY <2>1, <3>1, SizeValueMore DEF value
  <2>4. CASE d = <<>>
    BY <2>2, <2>3, <2>4 DEF parseChunkSizeLine
  <2>5. CASE d # <<>>
    <3>1. n = IF ToSet(d) \subseteq 0 .. Base - 1 /\ value <= MaxUint THEN value ELSE -1
      BY <2>1, <2>2, <2>5, SizesExact DEF value
    <3> QED BY <2>3, <2>5, <3>1
  <2> QED BY <2>4, <2>5
<1> HIDE DEF d, n
<1>7. ASSUME MoreAt(in, c) PROVE FALSE
  <2>1. /\ n \in Nat \ {0} /\ n <= MaxBodyBytes - Len(flat) /\ c.next + n + 1 <= Len(s)
        /\ s[c.next + n + 1] = EmptyLine
    BY <1>2, <1>4, <1>7 DEF MoreAt, n, s
  <2>2. n = value /\ tail[1].kind = "size"
    BY <1>5, <1>6, <2>1
  <2>3. value > 0 /\ value + 2 <= Len(tail) /\ tail[value + 2] # EmptyLine
    BY <1>3, <1>6, <2>1, <2>2, <1>2
  <2>4. value + 2 \in 1 .. Len(tail) /\ Len(a) + (value + 2) = c.next + n + 1
    BY <1>2, <2>1, <2>2, <2>3
  <2>5. s[Len(a) + (value + 2)] = tail[value + 2]
    BY <1>1, <2>4
  <2> QED BY <2>1, <2>3, <2>4, <2>5
<1>8. ASSUME NEW e \in Nat, LastAt(in, c, e) PROVE FALSE
  <2>1. /\ n = 0 /\ BlockAt(in, c.next + 1, e) /\ e - (c.next + 1) <= MaxTrailerFields
        /\ validateTrailers(SubSeq(s, c.next + 1, e - 1))
    BY <1>4, <1>8 DEF LastAt, n, s
  <2>2. value = 0 /\ tail[1].kind = "size"
    BY <1>5, <1>6, <2>1
  <2>3. /\ Len(tail) > 1 /\ Last(tail) = EmptyLine /\ trailers \in Seq(Fields)
        /\ Len(trailers) > MaxTrailerFields \/ ~ validateTrailers(trailers)
    BY <1>2, <1>3, <1>6, <2>1, <2>2
  <2> DEFINE m == Len(tail)
             f == Len(a) + m
             at == c.next + 1
  <2>4. m \in Nat /\ m > 1 /\ tail[m] = EmptyLine /\ f \in Nat /\ at = Len(a) + 2 /\ at \in Nat
    BY <1>2, <2>3 DEF Last
  <2>5. Len(trailers) = m - 2 /\ \A j \in 1 .. m - 2 : trailers[j] = tail[j + 1]
    <3>1. SubSeq(tail, 2, m - 1) = [j \in 1 .. m - 2 |-> tail[j + 1]]
      <4> HIDE DEF m
      <4> QED BY <2>4
    <3>2. trailers = [j \in 1 .. m - 2 |-> tail[j + 1]] /\ m - 2 \in Nat
      BY <2>4, <3>1 DEF trailers
    <3> HIDE DEF m
    <3> QED BY <2>4, <3>2
  <2>6. \A j \in 1 .. m - 2 : tail[j + 1].kind = "field"
    <3> TAKE j \in 1 .. m - 2
    <3>1. j \in 1 .. Len(trailers)
      BY <2>5
    <3>2. trailers[j] \in Fields
      BY <2>3, <3>1
    <3> QED BY <2>5, <3>2, SymbolKinds
  <2>7. BlockAt(in, at, f)
    <3>1. f \in at .. Len(s)
      BY <1>1, <1>2, <2>4
    <3>2. s[f] = EmptyLine
      <4>1. m \in 1 .. Len(tail)
        BY <2>4
      <4> QED BY <1>1, <2>4, <4>1
    <3>3. ASSUME NEW k \in at .. f - 1 PROVE s[k].kind = "field"
      <4>1. k = Len(a) + ((k - Len(a) - 1) + 1) /\ k - Len(a) - 1 \in 1 .. m - 2
            /\ (k - Len(a) - 1) + 1 \in 1 .. Len(tail)
        BY <1>2, <2>4
      <4>2. s[k] = tail[(k - Len(a) - 1) + 1]
        BY <1>1, <4>1
      <4> QED BY <2>6, <4>1, <4>2
    <3> QED BY <3>1, <3>2, <3>3 DEF BlockAt, s
  <2>8. e = f
    <3> HIDE DEF f, at
    <3> QED BY <2>1, <2>4, <2>7, OneBlock DEF at
  <2>9. SubSeq(s, Len(a) + 2, Len(a) + (m - 1)) = trailers
    <3>1. 2 \in 1 .. Len(tail) + 1 /\ m - 1 \in 2 - 1 .. Len(tail)
      BY <2>4
    <3> QED BY <1>1, <3>1 DEF trailers
  <2>10. e - 1 = Len(a) + (m - 1) /\ e - at = m - 2
    BY <1>2, <2>4, <2>8
  <2>11. validateTrailers(trailers) /\ Len(trailers) <= MaxTrailerFields
    BY <2>1, <2>4, <2>5, <2>9, <2>10
  <2>12. Len(trailers) \in Nat /\ MaxTrailerFields \in Nat
    BY <2>3, LimitsAssumption
  <2> QED BY <2>3, <2>11, <2>12
<1> QED BY <1>7, <1>8 DEF c, flat

\* Chunks that are followed by something else than the next are refused.
LEMMA MisplacedFails ==
  ASSUME NEW in, NEW pre \in Seq(Symbols), NEW split \in Seq(Seq(Symbols)), NEW tail \in Seq(Symbols),
         NEW rest \in Seq(Symbols), Misplaced(split, tail), Precedes(in, pre, Chunks(split), tail \o rest)
  PROVE  readChunkedBody(in, Len(pre) + 1).verdict # "read"
<1> DEFINE text == Chunks(split)
           flat == FlattenSeq(split)
           more == tail \o rest
           at == Len(pre) + 1
           k == Len(split)
           M == MaxChunkCount
<1>1. text \in Seq(Symbols) /\ flat \in Seq(Symbols) /\ more \in Seq(Symbols)
  <2> DEFINE p == <<>>
  <2>1. p \in Seq(Symbols)
    OBVIOUS
  <2> HIDE DEF p
  <2>2. Chunks(split) \in Seq(Symbols) /\ FlattenSeq(split) \in Seq(Symbols)
    BY <2>1, SplitMore, FlatMore
  <2> QED BY <2>2
<1>2. /\ k <= M /\ Len(flat) <= MaxBodyBytes /\ k \in Nat /\ M \in Nat \ {0} /\ Len(pre) \in Nat
      /\ split \in Seq(Pieces)
  <2>1. Len(split) <= MaxChunkCount /\ <<>> \notin ToSet(split) /\ Len(FlattenSeq(split)) <= MaxBodyBytes
    BY DEF Misplaced
  <2>2. split \in Seq(Pieces)
    <3>1. \A i \in 1 .. Len(split) : split[i] \in Seq(Symbols) /\ split[i] # <<>>
      BY <2>1 DEF ToSet
    <3>2. \A i \in 1 .. Len(split) : split[i] \in Pieces
      BY <3>1 DEF Pieces
    <3> HIDE DEF Pieces
    <3> DEFINE z == Len(split)
    <3>3. split = [i \in 1 .. z |-> split[i]] /\ z \in Nat
      OBVIOUS
    <3>4. split \in [1 .. z -> Pieces]
      BY <3>2, <3>3
    <3> HIDE DEF z
    <3> QED BY <3>3, <3>4
  <2> QED BY <2>1, <2>2, LimitsAssumption
<1>3. in.symbols = pre \o text \o more
  BY DEF Precedes
<1> HIDE DEF text, flat, more
<1>4. in.symbols \in Seq(Symbols) /\ at \in Nat \ {0} /\ at = Len(pre) + 1
  BY <1>1, <1>2, <1>3
<1> HIDE DEF at
<1>5. PICK f : Runs(f, in, at)
  BY <1>4, ChunkTurns
<1>6. /\ ChunkLoop(f, in, at)
      /\ readChunkedBody(in, at) = IF f[M].verdict = "chunk" THEN Error("bad") ELSE f[M]
  BY <1>5 DEF Runs
<1> DEFINE a == pre \o text
           c == ChunksRead(flat, Len(a) + 1)
<1>7. a \in Seq(Symbols) /\ Len(a) = Len(pre) + Len(text) /\ Len(a) \in Nat
  BY <1>1
<1>8. f[k] = c
  <2>1. SplitRead(split)
    BY <1>2, SplitReads
  <2>2. f[Len(split)] = ChunksRead(FlattenSeq(split), Len(pre) + Len(Chunks(split)) + 1)
    BY <1>1, <1>2, <1>3, <1>4, <1>6, <2>1 DEF SplitRead, text, flat
  <2> QED BY <1>7, <2>2 DEF text, flat
<1>9. Precedes(in, a, tail, rest)
  <2>1. (pre \o text) \o (tail \o rest) = (pre \o text) \o tail \o rest
    <3> HIDE DEF a
    <3>1. a \o (tail \o rest) = (a \o tail) \o rest
      BY <1>7
    <3> QED BY <3>1 DEF a
  <2> QED BY <1>3, <2>1 DEF Precedes, more
<1> HIDE DEF a
<1>10. SUFFICES ASSUME readChunkedBody(in, at).verdict = "read" PROVE FALSE
  BY <1>4
<1>11. Error("bad").verdict = "bad" /\ c.verdict = "chunk"
  BY DEF Error, ChunksRead
<1> HIDE DEF c
<1>12. f[M].verdict = "read"
  BY <1>6, <1>10, <1>11
<1>13. k # M
  BY <1>8, <1>11, <1>12
<1>14. ~ MoreAt(in, c) /\ \A e \in Nat : ~ LastAt(in, c, e)
  BY <1>1, <1>7, <1>9, <1>13, NoChunk DEF c, flat
<1>15. k + 1 \in 1 .. M /\ (k + 1) - 1 = k /\ k + 1 \in 0 .. M
  BY <1>2, <1>13
<1>16. f[k + 1] = readChunk(in, c)
  <2>1. f[k + 1] = ChunkTurn(in, f[k])
    BY <1>6, <1>15 DEF ChunkLoop
  <2> QED BY <1>8, <1>11, <2>1 DEF ChunkTurn
<1>17. f[k + 1].verdict \in {"chunk", "read"}
  <2>1. CASE f[k + 1].verdict = "chunk"
    BY <2>1
  <2>2. CASE f[k + 1].verdict # "chunk"
    <3> DEFINE j == k + 1
    <3>1. j \in 0 .. MaxChunkCount /\ f[j].verdict # "chunk"
      BY <1>15, <2>2
    <3> HIDE DEF j
    <3>2. f[MaxChunkCount] = f[j]
      BY <1>6, <3>1, LoopStays
    <3> QED BY <1>12, <3>2 DEF j
  <2> QED BY <2>1, <2>2
<1>18. \/ readChunk(in, c).verdict = "chunk" /\ MoreAt(in, c)
       \/ readChunk(in, c).verdict = "read" /\ \E e \in Nat : LastAt(in, c, e)
  <2> DEFINE at2 == Len(a) + 1
  <2>1. at2 \in Nat \ {0} /\ c = ChunksRead(flat, at2)
    BY <1>7 DEF c
  <2> HIDE DEF at2
  <2>2. readChunk(in, c).verdict \in {"chunk", "read"}
    BY <1>16, <1>17
  <2> QED BY <1>1, <1>4, <2>1, <2>2, ChunkRead
<1> QED BY <1>14, <1>18

\* The parts of a malformed message.
FaultParts(fault) ==
  /\ fault.head \in Seq(Fields) /\ fault.line \in Symbols \ Fields
  /\ fault.split \in Seq(Seq(Symbols)) /\ fault.tail \in Seq(Symbols)

\* in holds the fault after a start line, and the rest.
Faulted(in, start, fault, rest) == in.symbols = <<start>> \o Spelt(fault) \o rest

\* Where the fields stand, if the reader has found any: before the line that is
\* empty.  The chunks follow it.
HeadRead(in, start, fault, e) ==
  /\ in.symbols \in Seq(Symbols) /\ in.symbols[1] = start
  /\ BlockAt(in, 2, e) => e = Len(fault.head) + 2 /\ fault.line = EmptyLine
                          /\ SubSeq(in.symbols, 2, e - 1) = fault.head

\* The header of a malformed message.
LEMMA HeadReads ==
  ASSUME NEW fault, FaultParts(fault), NEW start \in Symbols, NEW rest \in Seq(Symbols), NEW in,
         Faulted(in, start, fault, rest)
  PROVE  /\ \A e \in Nat : HeadRead(in, start, fault, e)
         /\ Chunks(fault.split) \in Seq(Symbols) /\ fault.tail \in Seq(Symbols) /\ Spelt(fault) \in Seq(Symbols)
         /\ \E pre \in Seq(Symbols) : /\ Precedes(in, pre, Chunks(fault.split), fault.tail \o rest)
                                      /\ Len(pre) = Len(fault.head) + 2
<1> DEFINE h == fault.head
           line == fault.line
           text == Chunks(fault.split)
           tail == fault.tail
           s == in.symbols
           n == Len(h)
           first == <<start>> \o h
           pre == <<start>> \o h \o <<line>>
<1>1. /\ h \in Seq(Fields) /\ line \in Symbols /\ line \notin Fields /\ tail \in Seq(Symbols)
      /\ fault.split \in Seq(Seq(Symbols))
  BY DEF FaultParts
<1>2. text \in Seq(Symbols)
  <2> DEFINE p == <<>>
  <2>1. p \in Seq(Symbols)
    OBVIOUS
  <2> HIDE DEF p
  <2> QED BY <1>1, <2>1, SplitMore
<1>3. h \in Seq(Symbols) /\ n \in Nat /\ \A i \in 1 .. n : h[i].kind = "field"
  <2>1. \A i \in 1 .. Len(h) : h[i] \in Fields
    BY <1>1
  <2>2. Fields \subseteq Symbols
    BY DEF Symbols
  <2>3. h \in Seq(Symbols)
    <3> HIDE DEF h
    <3> QED BY <1>1, <2>2
  <2> QED BY <1>1, <2>1, <2>3, SymbolKinds
<1>4. line.kind # "field"
  BY <1>1 DEF Symbols, EmptyLine, Junk, Byte
<1>5. s = <<start>> \o (h \o <<line>> \o text \o tail) \o rest /\ Spelt(fault) = h \o <<line>> \o text \o tail
  BY DEF Faulted, Spelt
<1> HIDE DEF h, line, text, tail, s
<1>6. pre \in Seq(Symbols) /\ Len(pre) = n + 2 /\ pre[1] = start /\ pre[n + 2] = line
      /\ \A j \in 2 .. n + 1 : pre[j] = h[j - 1] /\ j - 1 \in 1 .. n
  BY <1>1, <1>3
<1>7. Spelt(fault) \in Seq(Symbols)
  BY <1>1, <1>2, <1>3, <1>5
<1>8. s = pre \o text \o (tail \o rest)
  <2> DEFINE x == <<start>>
             y == <<line>>
             hl == h \o y
             tr == tail \o rest
  <2>1. x \in Seq(Symbols) /\ y \in Seq(Symbols)
    BY <1>1
  <2> HIDE DEF x, y
  <2>2. hl \in Seq(Symbols) /\ tr \in Seq(Symbols)
    BY <1>1, <1>3, <2>1
  <2> HIDE DEF hl
  <2>3. Regrouped(x, hl \o text, tail, rest) /\ Regrouped(x, hl, text, tr)
    <3>1. hl \o text \in Seq(Symbols)
      BY <1>2, <2>2
    <3> HIDE DEF tr
    <3> QED BY <1>1, <1>2, <2>1, <2>2, <3>1, Regroup
  <2>4. s = x \o (hl \o text \o tail) \o rest
    BY <1>5 DEF x, hl, y
  <2>5. s = x \o (hl \o text) \o tr
    BY <2>3, <2>4 DEF Regrouped
  <2>6. s = (x \o hl) \o text \o tr
    BY <2>3, <2>5 DEF Regrouped
  <2>7. x \o hl = x \o h \o y
    BY <1>3, <2>1 DEF hl
  <2> QED BY <2>6, <2>7 DEF x, y
<1> HIDE DEF pre
<1> DEFINE more == tail \o rest
<1>9. more \in Seq(Symbols)
  BY <1>1
<1> HIDE DEF more
<1>10. /\ s \in Seq(Symbols) /\ \A j \in 1 .. n + 2 : s[j] = pre[j]
       /\ SubSeq(s, 2, n + 1) = SubSeq(pre, 2, n + 1) /\ Len(s) \in Nat
  <2>1. s = pre \o text \o more
    BY <1>8 DEF more
  <2> HIDE DEF n
  <2> QED BY <1>2, <1>3, <1>6, <1>9, <2>1
<1>11. SubSeq(pre, 2, n + 1) = h
  <2>1. SubSeq(pre, 2, n + 1) = [i \in 1 .. n |-> pre[i + 1]]
    <3> HIDE DEF n
    <3> QED BY <1>3, <1>6
  <2>2. \A i \in 1 .. n : pre[i + 1] = h[i]
    <3> TAKE i \in 1 .. n
    <3>1. i + 1 \in 2 .. n + 1 /\ (i + 1) - 1 = i
      BY <1>3
    <3> QED BY <1>6, <3>1
  <2>3. h = [i \in 1 .. n |-> h[i]]
    BY <1>1
  <2> QED BY <2>1, <2>2, <2>3
<1>12. ASSUME NEW e \in Nat PROVE HeadRead(in, start, fault, e)
  <2>1. s[1] = start
    BY <1>3, <1>6, <1>10
  <2>2. ASSUME BlockAt(in, 2, e)
        PROVE  e = n + 2 /\ line = EmptyLine /\ SubSeq(s, 2, e - 1) = h
    <3>1. e \in 2 .. Len(s) /\ s[e] = EmptyLine /\ \A j \in 2 .. e - 1 : s[j].kind = "field"
      BY <2>2 DEF BlockAt, s
    <3>2. ~ (e < n + 2)
      <4> SUFFICES ASSUME e < n + 2 PROVE FALSE
        OBVIOUS
      <4>1. e \in 2 .. n + 1 /\ e \in 1 .. n + 2
        BY <1>3, <3>1
      <4>2. s[e] = h[e - 1] /\ e - 1 \in 1 .. n
        BY <1>6, <1>10, <4>1
      <4> QED BY <1>3, <3>1, <4>2, SymbolKinds
    <3>3. ~ (e > n + 2)
      <4> SUFFICES ASSUME e > n + 2 PROVE FALSE
        OBVIOUS
      <4>1. n + 2 \in 2 .. e - 1 /\ n + 2 \in 1 .. n + 2
        BY <1>3, <3>1
      <4> QED BY <1>4, <1>6, <1>10, <3>1, <4>1
    <3>4. e = n + 2 /\ e - 1 = n + 1 /\ n + 2 \in 1 .. n + 2
      BY <1>3, <3>2, <3>3
    <3>5. line = EmptyLine
      BY <1>6, <1>10, <3>1, <3>4
    <3> QED BY <1>10, <1>11, <3>4, <3>5
  <2> QED BY <1>10, <2>1, <2>2 DEF HeadRead, s, h, line
<1>13. Precedes(in, pre, text, tail \o rest)
  BY <1>8 DEF Precedes, s
<1> QED BY <1>1, <1>2, <1>6, <1>7, <1>12, <1>13 DEF text, tail, h

\* The reader refuses a malformed request, whatever follows it and however the
\* connection goes on.
THEOREM RefusesRequest ==
  ASSUME NEW fault, FaultParts(fault), MalformedRequest(fault), NEW start \in Symbols, NEW rest \in Seq(Symbols),
         NEW in, Faulted(in, start, fault, rest)
  PROVE  readHTTPRequest(in).verdict # "read"
<1> SUFFICES ASSUME readHTTPRequest(in).verdict = "read" PROVE FALSE
  OBVIOUS
<1> DEFINE h == fault.head
           framing == determineBodyFraming(h)
<1>1. /\ \A e \in Nat : HeadRead(in, start, fault, e)
      /\ Chunks(fault.split) \in Seq(Symbols) /\ fault.tail \in Seq(Symbols)
  BY HeadReads
<1>2. h \in Seq(Fields) /\ fault.split \in Seq(Seq(Symbols)) /\ Len(h) \in Nat /\ MaxHeaderFields \in Nat
  BY LimitsAssumption DEF FaultParts
<1>3. in.symbols \in Seq(Symbols)
  <2>1. 0 \in Nat
    OBVIOUS
  <2> QED BY <1>1, <2>1 DEF HeadRead
<1>4. PICK e \in Nat : RequestAt(in, e)
  BY <1>3, RequestParts
<1>5. e = Len(h) + 2 /\ fault.line = EmptyLine /\ SubSeq(in.symbols, 2, e - 1) = h
  BY <1>1, <1>4 DEF HeadRead, RequestAt
<1>6. /\ e - 2 <= MaxHeaderFields /\ validateRequestHeaders(h).verdict = "read"
      /\ framing.verdict = "read" /\ readBody(in, e + 1, framing).verdict = "read"
  BY <1>4, <1>5 DEF RequestAt
<1>7. ~ Unheaded(fault)
  BY <1>2, <1>5, <1>6 DEF Unheaded
<1>8. ~ Misframed(h)
  BY <1>2, <1>6, MisframedFails
<1>9. Len(Values(h, "Host")) = 1 /\ "Expect" \notin Names(h) /\ ~ Upgrades(h) /\ ~ HasToken(h, "Connection", "")
  <2>1. Error("bad").verdict = "bad"
    BY DEF Error
  <2> QED BY <1>6, <2>1 DEF validateRequestHeaders, validateConnectionFields
<1>10. "Transfer-Encoding" \in Names(h) /\ Misplaced(fault.split, fault.tail)
  <2> HIDE DEF framing
  <2> QED BY <1>7, <1>8, <1>9 DEF MalformedRequest
<1>11. framing.mode = "chunked"
  BY <1>2, <1>6, <1>10, FramingModes
<1>12. readBody(in, e + 1, framing) = readChunkedBody(in, e + 1)
  <2> HIDE DEF framing
  <2> QED BY <1>11 DEF readBody
<1>13. PICK pre \in Seq(Symbols) : Precedes(in, pre, Chunks(fault.split), fault.tail \o rest) /\ Len(pre) = Len(h) + 2
  BY HeadReads
<1>14. readChunkedBody(in, Len(pre) + 1).verdict # "read"
  BY <1>1, <1>2, <1>10, <1>13, MisplacedFails
<1> QED BY <1>5, <1>6, <1>12, <1>13, <1>14

\* The reader refuses a malformed response to a request that is not HEAD,
\* whatever follows it and however the connection goes on.
THEOREM RefusesResponse ==
  ASSUME NEW fault, FaultParts(fault), fault.start \in Symbols, MalformedResponse(fault),
         NEW rest \in Seq(Symbols), NEW in, Faulted(in, fault.start, fault, rest), NEW method, method # "HEAD"
  PROVE  readHTTPResponse(in, method).verdict # "read"
<1> SUFFICES ASSUME readHTTPResponse(in, method).verdict = "read" PROVE FALSE
  OBVIOUS
<1> DEFINE h == fault.head
           start == fault.start
           status == start.status
           bare == Interim(status) \/ status = 204
           framing == determineBodyFraming(h)
           text == Chunks(fault.split)
           mode == ModeOf(status, method, framing.mode)
           used == ResponseFraming(status, method, h)
<1>1. /\ \A e \in Nat : HeadRead(in, start, fault, e)
      /\ text \in Seq(Symbols) /\ fault.tail \in Seq(Symbols)
  BY HeadReads
<1>2. h \in Seq(Fields) /\ fault.split \in Seq(Seq(Symbols)) /\ Len(h) \in Nat /\ MaxHeaderFields \in Nat
  BY LimitsAssumption DEF FaultParts
<1>3. in.symbols \in Seq(Symbols)
  <2>1. 0 \in Nat
    OBVIOUS
  <2> QED BY <1>1, <2>1 DEF HeadRead
<1>4. PICK e \in Nat : ResponseAt(in, method, e)
  BY <1>3, ResponseParts
<1>5. e = Len(h) + 2 /\ fault.line = EmptyLine /\ SubSeq(in.symbols, 2, e - 1) = h /\ in.symbols[1] = start
  BY <1>1, <1>4 DEF HeadRead, ResponseAt
<1>6. /\ start.kind = "status" /\ e - 2 <= MaxHeaderFields /\ ~ Refuses(status, h)
      /\ framing.verdict = "read" /\ readBody(in, e + 1, used).verdict = "read"
  BY <1>4, <1>5 DEF ResponseAt
<1>7. ~ Unheaded(fault)
  BY <1>2, <1>5, <1>6 DEF Unheaded
<1>8. ~ Misframed(h)
  BY <1>2, <1>6, MisframedFails
<1>9. /\ ~ Upgrades(h) /\ ~ HasToken(h, "Connection", "") /\ status # 101
      /\ bare => Names(h) \cap {"Content-Length", "Transfer-Encoding"} = {}
  BY <1>6 DEF Refuses, validateConnectionFields, validateResponseFramingHeaders
<1> HIDE DEF h, start, status, bare, text, framing, mode, used
<1>10. \/ ~ bare /\ status # 304 /\ "Transfer-Encoding" \in Names(h) /\ Misplaced(fault.split, fault.tail)
       \/ /\ ~ bare /\ status # 304 /\ Names(h) \cap {"Content-Length", "Transfer-Encoding"} = {}
          /\ Len(text \o fault.tail) > MaxBodyBytes
  BY <1>6, <1>7, <1>8, <1>9 DEF MalformedResponse, h, start, status, bare, text
<1>11. mode = IF framing.mode = "none" THEN "close-delimited" ELSE framing.mode
  BY <1>10 DEF ModeOf, responseMustNotHaveBody, mode, bare
<1>12. used.mode = mode
  <2>1. determineBodyFraming(h).verdict = "read"
    BY <1>6 DEF framing
  <2> QED BY <1>2, <2>1, ResponseMeasured DEF used, mode, framing
<1>13. PICK pre \in Seq(Symbols) : Precedes(in, pre, text, fault.tail \o rest) /\ Len(pre) = Len(h) + 2
  BY HeadReads DEF text, h
<1>14. CASE "Transfer-Encoding" \in Names(h) /\ Misplaced(fault.split, fault.tail)
  <2>1. framing.mode = "chunked"
    BY <1>2, <1>6, <1>14, FramingModes DEF framing
  <2>2. readBody(in, e + 1, used) = readChunkedBody(in, e + 1)
    BY <1>11, <1>12, <2>1 DEF readBody
  <2>3. readChunkedBody(in, Len(pre) + 1).verdict # "read"
    BY <1>1, <1>2, <1>13, <1>14, MisplacedFails DEF text
  <2> QED BY <1>5, <1>6, <1>13, <2>2, <2>3
<1>15. CASE /\ Names(h) \cap {"Content-Length", "Transfer-Encoding"} = {}
            /\ Len(text \o fault.tail) > MaxBodyBytes
  <2>1. framing.mode = "none"
    BY <1>2, <1>15, FramingModes DEF framing
  <2>2. readBody(in, e + 1, used) = readCloseDelimitedBody(in, e + 1)
    BY <1>11, <1>12, <2>1 DEF readBody
  <2> DEFINE s == in.symbols
             tail == fault.tail
             more == tail \o rest
  <2>3. more \in Seq(Symbols) /\ Len(more) = Len(tail) + Len(rest) /\ Len(text \o tail) = Len(text) + Len(tail)
        /\ Len(tail) \in Nat /\ Len(rest) \in Nat /\ Len(text) \in Nat
    BY <1>1
  <2>4. s = pre \o text \o more
    BY <1>13 DEF Precedes
  <2> HIDE DEF more, tail, s
  <2>5. s \in Seq(Symbols) /\ Len(s) = Len(pre) + Len(text) + Len(more) /\ Len(pre) \in Nat
    <3>1. text \in Seq(Symbols) /\ more \in Seq(Symbols) /\ pre \in Seq(Symbols)
      BY <1>1, <2>3
    <3>2. pre \o text \in Seq(Symbols) /\ Len(pre \o text) = Len(pre) + Len(text) /\ Len(pre) \in Nat
      BY <3>1
    <3> QED BY <2>4, <3>1, <3>2
  <2>6. Len(SubSeq(s, e + 1, Len(s))) = Len(s) - e
    BY <1>2, <1>5, <1>13, <2>3, <2>5
  <2>7. Len(SubSeq(s, e + 1, Len(s))) > MaxBodyBytes
    <3>1. Len(text) + Len(tail) > MaxBodyBytes
      BY <1>15, <2>3 DEF tail
    <3>2. Len(s) - e >= Len(text) + Len(tail)
      BY <1>2, <1>5, <1>13, <2>3, <2>5
    <3> QED BY <2>3, <2>5, <2>6, <3>1, <3>2, LimitsAssumption
  <2>8. readCloseDelimitedBody(in, e + 1) = Error("too large")
    BY <2>7 DEF readCloseDelimitedBody, s
  <2>9. Error("too large").verdict # "read"
    BY DEF Error
  <2> QED BY <1>6, <2>2, <2>8, <2>9
<1> QED BY <1>10, <1>14, <1>15

\* What the malformed messages of the peers are to the reader.
LEMMA JunkIs ==
  /\ BadRequests \cup BadResponses \subseteq Seq(Symbols)
  /\ \A bad \in BadRequests, end \in Ends, t \in Targets, rest \in Seq(Symbols) :
       readHTTPRequest([symbols |-> <<RequestLine("POST", t)>> \o bad \o rest, end |-> end]).verdict # "read"
  /\ \A bad \in BadResponses, end \in Ends : \A method :
       method # "HEAD" => readHTTPResponse([symbols |-> bad, end |-> end], method).verdict # "read"
<1>1. ASSUME NEW bad \in BadRequests
      PROVE  /\ bad \in Seq(Symbols)
             /\ \A end \in Ends, t \in Targets, rest \in Seq(Symbols) :
                  readHTTPRequest([symbols |-> <<RequestLine("POST", t)>> \o bad \o rest, end |-> end]).verdict # "read"
  <2>1. PICK fault \in RequestFaults : bad = Spelt(fault)
    BY DEF BadRequests
  <2>2. FaultParts(fault) /\ MalformedRequest(fault)
    BY FaultAssumption DEF FaultParts
  <2>3. ASSUME NEW end \in Ends, NEW t \in Targets, NEW rest \in Seq(Symbols)
        PROVE  /\ bad \in Seq(Symbols)
               /\ readHTTPRequest([symbols |-> <<RequestLine("POST", t)>> \o bad \o rest, end |-> end]).verdict # "read"
    <3> DEFINE start == RequestLine("POST", t)
               in == [symbols |-> <<start>> \o bad \o rest, end |-> end]
    <3>1. start \in Symbols
      BY StringAssumption DEF RequestLine, Symbols, Targets
    <3> HIDE DEF start
    <3>2. Faulted(in, start, fault, rest)
      BY <2>1 DEF Faulted
    <3> HIDE DEF in
    <3>3. readHTTPRequest(in).verdict # "read" /\ Spelt(fault) \in Seq(Symbols)
      BY <2>2, <3>1, <3>2, RefusesRequest, HeadReads
    <3> QED BY <2>1, <3>3 DEF in, start
  <2>4. bad \in Seq(Symbols)
    <3> DEFINE none == <<>>
    <3>1. none \in Seq(Symbols) /\ 1 \in Targets /\ "open" \in Ends
      BY DEF Targets, Ends
    <3> HIDE DEF none
    <3> QED BY <2>3, <3>1
  <2> QED BY <2>3, <2>4
<1>2. ASSUME NEW bad \in BadResponses
      PROVE  /\ bad \in Seq(Symbols)
             /\ \A end \in Ends : \A method :
                  method # "HEAD" => readHTTPResponse([symbols |-> bad, end |-> end], method).verdict # "read"
  <2>1. PICK fault \in ResponseFaults : bad = <<fault.start>> \o Spelt(fault)
    BY DEF BadResponses
  <2>2. FaultParts(fault) /\ fault.start \in Symbols /\ MalformedResponse(fault)
    BY FaultAssumption DEF FaultParts
  <2> DEFINE none == <<>>
             start == fault.start
             spelt == Spelt(fault)
  <2>3. none \in Seq(Symbols)
    OBVIOUS
  <2> HIDE DEF none
  <2>4. ASSUME NEW in, Faulted(in, start, fault, none) PROVE spelt \in Seq(Symbols)
    BY <2>2, <2>3, <2>4, HeadReads
  <2>5. spelt \in Seq(Symbols)
    <3> DEFINE in == [symbols |-> <<start>> \o spelt \o none]
    <3>1. Faulted(in, start, fault, none)
      BY DEF Faulted
    <3> HIDE DEF in, spelt
    <3> QED BY <2>4, <3>1
  <2> HIDE DEF start, spelt
  <2>6. bad = <<start>> \o spelt /\ bad \in Seq(Symbols) /\ bad \o none = bad
    <3>1. bad = <<start>> \o spelt /\ bad \in Seq(Symbols)
      BY <2>1, <2>2, <2>5 DEF start, spelt
    <3> QED BY <3>1 DEF none
  <2>7. ASSUME NEW end \in Ends, NEW method, method # "HEAD"
        PROVE  readHTTPResponse([symbols |-> bad, end |-> end], method).verdict # "read"
    <3> DEFINE in == [symbols |-> bad, end |-> end]
    <3>1. in.symbols = <<start>> \o spelt \o none
      BY <2>6
    <3> HIDE DEF in
    <3>2. Faulted(in, fault.start, fault, none)
      BY <3>1 DEF Faulted, start, spelt
    <3>3. readHTTPResponse(in, method).verdict # "read"
      BY <2>2, <2>3, <2>7, <3>2, RefusesResponse
    <3> QED BY <3>3 DEF in
  <2> QED BY <2>6, <2>7
<1> QED BY <1>1, <1>2

-----------------------------------------------------------------------------
(* The right answer                                                        *)

\* text is p, and then q.
TwoParts(text, p, q) == text = p \o q

\* The client will read text as the right answer to s, of which the upstream
\* gave the answer a; or refuse it, as it does a 204 with a length.  Of what it
\* broke off it may leave something unread.
Says(text, s, a) ==
  /\ text \in Seq(Symbols) /\ text # <<>>
  /\ \/ \E g : ReadsResponse(text, s.method, g) /\ RightAnswer(s, a, g)
     \/ /\ ~ s.whole /\ s.method # "GET"
        /\ \E g : \E p \in Seq(Symbols), q \in Seq(Symbols) :
             TwoParts(text, p, q) /\ ReadsResponse(p, s.method, g) /\ RightAnswer(s, a, g)
     \/ s.method = "HEAD" /\ a # None /\ a.message.status = 204 /\ Refused(text, s.method)

\* However the connection goes on, the response will tell the client so.
Conveys(response, method, s, a) ==
  \A close \in BOOLEAN :
    /\ writeHTTPResponse([response EXCEPT !.close = close], method).verdict = "written"
    /\ Says(writeHTTPResponse([response EXCEPT !.close = close], method).symbols, s, a)

\* What has the status, the fields and the body of the response is the right answer.
Right(r, h, s, a) ==
  \A g : /\ g.status = r.status /\ EndToEnd(g.headers) = EndToEnd(h) /\ ToSet(h) \subseteq ToSet(g.headers)
         /\ responseMustNotHaveBody(s.method, r.status) \/ (g.body = r.body /\ g.trailers = r.trailers)
         => RightAnswer(s, a, g)

\* Completing a header leaves the fields between the ends alone.
LEMMA EndToEndSame ==
  ASSUME NEW g, NEW h, NEW mode, NEW length, HeaderFor(g, h, mode, length)
  PROVE  EndToEnd(g) = EndToEnd(h) /\ ToSet(h) \subseteq ToSet(g)
<1> DEFINE S == STRING \ {"Content-Length", "Transfer-Encoding", "Trailer", "Connection", "Host", "Via",
                          "Forwarded", "X-Anvil-Request-ID", "Proxy-Status"}
<1>1. S \cap Additions = {}
  BY DEF Additions
<1>2. EndToEnd(g) = Named(g, S) /\ EndToEnd(h) = Named(h, S)
  BY DEF EndToEnd
<1> HIDE DEF S
<1>3. Named(g, S) = Named(h, S) /\ ToSet(h) \subseteq ToSet(g)
  BY <1>1 DEF HeaderFor
<1> QED BY <1>2, <1>3

\* What the writer writes is not empty, and may be cut before the body.
LEMMA WireCut ==
  ASSUME NEW start \in Symbols, NEW g \in Seq(Fields), NEW text \in Seq(Symbols)
  PROVE  /\ Wire(start, g, text) \in Seq(Symbols) /\ Wire(start, g, text) # <<>>
         /\ Wire(start, g, <<>>) \in Seq(Symbols) /\ TwoParts(Wire(start, g, text), Wire(start, g, <<>>), text)
<1>1. g \in Seq(Symbols) /\ EmptyLine \in Symbols
  <2>1. Fields \subseteq Symbols
    BY DEF Symbols
  <2> QED BY <2>1, SymbolKinds
<1> DEFINE a == <<start>> \o g \o <<EmptyLine>>
<1>2. a \in Seq(Symbols) /\ Len(a) # 0
  BY <1>1
<1>3. Wire(start, g, text) = a \o text /\ Wire(start, g, <<>>) = a \o <<>>
  BY DEF Wire
<1> HIDE DEF a
<1>4. a \o <<>> = a /\ a \o text \in Seq(Symbols) /\ a \o text # <<>>
  BY <1>2
<1> QED BY <1>2, <1>3, <1>4 DEF TwoParts

\* The response to s is written as one to that method.
WrittenFor(r, method, s, a) ==
  /\ method = s.method \/ (method = "" /\ ~ s.whole)
  /\ s.method = "HEAD" /\ r.status = 204 => a # None /\ a.message.status = 204 /\ method = s.method

\* A response that can be sent says what it should.
LEMMA WrittenSays ==
  ASSUME NEW r, NEW h, Sendable(r, h), NEW method, NEW s, NEW a, Right(r, h, s, a), WrittenFor(r, method, s, a)
  PROVE  writeHTTPResponse(r, method).verdict = "written" /\ Says(writeHTTPResponse(r, method).symbols, s, a)
<1>1. PICK g : HeaderFor(g, h, FramedMode(r, method), Len(r.body)) /\ WrittenAs(r, method, g)
  BY AnswerWritten
<1> DEFINE start == StatusLine(r.status)
           text == TextBody(r, method)
           w == Wire(start, g, text)
<1>2. writeHTTPResponse(r, method).verdict = "written" /\ writeHTTPResponse(r, method).symbols = w
  BY <1>1 DEF WrittenAs
<1>3. /\ r.status \in Nat /\ start \in Symbols /\ r.body \in Seq(Symbols) /\ r.trailers \in Seq(Fields)
      /\ r.mode \in {"none", "fixed", "chunked"}
  BY DEF Sendable, Answers, StatusLine, Symbols
<1>4. h \in Seq(Fields) /\ ~ Interim(r.status) /\ Len(h) + 3 <= MaxHeaderFields
  BY KeptIs DEF Sendable, Answers
<1>5. g \in Seq(Fields)
  BY <1>1 DEF HeaderFor
<1>6. /\ Len(r.body) <= MaxBodyBytes /\ (r.mode = "chunked" => Len(r.body) < MaxChunkCount)
           /\ Len(r.trailers) <= MaxTrailerFields
      /\ validateTrailers(r.trailers) /\ (r.mode = "none" => r.body = <<>>)
           /\ (r.mode # "chunked" => r.trailers = <<>>)
  BY DEF Sendable
<1>7. text \in Seq(Symbols)
  <2> DEFINE empty == <<>>
             mode == BodyMode(r)
             framing == [mode |-> mode, length |-> Len(r.body)]
  <2>1. framing.mode = mode /\ framing.length = Len(r.body)
    OBVIOUS
  <2>2. /\ mode \in {"none", "fixed", "chunked"} /\ mode # "none" /\ (mode # "chunked" => r.trailers = <<>>)
    BY <1>3, <1>6 DEF BodyMode
  <2>5. mode = "chunked" => Len(r.body) < MaxChunkCount
    BY <1>3, <1>6 DEF BodyMode
  <2> HIDE DEF framing, mode
  <2>3. Frames(framing, writeMessageBody(mode, r.body, r.trailers), r.body, r.trailers)
    <3>1. /\ r.body \in Seq(Symbols) /\ Len(r.body) <= MaxBodyBytes /\ r.trailers \in Seq(Fields)
          /\ Len(r.trailers) <= MaxTrailerFields /\ validateTrailers(r.trailers)
      BY <1>3, <1>6
    <3>2. mode = "none" => r.body = <<>>
      BY <2>2
    <3>3. mode = "fixed" => framing.length = Len(r.body)
      BY <2>1
    <3> QED BY <2>1, <2>2, <2>5, <3>1, <3>2, <3>3, BodyWritten
  <2>4. empty \in Seq(Symbols)
    OBVIOUS
  <2> QED BY <2>3, <2>4 DEF TextBody, Frames, mode, empty
<1> HIDE DEF start, text
<1>8. /\ w \in Seq(Symbols) /\ w # <<>> /\ Wire(start, g, <<>>) \in Seq(Symbols)
      /\ TwoParts(w, Wire(start, g, <<>>), text)
  BY <1>3, <1>5, <1>7, WireCut
<1>9. EndToEnd(g) = EndToEnd(h) /\ ToSet(h) \subseteq ToSet(g)
  BY <1>1, EndToEndSame
<1>10. ASSUME NEW mode, NEW body, NEW t,
              responseMustNotHaveBody(s.method, r.status) \/ (body = r.body /\ t = r.trailers)
       PROVE  RightAnswer(s, a, ResponseFrom(r.status, g, mode, body, t))
  <2> DEFINE x == ResponseFrom(r.status, g, mode, body, t)
  <2>1. x.status = r.status /\ x.headers = g /\ x.body = body /\ x.trailers = t
    BY DEF ResponseFrom
  <2> HIDE DEF x
  <2> QED BY <1>9, <1>10, <2>1 DEF Right, x
<1>14. s.method = "HEAD" /\ r.status = 204 => a # None /\ a.message.status = 204 /\ method = s.method
  BY DEF WrittenFor
<1>15. method = s.method \/ method = ""
  BY DEF WrittenFor
<1>11. CASE s.method = "HEAD" /\ r.status = 204
  <2>1. FramedMode(r, method) = "fixed"
    BY <1>11, <1>14 DEF FramedMode, responseMustNotHaveBody
  <2>2. Refuses(r.status, g)
    BY <1>1, <1>11, <2>1, LengthRefused
  <2>3. Refused(w, s.method)
    BY <1>3, <1>5, <1>7, <2>2, HeaderRefused DEF start
  <2> QED BY <1>2, <1>8, <1>11, <1>14, <2>3 DEF Says
<1>12. CASE responseMustNotHaveBody(s.method, r.status) /\ ~ (s.method = "HEAD" /\ r.status = 204)
  <2>1. r.status = 204 => FramedMode(r, method) = "none"
    <3>1. r.status = 204 => s.method # "HEAD" /\ method # "HEAD"
      BY <1>12, <1>15
    <3> QED BY <3>1 DEF FramedMode, responseMustNotHaveBody
  <2>2. ReadsResponse(Wire(start, g, <<>>), s.method, ResponseFrom(r.status, g, "none", <<>>, <<>>))
    BY <1>1, <1>3, <1>4, <1>12, <2>1, BareRead DEF start
  <2>3. RightAnswer(s, a, ResponseFrom(r.status, g, "none", <<>>, <<>>))
    BY <1>10, <1>12
  <2>4. CASE responseMustNotHaveBody(method, r.status)
    <3>1. w = Wire(start, g, <<>>)
      BY <2>4 DEF text, TextBody
    <3> QED BY <1>2, <1>8, <2>2, <2>3, <3>1 DEF Says
  <2>5. CASE ~ responseMustNotHaveBody(method, r.status)
    <3>1. ~ s.whole /\ s.method # "GET"
      <4>1. s.method = "HEAD" /\ method # s.method
        BY <1>12, <2>5 DEF responseMustNotHaveBody
      <4>2. ~ s.whole
        BY <4>1 DEF WrittenFor
      <4> QED BY <4>1, <4>2
    <3> QED BY <1>2, <1>7, <1>8, <2>2, <2>3, <3>1 DEF Says
  <2> QED BY <2>4, <2>5
<1>13. CASE ~ responseMustNotHaveBody(s.method, r.status)
  <2>1. ~ responseMustNotHaveBody(method, r.status)
    BY <1>13, <1>15 DEF responseMustNotHaveBody
  <2>2. FramedMode(r, method) = BodyMode(r) /\ text = writeMessageBody(BodyMode(r), r.body, r.trailers)
    BY <2>1 DEF FramedMode, TextBody, text
  <2>3. ReadsResponse(w, s.method, ResponseFrom(r.status, g, BodyMode(r), r.body, r.trailers))
    BY <1>1, <1>13, <2>2, FullRead DEF start
  <2>4. RightAnswer(s, a, ResponseFrom(r.status, g, BodyMode(r), r.body, r.trailers))
    BY <1>10
  <2> QED BY <1>2, <1>8, <2>3, <2>4 DEF Says
<1> QED BY <1>11, <1>12, <1>13

-----------------------------------------------------------------------------
(* The proxy's own answers                                                 *)

\* Whether a message, or an answer, is whole.
Whole(x) == x.whole

\* An answer that came through.
Served(a) == a # None /\ Whole(a)

\* A header of the proxy's own fields is written as it is.
LEMMA OwnHeader ==
  ASSUME NEW h \in Seq(Fields), Names(h) \cap (Additions \cup {"Upgrade"}) = {}, Names(h) \subseteq STRING
  PROVE  withoutFramingHeaders(h) = h /\ Names(h) \cap {"Connection", "Upgrade"} = {}
<1> DEFINE S == STRING \ {"Content-Length", "Transfer-Encoding", "Trailer"}
<1>1. Names(h) \subseteq S
  BY DEF Additions
<1>2. withoutFramingHeaders(h) = Named(h, S)
  BY DEF withoutFramingHeaders
<1> HIDE DEF S
<1>3. Named(h, S) = h
  BY <1>1, NamedAll
<1> QED BY <1>2, <1>3 DEF Additions

\* There is room for them.
LEMMA Room == MaxHeaderFields \in Nat /\ MaxHeaderFields >= 6 /\ MaxBodyBytes \in Nat /\ MaxBodyBytes >= 1
<1>1. MaxHeaderFields \in Nat /\ MaxBodyBytes \in Nat
  BY LimitsAssumption
<1>2. WellFormed(InterimResponse)
  BY RelayAssumption
<1>3. Len(InterimResponse.fields) + 6 <= MaxHeaderFields /\ InterimResponse.fields \in Seq(Fields)
  BY <1>2 DEF WellFormed
<1>4. Len(InterimResponse.fields) \in Nat
  BY <1>3
<1>5. MaxBodyBytes > 0
  BY RelayAssumption
<1>6. MaxHeaderFields >= 6
  <2> DEFINE n == Len(InterimResponse.fields)
  <2>1. n \in Nat /\ n + 6 <= MaxHeaderFields
    BY <1>3, <1>4
  <2> HIDE DEF n
  <2> QED BY <1>1, <2>1
<1> QED BY <1>1, <1>5, <1>6

\* A response of the proxy's own, whatever becomes of the connection.
Own(status, h, close) ==
  [status |-> status, headers |-> h, mode |-> "fixed", body |-> <<Byte>>, trailers |-> <<>>, close |-> close]

\* It can be sent.
LEMMA OwnSendable ==
  ASSUME NEW status \in Nat, ~ Interim(status), NEW h \in Seq(Fields), NEW close \in BOOLEAN,
         Names(h) \cap (Additions \cup {"Upgrade"}) = {}, Names(h) \subseteq STRING, Len(h) <= 3
  PROVE  Sendable(Own(status, h, close), h)
<1> DEFINE r == Own(status, h, close)
           byte == <<Byte>>
           none == <<>>
<1>1. byte \in Seq(Symbols) /\ Len(byte) = 1 /\ none \in Seq(Fields) /\ Len(none) = 0
  BY SymbolKinds
<1>2. validateTrailers(none)
  BY NamesNone DEF validateTrailers
<1>3. r = [status |-> status, headers |-> h, mode |-> "fixed", body |-> byte, trailers |-> none, close |-> close]
  BY DEF Own
<1> HIDE DEF byte, none, r
<1>4. /\ r.status = status /\ r.headers = h /\ r.mode = "fixed" /\ r.body = byte /\ r.trailers = none
      /\ r \in Answers
  BY <1>1, <1>3 DEF Answers
<1>5. withoutFramingHeaders(h) = h /\ Names(h) \cap {"Connection", "Upgrade"} = {}
  BY OwnHeader
<1>6. Len(h) + 3 <= MaxHeaderFields
  <2>1. Len(h) \in Nat
    OBVIOUS
  <2> QED BY <2>1, Room
<1>7. Len(none) <= MaxTrailerFields /\ Len(byte) <= MaxBodyBytes
  BY <1>1, Room, LimitsAssumption
<1>8. r.mode # "none" /\ r.mode # "chunked"
  BY <1>4
<1>9. r.mode # "chunked" => r.trailers = <<>>
  BY <1>4 DEF none
<1>10. r.mode = "none" => r.body = <<>>
  BY <1>4
<1>11. r.mode = "chunked" => Len(r.body) < MaxChunkCount
  BY <1>4
<1>12. ~ Interim(r.status) /\ withoutFramingHeaders(r.headers) = h
         /\ Names(r.headers) \cap {"Connection", "Upgrade"} = {}
  BY <1>4, <1>5
<1>13. Len(r.trailers) <= MaxTrailerFields /\ Len(r.body) <= MaxBodyBytes /\ validateTrailers(r.trailers)
  BY <1>2, <1>4, <1>7
<1> QED BY <1>4, <1>6, <1>9, <1>10, <1>11, <1>12, <1>13 DEF Sendable, r

\* The fields of the proxy's own answers.
TypeField == Field("Content-Type", <<"text/plain">>, 0)

\* The identity of the request.
IdField == Field("X-Anvil-Request-ID", <<"id">>, 0)

\* What says that the answer is the proxy's own.
ErrorField == Field("Proxy-Status", <<"error">>, 0)

\* They are fields, with these names.
LEMMA OwnFieldsAre ==
  /\ {TypeField, IdField, ErrorField} \subseteq Fields
  /\ TypeField.name = "Content-Type" /\ IdField.name = "X-Anvil-Request-ID" /\ ErrorField.name = "Proxy-Status"
  /\ ErrorField.tokens = <<"error">>
<1> DEFINE a == <<"text/plain">>
           b == <<"id">>
           c == <<"error">>
           z == 0
<1>1. a \in Seq(STRING) /\ b \in Seq(STRING) /\ c \in Seq(STRING) /\ z \in Int
  BY StringAssumption, TupleIs
<1>2. TypeField = Field("Content-Type", a, z) /\ IdField = Field("X-Anvil-Request-ID", b, z)
        /\ ErrorField = Field("Proxy-Status", c, z)
  BY DEF TypeField, IdField, ErrorField
<1> HIDE DEF a, b, c, z
<1>3. /\ Field("Content-Type", a, z) \in Fields /\ Field("Content-Type", a, z).name = "Content-Type"
      /\ Field("X-Anvil-Request-ID", b, z) \in Fields /\ Field("X-Anvil-Request-ID", b, z).name = "X-Anvil-Request-ID"
      /\ Field("Proxy-Status", c, z) \in Fields /\ Field("Proxy-Status", c, z).name = "Proxy-Status"
      /\ Field("Proxy-Status", c, z).tokens = c
  BY <1>1, StringAssumption, FieldIs
<1> QED BY <1>2, <1>3 DEF c

\* The headers of the proxy's answers to what it could not read, and to what
\* the upstream did not answer.
RefusalHeader == <<TypeField>>

\* Of the proxy's answer in place of the upstream's.
FailureHeader == <<TypeField>> \o <<IdField, ErrorField>>

\* They fit, and only the second has the field that names an error.
LEMMA OwnHeadersAre ==
  /\ RefusalHeader \in Seq(Fields) /\ Len(RefusalHeader) <= 3 /\ Names(RefusalHeader) = {"Content-Type"}
  /\ FailureHeader \in Seq(Fields) /\ Len(FailureHeader) <= 3
  /\ Names(FailureHeader) = {"Content-Type", "X-Anvil-Request-ID", "Proxy-Status"}
  /\ ErrorField \in ToSet(FailureHeader)
<1>1. RefusalHeader \in Seq(Fields) /\ Len(RefusalHeader) <= 3 /\ Names(RefusalHeader) = {"Content-Type"}
  BY OwnFieldsAre, NamesNone DEF RefusalHeader
<1> DEFINE a == TypeField
           b == IdField
           c == ErrorField
           x == <<a>> \o <<b, c>>
<1>2. FailureHeader = x /\ a \in Fields /\ b \in Fields /\ c \in Fields
  BY OwnFieldsAre DEF FailureHeader
<1> HIDE DEF a, b, c
<1>3. x \in Seq(Fields) /\ Len(x) = 3 /\ ToSet(x) = {a, b, c}
  <2> DEFINE p == <<a>>
             q == <<b, c>>
  <2>1. p \in Seq(Fields) /\ q \in Seq(Fields) /\ Len(p) = 1 /\ Len(q) = 2 /\ p[1] = a /\ q[1] = b /\ q[2] = c
    BY <1>2
  <2>2. x = p \o q
    OBVIOUS
  <2> HIDE DEF p, q, x
  <2>6. p \in Seq(Fields) /\ q \in Seq(Fields)
    BY <2>1
  <2>7. /\ p \o q \in Seq(Fields) /\ Len(p \o q) = Len(p) + Len(q)
        /\ \A i \in 1 .. Len(p) : (p \o q)[i] = p[i]
        /\ \A i \in 1 .. Len(q) : (p \o q)[Len(p) + i] = q[i]
    BY <2>6
  <2> DEFINE y == p \o q
  <2> HIDE DEF y
  <2>8. y \in Seq(Fields) /\ Len(y) = Len(p) + Len(q)
        /\ (\A i \in 1 .. Len(p) : y[i] = p[i]) /\ (\A i \in 1 .. Len(q) : y[Len(p) + i] = q[i])
    BY <2>7 DEF y
  <2>3. x \in Seq(Fields) /\ Len(x) = 3
    BY <2>1, <2>2, <2>8 DEF y
  <2>9. y[1] = p[1] /\ y[1 + 1] = q[1] /\ y[1 + 2] = q[2]
    BY <2>1, <2>8
  <2>4. x[1] = a /\ x[2] = b /\ x[3] = c
    <3>1. x = y
      BY <2>2 DEF y
    <3> QED BY <2>1, <2>9, <3>1
  <2>5. ToSet(x) = {x[i] : i \in 1 .. 3}
    BY <2>3 DEF ToSet
  <2> QED BY <2>3, <2>4, <2>5
<1> HIDE DEF x
<1>4. Names(x) = {"Content-Type", "X-Anvil-Request-ID", "Proxy-Status"}
  BY <1>3, OwnFieldsAre DEF Names, a, b, c
<1> QED BY <1>1, <1>2, <1>3, <1>4 DEF c

\* A response that says one thing on a connection that is closed and on one that is not.
LEMMA Conveying ==
  ASSUME NEW response, NEW method, NEW s, NEW a, NEW h,
         \A close \in BOOLEAN : /\ Sendable([response EXCEPT !.close = close], h)
                                /\ Right([response EXCEPT !.close = close], h, s, a)
                                /\ WrittenFor([response EXCEPT !.close = close], method, s, a)
  PROVE  Conveys(response, method, s, a)
<1> SUFFICES ASSUME NEW close \in BOOLEAN
             PROVE  /\ writeHTTPResponse([response EXCEPT !.close = close], method).verdict = "written"
                    /\ Says(writeHTTPResponse([response EXCEPT !.close = close], method).symbols, s, a)
  BY DEF Conveys
<1> DEFINE r == [response EXCEPT !.close = close]
<1>1. Sendable(r, h) /\ Right(r, h, s, a) /\ WrittenFor(r, method, s, a)
  OBVIOUS
<1> HIDE DEF r
<1>2. writeHTTPResponse(r, method).verdict = "written" /\ Says(writeHTTPResponse(r, method).symbols, s, a)
  BY <1>1, WrittenSays
<1> QED BY <1>2 DEF r

\* A request that broke off, or was none, is answered with a refusal.
LEMMA RefusalConveys ==
  ASSUME NEW s, ~ Whole(s), NEW a, a = None, NEW verdict
  PROVE  Conveys(protocolFailureResponse(verdict), "", s, a) /\ protocolFailureResponse(verdict).close = TRUE
<1> DEFINE status == CASE verdict = "too large" -> 413
                       [] verdict = "coding" -> 501
                       [] verdict = "expect" -> 417
                       [] OTHER -> 400
           response == protocolFailureResponse(verdict)
           h == RefusalHeader
<1>1. status \in {400, 413, 417, 501}
  OBVIOUS
<1>2. response.close = TRUE /\ \A close : [response EXCEPT !.close = close] = Own(status, h, close)
  <2> HIDE DEF status
  <2>1. response = [textResponse(status) EXCEPT !.close = TRUE]
    BY DEF protocolFailureResponse, status
  <2>2. response = [status |-> status, headers |-> h, mode |-> "fixed", body |-> <<Byte>>,
          trailers |-> <<>>, close |-> TRUE]
    BY <2>1 DEF textResponse, RefusalHeader, TypeField
  <2> HIDE DEF response, h
  <2>3. response.close = TRUE
    BY <2>2
  <2>4. \A close : [response EXCEPT !.close = close] = Own(status, h, close)
    BY <2>2 DEF Own
  <2> QED BY <2>3, <2>4
<1> HIDE DEF status, response
<1>3. status \in Nat /\ ~ Interim(status) /\ status # 204
  BY <1>1 DEF Interim
<1>4. /\ h \in Seq(Fields) /\ Names(h) \cap (Additions \cup {"Upgrade"}) = {} /\ Names(h) \subseteq STRING
           /\ Len(h) <= 3
  BY OwnHeadersAre, StringAssumption DEF Additions
<1> HIDE DEF h
<1>5. ASSUME NEW close \in BOOLEAN
      PROVE  LET r == [response EXCEPT !.close = close]
             IN Sendable(r, h) /\ Right(r, h, s, a) /\ WrittenFor(r, "", s, a)
  <2> DEFINE r == Own(status, h, close)
  <2>1. Sendable(r, h)
    BY <1>3, <1>4, OwnSendable
  <2>2. r.status = status
    BY DEF Own
  <2> HIDE DEF r
  <2>3. Right(r, h, s, a)
    BY <1>1, <2>2 DEF Right, RightAnswer, Whole
  <2>4. WrittenFor(r, "", s, a)
    BY <1>3, <2>2 DEF WrittenFor, Whole
  <2> QED BY <1>2, <2>1, <2>3, <2>4 DEF r
<1>6. Conveys(response, "", s, a)
  BY <1>5, Conveying
<1> QED BY <1>2, <1>6 DEF response

\* A request that the upstream did not answer, or not in time, is answered with a
\* failure.
LEMMA FailureConveys ==
  ASSUME NEW s, Whole(s), NEW a, NEW kind, ~ Served(a) \/ kind = "canceled"
  PROVE  Conveys(proxyFailureResponse(kind), s.method, s, a) /\ proxyFailureResponse(kind).close = FALSE
<1> DEFINE status == CASE kind = "canceled" -> 503
                       [] kind \in {"dial_timeout", "write_timeout", "upstream_timeout"} -> 504
                       [] OTHER -> 502
           response == proxyFailureResponse(kind)
           h == FailureHeader
<1>1. status \in {502, 503, 504} /\ (Served(a) => status = 503)
  <2>1. CASE kind = "canceled"
    BY <2>1
  <2>2. CASE kind # "canceled"
    BY <2>2
  <2> QED BY <2>1, <2>2
<1>2. response.close = FALSE /\ \A close : [response EXCEPT !.close = close] = Own(status, h, close)
  <2> HIDE DEF status
  <2>1. response = [textResponse(status) EXCEPT !.headers =
                      @ \o <<Field("X-Anvil-Request-ID", <<"id">>, 0), Field("Proxy-Status", <<"error">>, 0)>>]
    BY DEF proxyFailureResponse, status
  <2>2. response = [status |-> status, headers |-> h, mode |-> "fixed", body |-> <<Byte>>,
          trailers |-> <<>>, close |-> FALSE]
    BY <2>1 DEF textResponse, FailureHeader, TypeField, IdField, ErrorField
  <2> HIDE DEF response, h
  <2>3. response.close = FALSE
    BY <2>2
  <2>4. \A close : [response EXCEPT !.close = close] = Own(status, h, close)
    BY <2>2 DEF Own
  <2> QED BY <2>3, <2>4
<1> HIDE DEF status, response
<1>3. status \in Nat /\ ~ Interim(status) /\ status # 204
  BY <1>1 DEF Interim
<1>4. /\ h \in Seq(Fields) /\ Names(h) \cap (Additions \cup {"Upgrade"}) = {} /\ Names(h) \subseteq STRING
           /\ Len(h) <= 3
      /\ ErrorField \in ToSet(h)
  BY OwnHeadersAre, StringAssumption DEF Additions
<1> HIDE DEF h
<1>5. ASSUME NEW close \in BOOLEAN
      PROVE  LET r == [response EXCEPT !.close = close]
             IN Sendable(r, h) /\ Right(r, h, s, a) /\ WrittenFor(r, s.method, s, a)
  <2> DEFINE r == Own(status, h, close)
  <2>1. Sendable(r, h)
    BY <1>3, <1>4, OwnSendable
  <2>2. r.status = status
    BY DEF Own
  <2> HIDE DEF r
  <2>3. Right(r, h, s, a)
    <3>1. ASSUME NEW g, g.status = status, ToSet(h) \subseteq ToSet(g.headers) PROVE RightAnswer(s, a, g)
      <4>1. HasToken(g.headers, "Proxy-Status", "error")
        <5>1. ErrorField \in ToSet(g.headers) /\ ErrorField.name = "Proxy-Status"
                /\ ToSet(ErrorField.tokens) = {"error"}
          BY <1>4, <3>1, OwnFieldsAre, NamesNone
        <5> QED BY <5>1 DEF HasToken
      <4> QED BY <1>1, <3>1, <4>1 DEF RightAnswer, Whole, Served
    <3> QED BY <2>2, <3>1 DEF Right
  <2>4. WrittenFor(r, s.method, s, a)
    BY <1>3, <2>2 DEF WrittenFor
  <2> QED BY <1>2, <2>1, <2>3, <2>4 DEF r
<1>6. Conveys(response, s.method, s, a)
  BY <1>5, Conveying
<1> QED BY <1>2, <1>6 DEF response
=============================================================================
