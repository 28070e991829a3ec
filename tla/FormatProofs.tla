---------------------------- MODULE FormatProofs ----------------------------
(***************************************************************************)
(* What the reader, the validator and the writer of a library database do  *)
(* with every file and every document: the lemmas the theorems about the   *)
(* database in use rest on.                                                *)
(***************************************************************************)
EXTENDS DatabaseProperties, TLAPS, WellFoundedInduction, SequenceTheorems, FiniteSetTheorems

-----------------------------------------------------------------------------
(* Induction.  The theorems of NaturalsInduction take an operator; for the *)
(* loops of the reader the principle is stated about a set of numbers,     *)
(* from the least element that the library's WFMin gives.                  *)

LEMMA LeastNatural ==
  ASSUME NEW T \in SUBSET Nat, T # {}
  PROVE  \E m \in T : \A n \in T : m <= n
<1> DEFINE R == OpToRel(<, Nat)
<1>1. IsWellFoundedOn(R, Nat)
  BY NatLessThanWellFounded
<1>2. \A x, y \in Nat : x < y => <<x, y>> \in R
  BY DEF OpToRel
<1> HIDE DEF R
<1>3. PICK m \in T : \A y \in T : ~ (<<y, m>> \in R)
  BY <1>1, WFMin
<1>4. m \in Nat /\ \A n \in T : n \in Nat /\ ~(n < m)
  BY <1>2, <1>3
<1> QED
  BY <1>4

LEMMA Induction ==
  ASSUME NEW T, 0 \in T, \A n \in Nat : n \in T => n + 1 \in T
  PROVE  Nat \subseteq T
<1> SUFFICES ASSUME Nat \ T # {} PROVE FALSE
  OBVIOUS
<1>1. PICK m \in Nat \ T : \A n \in Nat \ T : m <= n
  BY LeastNatural
<1>2. m # 0 /\ m - 1 \in Nat
  BY <1>1
<1>3. m - 1 \in T
  BY <1>1, <1>2
<1> QED
  BY <1>1, <1>2, <1>3

\* Iterate defines its states by recursion; Iterates says that f is such a
\* sequence of states, for a step given as a function of the state and the index.
Iterates(f, F, start, n) ==
  f = [i \in 0 .. n |-> IF i = 0 THEN start ELSE F[<<f[i - 1], i>>]]

LEMMA IterationExists ==
  ASSUME NEW F, NEW start, NEW n \in Nat
  PROVE  \E f : Iterates(f, F, start, n)
<1> DEFINE T == {k \in Nat : \E f : Iterates(f, F, start, k)}
<1>1. 0 \in T
  <2> DEFINE f == [i \in 0 .. 0 |-> start]
  <2>1. f = [i \in 0 .. 0 |-> IF i = 0 THEN start ELSE F[<<f[i - 1], i>>]]
    OBVIOUS
  <2>2. Iterates(f, F, start, 0)
    BY <2>1 DEF Iterates
  <2> HIDE DEF f
  <2> QED
    BY <2>2
<1>2. ASSUME NEW k \in Nat, k \in T PROVE k + 1 \in T
  <2>1. PICK f : Iterates(f, F, start, k)
    BY <1>2
  <2> DEFINE g == [i \in 0 .. k + 1 |-> IF i = k + 1 THEN F[<<f[k], k + 1>>] ELSE f[i]]
  <2>2. ASSUME NEW i \in 0 .. k + 1
        PROVE  g[i] = IF i = 0 THEN start ELSE F[<<g[i - 1], i>>]
    <3>1. CASE i = k + 1
      BY <3>1
    <3>2. CASE i \in 0 .. k
      BY <3>2, <2>1 DEF Iterates
    <3> QED
      BY <3>1, <3>2
  <2>3. Iterates(g, F, start, k + 1)
    BY <2>2 DEF Iterates
  <2> HIDE DEF g
  <2> QED
    BY <2>3
<1> HIDE DEF T
<1>3. Nat \subseteq T
  BY <1>1, <1>2, Induction
<1> QED
  BY <1>3 DEF T

\* A property of the states, which may depend on the index, holds of all of them
\* if the step preserves it.
LEMMA AllOf ==
  ASSUME NEW f, NEW J, NEW n \in Nat, f[0] \in J[0],
         \A i \in 1 .. n : f[i - 1] \in J[i - 1] => f[i] \in J[i]
  PROVE  \A i \in 0 .. n : f[i] \in J[i]
<1> DEFINE T == {k \in Nat : k \in 0 .. n => f[k] \in J[k]}
<1>1. 0 \in T
  OBVIOUS
<1>2. ASSUME NEW k \in Nat, k \in T PROVE k + 1 \in T
  <2>1. CASE k + 1 \in 0 .. n
    <3>1. f[k] \in J[k] /\ k + 1 \in 1 .. n /\ (k + 1) - 1 = k
      BY <1>2, <2>1
    <3> QED
      BY <3>1
  <2> QED
    BY <2>1
<1> HIDE DEF T
<1>3. Nat \subseteq T
  BY <1>1, <1>2, Induction
<1> QED
  BY <1>3 DEF T

\* The two together, for a property that does not depend on the index: there is a
\* sequence of states, and all are in I.
LEMMA IterationIn ==
  ASSUME NEW I, NEW F, NEW start \in I, NEW n \in Nat,
         \A c \in I, i \in 1 .. n : F[<<c, i>>] \in I
  PROVE  \E f : Iterates(f, F, start, n) /\ \A i \in 0 .. n : f[i] \in I
<1>1. PICK f : Iterates(f, F, start, n)
  BY IterationExists
<1> DEFINE J == [i \in 0 .. n |-> I]
<1>2. f[0] \in J[0]
  BY <1>1 DEF Iterates
<1>3. ASSUME NEW i \in 1 .. n, f[i - 1] \in J[i - 1] PROVE f[i] \in J[i]
  BY <1>1, <1>3 DEF Iterates
<1> HIDE DEF J
<1>4. \A i \in 0 .. n : f[i] \in J[i]
  BY <1>2, <1>3, AllOf
<1> QED
  BY <1>1, <1>4 DEF J

-----------------------------------------------------------------------------
(* Cells and envelopes.                                                    *)

LEMMA CellType ==
  ASSUME NEW w \in Seq(Cells), NEW at \in Nat
  PROVE  /\ Cell(w, at) \in Cells /\ Cell(w, at) \in Nat
         /\ Header(w, at) \in Cells /\ Header(w, at) \in Nat
         /\ Size(w, at) \in Cells /\ Size(w, at) \in Nat
         /\ Body(w, at) \in Nat /\ End(w, at) \in Nat
<1>1. \A a \in Nat : Cell(w, a) \in Cells
  BY FormatAssumption DEF Cell, Cells, Outside
<1>2. Cells \subseteq Nat
  BY FormatAssumption DEF Cells
<1>3. at + 1 \in Nat /\ at + 2 \in Nat
  OBVIOUS
<1>4. Cell(w, at) \in Cells /\ Header(w, at) \in Cells /\ Size(w, at) \in Cells
  BY <1>1, <1>3 DEF Header, Size
<1>5. Cell(w, at) \in Nat /\ Header(w, at) \in Nat /\ Size(w, at) \in Nat
  BY <1>2, <1>4
<1> QED
  BY <1>4, <1>5 DEF Body, End

LEMMA IdType ==
  ASSUME NEW w \in Seq(Cells), NEW at \in Nat
  PROVE  Id(w, at) \in Wide
<1>1. Cell(w, at) \in 0 .. Width - 1 /\ Cell(w, at + 1) \in 0 .. Width - 1
  <2>1. at + 1 \in Nat
    OBVIOUS
  <2>2. Cell(w, at) \in Cells /\ Cell(w, at + 1) \in Cells
    BY <2>1, CellType
  <2> QED
    BY <2>2 DEF Cells
<1>2. \A a, b \in 0 .. Width - 1 : a + Width * b \in 0 .. Width * Width - 1
  <2> SUFFICES ASSUME NEW a \in 0 .. Width - 1, NEW b \in 0 .. Width - 1
               PROVE  a + Width * b \in 0 .. Width * Width - 1
    OBVIOUS
  <2>1. Width * b \in Nat /\ Width * b <= Width * (Width - 1)
    BY FormatAssumption
  <2>2. Width * (Width - 1) = Width * Width - Width
    BY FormatAssumption
  <2> QED
    BY <2>1, <2>2, FormatAssumption
<1> QED
  BY <1>1, <1>2 DEF Id, Wide

LEMMA WideZero == 0 \in Wide /\ Wide \subseteq Nat /\ 0 \in Cells /\ Cells \subseteq Nat
<1>1. Width * Width \in Nat /\ Width * Width >= 1
  BY FormatAssumption
<1> QED
  BY <1>1, FormatAssumption DEF Wide, Cells

\* What the reader may answer: it never reads outside, and leaves it to the writer
\* to refuse what the writer generated.
ReadErrors == Errors \ {"undefined", "generated_output_invalid", "comparison_mismatch"}

LEMMA EnvelopeSound ==
  ASSUME NEW w \in Seq(Cells), NEW at \in Nat, NEW end \in Nat, NEW minimum \in Nat, NEW marker,
         NEW error, error = EnvelopeError(w, at, end, minimum, marker)
  PROVE  /\ error \in ReadErrors
         /\ error = "none" => /\ at + 3 <= end /\ end <= Len(w)
                              /\ minimum <= Header(w, at) /\ Header(w, at) <= Size(w, at)
                              /\ End(w, at) <= end
<1>1. Header(w, at) \in Nat /\ Size(w, at) \in Nat /\ Len(w) \in Nat
  BY CellType, LenProperties
<1> QED
  BY <1>1 DEF EnvelopeError, Fits, Within, End, ReadErrors, Errors

-----------------------------------------------------------------------------
(* Text.                                                                   *)

UnitStates == [ok : BOOLEAN, high : {0} \cup HighUnits, text : Seq(Nat)]

LEMMA NextUnitType ==
  ASSUME NEW t \in UnitStates, NEW u \in 0 .. 15
  PROVE  NextUnit(t, u) \in UnitStates
<1> USE DEF UnitStates, HighUnits, LowUnits
<1>1. t.text \in Seq(Nat) /\ t.ok \in BOOLEAN /\ t.high \in {0} \cup 8 .. 9
  OBVIOUS
<1>2. CASE t.ok /\ t.high # 0 /\ u \in LowUnits
  <2>1. 16 + 2 * (t.high - 8) + (u - 10) \in Nat
    BY <1>1, <1>2
  <2>2. Append(t.text, 16 + 2 * (t.high - 8) + (u - 10)) \in Seq(Nat)
    BY <1>1, <2>1, AppendProperties
  <2> QED
    BY <1>2, <2>2 DEF NextUnit
<1>3. Append(t.text, u) \in Seq(Nat)
  BY <1>1, AppendProperties
<1> QED
  BY <1>1, <1>2, <1>3 DEF NextUnit

\* Whatever units a text is made of, what is decoded so far is a text.
LEMMA DecodedType ==
  ASSUME NEW units \in Seq(Nat)
  PROVE  Decoded(units) \in UnitStates
<1> DEFINE n == Len(units)
           start == [ok |-> TRUE, high |-> 0, text |-> <<>>]
           IsRun(f) == f = [i \in 0 .. n |-> IF i = 0 THEN start
                                             ELSE NextUnit(f[i - 1], units[i] % 16)]
           F == [p \in UnitStates \X (1 .. n) |-> NextUnit(p[1], units[p[2]] % 16)]
           state == CHOOSE f : IsRun(f)
<1>1. n \in Nat /\ start \in UnitStates
  BY EmptySeq, LenProperties DEF UnitStates
<1>2. \A c \in UnitStates, i \in 1 .. n : NextUnit(c, units[i] % 16) \in UnitStates
  <2> SUFFICES ASSUME NEW c \in UnitStates, NEW i \in 1 .. n
               PROVE  NextUnit(c, units[i] % 16) \in UnitStates
    OBVIOUS
  <2>1. units[i] \in Nat
    BY ElementOfSeq
  <2>2. \A x \in Nat : x % 16 \in 0 .. 15
    OBVIOUS
  <2> QED
    BY <2>1, <2>2, NextUnitType
<1>3. Decoded(units) = state[n]
  BY DEF Decoded, Iterate
<1> HIDE DEF n, start
<1>4. PICK g : Iterates(g, F, start, n) /\ \A i \in 0 .. n : g[i] \in UnitStates
  BY <1>1, <1>2, IterationIn
<1>5. IsRun(g)
  <2>1. ASSUME NEW i \in 1 .. n
        PROVE  F[<<g[i - 1], i>>] = NextUnit(g[i - 1], units[i] % 16)
    BY <1>1, <1>4
  <2> HIDE DEF F
  <2> QED
    BY <1>1, <1>4, <2>1 DEF Iterates
<1> HIDE DEF IsRun
<1>6. IsRun(state)
  BY <1>5
<1> HIDE DEF state
<1>7. state[n] \in UnitStates
  <2> DEFINE J == [i \in 0 .. n |-> UnitStates]
  <2>1. state[0] \in J[0]
    BY <1>1, <1>6 DEF IsRun
  <2>2. ASSUME NEW i \in 1 .. n, state[i - 1] \in J[i - 1] PROVE state[i] \in J[i]
    BY <1>1, <1>2, <1>6, <2>2 DEF IsRun
  <2> HIDE DEF J
  <2>3. \A i \in 0 .. n : state[i] \in J[i]
    BY <1>1, <2>1, <2>2, AllOf
  <2> QED
    BY <1>1, <2>3 DEF J
<1> QED
  BY <1>3, <1>7

-----------------------------------------------------------------------------
(* Data children.                                                          *)

LEMMA MhodSound ==
  ASSUME NEW w \in Seq(Cells), NEW at \in Nat, NEW end \in Nat,
         NEW error, error = MhodError(w, at, end)
  PROVE  /\ error \in ReadErrors
         /\ error = "none" =>
              /\ at + 6 <= End(w, at) /\ End(w, at) <= end /\ end <= Len(w)
              /\ Cell(w, at + 3) \in TextTypes => MhodText(w, at).text \in Seq(Nat)
<1> DEFINE envelope == EnvelopeError(w, at, end, 6, mhod)
<1>1. /\ envelope \in ReadErrors
      /\ envelope = "none" => /\ at + 3 <= end /\ end <= Len(w)
                              /\ 6 <= Header(w, at) /\ Header(w, at) <= Size(w, at)
                              /\ End(w, at) <= end
  BY EnvelopeSound
<1>2. Header(w, at) \in Nat /\ Size(w, at) \in Nat /\ End(w, at) \in Nat /\ Len(w) \in Nat
  BY CellType, LenProperties
<1>3. Cell(w, at + 7) \in Nat
  <2>1. at + 7 \in Nat
    OBVIOUS
  <2> QED
    BY <2>1, CellType
<1> HIDE DEF envelope
<1>4. envelope = "none" => at + 6 <= End(w, at)
  BY <1>1, <1>2 DEF End
<1>5. error \in ReadErrors
  <2>1. envelope = "none" => Within(w, at, 4)
    BY <1>1, <1>2, <1>4 DEF Within
  <2>2. /\ envelope = "none" /\ Fits(at + 10, Cell(w, at + 7), at + Size(w, at))
        => Within(w, at + 10, Cell(w, at + 7))
    BY <1>1, <1>2, <1>3 DEF Fits, Within, End
  <2>3. error = Or(envelope,
     IF Cell(w, at + 3) \notin TextTypes THEN "none"
     ELSE IF Header(w, at) # 6 \/ Size(w, at) < 10 THEN "unsupported_encoding"
     ELSE IF ~Fits(at + 10, Cell(w, at + 7), at + Size(w, at)) THEN "section_out_of_bounds"
     ELSE IF ~MhodText(w, at).ok THEN "invalid_text"
     ELSE "none")
    BY <2>1, <2>2 DEF MhodError, envelope, Or
  <2> QED
    BY <1>1, <2>3 DEF Or, ReadErrors, Errors
<1>6. error = "none" => envelope = "none"
  BY DEF MhodError, Or, envelope
<1>7. ASSUME error = "none", Cell(w, at + 3) \in TextTypes
      PROVE  MhodText(w, at).text \in Seq(Nat)
  <2>1. Fits(at + 10, Cell(w, at + 7), at + Size(w, at))
    BY <1>6, <1>7 DEF MhodError, Or, envelope
  <2>2. at + 10 + Cell(w, at + 7) <= Len(w)
    BY <1>1, <1>2, <1>3, <1>6, <1>7, <2>1 DEF Fits, End
  <2> DEFINE units == SubSeq(w, at + 11, at + 10 + Cell(w, at + 7))
  <2>3. ASSUME NEW i \in at + 11 .. at + 10 + Cell(w, at + 7) PROVE w[i] \in Nat
    <3>1. i \in 1 .. Len(w)
      BY <1>2, <1>3, <2>2
    <3>2. w[i] \in Cells
      BY <3>1, ElementOfSeq
    <3> QED
      BY <3>2, FormatAssumption DEF Cells
  <2>4. units \in Seq(Nat)
    BY <1>3, <2>3, SubSeqProperties
  <2>5. Decoded(units).text \in Seq(Nat)
    BY <2>4, DecodedType DEF UnitStates
  <2> QED
    BY <2>5 DEF MhodText, Decode
<1> QED
  BY <1>1, <1>4, <1>5, <1>6, <1>7

LEMMA RoundsType ==
  ASSUME NEW w \in Seq(Cells), NEW count \in Nat
  PROVE  Rounds(w, count) \in Nat
<1>1. Len(w) \in Nat
  BY LenProperties
<1> QED
  BY <1>1 DEF Rounds

ChildStates == [at : Nat, error : ReadErrors, seen : SUBSET Nat, text : TextOf]

LEMMA ChildStepType ==
  ASSUME NEW w \in Seq(Cells), NEW end \in Nat, NEW c \in ChildStates
  PROVE  ChildStep(w, end, c) \in ChildStates
<1> DEFINE type == Cell(w, c.at + 3)
           error == MhodError(w, c.at, end)
<1>1. c.at \in Nat /\ c.at + 3 \in Nat /\ c.text \in TextOf /\ c.seen \in SUBSET Nat
  BY DEF ChildStates
<1>2. type \in Nat /\ c.at + Size(w, c.at) \in Nat
  <2>1. type \in Nat
    BY <1>1, CellType
  <2>2. Size(w, c.at) \in Nat
    BY <1>1, CellType
  <2> QED
    BY <1>1, <2>1, <2>2
<1>3. /\ error \in ReadErrors
      /\ error = "none" /\ type \in TextTypes => MhodText(w, c.at).text \in Seq(Nat)
  BY <1>1, MhodSound
<1> HIDE DEF type, error
<1>4. NextChild(w, c, type, error) \in ChildStates
  <2>1. CASE error # "none"
    BY <1>3, <2>1 DEF NextChild, ChildStates
  <2>2. CASE error = "none"
    <3> DEFINE text == IF type \in TextTypes THEN [c.text EXCEPT ![type] = MhodText(w, c.at).text]
                       ELSE c.text
    <3>1. text \in TextOf
      BY <1>1, <1>3, <2>2 DEF TextOf
    <3>2. NextChild(w, c, type, error) =
            [c EXCEPT !.at = c.at + Size(w, c.at), !.seen = c.seen \cup {type}, !.text = text]
      BY <2>2 DEF NextChild, ChildStates
    <3> HIDE DEF text
    <3> QED
      BY <1>1, <1>2, <3>1, <3>2 DEF ChildStates
  <2> QED
    BY <2>1, <2>2
<1> QED
  BY <1>4 DEF ChildStep, type, error

\* s: the states the loop over the children goes through.
ChildRun(s, w, first, end, count) ==
  /\ s[0] = [at |-> first, error |-> "none", seen |-> {}, text |-> [t \in TextTypes |-> <<>>]]
  /\ \A i \in 1 .. Rounds(w, count) : s[i] = ChildStep(w, end, s[i - 1])
  /\ \A i \in 0 .. Rounds(w, count) : s[i] \in ChildStates
  /\ Children(w, first, end, count) = s[Rounds(w, count)]

LEMMA ChildrenRun ==
  ASSUME NEW w \in Seq(Cells), NEW first \in Nat, NEW end \in Nat, NEW count \in Nat
  PROVE  \E s : ChildRun(s, w, first, end, count)
<1> DEFINE n == Rounds(w, count)
           start == [at |-> first, error |-> "none", seen |-> {}, text |-> [t \in TextTypes |-> <<>>]]
           IsRun(f) == f = [i \in 0 .. n |-> IF i = 0 THEN start ELSE ChildStep(w, end, f[i - 1])]
           F == [p \in ChildStates \X (1 .. n) |-> ChildStep(w, end, p[1])]
           state == CHOOSE f : IsRun(f)
<1>1. n \in Nat /\ start \in ChildStates
  BY RoundsType, EmptySeq DEF ChildStates, ReadErrors, Errors, TextOf
<1>2. \A c \in ChildStates : ChildStep(w, end, c) \in ChildStates
  BY ChildStepType
<1>3. Children(w, first, end, count) = state[n]
  BY DEF Children, Iterate
<1> HIDE DEF n, start
<1>4. PICK g : Iterates(g, F, start, n) /\ \A i \in 0 .. n : g[i] \in ChildStates
  BY <1>1, <1>2, IterationIn
<1>5. IsRun(g)
  <2>1. ASSUME NEW i \in 1 .. n
        PROVE  F[<<g[i - 1], i>>] = ChildStep(w, end, g[i - 1])
    BY <1>1, <1>4
  <2> HIDE DEF F
  <2> QED
    BY <1>1, <1>4, <2>1 DEF Iterates
<1> HIDE DEF IsRun
<1>6. IsRun(state)
  BY <1>5
<1> HIDE DEF state
<1>7. \A i \in 0 .. n : state[i] \in ChildStates
  <2> DEFINE J == [i \in 0 .. n |-> ChildStates]
  <2>1. state[0] \in J[0]
    BY <1>1, <1>6 DEF IsRun
  <2>2. ASSUME NEW i \in 1 .. n, state[i - 1] \in J[i - 1] PROVE state[i] \in J[i]
    BY <1>1, <1>2, <1>6, <2>2 DEF IsRun
  <2> HIDE DEF J
  <2>3. \A i \in 0 .. n : state[i] \in J[i]
    BY <1>1, <2>1, <2>2, AllOf
  <2> QED
    BY <2>3 DEF J
<1>8. state[0] = start /\ \A i \in 1 .. n : state[i] = ChildStep(w, end, state[i - 1])
  BY <1>1, <1>6 DEF IsRun
<1>9. ChildRun(state, w, first, end, count)
  BY <1>3, <1>7, <1>8 DEF ChildRun, n, start
<1> QED
  BY <1>9

LEMMA ChildrenType ==
  ASSUME NEW w \in Seq(Cells), NEW first \in Nat, NEW end \in Nat, NEW count \in Nat
  PROVE  Children(w, first, end, count) \in ChildStates
<1>1. Rounds(w, count) \in Nat
  BY RoundsType
<1>2. Rounds(w, count) \in 0 .. Rounds(w, count)
  BY <1>1
<1>3. PICK s : ChildRun(s, w, first, end, count)
  BY ChildrenRun
<1> QED
  BY <1>2, <1>3 DEF ChildRun

-----------------------------------------------------------------------------
(* Tracks.                                                                 *)

TrackOutcomes == [error : ReadErrors \ {"none"}]
                   \cup [error : {"none"}, opaque : BOOLEAN, value : Track]

\* A track is read to the end or refused, and the bounds checks of parse_track and
\* of its data children keep every read inside the file.
LEMMA ParseTrackType ==
  ASSUME NEW w \in Seq(Cells), NEW at \in Nat, NEW end \in Nat
  PROVE  ParseTrack(w, at, end) \in TrackOutcomes
<1> DEFINE fixed == IF Header(w, at) >= 30 THEN 30 ELSE 5
           envelope == EnvelopeError(w, at, end, 5, mhit)
           kids == Children(w, Body(w, at), End(w, at), Cell(w, at + 3))
           error == Or(envelope,
                IF ~Within(w, at, fixed) THEN "undefined"
                ELSE IF Cell(w, at + 3) > (End(w, at) - Body(w, at)) \div 6
                     THEN "count_exceeds_section" ELSE "none")
<1>1. /\ Header(w, at) \in Nat /\ Size(w, at) \in Nat /\ Body(w, at) \in Nat
      /\ End(w, at) \in Nat /\ Len(w) \in Nat
  BY CellType, LenProperties
<1>2. at + 3 \in Nat /\ at + 4 \in Nat /\ at + 28 \in Nat
  OBVIOUS
<1>3. Cell(w, at + 3) \in Nat /\ Cell(w, at + 4) \in Cells /\ Id(w, at + 28) \in Wide /\ 0 \in Wide
  BY <1>2, CellType, IdType, WideZero
<1>4. /\ envelope \in ReadErrors
      /\ envelope = "none" => /\ at + 3 <= end /\ end <= Len(w)
                              /\ 5 <= Header(w, at) /\ Header(w, at) <= Size(w, at)
                              /\ End(w, at) <= end
  BY EnvelopeSound
<1>5. kids \in ChildStates
  BY <1>1, <1>3, ChildrenType
<1> HIDE DEF kids, envelope
<1>6. envelope = "none" => Within(w, at, fixed)
  BY <1>1, <1>4 DEF Within, End
<1>7. error \in ReadErrors
  BY <1>4, <1>6 DEF Or, ReadErrors, Errors
<1>8. TrackFrom(w, at, fixed, kids) \in TrackOutcomes
  BY <1>3, <1>5 DEF TrackFrom, Checked, Failed, TrackOutcomes, Track, ChildStates
<1>9. ParseTrack(w, at, end) = Checked(error, TrackFrom(w, at, fixed, kids))
  BY DEF ParseTrack, kids, envelope
<1> HIDE DEF error, fixed
<1> QED
  BY <1>7, <1>8, <1>9 DEF Checked, Failed, TrackOutcomes

-----------------------------------------------------------------------------
(* Playlists.                                                              *)

ItemStates == [at : Nat, error : ReadErrors, members : Seq(Cells)]

LEMMA ItemStepType ==
  ASSUME NEW w \in Seq(Cells), NEW end \in Nat, NEW c \in ItemStates
  PROVE  ItemStep(w, end, c) \in ItemStates
<1> DEFINE envelope == EnvelopeError(w, c.at, end, 7, mhip)
           error == Or(envelope, IF Within(w, c.at, 7) THEN "none" ELSE "undefined")
<1>1. c.at \in Nat /\ c.at + 6 \in Nat /\ c.members \in Seq(Cells)
  BY DEF ItemStates
<1>2. /\ Cell(w, c.at + 6) \in Cells
      /\ Size(w, c.at) \in Nat /\ Header(w, c.at) \in Nat /\ Len(w) \in Nat
  BY <1>1, CellType, LenProperties
<1>3. /\ envelope \in ReadErrors
      /\ envelope = "none" => /\ c.at + 3 <= end /\ end <= Len(w)
                              /\ 7 <= Header(w, c.at) /\ Header(w, c.at) <= Size(w, c.at)
                              /\ End(w, c.at) <= end
  BY <1>1, EnvelopeSound
<1> HIDE DEF envelope
<1>4. error \in ReadErrors
  BY <1>1, <1>2, <1>3 DEF Or, Within, End, ReadErrors, Errors
<1>5. Append(c.members, Cell(w, c.at + 6)) \in Seq(Cells)
  BY <1>1, <1>2, AppendProperties
<1>6. ItemStep(w, end, c) = IF c.error # "none" THEN c ELSE NextItem(w, c, error)
  BY DEF ItemStep, envelope
<1> HIDE DEF error
<1>7. c.at + Size(w, c.at) \in Nat
  BY <1>1, <1>2
<1> QED
  BY <1>4, <1>5, <1>6, <1>7 DEF NextItem, ItemStates

ItemRun(s, w, first, end, count) ==
  /\ s[0] = [at |-> first, error |-> "none", members |-> <<>>]
  /\ \A i \in 1 .. Rounds(w, count) : s[i] = ItemStep(w, end, s[i - 1])
  /\ \A i \in 0 .. Rounds(w, count) : s[i] \in ItemStates
  /\ Items(w, first, end, count) = s[Rounds(w, count)]

LEMMA ItemsRun ==
  ASSUME NEW w \in Seq(Cells), NEW first \in Nat, NEW end \in Nat, NEW count \in Nat
  PROVE  \E s : ItemRun(s, w, first, end, count)
<1> DEFINE n == Rounds(w, count)
           start == [at |-> first, error |-> "none", members |-> <<>>]
           IsRun(f) == f = [i \in 0 .. n |-> IF i = 0 THEN start ELSE ItemStep(w, end, f[i - 1])]
           F == [p \in ItemStates \X (1 .. n) |-> ItemStep(w, end, p[1])]
           state == CHOOSE f : IsRun(f)
<1>1. n \in Nat /\ start \in ItemStates
  BY RoundsType, EmptySeq DEF ItemStates, ReadErrors, Errors
<1>2. \A c \in ItemStates : ItemStep(w, end, c) \in ItemStates
  BY ItemStepType
<1>3. Items(w, first, end, count) = state[n]
  BY DEF Items, Iterate
<1> HIDE DEF n, start
<1>4. PICK g : Iterates(g, F, start, n) /\ \A i \in 0 .. n : g[i] \in ItemStates
  BY <1>1, <1>2, IterationIn
<1>5. IsRun(g)
  <2>1. ASSUME NEW i \in 1 .. n
        PROVE  F[<<g[i - 1], i>>] = ItemStep(w, end, g[i - 1])
    BY <1>1, <1>4
  <2> HIDE DEF F
  <2>2. g = [i \in 0 .. n |-> IF i = 0 THEN start ELSE F[<<g[i - 1], i>>]]
    BY <1>4 DEF Iterates
  <2>3. ASSUME NEW i \in 0 .. n
        PROVE  g[i] = IF i = 0 THEN start ELSE ItemStep(w, end, g[i - 1])
    <3>1. CASE i = 0
      BY <2>2, <3>1
    <3>2. CASE i # 0
      <4>1. i \in 1 .. n
        BY <1>1, <3>2
      <4>2. g[i] = F[<<g[i - 1], i>>]
        BY <2>2, <3>2
      <4> QED
        BY <2>1, <3>2, <4>1, <4>2
    <3> QED
      BY <3>1, <3>2
  <2> QED
    BY <2>2, <2>3
<1> HIDE DEF IsRun
<1>6. IsRun(state)
  BY <1>5
<1> HIDE DEF state
<1>7. \A i \in 0 .. n : state[i] \in ItemStates
  <2> DEFINE J == [i \in 0 .. n |-> ItemStates]
  <2>1. state[0] \in J[0]
    BY <1>1, <1>6 DEF IsRun
  <2>2. ASSUME NEW i \in 1 .. n, state[i - 1] \in J[i - 1] PROVE state[i] \in J[i]
    BY <1>1, <1>2, <1>6, <2>2 DEF IsRun
  <2> HIDE DEF J
  <2>3. \A i \in 0 .. n : state[i] \in J[i]
    BY <1>1, <2>1, <2>2, AllOf
  <2> QED
    BY <2>3 DEF J
<1>8. state[0] = start /\ \A i \in 1 .. n : state[i] = ItemStep(w, end, state[i - 1])
  BY <1>1, <1>6 DEF IsRun
<1>9. ItemRun(state, w, first, end, count)
  BY <1>3, <1>7, <1>8 DEF ItemRun, n, start
<1> QED
  BY <1>9

LEMMA ItemsType ==
  ASSUME NEW w \in Seq(Cells), NEW first \in Nat, NEW end \in Nat, NEW count \in Nat
  PROVE  Items(w, first, end, count) \in ItemStates
<1>1. Rounds(w, count) \in Nat
  BY RoundsType
<1>2. Rounds(w, count) \in 0 .. Rounds(w, count)
  BY <1>1
<1>3. PICK s : ItemRun(s, w, first, end, count)
  BY ItemsRun
<1> QED
  BY <1>2, <1>3 DEF ItemRun

PlaylistOutcomes == [error : ReadErrors \ {"none"}]
                      \cup [error : {"none"}, opaque : BOOLEAN, value : Playlist]

\* The same of a playlist, its data children and its members.
LEMMA ParsePlaylistType ==
  ASSUME NEW w \in Seq(Cells), NEW at \in Nat, NEW end \in Nat
  PROVE  ParsePlaylist(w, at, end) \in PlaylistOutcomes
<1> DEFINE envelope == EnvelopeError(w, at, end, 9, mhyp)
           kids == Children(w, Body(w, at), End(w, at), Cell(w, at + 3))
           items == Items(w, kids.at, End(w, at), Cell(w, at + 4))
           error == Or(envelope,
                IF ~Within(w, at, 9) THEN "undefined"
                ELSE IF \/ Cell(w, at + 3) > (End(w, at) - Body(w, at)) \div 6
                        \/ Cell(w, at + 4) > (End(w, at) - Body(w, at)) \div 3
                     THEN "count_exceeds_section" ELSE "none")
<1>1. /\ Header(w, at) \in Nat /\ Size(w, at) \in Nat /\ Body(w, at) \in Nat
      /\ End(w, at) \in Nat /\ Len(w) \in Nat
  BY CellType, LenProperties
<1>2. at + 3 \in Nat /\ at + 4 \in Nat /\ at + 7 \in Nat
  OBVIOUS
<1>3. Cell(w, at + 3) \in Nat /\ Cell(w, at + 4) \in Nat /\ Id(w, at + 7) \in Wide
  BY <1>2, CellType, IdType
<1>4. /\ envelope \in ReadErrors
      /\ envelope = "none" => /\ at + 3 <= end /\ end <= Len(w)
                              /\ 9 <= Header(w, at) /\ Header(w, at) <= Size(w, at)
                              /\ End(w, at) <= end
  BY EnvelopeSound
<1>5. kids \in ChildStates
  BY <1>1, <1>3, ChildrenType
<1> HIDE DEF kids, envelope
<1>6. items \in ItemStates
  BY <1>1, <1>3, <1>5, ItemsType DEF ChildStates
<1> HIDE DEF items
<1>7. envelope = "none" => Within(w, at, 9)
  BY <1>1, <1>4 DEF Within, End
<1>8. error \in ReadErrors
  BY <1>4, <1>7 DEF Or, ReadErrors, Errors
<1>9. PlaylistFrom(w, at, kids, items) \in PlaylistOutcomes
  <2>1. Or(kids.error, items.error) \in ReadErrors
    BY <1>5, <1>6 DEF Or, ChildStates, ItemStates
  <2>2. kids.text[1] \in Seq(Nat) /\ items.members \in Seq(Cells)
    BY <1>5, <1>6 DEF ChildStates, ItemStates, TextOf, TextTypes
  <2> QED
    BY <1>3, <2>1, <2>2 DEF PlaylistFrom, Checked, Failed, PlaylistOutcomes, Playlist
<1>10. ParsePlaylist(w, at, end) = Checked(error, PlaylistFrom(w, at, kids, items))
  BY DEF ParsePlaylist, kids, items, envelope
<1> HIDE DEF error
<1> QED
  BY <1>8, <1>9, <1>10 DEF Checked, Failed, PlaylistOutcomes

-----------------------------------------------------------------------------
(* The lists of a dataset.                                                 *)

TrackStates == [at : Nat, error : ReadErrors, values : Seq(Track), opaque : BOOLEAN]
\* The optional master playlist.
Masters == {s \in Seq(Playlist) : Len(s) <= 1}
PlaylistStates == [at : Nat, error : ReadErrors, values : Seq(Playlist),
                   master : Masters, opaque : BOOLEAN]

LEMMA MastersType == <<>> \in Masters /\ \A p \in Playlist : <<p>> \in Masters
<1>1. Len(<<>>) = 0 /\ \A p : Len(<<p>>) = 1
  BY EmptySeq
<1>2. <<>> \in Seq(Playlist) /\ \A p \in Playlist : <<p>> \in Seq(Playlist)
  OBVIOUS
<1> QED
  BY <1>1, <1>2 DEF Masters

LEMMA TrackStepType ==
  ASSUME NEW w \in Seq(Cells), NEW last \in Nat, NEW k, NEW r \in TrackStates
  PROVE  TrackStep(w, last, k, r) \in TrackStates
<1> DEFINE t == ParseTrack(w, r.at, last)
           error == Or(t.error, TrackHeaderError(w, r.at, k))
<1>1. r.at \in Nat /\ r.values \in Seq(Track) /\ r.opaque \in BOOLEAN
  BY DEF TrackStates
<1>2. t \in TrackOutcomes
  BY <1>1, ParseTrackType
<1>3. End(w, r.at) \in Nat
  BY <1>1, CellType
<1>4. TrackHeaderError(w, r.at, k) \in ReadErrors
  BY DEF TrackHeaderError, ReadErrors, Errors
<1> HIDE DEF t
<1>5. error \in ReadErrors /\ (error = "none" => t.error = "none")
  BY <1>2, <1>4 DEF Or, TrackOutcomes
<1>6. error = "none" => t.value \in Track /\ t.opaque \in BOOLEAN
  BY <1>2, <1>5 DEF TrackOutcomes
<1>7. error = "none" => Append(r.values, t.value) \in Seq(Track)
  BY <1>1, <1>6, AppendProperties
<1>8. NextTrack(w, r, t, k) =
        IF error # "none" THEN [r EXCEPT !.error = error]
        ELSE [r EXCEPT !.at = End(w, @), !.values = Append(@, t.value),
                !.opaque = @ \/ t.opaque \/ (k = "hash58" /\ Header(w, r.at) = ExtendedTrack)]
  BY DEF NextTrack
<1> HIDE DEF error
<1>9. NextTrack(w, r, t, k) \in TrackStates
  <2>1. CASE error # "none"
    BY <1>5, <1>8, <2>1 DEF TrackStates
  <2>2. CASE error = "none"
    <3> DEFINE opaque == r.opaque \/ t.opaque \/ (k = "hash58" /\ Header(w, r.at) = ExtendedTrack)
    <3>1. opaque \in BOOLEAN
      BY <1>1, <1>6, <2>2
    <3>2. NextTrack(w, r, t, k) = [r EXCEPT !.at = End(w, r.at),
             !.values = Append(r.values, t.value), !.opaque = opaque]
      BY <1>8, <2>2 DEF TrackStates
    <3> HIDE DEF opaque
    <3> QED
      BY <1>3, <1>7, <2>2, <3>1, <3>2 DEF TrackStates
  <2> QED
    BY <2>1, <2>2
<1> QED
  BY <1>9 DEF TrackStep, t

LEMMA PlaylistStepType ==
  ASSUME NEW w \in Seq(Cells), NEW last \in Nat, NEW k, NEW r \in PlaylistStates
  PROVE  PlaylistStep(w, last, k, r) \in PlaylistStates
<1> DEFINE p == ParsePlaylist(w, r.at, last)
           error == PlaylistError(w, r, p, k)
<1>1. /\ r.at \in Nat /\ r.values \in Seq(Playlist) /\ r.master \in Masters
      /\ r.opaque \in BOOLEAN
  BY DEF PlaylistStates
<1>2. p \in PlaylistOutcomes
  BY <1>1, ParsePlaylistType
<1>3. End(w, r.at) \in Nat
  BY <1>1, CellType
<1> HIDE DEF p
<1>4. error \in ReadErrors /\ (error = "none" => p.error = "none")
  BY <1>2 DEF PlaylistError, PlaylistHeaderError, Or, PlaylistOutcomes, ReadErrors, Errors
<1>5. error = "none" => p.value \in Playlist /\ p.opaque \in BOOLEAN
  BY <1>2, <1>4 DEF PlaylistOutcomes
<1>6. error = "none" => Append(r.values, p.value) \in Seq(Playlist) /\ <<p.value>> \in Masters
  BY <1>1, <1>5, MastersType, AppendProperties
<1> HIDE DEF error
<1>7. NextPlaylist(w, r, p, error) \in PlaylistStates
  <2>1. CASE error # "none"
    BY <1>4, <2>1 DEF NextPlaylist, PlaylistStates
  <2>2. CASE error = "none"
    <3> DEFINE opaque == r.opaque \/ p.opaque
               master == IF p.value.kind = "master" THEN <<p.value>> ELSE r.master
               values == IF p.value.kind = "master" THEN r.values ELSE Append(r.values, p.value)
    <3>1. opaque \in BOOLEAN /\ master \in Masters /\ values \in Seq(Playlist)
      BY <1>1, <1>5, <1>6, <2>2
    <3>2. NextPlaylist(w, r, p, error) = [r EXCEPT !.at = End(w, r.at),
             !.opaque = opaque, !.master = master, !.values = values]
      BY <2>2 DEF NextPlaylist, PlaylistStates
    <3> HIDE DEF opaque, master, values
    <3> QED
      BY <1>3, <3>1, <3>2 DEF PlaylistStates
  <2> QED
    BY <2>1, <2>2
<1> QED
  BY <1>7 DEF PlaylistStep, p, error

DatasetTypes == [type : Nat, count : Nat, first : Nat, last : Nat]

LEMMA TracksRun ==
  ASSUME NEW w \in Seq(Cells), NEW set \in DatasetTypes, NEW k
  PROVE  \E s : /\ s[0] = [at |-> set.first, error |-> "none", values |-> <<>>, opaque |-> FALSE]
                /\ \A i \in 1 .. Rounds(w, set.count) : s[i] = TrackStep(w, set.last, k, s[i - 1])
                /\ \A i \in 0 .. Rounds(w, set.count) : s[i] \in TrackStates
                /\ Tracks(w, set, k) = Filling(s[Rounds(w, set.count)], set.last)
<1> DEFINE last == set.last
           n == Rounds(w, set.count)
           start == [at |-> set.first, error |-> "none", values |-> <<>>, opaque |-> FALSE]
           IsRun(f) == f = [i \in 0 .. n |-> IF i = 0 THEN start ELSE TrackStep(w, last, k, f[i - 1])]
           F == [p \in TrackStates \X (1 .. n) |-> TrackStep(w, last, k, p[1])]
           state == CHOOSE f : IsRun(f)
<1>1. n \in Nat /\ start \in TrackStates
  BY RoundsType, EmptySeq DEF TrackStates, DatasetTypes, ReadErrors, Errors
<1>2. \A c \in TrackStates : TrackStep(w, last, k, c) \in TrackStates
  BY TrackStepType DEF DatasetTypes
<1>3. Tracks(w, set, k) = Filling(state[n], last)
  BY DEF Tracks, Iterate
<1> HIDE DEF n, start, last
<1>4. PICK g : Iterates(g, F, start, n) /\ \A i \in 0 .. n : g[i] \in TrackStates
  BY <1>1, <1>2, IterationIn
<1>5. IsRun(g)
  <2>1. ASSUME NEW i \in 1 .. n
        PROVE  F[<<g[i - 1], i>>] = TrackStep(w, last, k, g[i - 1])
    BY <1>1, <1>4
  <2> HIDE DEF F
  <2>2. g = [i \in 0 .. n |-> IF i = 0 THEN start ELSE F[<<g[i - 1], i>>]]
    BY <1>4 DEF Iterates
  <2>3. ASSUME NEW i \in 0 .. n
        PROVE  g[i] = IF i = 0 THEN start ELSE TrackStep(w, last, k, g[i - 1])
    <3>1. CASE i = 0
      BY <2>2, <3>1
    <3>2. CASE i # 0
      <4>1. i \in 1 .. n
        BY <1>1, <3>2
      <4>2. g[i] = F[<<g[i - 1], i>>]
        BY <2>2, <3>2
      <4> QED
        BY <2>1, <3>2, <4>1, <4>2
    <3> QED
      BY <3>1, <3>2
  <2> QED
    BY <2>2, <2>3
<1> HIDE DEF IsRun
<1>6. IsRun(state)
  BY <1>5
<1> HIDE DEF state
<1>7. \A i \in 0 .. n : state[i] \in TrackStates
  <2> DEFINE J == [i \in 0 .. n |-> TrackStates]
  <2>1. state[0] \in J[0]
    BY <1>1, <1>6 DEF IsRun
  <2>2. ASSUME NEW i \in 1 .. n, state[i - 1] \in J[i - 1] PROVE state[i] \in J[i]
    BY <1>1, <1>2, <1>6, <2>2 DEF IsRun
  <2> HIDE DEF J
  <2>3. \A i \in 0 .. n : state[i] \in J[i]
    BY <1>1, <2>1, <2>2, AllOf
  <2> QED
    BY <2>3 DEF J
<1>8. state[0] = start /\ \A i \in 1 .. n : state[i] = TrackStep(w, last, k, state[i - 1])
  BY <1>1, <1>6 DEF IsRun
<1> QED
  BY <1>3, <1>7, <1>8 DEF n, start, last

LEMMA TracksType ==
  ASSUME NEW w \in Seq(Cells), NEW set \in DatasetTypes, NEW k
  PROVE  Tracks(w, set, k) \in TrackStates
<1>1. Rounds(w, set.count) \in Nat
  BY RoundsType DEF DatasetTypes
<1>2. Rounds(w, set.count) \in 0 .. Rounds(w, set.count)
  BY <1>1
<1>3. PICK s : /\ \A i \in 0 .. Rounds(w, set.count) : s[i] \in TrackStates
               /\ Tracks(w, set, k) = Filling(s[Rounds(w, set.count)], set.last)
  BY TracksRun, Zenon
<1>4. s[Rounds(w, set.count)] \in TrackStates
  BY <1>2, <1>3
<1>5. set.last \in Nat
  BY DEF DatasetTypes
<1> QED
  BY <1>3, <1>4, <1>5 DEF Filling, TrackStates, ReadErrors, Errors

LEMMA PlaylistsRun ==
  ASSUME NEW w \in Seq(Cells), NEW set \in DatasetTypes, NEW k
  PROVE  \E s : /\ s[0] = [at |-> set.first, error |-> "none", values |-> <<>>, master |-> <<>>,
                    opaque |-> FALSE]
                /\ \A i \in 1 .. Rounds(w, set.count) : s[i] = PlaylistStep(w, set.last, k, s[i - 1])
                /\ \A i \in 0 .. Rounds(w, set.count) : s[i] \in PlaylistStates
                /\ Playlists(w, set, k) = Filling(s[Rounds(w, set.count)], set.last)
<1> DEFINE last == set.last
           n == Rounds(w, set.count)
           start == [at |-> set.first, error |-> "none", values |-> <<>>, master |-> <<>>, opaque |-> FALSE]
           IsRun(f) == f = [i \in 0 .. n |-> IF i = 0 THEN start ELSE PlaylistStep(w, last, k, f[i - 1])]
           F == [p \in PlaylistStates \X (1 .. n) |-> PlaylistStep(w, last, k, p[1])]
           state == CHOOSE f : IsRun(f)
<1>1. n \in Nat /\ start \in PlaylistStates
  BY RoundsType, EmptySeq, MastersType DEF PlaylistStates, DatasetTypes, ReadErrors, Errors
<1>2. \A c \in PlaylistStates : PlaylistStep(w, last, k, c) \in PlaylistStates
  BY PlaylistStepType DEF DatasetTypes
<1>3. Playlists(w, set, k) = Filling(state[n], last)
  BY DEF Playlists, Iterate
<1> HIDE DEF n, start, last
<1>4. PICK g : Iterates(g, F, start, n) /\ \A i \in 0 .. n : g[i] \in PlaylistStates
  BY <1>1, <1>2, IterationIn
<1>5. IsRun(g)
  <2>1. ASSUME NEW i \in 1 .. n
        PROVE  F[<<g[i - 1], i>>] = PlaylistStep(w, last, k, g[i - 1])
    BY <1>1, <1>4
  <2> HIDE DEF F
  <2>2. g = [i \in 0 .. n |-> IF i = 0 THEN start ELSE F[<<g[i - 1], i>>]]
    BY <1>4 DEF Iterates
  <2>3. ASSUME NEW i \in 0 .. n
        PROVE  g[i] = IF i = 0 THEN start ELSE PlaylistStep(w, last, k, g[i - 1])
    <3>1. CASE i = 0
      BY <2>2, <3>1
    <3>2. CASE i # 0
      <4>1. i \in 1 .. n
        BY <1>1, <3>2
      <4>2. g[i] = F[<<g[i - 1], i>>]
        BY <2>2, <3>2
      <4> QED
        BY <2>1, <3>2, <4>1, <4>2
    <3> QED
      BY <3>1, <3>2
  <2> QED
    BY <2>2, <2>3
<1> HIDE DEF IsRun
<1>6. IsRun(state)
  BY <1>5
<1> HIDE DEF state
<1>7. \A i \in 0 .. n : state[i] \in PlaylistStates
  <2> DEFINE J == [i \in 0 .. n |-> PlaylistStates]
  <2>1. state[0] \in J[0]
    BY <1>1, <1>6 DEF IsRun
  <2>2. ASSUME NEW i \in 1 .. n, state[i - 1] \in J[i - 1] PROVE state[i] \in J[i]
    BY <1>1, <1>2, <1>6, <2>2 DEF IsRun
  <2> HIDE DEF J
  <2>3. \A i \in 0 .. n : state[i] \in J[i]
    BY <1>1, <2>1, <2>2, AllOf
  <2> QED
    BY <2>3 DEF J
<1>8. state[0] = start /\ \A i \in 1 .. n : state[i] = PlaylistStep(w, last, k, state[i - 1])
  BY <1>1, <1>6 DEF IsRun
<1> QED
  BY <1>3, <1>7, <1>8 DEF n, start, last

LEMMA PlaylistsType ==
  ASSUME NEW w \in Seq(Cells), NEW set \in DatasetTypes, NEW k
  PROVE  Playlists(w, set, k) \in PlaylistStates
<1>1. Rounds(w, set.count) \in Nat
  BY RoundsType DEF DatasetTypes
<1>2. Rounds(w, set.count) \in 0 .. Rounds(w, set.count)
  BY <1>1
<1>3. PICK s : /\ \A i \in 0 .. Rounds(w, set.count) : s[i] \in PlaylistStates
               /\ Playlists(w, set, k) = Filling(s[Rounds(w, set.count)], set.last)
  BY PlaylistsRun, Zenon
<1>4. s[Rounds(w, set.count)] \in PlaylistStates
  BY <1>2, <1>3
<1>5. set.last \in Nat
  BY DEF DatasetTypes
<1> QED
  BY <1>3, <1>4, <1>5 DEF Filling, PlaylistStates, ReadErrors, Errors

-----------------------------------------------------------------------------
(* Datasets and the file.                                                  *)

DatasetStates == [at : Nat, error : ReadErrors, sets : Seq(DatasetTypes)]

LEMMA DatasetSound ==
  ASSUME NEW w \in Seq(Cells), NEW at \in Nat, NEW end \in Nat, NEW k,
         NEW error, error = DatasetError(w, at, end, k)
  PROVE  error \in ReadErrors
<1> DEFINE envelope == EnvelopeError(w, at, end, 4, mhsd)
           list == Body(w, at)
           last == End(w, at)
<1>1. /\ Header(w, at) \in Nat /\ Size(w, at) \in Nat /\ list \in Nat
      /\ last \in Nat /\ Len(w) \in Nat
  BY CellType, LenProperties
<1>2. /\ envelope \in ReadErrors
      /\ envelope = "none" => /\ at + 3 <= end /\ end <= Len(w)
                              /\ 4 <= Header(w, at) /\ Header(w, at) <= Size(w, at)
                              /\ last <= end
  BY EnvelopeSound
<1> HIDE DEF envelope
<1>3. envelope = "none" => Within(w, at, 4)
  BY <1>1, <1>2 DEF Within, End
<1>4. envelope = "none" /\ Fits(list, 3, last) => Within(w, list, 3)
  BY <1>1, <1>2 DEF Within, Fits
<1> DEFINE type == Cell(w, at + 3)
<1>5. error = Or(envelope,
     IF ~Fits(list, 3, last) THEN "truncated_input"
     ELSE IF type \in 1 .. 5 /\ Cell(w, list) # ListMarker(type) THEN "invalid_marker"
     ELSE IF Header(w, list) < 3 \/ ~Fits(list, Header(w, list), last) THEN "header_too_small"
     ELSE IF /\ k = "hash58"
             /\ \/ Header(w, at) # Layout[k].dataset
                \/ Header(w, list) # Layout[k].list THEN "unsupported_signed_profile"
     ELSE "none")
  BY <1>3, <1>4 DEF DatasetError, Or, envelope
<1> QED
  BY <1>2, <1>5 DEF Or, ReadErrors, Errors

LEMMA DatasetStepType ==
  ASSUME NEW w \in Seq(Cells), NEW k, NEW d \in DatasetStates
  PROVE  DatasetStep(w, k, d) \in DatasetStates
<1> DEFINE list == Body(w, d.at)
           error == DatasetError(w, d.at, Size(w, 0), k)
           set == [type |-> Cell(w, d.at + 3), count |-> Cell(w, list + 2),
                   first |-> Body(w, list), last |-> End(w, d.at)]
<1>1. d.at \in Nat /\ d.at + 3 \in Nat /\ d.sets \in Seq(DatasetTypes)
  BY DEF DatasetStates
<1>2. Size(w, 0) \in Nat /\ list \in Nat /\ End(w, d.at) \in Nat /\ Cell(w, d.at + 3) \in Nat
  BY <1>1, CellType
<1>3. list + 2 \in Nat
  BY <1>2
<1>4. Cell(w, list + 2) \in Nat /\ Body(w, list) \in Nat
  BY <1>2, <1>3, CellType
<1>5. error \in ReadErrors
  BY <1>1, <1>2, DatasetSound
<1>6. set \in DatasetTypes
  BY <1>2, <1>4 DEF DatasetTypes
<1>7. Append(d.sets, set) \in Seq(DatasetTypes)
  BY <1>1, <1>6, AppendProperties
<1>8. DatasetStep(w, k, d) =
        IF d.error # "none" THEN d
        ELSE IF error # "none" THEN [d EXCEPT !.error = error]
        ELSE [d EXCEPT !.at = End(w, d.at), !.sets = Append(d.sets, set)]
  BY DEF DatasetStep, NextDataset, DatasetStates
<1> HIDE DEF error, set
<1> QED
  BY <1>2, <1>5, <1>7, <1>8 DEF DatasetStates

LEMMA DatasetsRun ==
  ASSUME NEW w \in Seq(Cells), NEW k
  PROVE  \E s : /\ s[0] = [at |-> Header(w, 0), error |-> "none", sets |-> <<>>]
                /\ \A i \in 1 .. Rounds(w, Cell(w, 5)) : s[i] = DatasetStep(w, k, s[i - 1])
                /\ \A i \in 0 .. Rounds(w, Cell(w, 5)) : s[i] \in DatasetStates
                /\ Datasets(w, k) = s[Rounds(w, Cell(w, 5))]
<1> DEFINE n == Rounds(w, Cell(w, 5))
           start == [at |-> Header(w, 0), error |-> "none", sets |-> <<>>]
           IsRun(f) == f = [i \in 0 .. n |-> IF i = 0 THEN start ELSE DatasetStep(w, k, f[i - 1])]
           F == [p \in DatasetStates \X (1 .. n) |-> DatasetStep(w, k, p[1])]
           state == CHOOSE f : IsRun(f)
<1>1. n \in Nat /\ start \in DatasetStates
  BY CellType, RoundsType, EmptySeq DEF DatasetStates, ReadErrors, Errors
<1>2. \A c \in DatasetStates : DatasetStep(w, k, c) \in DatasetStates
  BY DatasetStepType
<1>3. Datasets(w, k) = state[n]
  BY DEF Datasets, Iterate
<1> HIDE DEF n, start
<1>4. PICK g : Iterates(g, F, start, n) /\ \A i \in 0 .. n : g[i] \in DatasetStates
  BY <1>1, <1>2, IterationIn
<1>5. IsRun(g)
  <2>1. ASSUME NEW i \in 1 .. n
        PROVE  F[<<g[i - 1], i>>] = DatasetStep(w, k, g[i - 1])
    BY <1>1, <1>4
  <2> HIDE DEF F
  <2>2. g = [i \in 0 .. n |-> IF i = 0 THEN start ELSE F[<<g[i - 1], i>>]]
    BY <1>4 DEF Iterates
  <2>3. ASSUME NEW i \in 0 .. n
        PROVE  g[i] = IF i = 0 THEN start ELSE DatasetStep(w, k, g[i - 1])
    <3>1. CASE i = 0
      BY <2>2, <3>1
    <3>2. CASE i # 0
      <4>1. i \in 1 .. n
        BY <1>1, <3>2
      <4>2. g[i] = F[<<g[i - 1], i>>]
        BY <2>2, <3>2
      <4> QED
        BY <2>1, <3>2, <4>1, <4>2
    <3> QED
      BY <3>1, <3>2
  <2> QED
    BY <2>2, <2>3
<1> HIDE DEF IsRun
<1>6. IsRun(state)
  BY <1>5
<1> HIDE DEF state
<1>7. \A i \in 0 .. n : state[i] \in DatasetStates
  <2> DEFINE J == [i \in 0 .. n |-> DatasetStates]
  <2>1. state[0] \in J[0]
    BY <1>1, <1>6 DEF IsRun
  <2>2. ASSUME NEW i \in 1 .. n, state[i - 1] \in J[i - 1] PROVE state[i] \in J[i]
    BY <1>1, <1>2, <1>6, <2>2 DEF IsRun
  <2> HIDE DEF J
  <2>3. \A i \in 0 .. n : state[i] \in J[i]
    BY <1>1, <2>1, <2>2, AllOf
  <2> QED
    BY <2>3 DEF J
<1>8. state[0] = start /\ \A i \in 1 .. n : state[i] = DatasetStep(w, k, state[i - 1])
  BY <1>1, <1>6 DEF IsRun
<1> QED
  BY <1>3, <1>7, <1>8 DEF n, start

LEMMA DatasetsType ==
  ASSUME NEW w \in Seq(Cells), NEW k
  PROVE  Datasets(w, k) \in DatasetStates
<1>1. Rounds(w, Cell(w, 5)) \in Nat
  BY CellType, RoundsType
<1>2. Rounds(w, Cell(w, 5)) \in 0 .. Rounds(w, Cell(w, 5))
  BY <1>1
<1> QED
  BY <1>2, DatasetsRun

LEMMA MinIn ==
  ASSUME NEW T \in SUBSET Nat, T # {}
  PROVE  Min(T) \in T /\ \A n \in T : Min(T) <= n
<1>1. \E m \in T : \A n \in T : m <= n
  BY LeastNatural
<1> QED
  BY <1>1 DEF Min

LEMMA ChosenType ==
  ASSUME NEW sets \in Seq(DatasetTypes), NEW types \in Seq(Nat)
  PROVE  Chosen(sets, types) = <<>> \/ \E set \in DatasetTypes : Chosen(sets, types) = <<set>>
<1> DEFINE has(t) == \E i \in DOMAIN sets : sets[i].type = t
           T == {i \in 1 .. Len(types) : has(types[i])}
           type == IF T # {} THEN Min(T) ELSE 0
           S == {i \in 1 .. Len(sets) : sets[i].type = types[type]}
           first == IF S # {} THEN Min(S) ELSE 0
<1>1. Chosen(sets, types) = IF type = 0 THEN <<>> ELSE <<sets[first]>>
  BY DEF Chosen, SelectInSeq
<1>2. T \in SUBSET Nat /\ S \in SUBSET Nat /\ DOMAIN sets = 1 .. Len(sets)
  BY LenProperties
<1>3. ASSUME type # 0 PROVE sets[first] \in DatasetTypes
  <2>1. type \in T
    BY <1>2, <1>3, MinIn
  <2>2. S # {}
    BY <1>2, <2>1
  <2> HIDE DEF T, type
  <2>3. first \in S
    BY <1>2, <2>2, MinIn
  <2>4. first \in 1 .. Len(sets)
    BY <2>3
  <2> HIDE DEF first, S
  <2> QED
    BY <2>4, ElementOfSeq
<1> HIDE DEF type, first
<1> QED
  BY <1>1, <1>3

DocumentsOf(w, k) == [kind : {k}, original : {w}, modified : {FALSE}, opaque : BOOLEAN,
                      signature : Signatures, model : {m \in Model : m.master \in Masters}]
Answers(w, k) == [error : ReadErrors \ {"none"}] \cup [error : {"none"}, doc : DocumentsOf(w, k)]

LEMMA RootSound ==
  ASSUME NEW w \in Seq(Cells), NEW k \in Kinds
  PROVE  RootError(w, k) \in ReadErrors
<1> DEFINE envelope == EnvelopeError(w, 0, Len(w), 8, mhbd)
<1>1. Header(w, 0) \in Nat /\ Size(w, 0) \in Nat /\ Len(w) \in Nat
  BY CellType, LenProperties
<1>2. /\ envelope \in ReadErrors
      /\ envelope = "none" => 8 <= Header(w, 0) /\ End(w, 0) <= Len(w) /\ Header(w, 0) <= Size(w, 0)
  BY <1>1, EnvelopeSound
<1> HIDE DEF envelope
<1>3. envelope = "none" => Within(w, 0, 8)
  BY <1>1, <1>2 DEF Within, End
<1>4. k = "hash58" => Layout[k].root \in Nat /\ Layout[k].root >= 27
  BY FormatAssumption
<1>5. envelope = "none" /\ k = "hash58" /\ Header(w, 0) = Layout[k].root => Within(w, 0, 13)
  BY <1>1, <1>2, <1>4 DEF Within, End
<1> DEFINE inner ==
     IF Cell(w, 3) # 1 THEN "unsupported_container"
     ELSE IF k = "hash58" /\ Header(w, 0) # Layout[k].root THEN "unsupported_signed_profile"
     ELSE IF k = "hash58" /\ Cell(w, 12) # 1 THEN "invalid_hash_scheme"
     ELSE IF k = "hash58" /\ Cell(w, 4) \notin {49, 115} THEN "unsupported_signed_profile"
     ELSE IF Cell(w, 5) > (Size(w, 0) - Header(w, 0)) \div 4 THEN "count_exceeds_section"
     ELSE "none"
<1>6. RootError(w, k) =
        IF Len(w) > Layout[k].maxIn THEN "resource_limit_exceeded"
        ELSE IF Len(w) >= 4 /\ Cell(w, 0) = sqlite THEN "unsupported_container"
        ELSE Or(envelope, inner)
  BY <1>3, <1>5 DEF RootError, Or, envelope
<1>7. inner \in ReadErrors
  BY DEF ReadErrors, Errors
<1>8. Or(envelope, inner) \in ReadErrors
  BY <1>2, <1>7 DEF Or
<1> HIDE DEF inner
<1> QED
  BY <1>6, <1>8 DEF ReadErrors, Errors

LEMMA DocumentType ==
  ASSUME NEW w \in Seq(Cells), NEW k \in Kinds, NEW key, NEW found \in DatasetStates,
         NEW t, NEW p, t.error \in ReadErrors, t.values \in Seq(Track),
         p.error \in ReadErrors, p.values \in Seq(Playlist), p.master \in Masters
  PROVE  Document(w, k, key, found, t, p) \in Answers(w, k)
<1>1. Id(w, 6) \in Wide
  BY IdType
<1>2. SignatureState(w, k, key) \in Signatures
  BY DEF SignatureState, Signatures
<1> DEFINE model == [pid |-> Id(w, 6), tracks |-> t.values, master |-> p.master, lists |-> p.values]
<1>3. model \in Model /\ model.master \in Masters
  BY <1>1 DEF Model, Masters
<1> DEFINE opaque == \/ t.opaque \/ p.opaque \/ found.at # Size(w, 0) \/ Size(w, 0) # Len(w)
                     \/ \E i \in DOMAIN found.sets : Preserved(found.sets[i])
           opened == [kind |-> k, original |-> w, modified |-> FALSE, opaque |-> opaque,
                      signature |-> SignatureState(w, k, key), model |-> model]
<1>4. opaque \in BOOLEAN
  OBVIOUS
<1> HIDE DEF model, opaque
<1>5. opened \in DocumentsOf(w, k)
  BY <1>2, <1>3, <1>4 DEF DocumentsOf
<1>6. Or(t.error, p.error) \in ReadErrors
  BY DEF Or
<1>7. Document(w, k, key, found, t, p) =
        Checked(Or(t.error, p.error), [error |-> "none", doc |-> opened])
  BY DEF Document, model, opaque
<1> HIDE DEF opened
<1> QED
  BY <1>5, <1>6, <1>7 DEF Checked, Failed, Answers

\* Every file is refused with one of the errors of the reader, or is a document of
\* the types the rest of the code relies on.
LEMMA ReadType ==
  ASSUME NEW w \in Seq(Cells), NEW k \in Kinds, NEW key
  PROVE  Read(w, k, key) \in Answers(w, k)
<1> DEFINE found == Datasets(w, k)
           t(set) == IF set = <<>> THEN NoTracks ELSE Tracks(w, set[1], k)
           p(set) == IF set = <<>> THEN NoPlaylists ELSE Playlists(w, set[1], k)
           one == Chosen(found.sets, <<1>>)
           two == Chosen(found.sets, <<2, 3>>)
           error == Or(found.error,
                   IF k = "hash58" /\ ~IsPrefix(<<4, 1, 3, 2>>,
                                                [i \in DOMAIN found.sets |-> found.sets[i].type])
                   THEN "unsupported_signed_profile" ELSE "none")
<1>1. found \in DatasetStates
  BY DatasetsType
<1>2. <<1>> \in Seq(Nat) /\ <<2, 3>> \in Seq(Nat)
  OBVIOUS
<1>3. RootError(w, k) \in ReadErrors
  BY RootSound
<1>4. Read(w, k, key) =
        Checked(RootError(w, k), Checked(error, Document(w, k, key, found, t(one), p(two))))
  BY DEF Read, Contents
<1> HIDE DEF found
<1>5. error \in ReadErrors
  BY <1>1 DEF Or, DatasetStates, ReadErrors, Errors
<1>6. one = <<>> \/ \E set \in DatasetTypes : one = <<set>>
  BY <1>1, <1>2, ChosenType DEF DatasetStates
<1>7. two = <<>> \/ \E set \in DatasetTypes : two = <<set>>
  BY <1>1, <1>2, ChosenType DEF DatasetStates
<1> HIDE DEF error, one, two
<1>8. t(one).error \in ReadErrors /\ t(one).values \in Seq(Track)
  <2>1. CASE one = <<>>
    BY <2>1, EmptySeq DEF NoTracks, ReadErrors, Errors
  <2>2. ASSUME NEW set \in DatasetTypes, one = <<set>>
        PROVE  t(one).error \in ReadErrors /\ t(one).values \in Seq(Track)
    <3>1. Tracks(w, set, k) \in TrackStates
      BY TracksType
    <3>2. one # <<>> /\ one[1] = set
      BY <2>2
    <3> QED
      BY <3>1, <3>2 DEF TrackStates
  <2> QED
    BY <1>6, <2>1, <2>2
<1>9. p(two).error \in ReadErrors /\ p(two).values \in Seq(Playlist) /\ p(two).master \in Masters
  <2>1. CASE two = <<>>
    BY <2>1, EmptySeq, MastersType DEF NoPlaylists, ReadErrors, Errors
  <2>2. ASSUME NEW set \in DatasetTypes, two = <<set>>
        PROVE  /\ p(two).error \in ReadErrors /\ p(two).values \in Seq(Playlist)
               /\ p(two).master \in Masters
    <3>1. Playlists(w, set, k) \in PlaylistStates
      BY PlaylistsType
    <3>2. two # <<>> /\ two[1] = set
      BY <2>2
    <3> QED
      BY <3>1, <3>2 DEF PlaylistStates
  <2> QED
    BY <1>7, <2>1, <2>2
<1> HIDE DEF t, p
<1>10. Document(w, k, key, found, t(one), p(two)) \in Answers(w, k)
  BY <1>1, <1>8, <1>9, DocumentType
<1> QED
  BY <1>3, <1>4, <1>5, <1>10 DEF Checked, Failed, Answers

-----------------------------------------------------------------------------
(* What is not understood is reported.  The loops of the reader and the    *)
(* walk by sizes that UnknownData describes are at the same offsets.       *)

Walks(w, o, first, n) ==
  /\ o[0] = first
  /\ \A i \in 1 .. n : o[i] = End(w, o[i - 1])

LEMMA OffsetsWalk ==
  ASSUME NEW w \in Seq(Cells), NEW first \in Nat, NEW n \in Nat
  PROVE  /\ Walks(w, Offsets(w, first, n), first, n)
         /\ \A i \in 0 .. n : Offsets(w, first, n)[i] \in Nat
<1> DEFINE F == [p \in Nat \X (1 .. n) |-> End(w, p[1])]
           IsWalk(f) == f = [i \in 0 .. n |-> IF i = 0 THEN first ELSE End(w, f[i - 1])]
           at == CHOOSE f : IsWalk(f)
<1>1. \A a \in Nat : End(w, a) \in Nat
  BY CellType
<1>2. Offsets(w, first, n) = at
  BY DEF Offsets
<1>3. PICK g : Iterates(g, F, first, n) /\ \A i \in 0 .. n : g[i] \in Nat
  BY <1>1, IterationIn
<1>4. IsWalk(g)
  <2>1. ASSUME NEW i \in 1 .. n PROVE F[<<g[i - 1], i>>] = End(w, g[i - 1])
    BY <1>3
  <2> HIDE DEF F
  <2>2. g = [i \in 0 .. n |-> IF i = 0 THEN first ELSE F[<<g[i - 1], i>>]]
    BY <1>3 DEF Iterates
  <2>3. ASSUME NEW i \in 0 .. n PROVE g[i] = IF i = 0 THEN first ELSE End(w, g[i - 1])
    <3>1. CASE i = 0
      BY <2>2, <3>1
    <3>2. CASE i # 0
      <4>1. i \in 1 .. n
        BY <3>2
      <4>2. g[i] = F[<<g[i - 1], i>>]
        BY <2>2, <3>2
      <4> QED
        BY <2>1, <3>2, <4>1, <4>2
    <3> QED
      BY <3>1, <3>2
  <2> QED
    BY <2>2, <2>3
<1> HIDE DEF IsWalk
<1>5. IsWalk(at)
  BY <1>4
<1> HIDE DEF at
<1>6. Walks(w, at, first, n)
  <2>1. at[0] = first
    BY <1>5 DEF IsWalk
  <2>2. ASSUME NEW i \in 1 .. n PROVE at[i] = End(w, at[i - 1])
    BY <1>5 DEF IsWalk
  <2> QED
    BY <2>1, <2>2 DEF Walks
<1>7. \A i \in 0 .. n : at[i] \in Nat
  <2> DEFINE J == [i \in 0 .. n |-> Nat]
  <2>1. at[0] \in J[0]
    BY <1>6 DEF Walks
  <2>2. ASSUME NEW i \in 1 .. n, at[i - 1] \in J[i - 1] PROVE at[i] \in J[i]
    BY <1>1, <1>6, <2>2 DEF Walks
  <2> HIDE DEF J
  <2>3. \A i \in 0 .. n : at[i] \in J[i]
    BY <2>1, <2>2, AllOf
  <2> QED
    BY <2>3 DEF J
<1> QED
  BY <1>2, <1>6, <1>7

\* The offset after i records, each of three cells or more, that all fit.
Reached(w, at, first, i) == at >= first + 3 * i /\ (i > 0 => at <= Len(w))

LEMMA ReachedNext ==
  ASSUME NEW w \in Seq(Cells), NEW first \in Nat, NEW i \in Nat, i > 0, NEW at \in Nat,
         Reached(w, at, first, i - 1), at + 3 <= End(w, at), End(w, at) <= Len(w)
  PROVE  Reached(w, End(w, at), first, i)
<1>1. End(w, at) \in Nat /\ Len(w) \in Nat
  BY CellType, LenProperties
<1> QED
  BY <1>1 DEF Reached

\* A loop that ends without an error went through all its records.
LEMMA AllRounds ==
  ASSUME NEW w \in Seq(Cells), NEW count \in Nat, NEW first \in Nat, NEW at \in Nat,
         Reached(w, at, first, Rounds(w, count))
  PROVE  Rounds(w, count) = count
<1>1. Len(w) \in Nat
  BY LenProperties
<1> SUFFICES ASSUME count > Len(w) \div 3 PROVE FALSE
  BY DEF Rounds
<1>2. Len(w) \div 3 \in Nat /\ Len(w) < 3 * (1 + Len(w) \div 3)
  BY <1>1
<1> DEFINE n == 1 + Len(w) \div 3
<1>3. Rounds(w, count) = n /\ n \in Nat /\ n > 0
  BY <1>2 DEF Rounds
<1>4. Len(w) < 3 * n
  BY <1>2
<1> HIDE DEF n
<1>5. at >= first + 3 * n /\ at <= Len(w)
  BY <1>3 DEF Reached
<1> QED
  BY <1>1, <1>3, <1>4, <1>5

LEMMA RoundsFew ==
  ASSUME NEW w \in Seq(Cells), NEW count \in Nat
  PROVE  Rounds(w, count) \in Nat /\ Rounds(w, count) <= count
<1>1. Len(w) \in Nat
  BY LenProperties
<1>2. Len(w) \div 3 \in Nat
  BY <1>1
<1> QED
  BY <1>2 DEF Rounds

LEMMA ChildrenWalk ==
  ASSUME NEW w \in Seq(Cells), NEW first \in Nat, NEW end \in Nat, NEW count \in Nat,
         NEW o, Walks(w, o, first, count),
         NEW kids, kids = Children(w, first, end, count), kids.error = "none"
  PROVE  kids.at = o[count] /\ \A i \in 0 .. count - 1 : Cell(w, o[i] + 3) \in kids.seen
<1> DEFINE n == Rounds(w, count)
           At(c, i) == /\ c.at = o[i] /\ Reached(w, c.at, first, i)
                       /\ \A j \in 0 .. i - 1 : Cell(w, o[j] + 3) \in c.seen
           J == [i \in 0 .. n |-> {c \in ChildStates : c.error = "none" => At(c, i)}]
<1>1. n \in Nat /\ n <= count
  BY RoundsFew
<1>2. PICK s : /\ s[0] = [at |-> first, error |-> "none", seen |-> {}, text |-> [t \in TextTypes |-> <<>>]]
               /\ \A i \in 1 .. n : s[i] = ChildStep(w, end, s[i - 1])
               /\ \A i \in 0 .. n : s[i] \in ChildStates
               /\ kids = s[n]
  <2>1. PICK s : ChildRun(s, w, first, end, count)
    BY ChildrenRun
  <2> QED
    BY <2>1, Zenon DEF ChildRun
<1> HIDE DEF n
<1>3. s[0] \in J[0]
  <2>1. s[0] \in ChildStates
    BY <1>1, <1>2
  <2>2. At(s[0], 0)
    BY <1>2 DEF Walks, Reached
  <2> QED
    BY <1>1, <2>1, <2>2
<1>4. ASSUME NEW i \in 1 .. n, s[i - 1] \in J[i - 1] PROVE s[i] \in J[i]
  <2> DEFINE c == s[i - 1]
             error == MhodError(w, c.at, end)
  <2>1. i - 1 \in 0 .. n /\ i \in Nat /\ i > 0 /\ i \in 0 .. n /\ i \in 1 .. count
    BY <1>1
  <2>2. c \in ChildStates /\ (c.error = "none" => At(c, i - 1)) /\ s[i] \in ChildStates
    BY <1>2, <1>4, <2>1
  <2>3. s[i] = ChildStep(w, end, c)
    BY <1>2
  <2>4. c.at \in Nat
    BY <2>2 DEF ChildStates
  <2> SUFFICES ASSUME s[i].error = "none" PROVE At(s[i], i)
    BY <2>1, <2>2
  <2> HIDE DEF c, J, At
  <2>5. c.error = "none"
    BY <2>3 DEF ChildStep
  <2>6. error = "none" /\ s[i] = NextChild(w, c, Cell(w, c.at + 3), "none")
    <3> HIDE DEF error
    <3>1. s[i] = NextChild(w, c, Cell(w, c.at + 3), error)
      BY <2>3, <2>5 DEF ChildStep, error
    <3>2. error # "none" => s[i].error = error
      BY <2>2, <3>1 DEF NextChild, ChildStates
    <3> QED
      BY <3>1, <3>2
  <2>7. s[i].at = End(w, c.at) /\ s[i].seen = c.seen \cup {Cell(w, c.at + 3)}
    BY <2>2, <2>6 DEF NextChild, ChildStates, End
  <2>8. c.at + 6 <= End(w, c.at) /\ End(w, c.at) <= end /\ end <= Len(w)
    BY <2>4, <2>6, MhodSound
  <2>9. End(w, c.at) \in Nat /\ Len(w) \in Nat
    BY <2>4, CellType, LenProperties
  <2>10. c.at = o[i - 1] /\ Reached(w, c.at, first, i - 1)
         /\ \A j \in 0 .. i - 2 : Cell(w, o[j] + 3) \in c.seen
    BY <2>2, <2>5 DEF At
  <2>11. c.at + 3 <= End(w, c.at) /\ End(w, c.at) <= Len(w)
    BY <2>4, <2>8, <2>9
  <2>12. Reached(w, s[i].at, first, i)
    BY <2>1, <2>4, <2>7, <2>10, <2>11, ReachedNext
  <2>13. s[i].at = o[i]
    BY <2>1, <2>7, <2>10 DEF Walks
  <2>14. ASSUME NEW j \in 0 .. i - 1 PROVE Cell(w, o[j] + 3) \in s[i].seen
    <3>1. j = i - 1 \/ j \in 0 .. i - 2
      BY <2>1
    <3> QED
      BY <2>7, <2>10, <3>1
  <2> QED
    BY <2>12, <2>13, <2>14 DEF At
<1> HIDE DEF J
<1>5. \A i \in 0 .. n : s[i] \in J[i]
  BY <1>1, <1>3, <1>4, AllOf
<1>6. kids \in ChildStates /\ At(kids, n)
  BY <1>1, <1>2, <1>5 DEF J
<1>7. n = count
  BY <1>6, AllRounds DEF n, ChildStates
<1> QED
  BY <1>6, <1>7

LEMMA ItemsWalk ==
  ASSUME NEW w \in Seq(Cells), NEW first \in Nat, NEW end \in Nat, NEW count \in Nat,
         NEW o, Walks(w, o, first, count),
         NEW items, items = Items(w, first, end, count), items.error = "none"
  PROVE  items.at = o[count]
<1> DEFINE n == Rounds(w, count)
           At(c, i) == c.at = o[i] /\ Reached(w, c.at, first, i)
           J == [i \in 0 .. n |-> {c \in ItemStates : c.error = "none" => At(c, i)}]
<1>1. n \in Nat /\ n <= count
  BY RoundsFew
<1>2. PICK s : /\ s[0] = [at |-> first, error |-> "none", members |-> <<>>]
               /\ \A i \in 1 .. n : s[i] = ItemStep(w, end, s[i - 1])
               /\ \A i \in 0 .. n : s[i] \in ItemStates
               /\ items = s[n]
  <2>1. PICK s : ItemRun(s, w, first, end, count)
    BY ItemsRun
  <2> QED
    BY <2>1, Zenon DEF ItemRun
<1> HIDE DEF n
<1>3. s[0] \in J[0]
  <2>1. s[0] \in ItemStates
    BY <1>1, <1>2
  <2>2. At(s[0], 0)
    BY <1>2 DEF Walks, Reached
  <2> QED
    BY <1>1, <2>1, <2>2
<1>4. ASSUME NEW i \in 1 .. n, s[i - 1] \in J[i - 1] PROVE s[i] \in J[i]
  <2> DEFINE c == s[i - 1]
             envelope == EnvelopeError(w, c.at, end, 7, mhip)
             error == Or(envelope, IF Within(w, c.at, 7) THEN "none" ELSE "undefined")
  <2>1. i - 1 \in 0 .. n /\ i \in Nat /\ i > 0 /\ i \in 0 .. n /\ i \in 1 .. count
    BY <1>1
  <2>2. c \in ItemStates /\ (c.error = "none" => At(c, i - 1)) /\ s[i] \in ItemStates
    BY <1>2, <1>4, <2>1
  <2>3. s[i] = ItemStep(w, end, c)
    BY <1>2
  <2>4. c.at \in Nat
    BY <2>2 DEF ItemStates
  <2> SUFFICES ASSUME s[i].error = "none" PROVE At(s[i], i)
    BY <2>1, <2>2
  <2> HIDE DEF c, J, At
  <2>5. c.error = "none"
    BY <2>3 DEF ItemStep
  <2>6. error = "none" /\ s[i] = NextItem(w, c, "none")
    <3> HIDE DEF error
    <3>1. s[i] = NextItem(w, c, error)
      BY <2>3, <2>5 DEF ItemStep, error
    <3>2. error # "none" => s[i].error = error
      BY <2>2, <3>1 DEF NextItem, ItemStates
    <3> QED
      BY <3>1, <3>2
  <2>7. s[i].at = End(w, c.at)
    BY <2>2, <2>6 DEF NextItem, ItemStates, End
  <2>8. envelope = "none"
    BY <2>6 DEF Or
  <2>9. /\ c.at + 3 <= end /\ end <= Len(w) /\ 7 <= Header(w, c.at)
        /\ Header(w, c.at) <= Size(w, c.at) /\ End(w, c.at) <= end
    BY <2>4, <2>8, EnvelopeSound
  <2>10. /\ Header(w, c.at) \in Nat /\ Size(w, c.at) \in Nat /\ End(w, c.at) \in Nat
         /\ Len(w) \in Nat
    BY <2>4, CellType, LenProperties
  <2>11. c.at + 3 <= End(w, c.at) /\ End(w, c.at) <= Len(w)
    BY <2>4, <2>9, <2>10 DEF End
  <2>12. c.at = o[i - 1] /\ Reached(w, c.at, first, i - 1)
    BY <2>2, <2>5 DEF At
  <2>13. Reached(w, s[i].at, first, i)
    BY <2>1, <2>4, <2>7, <2>11, <2>12, ReachedNext
  <2>14. s[i].at = o[i]
    BY <2>1, <2>7, <2>12 DEF Walks
  <2> QED
    BY <2>13, <2>14 DEF At
<1> HIDE DEF J
<1>5. \A i \in 0 .. n : s[i] \in J[i]
  BY <1>1, <1>3, <1>4, AllOf
<1>6. items \in ItemStates /\ At(items, n)
  BY <1>1, <1>2, <1>5 DEF J
<1>7. n = count
  BY <1>6, AllRounds DEF n, ItemStates
<1> QED
  BY <1>6, <1>7

LEMMA StrangeTrackReported ==
  ASSUME NEW w \in Seq(Cells), NEW at \in Nat, NEW end \in Nat,
         NEW t, t = ParseTrack(w, at, end), t.error = "none"
  PROVE  /\ at + 3 <= End(w, at) /\ End(w, at) <= Len(w)
         /\ StrangeTrack(w, at) => t.opaque
<1> DEFINE fixed == IF Header(w, at) >= 30 THEN 30 ELSE 5
           envelope == EnvelopeError(w, at, end, 5, mhit)
           count == Cell(w, at + 3)
           kids == Children(w, Body(w, at), End(w, at), count)
           error == Or(envelope,
                IF ~Within(w, at, fixed) THEN "undefined"
                ELSE IF count > (End(w, at) - Body(w, at)) \div 6
                     THEN "count_exceeds_section" ELSE "none")
           o == Offsets(w, Body(w, at), count)
<1>1. /\ Header(w, at) \in Nat /\ Size(w, at) \in Nat /\ Body(w, at) \in Nat
      /\ End(w, at) \in Nat /\ Len(w) \in Nat /\ at + 3 \in Nat
  BY CellType, LenProperties
<1>2. count \in Nat
  BY <1>1, CellType
<1>3. t = Checked(error, TrackFrom(w, at, fixed, kids))
  BY DEF ParseTrack
<1>4. Walks(w, o, Body(w, at), count)
  BY <1>1, <1>2, OffsetsWalk
<1>5. StrangeTrack(w, at) =>
        \/ \E i \in 0 .. count - 1 : Cell(w, o[i] + 3) \notin TextTypes
        \/ o[count] # End(w, at)
  <2>1. count + 0 = count
    BY <1>2
  <2> QED
    BY <2>1 DEF StrangeTrack, Leftover
<1> HIDE DEF fixed, kids, error, o, count
<1>6. error = "none" /\ t = TrackFrom(w, at, fixed, kids)
  BY <1>3 DEF Checked, Failed
<1>7. /\ kids.error = "none"
      /\ t.opaque = (~(kids.seen \subseteq TextTypes) \/ kids.at # End(w, at))
  BY <1>6 DEF TrackFrom, Checked, Failed
<1>8. kids.at = o[count] /\ \A i \in 0 .. count - 1 : Cell(w, o[i] + 3) \in kids.seen
  BY <1>1, <1>2, <1>4, <1>7, ChildrenWalk DEF kids
<1>9. envelope = "none"
  BY <1>6 DEF error, Or
<1>10. /\ at + 3 <= end /\ end <= Len(w) /\ 5 <= Header(w, at)
       /\ Header(w, at) <= Size(w, at) /\ End(w, at) <= end
  BY <1>9, EnvelopeSound
<1>11. at + 3 <= End(w, at) /\ End(w, at) <= Len(w)
  <2>1. end \in Nat
    OBVIOUS
  <2> QED
    BY <1>1, <1>10, <2>1 DEF End
<1> QED
  BY <1>5, <1>7, <1>8, <1>11

LEMMA StrangePlaylistReported ==
  ASSUME NEW w \in Seq(Cells), NEW at \in Nat, NEW end \in Nat,
         NEW p, p = ParsePlaylist(w, at, end), p.error = "none"
  PROVE  /\ at + 3 <= End(w, at) /\ End(w, at) <= Len(w)
         /\ StrangePlaylist(w, at) => p.opaque
<1> DEFINE envelope == EnvelopeError(w, at, end, 9, mhyp)
           count == Cell(w, at + 3)
           others == Cell(w, at + 4)
           kids == Children(w, Body(w, at), End(w, at), count)
           items == Items(w, kids.at, End(w, at), others)
           error == Or(envelope,
                IF ~Within(w, at, 9) THEN "undefined"
                ELSE IF \/ count > (End(w, at) - Body(w, at)) \div 6
                        \/ others > (End(w, at) - Body(w, at)) \div 3
                     THEN "count_exceeds_section" ELSE "none")
           o == Offsets(w, Body(w, at), count + others)
           q == [i \in 0 .. others |-> o[count + i]]
<1>1. /\ Header(w, at) \in Nat /\ Size(w, at) \in Nat /\ Body(w, at) \in Nat
      /\ End(w, at) \in Nat /\ Len(w) \in Nat /\ at + 3 \in Nat /\ at + 4 \in Nat
  BY CellType, LenProperties
<1>2. count \in Nat /\ others \in Nat
  BY <1>1, CellType
<1>3. p = Checked(error, PlaylistFrom(w, at, kids, items))
  BY DEF ParsePlaylist
<1>4. StrangePlaylist(w, at) =>
        \/ \E i \in 0 .. count - 1 : Cell(w, o[i] + 3) \notin {1}
        \/ o[count + others] # End(w, at)
  BY DEF StrangePlaylist, Leftover
<1>5. Walks(w, o, Body(w, at), count + others)
  <2> HIDE DEF count, others
  <2>1. count + others \in Nat
    BY <1>2
  <2> QED
    BY <1>1, <2>1, OffsetsWalk
<1> HIDE DEF count, others, o
<1>6. Walks(w, o, Body(w, at), count)
  BY <1>2, <1>5 DEF Walks
<1>7. Walks(w, q, o[count], others)
  <2>1. q[0] = o[count]
    BY <1>2
  <2>2. ASSUME NEW i \in 1 .. others PROVE q[i] = End(w, q[i - 1])
    <3>1. count + i \in 1 .. count + others /\ (count + i) - 1 = count + (i - 1) /\ i - 1 \in 0 .. others
      BY <1>2
    <3>2. o[count + i] = End(w, o[count + (i - 1)])
      BY <1>5, <3>1 DEF Walks
    <3> QED
      BY <1>2, <3>1, <3>2
  <2> QED
    BY <2>1, <2>2 DEF Walks
<1>8. q[others] = o[count + others]
  BY <1>2
<1> HIDE DEF kids, items, error, q
<1>9. error = "none" /\ p = PlaylistFrom(w, at, kids, items)
  BY <1>3 DEF Checked, Failed
<1>10. /\ kids.error = "none" /\ items.error = "none"
       /\ p.opaque = (~(kids.seen \subseteq {1}) \/ items.at # End(w, at))
  BY <1>9 DEF PlaylistFrom, Checked, Failed, Or
<1>11. kids \in ChildStates
  BY <1>1, <1>2, ChildrenType DEF kids
<1>12. kids.at = o[count] /\ \A i \in 0 .. count - 1 : Cell(w, o[i] + 3) \in kids.seen
  BY <1>1, <1>2, <1>6, <1>10, ChildrenWalk DEF kids
<1>13. items.at = o[count + others]
  <2>1. kids.at \in Nat
    BY <1>11 DEF ChildStates
  <2>2. Walks(w, q, kids.at, others)
    BY <1>7, <1>12
  <2> QED
    BY <1>1, <1>2, <1>8, <1>10, <2>1, <2>2, ItemsWalk DEF items
<1>14. envelope = "none"
  BY <1>9 DEF error, Or
<1>15. /\ at + 3 <= end /\ end <= Len(w) /\ 9 <= Header(w, at)
       /\ Header(w, at) <= Size(w, at) /\ End(w, at) <= end
  BY <1>14, EnvelopeSound
<1>16. at + 3 <= End(w, at) /\ End(w, at) <= Len(w)
  <2>1. end \in Nat
    OBVIOUS
  <2> QED
    BY <1>1, <1>15, <2>1 DEF End
<1> QED
  BY <1>4, <1>10, <1>12, <1>13, <1>16

LEMMA TracksWalk ==
  ASSUME NEW w \in Seq(Cells), NEW set \in DatasetTypes, NEW k,
         NEW o, Walks(w, o, set.first, set.count),
         NEW r, r = Tracks(w, set, k), r.error = "none"
  PROVE  \A i \in 0 .. set.count - 1 : StrangeTrack(w, o[i]) => r.opaque
<1> DEFINE n == Rounds(w, set.count)
           At(c, i) == /\ c.at = o[i] /\ Reached(w, c.at, set.first, i)
                       /\ \A j \in 0 .. i - 1 : StrangeTrack(w, o[j]) => c.opaque
           J == [i \in 0 .. n |-> {c \in TrackStates : c.error = "none" => At(c, i)}]
<1>1. n \in Nat /\ n <= set.count /\ set.count \in Nat /\ set.first \in Nat /\ set.last \in Nat
  BY RoundsFew DEF DatasetTypes
<1>2. PICK s : /\ s[0] = [at |-> set.first, error |-> "none", values |-> <<>>, opaque |-> FALSE]
               /\ \A i \in 1 .. n : s[i] = TrackStep(w, set.last, k, s[i - 1])
               /\ \A i \in 0 .. n : s[i] \in TrackStates
               /\ r = Filling(s[n], set.last)
  BY TracksRun
<1> HIDE DEF n
<1>3. s[0] \in J[0]
  <2>1. s[0] \in TrackStates
    BY <1>1, <1>2
  <2>2. At(s[0], 0)
    <3>1. s[0].at = o[0] /\ s[0].at = set.first
      BY <1>2 DEF Walks
    <3>2. Reached(w, set.first, set.first, 0)
      BY <1>1 DEF Reached
    <3>3. 0 .. 0 - 1 = {}
      OBVIOUS
    <3> QED
      BY <3>1, <3>2, <3>3
  <2> QED
    BY <1>1, <2>1, <2>2
<1>4. ASSUME NEW i \in 1 .. n, s[i - 1] \in J[i - 1] PROVE s[i] \in J[i]
  <2> DEFINE c == s[i - 1]
             x == ParseTrack(w, c.at, set.last)
             error == Or(x.error, TrackHeaderError(w, c.at, k))
  <2>1. i - 1 \in 0 .. n /\ i \in Nat /\ i > 0 /\ i \in 0 .. n /\ i \in 1 .. set.count
    BY <1>1
  <2>2. c \in TrackStates /\ (c.error = "none" => At(c, i - 1)) /\ s[i] \in TrackStates
    BY <1>2, <1>4, <2>1
  <2>3. s[i] = TrackStep(w, set.last, k, c)
    BY <1>2
  <2>4. c.at \in Nat
    BY <2>2 DEF TrackStates
  <2> SUFFICES ASSUME s[i].error = "none" PROVE At(s[i], i)
    BY <2>1, <2>2
  <2> HIDE DEF c, J, At, x
  <2>5. c.error = "none"
    BY <2>3 DEF TrackStep
  <2>6. s[i] = NextTrack(w, c, x, k)
    BY <2>3, <2>5 DEF TrackStep, x
  <2>7. error = "none" /\ x.error = "none"
    <3>1. error # "none" => s[i].error = error
      BY <2>2, <2>6 DEF NextTrack, TrackStates
    <3> QED
      BY <3>1 DEF Or
  <2>8. s[i].at = End(w, c.at) /\ (c.opaque \/ x.opaque => s[i].opaque)
    BY <2>2, <2>6, <2>7 DEF NextTrack, TrackStates
  <2>9. /\ c.at + 3 <= End(w, c.at) /\ End(w, c.at) <= Len(w)
        /\ StrangeTrack(w, c.at) => x.opaque
    BY <1>1, <2>4, <2>7, StrangeTrackReported DEF x
  <2>10. c.at = o[i - 1] /\ Reached(w, c.at, set.first, i - 1)
         /\ \A j \in 0 .. i - 2 : StrangeTrack(w, o[j]) => c.opaque
    BY <2>2, <2>5 DEF At
  <2>11. Reached(w, s[i].at, set.first, i)
    BY <1>1, <2>1, <2>4, <2>8, <2>9, <2>10, ReachedNext
  <2>12. s[i].at = o[i]
    BY <2>1, <2>8, <2>10 DEF Walks
  <2>13. ASSUME NEW j \in 0 .. i - 1, StrangeTrack(w, o[j]) PROVE s[i].opaque
    <3>1. j = i - 1 \/ j \in 0 .. i - 2
      BY <2>1
    <3> QED
      BY <2>8, <2>9, <2>10, <2>13, <3>1
  <2> QED
    BY <2>11, <2>12, <2>13 DEF At
<1> HIDE DEF J
<1>5. \A i \in 0 .. n : s[i] \in J[i]
  BY <1>1, <1>3, <1>4, AllOf
<1>6. r = s[n] /\ r \in TrackStates
  BY <1>1, <1>2 DEF Filling, TrackStates
<1>7. At(r, n)
  BY <1>1, <1>5, <1>6 DEF J
<1>8. n = set.count
  BY <1>1, <1>6, <1>7, AllRounds DEF n, TrackStates
<1> QED
  BY <1>7, <1>8

LEMMA PlaylistsWalk ==
  ASSUME NEW w \in Seq(Cells), NEW set \in DatasetTypes, NEW k,
         NEW o, Walks(w, o, set.first, set.count),
         NEW r, r = Playlists(w, set, k), r.error = "none"
  PROVE  \A i \in 0 .. set.count - 1 : StrangePlaylist(w, o[i]) => r.opaque
<1> DEFINE n == Rounds(w, set.count)
           At(c, i) == /\ c.at = o[i] /\ Reached(w, c.at, set.first, i)
                       /\ \A j \in 0 .. i - 1 : StrangePlaylist(w, o[j]) => c.opaque
           J == [i \in 0 .. n |-> {c \in PlaylistStates : c.error = "none" => At(c, i)}]
<1>1. n \in Nat /\ n <= set.count /\ set.count \in Nat /\ set.first \in Nat /\ set.last \in Nat
  BY RoundsFew DEF DatasetTypes
<1>2. PICK s : /\ s[0] = [at |-> set.first, error |-> "none", values |-> <<>>, master |-> <<>>,
                       opaque |-> FALSE]
               /\ \A i \in 1 .. n : s[i] = PlaylistStep(w, set.last, k, s[i - 1])
               /\ \A i \in 0 .. n : s[i] \in PlaylistStates
               /\ r = Filling(s[n], set.last)
  BY PlaylistsRun
<1> HIDE DEF n
<1>3. s[0] \in J[0]
  <2>1. s[0] \in PlaylistStates
    BY <1>1, <1>2
  <2>2. At(s[0], 0)
    <3>1. s[0].at = o[0] /\ s[0].at = set.first
      BY <1>2 DEF Walks
    <3>2. Reached(w, set.first, set.first, 0)
      BY <1>1 DEF Reached
    <3>3. 0 .. 0 - 1 = {}
      OBVIOUS
    <3> QED
      BY <3>1, <3>2, <3>3
  <2> QED
    BY <1>1, <2>1, <2>2
<1>4. ASSUME NEW i \in 1 .. n, s[i - 1] \in J[i - 1] PROVE s[i] \in J[i]
  <2> DEFINE c == s[i - 1]
             x == ParsePlaylist(w, c.at, set.last)
             error == PlaylistError(w, c, x, k)
  <2>1. i - 1 \in 0 .. n /\ i \in Nat /\ i > 0 /\ i \in 0 .. n /\ i \in 1 .. set.count
    BY <1>1
  <2>2. c \in PlaylistStates /\ (c.error = "none" => At(c, i - 1)) /\ s[i] \in PlaylistStates
    BY <1>2, <1>4, <2>1
  <2>3. s[i] = PlaylistStep(w, set.last, k, c)
    BY <1>2
  <2>4. c.at \in Nat
    BY <2>2 DEF PlaylistStates
  <2> SUFFICES ASSUME s[i].error = "none" PROVE At(s[i], i)
    BY <2>1, <2>2
  <2> HIDE DEF c, J, At, x
  <2>5. c.error = "none"
    BY <2>3 DEF PlaylistStep
  <2>6. s[i] = NextPlaylist(w, c, x, error)
    BY <2>3, <2>5 DEF PlaylistStep, x
  <2>7. error = "none" /\ x.error = "none"
    <3>1. error # "none" => s[i].error = error
      BY <2>2, <2>6 DEF NextPlaylist, PlaylistStates
    <3> QED
      BY <3>1 DEF Or, PlaylistError
  <2>8. s[i].at = End(w, c.at) /\ (c.opaque \/ x.opaque => s[i].opaque)
    BY <2>2, <2>6, <2>7 DEF NextPlaylist, PlaylistStates
  <2>9. /\ c.at + 3 <= End(w, c.at) /\ End(w, c.at) <= Len(w)
        /\ StrangePlaylist(w, c.at) => x.opaque
    BY <1>1, <2>4, <2>7, StrangePlaylistReported DEF x
  <2>10. c.at = o[i - 1] /\ Reached(w, c.at, set.first, i - 1)
         /\ \A j \in 0 .. i - 2 : StrangePlaylist(w, o[j]) => c.opaque
    BY <2>2, <2>5 DEF At
  <2>11. Reached(w, s[i].at, set.first, i)
    BY <1>1, <2>1, <2>4, <2>8, <2>9, <2>10, ReachedNext
  <2>12. s[i].at = o[i]
    BY <2>1, <2>8, <2>10 DEF Walks
  <2>13. ASSUME NEW j \in 0 .. i - 1, StrangePlaylist(w, o[j]) PROVE s[i].opaque
    <3>1. j = i - 1 \/ j \in 0 .. i - 2
      BY <2>1
    <3> QED
      BY <2>8, <2>9, <2>10, <2>13, <3>1
  <2> QED
    BY <2>11, <2>12, <2>13 DEF At
<1> HIDE DEF J
<1>5. \A i \in 0 .. n : s[i] \in J[i]
  BY <1>1, <1>3, <1>4, AllOf
<1>6. r = s[n] /\ r \in PlaylistStates
  BY <1>1, <1>2 DEF Filling, PlaylistStates
<1>7. At(r, n)
  BY <1>1, <1>5, <1>6 DEF J
<1>8. n = set.count
  BY <1>1, <1>6, <1>7, AllRounds DEF n, PlaylistStates
<1> QED
  BY <1>7, <1>8

\* The dataset at s, as the reader notes it.
DatasetAt(w, s) == [type |-> Cell(w, s + 3), count |-> CountIn(w, s),
                first |-> Body(w, Body(w, s)), last |-> End(w, s)]

LEMMA DatasetsWalk ==
  ASSUME NEW w \in Seq(Cells), NEW k,
         NEW o, Walks(w, o, Header(w, 0), Cell(w, 5)),
         NEW found, found = Datasets(w, k), found.error = "none"
  PROVE  /\ found.at = o[Cell(w, 5)] /\ Len(found.sets) = Cell(w, 5)
         /\ \A i \in 0 .. Cell(w, 5) - 1 : found.sets[i + 1] = DatasetAt(w, o[i])
<1> DEFINE n == Rounds(w, Cell(w, 5))
           first == Header(w, 0)
           At(d, i) == /\ d.at = o[i] /\ Reached(w, d.at, first, i) /\ Len(d.sets) = i
                       /\ \A j \in 0 .. i - 1 : d.sets[j + 1] = DatasetAt(w, o[j])
           J == [i \in 0 .. n |-> {d \in DatasetStates : d.error = "none" => At(d, i)}]
<1>1. n \in Nat /\ n <= Cell(w, 5) /\ Cell(w, 5) \in Nat /\ first \in Nat /\ Size(w, 0) \in Nat
  BY RoundsFew, CellType
<1>2. PICK s : /\ s[0] = [at |-> Header(w, 0), error |-> "none", sets |-> <<>>]
               /\ \A i \in 1 .. n : s[i] = DatasetStep(w, k, s[i - 1])
               /\ \A i \in 0 .. n : s[i] \in DatasetStates
               /\ found = s[n]
  BY DatasetsRun
<1> HIDE DEF n
<1>3. s[0] \in J[0]
  <2>1. s[0] \in DatasetStates
    BY <1>1, <1>2
  <2>2. At(s[0], 0)
    <3>1. s[0].at = o[0] /\ s[0].at = first /\ s[0].sets = <<>>
      BY <1>2 DEF Walks
    <3>2. Reached(w, first, first, 0)
      <4> HIDE DEF first
      <4> QED
        BY <1>1 DEF Reached
    <3>3. 0 .. 0 - 1 = {} /\ Len(<<>>) = 0
      OBVIOUS
    <3> HIDE DEF first
    <3> QED
      BY <3>1, <3>2, <3>3
  <2> QED
    BY <1>1, <2>1, <2>2
<1>4. ASSUME NEW i \in 1 .. n, s[i - 1] \in J[i - 1] PROVE s[i] \in J[i]
  <2> DEFINE d == s[i - 1]
             error == DatasetError(w, d.at, Size(w, 0), k)
             envelope == EnvelopeError(w, d.at, Size(w, 0), 4, mhsd)
             set == DatasetAt(w, d.at)
  <2>1. i - 1 \in 0 .. n /\ i \in Nat /\ i > 0 /\ i \in 0 .. n /\ i \in 1 .. Cell(w, 5)
    BY <1>1
  <2>2. d \in DatasetStates /\ (d.error = "none" => At(d, i - 1)) /\ s[i] \in DatasetStates
    BY <1>2, <1>4, <2>1
  <2>3. s[i] = DatasetStep(w, k, d)
    BY <1>2
  <2>4. d.at \in Nat /\ d.sets \in Seq(DatasetTypes)
    BY <2>2 DEF DatasetStates
  <2> SUFFICES ASSUME s[i].error = "none" PROVE At(s[i], i)
    BY <2>1, <2>2
  <2> HIDE DEF d, J, At, set
  <2>5. d.error = "none"
    BY <2>3 DEF DatasetStep
  <2>6. error = "none" /\ s[i] = NextDataset(w, d, Body(w, d.at), "none")
    <3> HIDE DEF error
    <3>1. s[i] = NextDataset(w, d, Body(w, d.at), error)
      BY <2>3, <2>5 DEF DatasetStep, error
    <3>2. error # "none" => s[i].error = error
      BY <2>2, <3>1 DEF NextDataset, DatasetStates
    <3> QED
      BY <3>1, <3>2
  <2>7. s[i].at = End(w, d.at) /\ s[i].sets = Append(d.sets, set)
    BY <2>2, <2>6 DEF NextDataset, DatasetStates, DatasetAt, CountIn, set
  <2>8. envelope = "none"
    BY <2>6 DEF DatasetError, Or
  <2>9. /\ d.at + 3 <= Size(w, 0) /\ Size(w, 0) <= Len(w) /\ 4 <= Header(w, d.at)
        /\ Header(w, d.at) <= Size(w, d.at) /\ End(w, d.at) <= Size(w, 0)
    BY <1>1, <2>4, <2>8, EnvelopeSound
  <2>10. /\ Header(w, d.at) \in Nat /\ Size(w, d.at) \in Nat /\ End(w, d.at) \in Nat
         /\ Len(w) \in Nat
    BY <2>4, CellType, LenProperties
  <2>11. d.at + 3 <= End(w, d.at) /\ End(w, d.at) <= Len(w)
    BY <1>1, <2>4, <2>9, <2>10 DEF End
  <2>12. /\ d.at = o[i - 1] /\ Reached(w, d.at, first, i - 1) /\ Len(d.sets) = i - 1
         /\ \A j \in 0 .. i - 2 : d.sets[j + 1] = DatasetAt(w, o[j])
    BY <2>2, <2>5 DEF At
  <2>13. Reached(w, s[i].at, first, i)
    BY <1>1, <2>1, <2>4, <2>7, <2>11, <2>12, ReachedNext
  <2>14. s[i].at = o[i]
    BY <2>1, <2>7, <2>12 DEF Walks
  <2>15. /\ Len(Append(d.sets, set)) = i /\ Append(d.sets, set)[i] = set
         /\ \A j \in 1 .. i - 1 : Append(d.sets, set)[j] = d.sets[j]
    <3>1. Len(d.sets) + 1 = i
      BY <2>1, <2>12
    <3> QED
      BY <2>4, <2>12, <3>1, AppendProperties
  <2>16. ASSUME NEW j \in 0 .. i - 1 PROVE s[i].sets[j + 1] = DatasetAt(w, o[j])
    <3>1. CASE j = i - 1
      BY <2>1, <2>7, <2>12, <2>15, <3>1 DEF set
    <3>2. CASE j # i - 1
      <4>1. j \in 0 .. i - 2 /\ j + 1 \in 1 .. i - 1
        BY <2>1, <3>2
      <4> QED
        BY <2>7, <2>12, <2>15, <4>1
    <3> QED
      BY <3>1, <3>2
  <2> QED
    BY <2>7, <2>13, <2>14, <2>15, <2>16 DEF At
<1> HIDE DEF J
<1>5. \A i \in 0 .. n : s[i] \in J[i]
  BY <1>1, <1>3, <1>4, AllOf
<1>6. found \in DatasetStates /\ At(found, n)
  BY <1>1, <1>2, <1>5 DEF J
<1>7. n = Cell(w, 5)
  BY <1>1, <1>6, AllRounds DEF n, DatasetStates
<1> QED
  BY <1>6, <1>7

LEMMA ChosenFirst ==
  ASSUME NEW sets \in Seq(DatasetTypes), NEW types \in Seq(Nat), NEW c \in 1 .. Len(types),
         NEW i \in 1 .. Len(sets), sets[i].type = types[c],
         \A j \in 1 .. i - 1 : sets[j].type # types[c],
         \A b \in 1 .. c - 1 : \A j \in DOMAIN sets : sets[j].type # types[b]
  PROVE  Chosen(sets, types) = <<sets[i]>>
<1> DEFINE has(t) == \E j \in DOMAIN sets : sets[j].type = t
           T == {b \in 1 .. Len(types) : has(types[b])}
           type == IF T # {} THEN Min(T) ELSE 0
           S == {j \in 1 .. Len(sets) : sets[j].type = types[type]}
           first == IF S # {} THEN Min(S) ELSE 0
<1>1. Chosen(sets, types) = IF type = 0 THEN <<>> ELSE <<sets[first]>>
  BY DEF Chosen, SelectInSeq
<1>2. T \in SUBSET Nat /\ S \in SUBSET Nat /\ DOMAIN sets = 1 .. Len(sets)
      /\ Len(sets) \in Nat /\ Len(types) \in Nat
  BY LenProperties
<1>3. c \in T /\ \A b \in 1 .. c - 1 : b \notin T
  BY <1>2
<1>4. T # {} /\ Min(T) \in T /\ Min(T) <= c
  BY <1>2, <1>3, MinIn
<1>5. type = c
  <2>1. type \in T /\ type <= c /\ type \in 1 .. Len(types)
    BY <1>4
  <2> HIDE DEF T, type
  <2> QED
    BY <1>2, <1>3, <2>1
<1> HIDE DEF T, type
<1>6. i \in S /\ \A j \in 1 .. i - 1 : j \notin S
  BY <1>2, <1>5
<1>7. S # {} /\ Min(S) \in S /\ Min(S) <= i
  BY <1>2, <1>6, MinIn
<1>8. first = i
  <2>1. first \in S /\ first <= i /\ first \in 1 .. Len(sets)
    BY <1>7
  <2> HIDE DEF S, first
  <2> QED
    BY <1>2, <1>6, <2>1
<1> HIDE DEF S, first
<1> QED
  BY <1>1, <1>2, <1>5, <1>8

\* Of every file that is read without an error: what is not understood is in the
\* one flag the writer asks.
LEMMA ReadReports ==
  ASSUME NEW w \in Seq(Cells), NEW k \in Kinds, NEW key,
         NEW r, r = Read(w, k, key), r.error = "none", UnknownData(w)
  PROVE  r.doc.opaque
<1> DEFINE n == Cell(w, 5)
           o == Offsets(w, Header(w, 0), n)
           type(i) == Cell(w, o[i] + 3)
           Is(i, t) == type(i) = t /\ \A j \in 0 .. i - 1 : type(j) # t
           listed == IF \E i \in 0 .. n - 1 : type(i) = 2 THEN 2 ELSE 3
           found == Datasets(w, k)
           sets == found.sets
           one == Chosen(sets, <<1>>)
           two == Chosen(sets, <<2, 3>>)
           t == IF one = <<>> THEN NoTracks ELSE Tracks(w, one[1], k)
           p == IF two = <<>> THEN NoPlaylists ELSE Playlists(w, two[1], k)
           error == Or(found.error,
                   IF k = "hash58" /\ ~IsPrefix(<<4, 1, 3, 2>>,
                                                [i \in DOMAIN found.sets |-> found.sets[i].type])
                   THEN "unsupported_signed_profile" ELSE "none")
<1>1. /\ n \in Nat /\ Header(w, 0) \in Nat
      /\ Walks(w, o, Header(w, 0), n) /\ \A i \in 0 .. n : o[i] \in Nat
  BY CellType, OffsetsWalk
<1>2. \/ Size(w, 0) # Len(w) \/ o[n] # Size(w, 0)
      \/ \E i \in 0 .. n - 1 :
           \/ type(i) \notin 1 .. 3 /\ ~(type(i) = 4 /\ CountIn(w, o[i]) = 0)
           \/ Is(i, 1) /\ \E a \in RecordsIn(w, o[i]) : StrangeTrack(w, a)
           \/ Is(i, listed) /\ \E a \in RecordsIn(w, o[i]) : StrangePlaylist(w, a)
  BY DEF UnknownData
<1>3. r = Checked(RootError(w, k), Checked(error, Document(w, k, key, found, t, p)))
  BY DEF Read, Contents
<1> HIDE DEF found, one, two, t, p, error, o, n
<1>4. error = "none" /\ r = Document(w, k, key, found, t, p)
  BY <1>3 DEF Checked, Failed
<1>5. /\ t.error = "none" /\ p.error = "none"
      /\ r.doc.opaque = \/ t.opaque \/ p.opaque \/ found.at # Size(w, 0) \/ Size(w, 0) # Len(w)
                        \/ \E i \in DOMAIN sets : Preserved(sets[i])
  <2> DEFINE flag == \/ t.opaque \/ p.opaque \/ found.at # Size(w, 0) \/ Size(w, 0) # Len(w)
                     \/ \E i \in DOMAIN found.sets : Preserved(found.sets[i])
             whole == [kind |-> k, original |-> w, modified |-> FALSE, opaque |-> flag,
                       signature |-> SignatureState(w, k, key),
                       model |-> [pid |-> Id(w, 6), tracks |-> t.values, master |-> p.master,
                                  lists |-> p.values]]
  <2>1. r = Checked(Or(t.error, p.error), [error |-> "none", doc |-> whole])
    BY <1>4 DEF Document
  <2>2. whole.opaque = flag
    OBVIOUS
  <2> HIDE DEF whole
  <2>3. t.error = "none" /\ p.error = "none"
    BY <2>1 DEF Checked, Failed, Or
  <2>4. r.doc = whole
    BY <2>1, <2>3 DEF Checked, Or
  <2> QED
    BY <2>2, <2>3, <2>4
<1>6. found.error = "none" /\ found \in DatasetStates
  BY <1>4, DatasetsType DEF error, Or, found
<1>7. /\ found.at = o[n] /\ Len(sets) = n
      /\ \A i \in 0 .. n - 1 : sets[i + 1] = DatasetAt(w, o[i])
  BY <1>1, <1>6, DatasetsWalk DEF found, n
<1>8. sets \in Seq(DatasetTypes) /\ DOMAIN sets = 1 .. n
  BY <1>6, <1>7, LenProperties DEF DatasetStates
<1>9. \A j \in 1 .. n : j - 1 \in 0 .. n - 1 /\ sets[j] = DatasetAt(w, o[j - 1])
  <2>1. ASSUME NEW j \in 1 .. n PROVE j - 1 \in 0 .. n - 1 /\ sets[j] = DatasetAt(w, o[j - 1])
    <3>1. j - 1 \in 0 .. n - 1 /\ (j - 1) + 1 = j
      BY <1>1
    <3>2. sets[(j - 1) + 1] = DatasetAt(w, o[j - 1])
      BY <1>7, <3>1
    <3> QED
      BY <3>1, <3>2
  <2> QED
    BY <2>1
<1>10. ASSUME NEW j \in 1 .. n PROVE sets[j].type = type(j - 1)
  <2>1. sets[j] = DatasetAt(w, o[j - 1])
    BY <1>9
  <2> QED
    BY <2>1 DEF DatasetAt
<1> HIDE DEF sets
\* The records of a dataset that is chosen are those the loops go through.
<1> DEFINE Passes(set, a) == \E at, j : /\ Walks(w, at, set.first, set.count)
                                         /\ j \in 0 .. set.count - 1 /\ a = at[j]
<1>11. ASSUME NEW i \in 0 .. n - 1, NEW a \in RecordsIn(w, o[i])
       PROVE  Passes(DatasetAt(w, o[i]), a)
  <2>1. o[i] \in Nat
    BY <1>1
  <2>2. Body(w, o[i]) \in Nat
    BY <2>1, CellType
  <2>3. Body(w, Body(w, o[i])) \in Nat /\ Body(w, o[i]) + 2 \in Nat
    <3> DEFINE body == Body(w, o[i])
    <3> HIDE DEF body
    <3>1. body \in Nat
      BY <2>2 DEF body
    <3>2. Body(w, body) \in Nat
      BY <3>1, CellType
    <3>3. body + 2 \in Nat
      BY <3>1
    <3> QED
      BY <3>2, <3>3 DEF body
  <2>4. CountIn(w, o[i]) \in Nat
    BY <2>3, CellType DEF CountIn
  <2> DEFINE at == Offsets(w, Body(w, Body(w, o[i])), CountIn(w, o[i]))
  <2>5. Walks(w, at, Body(w, Body(w, o[i])), CountIn(w, o[i]))
    BY <2>3, <2>4, OffsetsWalk
  <2>6. \E j \in 0 .. CountIn(w, o[i]) - 1 : a = at[j]
    BY DEF RecordsIn
  <2> DEFINE set == DatasetAt(w, o[i])
  <2>7. set.first = Body(w, Body(w, o[i])) /\ set.count = CountIn(w, o[i])
    BY DEF DatasetAt
  <2> HIDE DEF at, set
  <2>8. Passes(set, a)
    BY <2>5, <2>6, <2>7
  <2> QED
    BY <2>8 DEF set
<1>12. CASE Size(w, 0) # Len(w) \/ o[n] # Size(w, 0)
  BY <1>5, <1>7, <1>12
<1>13. ASSUME NEW i \in 0 .. n - 1, type(i) \notin 1 .. 3, ~(type(i) = 4 /\ CountIn(w, o[i]) = 0)
       PROVE  r.doc.opaque
  <2>1. i + 1 \in DOMAIN sets /\ sets[i + 1] = DatasetAt(w, o[i])
    BY <1>1, <1>7, <1>8 DEF sets
  <2>2. Preserved(sets[i + 1])
    BY <1>13, <2>1 DEF Preserved, DatasetAt
  <2> QED
    BY <1>5, <2>1, <2>2 DEF sets
<1>14. ASSUME NEW i \in 0 .. n - 1, Is(i, 1), NEW a \in RecordsIn(w, o[i]), StrangeTrack(w, a)
       PROVE  r.doc.opaque
  <2> DEFINE set == sets[i + 1]
  <2>1. /\ i + 1 \in 1 .. n /\ set = DatasetAt(w, o[i]) /\ set \in DatasetTypes /\ set.type = 1
        /\ \A j \in 1 .. (i + 1) - 1 : sets[j].type # 1
    <3>1. i + 1 \in 1 .. n /\ set = DatasetAt(w, o[i])
      BY <1>1, <1>7 DEF sets
    <3>2. set \in DatasetTypes
      <4>1. Len(sets) = n
        BY <1>7 DEF sets
      <4> QED
        BY <1>8, <3>1, <4>1, ElementOfSeq
    <3>3. set.type = 1
      BY <1>14, <3>1 DEF DatasetAt
    <3>4. ASSUME NEW j \in 1 .. (i + 1) - 1 PROVE sets[j].type # 1
      <4>1. j \in 1 .. n /\ j - 1 \in 0 .. i - 1
        BY <1>1
      <4> QED
        BY <1>10, <1>14, <4>1
    <3> QED
      BY <3>1, <3>2, <3>3, <3>4
  <2>2. one = <<set>>
    <3> DEFINE types == <<1>>
               at == i + 1
    <3>1. types \in Seq(Nat) /\ 1 \in 1 .. Len(types) /\ types[1] = 1 /\ 1 .. 1 - 1 = {}
      OBVIOUS
    <3>2. Len(sets) = n
      BY <1>7 DEF sets
    <3> HIDE DEF types, at, Is
    <3>3. at \in 1 .. Len(sets) /\ sets[at].type = types[1]
      BY <2>1, <3>1, <3>2 DEF at
    <3>4. \A j \in 1 .. at - 1 : sets[j].type # types[1]
      BY <2>1, <3>1 DEF at
    <3>5. \A b \in 1 .. 1 - 1 : \A j \in DOMAIN sets : sets[j].type # types[b]
      BY <3>1
    <3>6. sets \in Seq(DatasetTypes)
      BY <1>8
    <3>7. Chosen(sets, types) = <<sets[at]>>
      BY <3>1, <3>3, <3>4, <3>5, <3>6, ChosenFirst
    <3> QED
      BY <3>7 DEF one, types, at
  <2> HIDE DEF set
  <2>3. t = Tracks(w, set, k)
    <3>1. one # <<>> /\ one[1] = set
      BY <2>2
    <3> QED
      BY <3>1 DEF t
  <2>4. PICK at, j : /\ Walks(w, at, set.first, set.count) /\ j \in 0 .. set.count - 1
                     /\ a = at[j]
    <3> HIDE DEF Passes
    <3>1. Passes(DatasetAt(w, o[i]), a)
      BY <1>11
    <3>2. Passes(set, a)
      BY <2>1, <3>1
    <3> QED
      BY <3>2 DEF Passes
  <2>5. t.opaque
    BY <1>5, <1>14, <2>1, <2>3, <2>4, TracksWalk
  <2> QED
    BY <1>5, <2>5
<1>15. ASSUME NEW i \in 0 .. n - 1, Is(i, listed), NEW a \in RecordsIn(w, o[i]), StrangePlaylist(w, a)
       PROVE  r.doc.opaque
  <2> DEFINE set == sets[i + 1]
             c == IF listed = 2 THEN 1 ELSE 2
  <2>1. /\ i + 1 \in 1 .. n /\ set = DatasetAt(w, o[i]) /\ set \in DatasetTypes /\ set.type = listed
        /\ \A j \in 1 .. (i + 1) - 1 : sets[j].type # listed
    <3>1. i + 1 \in 1 .. n /\ set = DatasetAt(w, o[i])
      BY <1>1, <1>7 DEF sets
    <3>2. set \in DatasetTypes
      <4>1. Len(sets) = n
        BY <1>7 DEF sets
      <4> QED
        BY <1>8, <3>1, <4>1, ElementOfSeq
    <3>3. set.type = listed
      <4> HIDE DEF listed
      <4> QED
        BY <1>15, <3>1 DEF DatasetAt
    <3>4. ASSUME NEW j \in 1 .. (i + 1) - 1 PROVE sets[j].type # listed
      <4>1. j \in 1 .. n /\ j - 1 \in 0 .. i - 1
        BY <1>1
      <4> HIDE DEF listed
      <4> QED
        BY <1>10, <1>15, <4>1
    <3> QED
      BY <3>1, <3>2, <3>3, <3>4
  <2>2. two = <<set>>
    <3>1. /\ <<2, 3>> \in Seq(Nat) /\ c \in 1 .. Len(<<2, 3>>) /\ <<2, 3>>[c] = listed
      OBVIOUS
    <3>2. Len(sets) = n
      BY <1>7 DEF sets
    <3>3. \A b \in 1 .. c - 1 : \A j \in DOMAIN sets : sets[j].type # <<2, 3>>[b]
      <4>1. ASSUME listed # 2, NEW j \in 1 .. n PROVE sets[j].type # 2
        <5>1. j - 1 \in 0 .. n - 1
          BY <1>9
        <5> QED
          BY <1>10, <4>1, <5>1
      <4>2. ASSUME NEW b \in 1 .. c - 1 PROVE listed # 2 /\ b = 1
        OBVIOUS
      <4>3. <<2, 3>>[1] = 2
        OBVIOUS
      <4> HIDE DEF listed, c
      <4> QED
        BY <1>8, <4>1, <4>2, <4>3 DEF sets
    <3> DEFINE types == <<2, 3>>
               at == i + 1
    <3> HIDE DEF types, at, Is, c, listed
    <3>4. types \in Seq(Nat) /\ c \in 1 .. Len(types) /\ types[c] = listed
      BY <3>1 DEF types
    <3>5. at \in 1 .. Len(sets) /\ sets[at].type = types[c]
      BY <2>1, <3>2, <3>4 DEF at
    <3>6. \A j \in 1 .. at - 1 : sets[j].type # types[c]
      BY <2>1, <3>4 DEF at
    <3>7. \A b \in 1 .. c - 1 : \A j \in DOMAIN sets : sets[j].type # types[b]
      BY <3>3 DEF types
    <3>8. sets \in Seq(DatasetTypes)
      BY <1>8
    <3>9. Chosen(sets, types) = <<sets[at]>>
      BY <3>4, <3>5, <3>6, <3>7, <3>8, ChosenFirst
    <3> QED
      BY <3>9 DEF two, types, at
  <2> HIDE DEF set, c, listed
  <2>3. p = Playlists(w, set, k)
    <3>1. two # <<>> /\ two[1] = set
      BY <2>2
    <3> QED
      BY <3>1 DEF p
  <2>4. PICK at, j : /\ Walks(w, at, set.first, set.count) /\ j \in 0 .. set.count - 1
                     /\ a = at[j]
    <3> HIDE DEF Passes
    <3>1. Passes(DatasetAt(w, o[i]), a)
      BY <1>11
    <3>2. Passes(set, a)
      BY <2>1, <3>1
    <3> QED
      BY <3>2 DEF Passes
  <2>5. p.opaque
    BY <1>5, <1>15, <2>1, <2>3, <2>4, PlaylistsWalk
  <2> QED
    BY <1>5, <2>5
<1> HIDE DEF Is, type, listed
<1> QED
  BY <1>2, <1>12, <1>13, <1>14, <1>15

-----------------------------------------------------------------------------
(* Concatenations.                                                         *)

\* FlattenSeq as the last of its prefixes: f[i] is what the first i parts make.
Joined(f, s, S) ==
  /\ f \in [0 .. Len(s) -> Seq(S)]
  /\ f[0] = <<>>
  /\ \A i \in 1 .. Len(s) : f[i] = f[i - 1] \o s[i]

LEMMA Flattening ==
  ASSUME NEW S, NEW s \in Seq(Seq(S))
  PROVE  \E f : Joined(f, s, S) /\ FlattenSeq(s) = f[Len(s)]
<1> DEFINE n == Len(s)
<1>1. n \in Nat /\ \A i \in 1 .. n : s[i] \in Seq(S)
  BY LenProperties, ElementOfSeq
<1>2. CASE n = 0
  <2> DEFINE f == [i \in 0 .. 0 |-> <<>>]
  <2>1. s = <<>>
    BY <1>2, EmptySeq
  <2>2. FlattenSeq(s) = <<>>
    BY <1>2, <2>1 DEF FlattenSeq
  <2>3. f \in [0 .. n -> Seq(S)] /\ f[0] = <<>>
    BY <1>2, EmptySeq
  <2>4. Joined(f, s, S)
    BY <1>2, <2>3 DEF Joined
  <2> HIDE DEF f
  <2> QED
    BY <1>2, <2>2, <2>3, <2>4
<1>3. CASE n # 0
  <2> DEFINE IsRun(f) == f = [i \in 1 .. n |-> IF i = 1 THEN s[i] ELSE f[i - 1] \o s[i]]
             F == [p \in Seq(S) \X (1 .. n) |-> p[1] \o s[p[2]]]
             flatten == CHOOSE f : IsRun(f)
  <2>1. FlattenSeq(s) = flatten[n]
    BY <1>3 DEF FlattenSeq
  <2> HIDE DEF n
  <2>2. <<>> \in Seq(S) /\ \A c \in Seq(S), i \in 1 .. n : F[<<c, i>>] \in Seq(S)
    BY <1>1, EmptySeq, ConcatProperties
  <2>3. PICK g : Iterates(g, F, <<>>, n) /\ \A i \in 0 .. n : g[i] \in Seq(S)
    BY <1>1, <2>2, IterationIn
  <2>4. /\ g[0] = <<>>
        /\ \A i \in 1 .. n : g[i] = g[i - 1] \o s[i]
    <3>1. g[0] = <<>>
      BY <1>1, <2>3 DEF Iterates
    <3>2. ASSUME NEW i \in 1 .. n PROVE g[i] = g[i - 1] \o s[i]
      <4> HIDE DEF F
      <4>0. i \in 0 .. n /\ i # 0
        BY <1>1
      <4>1. g[i] = F[<<g[i - 1], i>>]
        BY <2>3, <4>0 DEF Iterates
      <4> USE DEF F
      <4>2. g[i - 1] \in Seq(S)
        BY <1>1, <2>3
      <4> QED
        BY <4>1, <4>2
    <3> QED
      BY <3>1, <3>2
  <2> HIDE DEF F
  <2> DEFINE h == [i \in 1 .. n |-> g[i]]
  <2>5. IsRun(h)
    <3>1. ASSUME NEW i \in 1 .. n
          PROVE  h[i] = IF i = 1 THEN s[i] ELSE h[i - 1] \o s[i]
      <4>1. CASE i = 1
        <5>1. h[i] = g[i] /\ i - 1 = 0
          BY <4>1
        <5>2. g[i] = g[0] \o s[i]
          BY <2>4, <5>1
        <5>3. <<>> \o s[i] = s[i]
          BY <1>1, ConcatEmptySeq
        <5> QED
          BY <2>4, <4>1, <5>1, <5>2, <5>3
      <4>2. CASE i # 1
        <5>1. i - 1 \in 1 .. n
          BY <1>1, <4>2
        <5>2. h[i] = g[i] /\ h[i - 1] = g[i - 1]
          BY <5>1
        <5> QED
          BY <2>4, <4>2, <5>2
      <4> QED
        BY <4>1, <4>2
    <3> QED
      BY <3>1
  <2> HIDE DEF IsRun, h
  <2>6. IsRun(flatten)
    BY <2>5
  <2> HIDE DEF flatten
  <2> DEFINE f == [i \in 0 .. n |-> IF i = 0 THEN <<>> ELSE flatten[i]]
             J == [i \in 0 .. n |-> {g[i]}]
  <2>7. /\ f[0] = <<>>
        /\ \A i \in 1 .. n : f[i] = IF i = 1 THEN s[i] ELSE f[i - 1] \o s[i]
    <3>1. f[0] = <<>>
      BY <1>1
    <3>2. ASSUME NEW i \in 1 .. n PROVE f[i] = IF i = 1 THEN s[i] ELSE f[i - 1] \o s[i]
      <4>0. flatten[i] = IF i = 1 THEN s[i] ELSE flatten[i - 1] \o s[i]
        <5> HIDE DEF f
        <5> QED
          BY <2>6 DEF IsRun
      <4>1. f[i] = flatten[i] /\ flatten[i] = IF i = 1 THEN s[i] ELSE flatten[i - 1] \o s[i]
        <5>1. i \in 0 .. n /\ i # 0
          BY <1>1
        <5> QED
          BY <4>0, <5>1
      <4>2. i # 1 => i - 1 \in 1 .. n
        BY <1>1
      <4>3. i # 1 => f[i - 1] = flatten[i - 1]
        BY <4>2
      <4> HIDE DEF f
      <4> QED
        BY <4>1, <4>3
    <3> HIDE DEF f
    <3> QED
      BY <3>1, <3>2
  <2>8. \A i \in 0 .. n : f[i] \in J[i]
    <3>1. f[0] \in J[0]
      BY <1>1, <2>4, <2>7
    <3>2. ASSUME NEW i \in 1 .. n, f[i - 1] \in J[i - 1] PROVE f[i] \in J[i]
      <4> HIDE DEF f
      <4>1. i - 1 \in 0 .. n /\ i \in 0 .. n
        BY <1>1
      <4>2. f[i - 1] = g[i - 1]
        BY <3>2, <4>1
      <4> HIDE DEF J
      <4>3. g[i] = g[i - 1] \o s[i] /\ f[i] = IF i = 1 THEN s[i] ELSE f[i - 1] \o s[i]
        BY <2>4, <2>7
      <4>4. i = 1 => g[i - 1] = <<>>
        BY <2>4
      <4>5. <<>> \o s[i] = s[i]
        BY <1>1, ConcatEmptySeq
      <4>6. f[i] = g[i]
        BY <4>2, <4>3, <4>4, <4>5
      <4> QED
        BY <4>1, <4>6 DEF J
    <3> HIDE DEF f, J
    <3> QED
      BY <1>1, <3>1, <3>2, AllOf
  <2>9. \A i \in 0 .. n : f[i] = g[i]
    BY <2>8
  <2>10. Joined(g, s, S)
    <3>1. g = [i \in 0 .. n |-> g[i]]
      BY <2>3 DEF Iterates
    <3>2. g \in [0 .. n -> Seq(S)]
      BY <2>3, <3>1
    <3> QED
      BY <2>4, <3>2 DEF Joined, n
  <2>11. FlattenSeq(s) = g[n]
    BY <1>1, <1>3, <2>1, <2>9
  <2> QED
    BY <2>10, <2>11 DEF n
<1> QED
  BY <1>2, <1>3

LEMMA FlattenType ==
  ASSUME NEW S, NEW s \in Seq(Seq(S))
  PROVE  FlattenSeq(s) \in Seq(S)
<1>1. PICK f : Joined(f, s, S) /\ FlattenSeq(s) = f[Len(s)]
  BY Flattening
<1>2. Len(s) \in Nat
  BY LenProperties
<1> QED
  BY <1>1, <1>2 DEF Joined

\* A part of an output that is short enough for its sizes and counts to fit a cell.
Sized(r) == r \in Seq(Nat) /\ (Len(r) < Width => r \in Seq(Cells))

LEMMA SizedConcat ==
  ASSUME NEW a, NEW b, Sized(a), Sized(b)
  PROVE  Sized(a \o b) /\ Len(a \o b) = Len(a) + Len(b)
<1>1. /\ a \o b \in Seq(Nat) /\ Len(a \o b) = Len(a) + Len(b)
      /\ Len(a) \in Nat /\ Len(b) \in Nat
  BY ConcatProperties, LenProperties DEF Sized
<1>2. ASSUME Len(a \o b) < Width PROVE a \o b \in Seq(Cells)
  <2>1. Len(a) < Width /\ Len(b) < Width
    BY <1>1, <1>2, FormatAssumption
  <2>2. a \in Seq(Cells) /\ b \in Seq(Cells)
    BY <2>1 DEF Sized
  <2> QED
    BY <2>2, ConcatProperties
<1> QED
  BY <1>1, <1>2 DEF Sized

LEMMA SizedFlatten ==
  ASSUME NEW s, s \in Seq(Seq(Nat)), \A i \in 1 .. Len(s) : Sized(s[i])
  PROVE  /\ Sized(FlattenSeq(s)) /\ Len(FlattenSeq(s)) \in Nat
         /\ (\A i \in 1 .. Len(s) : Len(s[i]) >= 1) => Len(s) <= Len(FlattenSeq(s))
<1> DEFINE n == Len(s)
           long == \A i \in 1 .. n : Len(s[i]) >= 1
           J == [i \in 0 .. n |-> {r \in Seq(Nat) : Sized(r) /\ (long => i <= Len(r))}]
<1>1. PICK f : Joined(f, s, Nat) /\ FlattenSeq(s) = f[n]
  BY Flattening
<1>2. n \in Nat
  BY LenProperties
<1> HIDE DEF n
<1>3. f[0] = <<>> /\ \A i \in 1 .. n : f[i] = f[i - 1] \o s[i]
  BY <1>1 DEF Joined, n
<1>4. f[0] \in J[0]
  <2>1. <<>> \in Seq(Nat) /\ <<>> \in Seq(Cells) /\ Len(<<>>) = 0
    BY EmptySeq
  <2> QED
    BY <1>2, <1>3, <2>1 DEF Sized
<1>5. ASSUME NEW i \in 1 .. n, f[i - 1] \in J[i - 1] PROVE f[i] \in J[i]
  <2>1. i - 1 \in 0 .. n /\ i \in 0 .. n
    BY <1>2
  <2>2. f[i - 1] \in Seq(Nat) /\ Sized(f[i - 1]) /\ (long => i - 1 <= Len(f[i - 1]))
    BY <1>5, <2>1
  <2>3. Sized(s[i]) /\ (long => Len(s[i]) >= 1)
    BY DEF n
  <2>4. Sized(f[i - 1] \o s[i]) /\ Len(f[i - 1] \o s[i]) = Len(f[i - 1]) + Len(s[i])
    BY <2>2, <2>3, SizedConcat
  <2>5. Sized(f[i]) /\ Len(f[i]) = Len(f[i - 1]) + Len(s[i])
    BY <1>3, <2>4
  <2>6. Len(f[i - 1]) \in Nat /\ Len(s[i]) \in Nat /\ f[i] \in Seq(Nat)
    BY <2>2, <2>3, <2>5, LenProperties DEF Sized
  <2>7. ASSUME long PROVE i <= Len(f[i])
    <3>1. i - 1 <= Len(f[i - 1]) /\ Len(s[i]) >= 1
      BY <2>2, <2>3, <2>7
    <3>2. i \in Nat
      BY <1>2
    <3>3. \A x, y \in Nat : i - 1 <= x /\ y >= 1 => i <= x + y
      BY <3>2
    <3> QED
      BY <2>5, <2>6, <3>1, <3>3
  <2> QED
    BY <2>1, <2>5, <2>6, <2>7
<1> HIDE DEF J
<1>6. f[n] \in J[n]
  <2>1. \A i \in 0 .. n : f[i] \in J[i]
    BY <1>2, <1>4, <1>5, AllOf
  <2> QED
    BY <1>2, <2>1
<1>7. f[n] \in Seq(Nat) /\ Sized(f[n]) /\ (long => n <= Len(f[n]))
  BY <1>2, <1>6 DEF J
<1>8. Len(f[n]) \in Nat
  BY <1>7, LenProperties
<1> QED
  BY <1>1, <1>7, <1>8 DEF n

-----------------------------------------------------------------------------
(* The writer: records.                                                    *)

LEMMA FieldsAreCells ==
  ASSUME NEW S, NEW n \in Nat, NEW r \in [1 .. n -> S]
  PROVE  r \in Seq(S) /\ Len(r) = n
<1>1. r \in Seq(S)
  BY SeqDef
<1> QED
  BY <1>1, LenProperties

LEMMA RecordType ==
  ASSUME NEW S, 0 \in S, NEW marker \in S, NEW header \in Nat, header \in S, NEW size \in S
  PROVE  Record(marker, header, size) \in [1 .. header -> S]
BY DEF Record

LEMMA CountsAreCells ==
  ASSUME NEW r, Sized(r), Len(r) < Width
  PROVE  Len(r) \in Cells
<1>1. Len(r) \in Nat
  BY LenProperties DEF Sized
<1> QED
  BY <1>1, FormatAssumption DEF Cells

\* A record is a header and what follows it; the fields of the header fit their
\* cells if the size of the whole does.
LEMMA RecordSized ==
  ASSUME NEW header \in Nat, NEW r \in [1 .. header -> Nat], NEW kids, Sized(kids),
         header + Len(kids) < Width => r \in [1 .. header -> Cells]
  PROVE  /\ r \o kids \in Seq(Nat) /\ Sized(r \o kids)
         /\ Len(r \o kids) = header + Len(kids) /\ Len(r \o kids) >= header
<1>1. r \in Seq(Nat) /\ Len(r) = header
  BY FieldsAreCells
<1>2. /\ r \o kids \in Seq(Nat) /\ Len(r \o kids) = header + Len(kids)
      /\ Len(kids) \in Nat /\ kids \in Seq(Nat)
  BY <1>1, ConcatProperties, LenProperties DEF Sized
<1>3. ASSUME Len(r \o kids) < Width PROVE r \o kids \in Seq(Cells)
  <2>1. r \in Seq(Cells)
    BY <1>2, <1>3, FieldsAreCells
  <2>2. kids \in Seq(Cells)
    BY <1>2, <1>3, FormatAssumption DEF Sized
  <2> QED
    BY <2>1, <2>2, ConcatProperties
<1> QED
  BY <1>2, <1>3 DEF Sized

LEMMA ShortType ==
  ASSUME NEW S, NEW a \in S, NEW b \in S
  PROVE  <<a>> \in Seq(S) /\ <<a, b>> \in Seq(S)
OBVIOUS

\* The code units of one point.
UnitsOf(c) ==
  IF c < 16 THEN <<c>> ELSE <<8 + ((c - 16) \div 2), 10 + ((c - 16) % 2)>>

LEMMA UnitsType ==
  ASSUME NEW c \in Nat
  PROVE  UnitsOf(c) \in Seq(Nat) /\ (c \in 0 .. 19 => UnitsOf(c) \in Seq(0 .. 15))
<1>1. CASE c < 16
  <2>1. c \in 0 .. 15 /\ UnitsOf(c) = <<c>>
    BY <1>1 DEF UnitsOf
  <2> QED
    BY <2>1, ShortType
<1>2. CASE c >= 16
  <2>1. UnitsOf(c) = <<8 + ((c - 16) \div 2), 10 + ((c - 16) % 2)>>
    BY <1>2 DEF UnitsOf
  <2>2. 8 + ((c - 16) \div 2) \in Nat /\ 10 + ((c - 16) % 2) \in Nat
    BY <1>2
  <2>3. c \in 0 .. 19 => 8 + ((c - 16) \div 2) \in 0 .. 15 /\ 10 + ((c - 16) % 2) \in 0 .. 15
    BY <1>2
  <2> QED
    BY <2>1, <2>2, <2>3, ShortType
<1> QED
  BY <1>1, <1>2

LEMMA EncodeType ==
  ASSUME NEW text \in Seq(Nat)
  PROVE  /\ Encode(text) \in Seq(Nat) /\ Len(Encode(text)) \in Nat
         /\ Encodable(text) => Encode(text) \in Seq(0 .. 15)
<1> DEFINE units == [i \in DOMAIN text |-> UnitsOf(text[i])]
           n == Len(text)
<1>1. n \in Nat /\ DOMAIN text = 1 .. n /\ \A i \in 1 .. n : text[i] \in Nat
  BY LenProperties, ElementOfSeq
<1> HIDE DEF n
<1>2. units \in [1 .. n -> Seq(Nat)]
  BY <1>1, UnitsType
<1>3. Encodable(text) => units \in [1 .. n -> Seq(0 .. 15)]
  <2>1. Encodable(text) => \A i \in 1 .. n : text[i] \in 0 .. 19
    BY <1>1 DEF Encodable, MaxPoint
  <2> QED
    BY <1>1, <2>1, UnitsType
<1>4. Encode(text) = FlattenSeq(units)
  BY DEF Encode, UnitsOf
<1> HIDE DEF units
<1>5. units \in Seq(Seq(Nat)) /\ (Encodable(text) => units \in Seq(Seq(0 .. 15)))
  BY <1>1, <1>2, <1>3, FieldsAreCells
<1>6. Encode(text) \in Seq(Nat)
  BY <1>4, <1>5, FlattenType
<1>7. Encodable(text) => Encode(text) \in Seq(0 .. 15)
  BY <1>4, <1>5, FlattenType
<1> QED
  BY <1>6, <1>7, LenProperties

\* Both ways of joining three sequences of cells give one.
LEMMA JoinThree ==
  ASSUME NEW s \in Seq(Nat), NEW t \in Seq(Nat), NEW u \in Seq(Nat)
  PROVE  s \o t \o u = s \o (t \o u)
OBVIOUS

LEMMA StringType ==
  ASSUME NEW type \in TextTypes, NEW text \in Seq(Nat), Encodable(text)
  PROVE  /\ StringRecord(type, text) \in Seq(Nat) /\ Sized(StringRecord(type, text))
         /\ Len(StringRecord(type, text)) >= 1
<1> DEFINE units == Encode(text)
           plain == Record(mhod, 6, 10 + Len(units))
           record == [plain EXCEPT ![4] = type]
           prefix == <<0, Len(units), 1, 0>>
<1>1. units \in Seq(Nat) /\ Len(units) \in Nat /\ units \in Seq(0 .. 15)
  BY EncodeType
<1>2. StringRecord(type, text) = record \o prefix \o units
  BY DEF StringRecord
<1> HIDE DEF units
<1>3. type \in Nat /\ type \in Cells /\ 0 \in Cells /\ 1 \in Cells
  BY FormatAssumption DEF TextTypes, Cells
<1>4. record \in [1 .. 6 -> Nat]
  <2>1. mhod \in Nat /\ 10 + Len(units) \in Nat /\ 6 \in Nat /\ 0 \in Nat
    BY <1>1 DEF mhod
  <2>2. plain \in [1 .. 6 -> Nat]
    BY <2>1, RecordType
  <2> HIDE DEF plain
  <2> QED
    BY <1>3, <2>2
<1>5. 10 + Len(units) < Width => record \in [1 .. 6 -> Cells]
  <2> SUFFICES ASSUME 10 + Len(units) < Width PROVE record \in [1 .. 6 -> Cells]
    OBVIOUS
  <2>1. mhod \in Cells /\ 6 \in Cells /\ 10 + Len(units) \in Cells
    BY <1>1, FormatAssumption DEF mhod, Cells
  <2>2. plain \in [1 .. 6 -> Cells]
    BY <1>3, <2>1, RecordType
  <2> HIDE DEF plain
  <2> QED
    BY <1>3, <2>2
<1> HIDE DEF record
<1>6. units \in Seq(Cells)
  <2>1. 0 .. 15 \subseteq Cells
    BY FormatAssumption DEF Cells
  <2>2. \A i \in 1 .. Len(units) : units[i] \in 0 .. 15
    BY <1>1, ElementOfSeq
  <2>3. units \in [1 .. Len(units) -> Cells]
    BY <1>1, <2>1, <2>2, LenProperties
  <2> QED
    BY <1>1, <2>3, FieldsAreCells
<1>7. /\ prefix \in Seq(Nat) /\ Len(prefix) = 4
      /\ Len(units) < Width => prefix \in Seq(Cells)
  <2>1. Len(units) < Width => Len(units) \in Cells
    BY <1>1, FormatAssumption DEF Cells
  <2> QED
    BY <1>1, <1>3, <2>1
<1> HIDE DEF prefix
<1>8. prefix \o units \in Seq(Nat) /\ Len(prefix \o units) = 4 + Len(units)
  <2>1. units \in Seq(Nat) /\ prefix \in Seq(Nat) /\ Len(prefix) = 4
    BY <1>1, <1>7
  <2>2. prefix \o units \in Seq(Nat) /\ Len(prefix \o units) = Len(prefix) + Len(units)
    BY <2>1, ConcatProperties, Zenon
  <2> QED
    BY <2>1, <2>2
<1>9. Sized(prefix \o units)
  <2> SUFFICES ASSUME Len(prefix \o units) < Width PROVE prefix \o units \in Seq(Cells)
    BY <1>8 DEF Sized
  <2>1. prefix \in Seq(Cells)
    BY <1>1, <1>7, <1>8, FormatAssumption
  <2> QED
    BY <1>6, <2>1, ConcatProperties
<1>10. /\ record \o (prefix \o units) \in Seq(Nat) /\ Sized(record \o (prefix \o units))
       /\ Len(record \o (prefix \o units)) >= 6
  <2>1. 6 + Len(prefix \o units) = 10 + Len(units)
    BY <1>1, <1>8
  <2>2. 6 + Len(prefix \o units) < Width => record \in [1 .. 6 -> Cells]
    BY <1>5, <2>1
  <2> QED
    BY <1>4, <1>9, <2>2, RecordSized
<1>11. record \o prefix \o units = record \o (prefix \o units)
  <2>1. record \in Seq(Nat)
    BY <1>4, FieldsAreCells
  <2>2. prefix \in Seq(Nat) /\ units \in Seq(Nat)
    BY <1>1, <1>7
  <2> HIDE DEF record, prefix, units
  <2> QED
    BY <2>1, <2>2, JoinThree
<1>12. Len(record \o (prefix \o units)) \in Nat
  BY <1>10, LenProperties
<1> QED
  BY <1>2, <1>10, <1>11, <1>12

LEMMA HeaderType ==
  ASSUME NEW marker \in Cells, NEW header \in Nat, NEW size \in Nat, header <= size
  PROVE  /\ Record(marker, header, size) \in [1 .. header -> Nat]
         /\ size < Width => Record(marker, header, size) \in [1 .. header -> Cells]
<1>1. marker \in Nat /\ 0 \in Nat /\ 0 \in Cells
  BY WideZero
<1>2. Record(marker, header, size) \in [1 .. header -> Nat]
  BY <1>1, RecordType
<1>3. ASSUME size < Width PROVE Record(marker, header, size) \in [1 .. header -> Cells]
  <2>1. header \in Cells /\ size \in Cells
    BY <1>3, FormatAssumption DEF Cells
  <2> QED
    BY <1>1, <2>1, RecordType
<1> QED
  BY <1>2, <1>3

LEMMA MarkersAreCells ==
  {mhbd, mhsd, mhlt, mhlp, mhla, mhit, mhod, mhyp, mhip} \cup 0 .. 5 \subseteq Cells
BY FormatAssumption DEF Cells, mhbd, mhsd, mhlt, mhlp, mhla, mhit, mhod, mhyp, mhip

LEMMA HalvesAreCells ==
  ASSUME NEW id \in Wide
  PROVE  Low(id) \in Cells /\ High(id) \in Cells
<1>1. id \in Nat /\ Width \in Nat /\ Width > 115
  BY WideZero, FormatAssumption
<1>2. id \div Width \in Nat
  BY <1>1
<1>3. \A x \in Nat : x % Width \in 0 .. Width - 1
  BY <1>1
<1> QED
  BY <1>1, <1>2, <1>3 DEF Low, High, Cells

LEMMA LayoutType ==
  ASSUME NEW k \in Kinds
  PROVE  /\ Layout[k].root \in Nat /\ Layout[k].root >= 8 /\ Layout[k].version \in Cells
         /\ k = "hash58" => Layout[k].root >= 27
         /\ Layout[k].dataset \in Nat /\ Layout[k].dataset >= 4
         /\ Layout[k].list \in Nat /\ Layout[k].list >= 3
         /\ Layout[k].track \in Nat /\ Layout[k].track >= 30
         /\ Layout[k].playlist \in Nat /\ Layout[k].playlist >= 9
         /\ Layout[k].item \in Nat /\ Layout[k].item >= 7
         /\ Layout[k].maxIn \in Nat /\ Layout[k].maxOut \in Nat
BY FormatAssumption

\* A part of an output that takes room.
Part(r) == r \in Seq(Nat) /\ Sized(r) /\ Len(r) >= 1

LEMMA PartsSized ==
  ASSUME NEW s, NEW n \in Nat, s \in [1 .. n -> Seq(Nat)], \A i \in 1 .. n : Part(s[i])
  PROVE  /\ Sized(FlattenSeq(s)) /\ Len(FlattenSeq(s)) \in Nat /\ n <= Len(FlattenSeq(s))
         /\ Len(s) = n
<1>1. s \in Seq(Seq(Nat)) /\ Len(s) = n
  BY FieldsAreCells
<1>2. \A i \in 1 .. Len(s) : Sized(s[i]) /\ Len(s[i]) >= 1
  BY <1>1 DEF Part
<1> QED
  BY <1>1, <1>2, SizedFlatten

\* What the writer can put into a file.
WritableTrack(t) == t \in Track /\ \A type \in TextTypes : Encodable(t.text[type])
WritablePlaylist(p) == p \in Playlist /\ Encodable(p.name)

LEMMA TrackRecordType ==
  ASSUME NEW t, WritableTrack(t), NEW k \in Kinds
  PROVE  Part(TrackRecord(t, k))
<1> DEFINE strings == [type \in TextTypes |-> StringRecord(type, t.text[type])]
           kids == FlattenSeq(strings)
           header == Layout[k].track
           plain == Record(mhit, header, header + Len(kids))
           record == [plain EXCEPT ![4] = 4, ![5] = t.id, ![29] = Low(t.pid), ![30] = High(t.pid)]
<1>1. /\ t.id \in Cells /\ t.pid \in Wide
      /\ \A type \in TextTypes : t.text[type] \in Seq(Nat) /\ Encodable(t.text[type])
  BY DEF WritableTrack, Track, TextOf
<1>2. TrackRecord(t, k) = record \o kids
  BY DEF TrackRecord
<1>3. Sized(kids) /\ Len(kids) \in Nat
  <2>1. \A type \in TextTypes : Part(StringRecord(type, t.text[type]))
    BY <1>1, StringType DEF Part
  <2>2. /\ strings \in [1 .. 4 -> Seq(Nat)]
        /\ \A i \in 1 .. 4 : Part(strings[i])
    BY <2>1 DEF TextTypes, Part
  <2> HIDE DEF strings
  <2> QED
    BY <2>2, PartsSized
<1>4. header \in Nat /\ header >= 30
  BY LayoutType
<1> HIDE DEF kids, header
<1>5. 4 \in Cells /\ mhit \in Cells /\ Cells \subseteq Nat
  BY MarkersAreCells, WideZero
<1>6. Low(t.pid) \in Cells /\ High(t.pid) \in Cells
  BY <1>1, HalvesAreCells
<1>7. /\ plain \in [1 .. header -> Nat]
      /\ header + Len(kids) < Width => plain \in [1 .. header -> Cells]
  <2>1. header + Len(kids) \in Nat /\ header <= header + Len(kids)
    BY <1>3, <1>4
  <2> QED
    BY <1>4, <1>5, <2>1, HeaderType
<1> HIDE DEF plain
<1>8. /\ record \in [1 .. header -> Nat]
      /\ header + Len(kids) < Width => record \in [1 .. header -> Cells]
  BY <1>1, <1>4, <1>5, <1>6, <1>7
<1> HIDE DEF record
<1>9. /\ record \o kids \in Seq(Nat) /\ Sized(record \o kids)
      /\ Len(record \o kids) >= header
  BY <1>3, <1>4, <1>8, RecordSized
<1>10. Len(record \o kids) \in Nat
  BY <1>9, LenProperties
<1> QED
  BY <1>2, <1>4, <1>9, <1>10 DEF Part

LEMMA NothingSized == Sized(<<>>) /\ Len(<<>>) = 0
<1>1. <<>> \in Seq(Nat) /\ <<>> \in Seq(Cells) /\ Len(<<>>) = 0
  BY EmptySeq
<1> QED
  BY <1>1 DEF Sized

LEMMA ItemRecordType ==
  ASSUME NEW id \in Cells, NEW k \in Kinds
  PROVE  Part(ItemRecord(id, k))
<1> DEFINE header == Layout[k].item
           plain == Record(mhip, header, header)
           record == [plain EXCEPT ![7] = id]
<1>1. header \in Nat /\ header >= 7
  BY LayoutType
<1> HIDE DEF header
<1>2. mhip \in Cells /\ Cells \subseteq Nat
  BY MarkersAreCells, WideZero
<1>3. /\ plain \in [1 .. header -> Nat]
      /\ header < Width => plain \in [1 .. header -> Cells]
  BY <1>1, <1>2, HeaderType
<1> HIDE DEF plain
<1>4. /\ record \in [1 .. header -> Nat]
      /\ header < Width => record \in [1 .. header -> Cells]
  BY <1>1, <1>2, <1>3
<1>5. ItemRecord(id, k) = record
  BY DEF ItemRecord, plain, header
<1> HIDE DEF record
<1>6. record \in Seq(Nat) /\ Len(record) = header
  BY <1>1, <1>4, FieldsAreCells
<1>7. header < Width => record \in Seq(Cells)
  BY <1>1, <1>4, FieldsAreCells
<1> QED
  BY <1>1, <1>5, <1>6, <1>7 DEF Part, Sized

LEMMA PlaylistRecordType ==
  ASSUME NEW p, WritablePlaylist(p), NEW k \in Kinds, NEW timestamp \in Cells
  PROVE  Part(PlaylistRecord(p, k, timestamp))
<1> DEFINE n == Len(p.members)
           items == [i \in DOMAIN p.members |-> ItemRecord(p.members[i], k)]
           name == StringRecord(1, p.name)
           kids == name \o FlattenSeq(items)
           header == Layout[k].playlist
           plain == Record(mhyp, header, header + Len(kids))
           kind == IF p.kind = "master" THEN 1 ELSE 0
           record == [plain EXCEPT ![4] = 1, ![5] = n, ![6] = kind, ![7] = timestamp,
                                   ![8] = Low(p.pid), ![9] = High(p.pid)]
<1>1. p.pid \in Wide /\ p.members \in Seq(Cells) /\ p.name \in Seq(Nat) /\ Encodable(p.name)
  BY DEF WritablePlaylist, Playlist
<1>2. PlaylistRecord(p, k, timestamp) = record \o kids
  BY DEF PlaylistRecord
<1>3. Part(name)
  BY <1>1, StringType DEF Part, TextTypes
<1>4. n \in Nat /\ DOMAIN p.members = 1 .. n /\ \A i \in 1 .. n : p.members[i] \in Cells
  BY <1>1, LenProperties, ElementOfSeq
<1> HIDE DEF n, name
<1>5. Sized(FlattenSeq(items)) /\ Len(FlattenSeq(items)) \in Nat /\ n <= Len(FlattenSeq(items))
  <2>1. \A i \in 1 .. n : Part(ItemRecord(p.members[i], k))
    BY <1>4, ItemRecordType
  <2>2. items \in [1 .. n -> Seq(Nat)] /\ \A i \in 1 .. n : Part(items[i])
    BY <1>4, <2>1 DEF Part
  <2> HIDE DEF items
  <2> QED
    BY <1>4, <2>2, PartsSized
<1> HIDE DEF items
<1>6. /\ Sized(kids) /\ Len(kids) \in Nat /\ n <= Len(kids)
  <2>1. Sized(name) /\ Len(name) \in Nat
    BY <1>3, LenProperties DEF Part
  <2>2. Sized(kids) /\ Len(kids) = Len(name) + Len(FlattenSeq(items))
    BY <1>5, <2>1, SizedConcat
  <2> HIDE DEF kids
  <2> QED
    BY <1>4, <1>5, <2>1, <2>2
<1>7. header \in Nat /\ header >= 9
  BY LayoutType
<1> HIDE DEF kids, header
<1>8. 0 \in Cells /\ 1 \in Cells /\ mhyp \in Cells /\ Cells \subseteq Nat
  BY MarkersAreCells, WideZero
<1>9. Low(p.pid) \in Cells /\ High(p.pid) \in Cells /\ kind \in Cells
  BY <1>1, <1>8, HalvesAreCells
<1> HIDE DEF kind
<1>10. header + Len(kids) < Width => n \in Cells
  BY <1>4, <1>6, <1>7, FormatAssumption DEF Cells
<1>11. /\ plain \in [1 .. header -> Nat]
       /\ header + Len(kids) < Width => plain \in [1 .. header -> Cells]
  <2>1. header + Len(kids) \in Nat /\ header <= header + Len(kids)
    BY <1>6, <1>7
  <2> QED
    BY <1>7, <1>8, <2>1, HeaderType
<1> HIDE DEF plain
<1>12. record \in [1 .. header -> Nat]
  <2>1. timestamp \in Nat /\ Low(p.pid) \in Nat /\ High(p.pid) \in Nat /\ kind \in Nat
    BY <1>8, <1>9
  <2> QED
    BY <1>4, <1>11, <2>1
<1>13. header + Len(kids) < Width => record \in [1 .. header -> Cells]
  BY <1>8, <1>9, <1>10, <1>11
<1> HIDE DEF record
<1>14. /\ record \o kids \in Seq(Nat) /\ Sized(record \o kids)
       /\ Len(record \o kids) >= header
  BY <1>6, <1>7, <1>12, <1>13, RecordSized
<1>15. Len(record \o kids) \in Nat
  BY <1>14, LenProperties
<1> QED
  BY <1>2, <1>7, <1>14, <1>15 DEF Part

LEMMA DatasetPart ==
  ASSUME NEW type \in 0 .. 5, NEW marker \in Cells, NEW k \in Kinds,
         NEW records, NEW n \in Nat, records \in [1 .. n -> Seq(Nat)],
         \A i \in 1 .. n : Part(records[i])
  PROVE  Part(Dataset(type, marker, records, k))
<1> DEFINE body == FlattenSeq(records)
           header == Layout[k].dataset
           list == Layout[k].list
           plain == Record(mhsd, header, header + list + Len(body))
           record == [plain EXCEPT ![4] = type]
           head == Record(marker, list, n)
           kids == head \o body
<1>1. Sized(body) /\ Len(body) \in Nat /\ n <= Len(body) /\ Len(records) = n
  BY PartsSized
<1>2. Dataset(type, marker, records, k) = record \o head \o body
  BY <1>1 DEF Dataset
<1>3. header \in Nat /\ header >= 4 /\ list \in Nat /\ list >= 3
  BY LayoutType
<1> HIDE DEF body, header, list
<1>4. type \in Cells /\ 0 \in Cells /\ mhsd \in Cells /\ Cells \subseteq Nat
  BY MarkersAreCells, WideZero
<1>5. /\ head \in [1 .. list -> Nat]
      /\ list + Len(body) < Width => head \in [1 .. list -> Cells]
  <2>1. 0 \in Nat /\ marker \in Nat
    BY <1>4
  <2>2. head \in [1 .. list -> Nat]
    BY <1>3, <2>1, RecordType
  <2>3. ASSUME list + Len(body) < Width PROVE head \in [1 .. list -> Cells]
    <3>1. \A x, y, z, m \in Nat : x + y < z /\ m <= y => x \in 0 .. z - 1 /\ m \in 0 .. z - 1
      OBVIOUS
    <3>2. Len(body) \in Nat /\ n <= Len(body) /\ Width \in Nat
      BY <1>1, FormatAssumption
    <3>3. list \in Cells /\ n \in Cells
      BY <1>3, <2>3, <3>1, <3>2 DEF Cells
    <3> QED
      BY <1>3, <1>4, <3>3, RecordType
  <2> QED
    BY <2>2, <2>3
<1>6. plain \in [1 .. header -> Nat]
  <2>1. header + list + Len(body) \in Nat /\ header <= header + list + Len(body)
    BY <1>1, <1>3
  <2> QED
    BY <1>3, <1>4, <2>1, HeaderType
<1>7. header + list + Len(body) < Width => plain \in [1 .. header -> Cells]
  <2>1. header + list + Len(body) \in Nat /\ header <= header + list + Len(body)
    BY <1>1, <1>3
  <2> QED
    BY <1>3, <1>4, <2>1, HeaderType
<1> HIDE DEF plain, head
<1>8. /\ kids \in Seq(Nat) /\ Sized(kids) /\ Len(kids) = list + Len(body)
  BY <1>1, <1>3, <1>5, RecordSized
<1> HIDE DEF kids
<1>9. header + Len(kids) = header + list + Len(body)
  BY <1>1, <1>3, <1>8
<1>10. record \in [1 .. header -> Nat]
  BY <1>4, <1>6
<1>11. header + Len(kids) < Width => record \in [1 .. header -> Cells]
  BY <1>4, <1>7, <1>9
<1> HIDE DEF record
<1>12. /\ record \o kids \in Seq(Nat) /\ Sized(record \o kids)
       /\ Len(record \o kids) >= header
  BY <1>3, <1>8, <1>10, <1>11, RecordSized
<1>13. record \o head \o body = record \o kids
  <2>1. record \in Seq(Nat)
    BY <1>3, <1>10, FieldsAreCells
  <2>2. head \in Seq(Nat)
    BY <1>3, <1>5, FieldsAreCells
  <2>3. body \in Seq(Nat)
    BY <1>1 DEF Sized
  <2> HIDE DEF head
  <2>4. (record \o head) \o body = record \o (head \o body)
    BY <2>1, <2>2, <2>3, JoinThree
  <2>5. kids = head \o body
    BY DEF kids, head
  <2> QED
    BY <2>4, <2>5
<1>14. Len(record \o kids) \in Nat
  BY <1>12, LenProperties
<1> QED
  BY <1>2, <1>3, <1>12, <1>13, <1>14 DEF Part

LEMMA RootRecordType ==
  ASSUME NEW m, m.pid \in Wide, NEW k \in Kinds, NEW body, Sized(body)
  PROVE  /\ Sized(WholeFile(m, k, body)) /\ Len(WholeFile(m, k, body)) \in Nat
         /\ Len(WholeFile(m, k, body)) >= Layout[k].root
<1> DEFINE header == Layout[k].root
           kinds == IF k = "hash58" THEN 4 ELSE 2
           plain == Record(mhbd, header, header + Len(body))
           fixed == [plain EXCEPT ![4] = 1, ![5] = Layout[k].version, ![6] = kinds,
                                  ![7] = Low(m.pid), ![8] = High(m.pid)]
           record == IF k = "hash58" THEN [fixed EXCEPT ![13] = 1] ELSE fixed
<1>1. WholeFile(m, k, body) = record \o body
  BY DEF WholeFile, RootRecord
<1>2. header \in Nat /\ header >= 8 /\ Layout[k].version \in Cells
  BY LayoutType
<1>3. Len(body) \in Nat
  BY LenProperties DEF Sized
<1>4. {1, 2, 4} \subseteq Cells /\ mhbd \in Cells /\ Cells \subseteq Nat
  BY MarkersAreCells, WideZero
<1>5. Low(m.pid) \in Cells /\ High(m.pid) \in Cells /\ kinds \in Cells
  BY <1>4, HalvesAreCells
<1> HIDE DEF header, kinds
<1>6. header + Len(body) \in Nat /\ header <= header + Len(body)
  BY <1>2, <1>3
<1>7. /\ plain \in [1 .. header -> Nat]
      /\ header + Len(body) < Width => plain \in [1 .. header -> Cells]
  BY <1>2, <1>4, <1>6, HeaderType
<1> HIDE DEF plain
<1>8. /\ fixed \in [1 .. header -> Nat]
      /\ header + Len(body) < Width => fixed \in [1 .. header -> Cells]
  BY <1>2, <1>4, <1>5, <1>7
<1> HIDE DEF fixed
<1>9. /\ record \in [1 .. header -> Nat]
      /\ header + Len(body) < Width => record \in [1 .. header -> Cells]
  BY <1>4, <1>8
<1> HIDE DEF record
<1>10. /\ record \o body \in Seq(Nat) /\ Sized(record \o body)
       /\ Len(record \o body) >= header
  BY <1>2, <1>9, RecordSized
<1>11. Len(record \o body) \in Nat
  BY <1>10, LenProperties
<1> QED
  BY <1>1, <1>10, <1>11 DEF header

WritableModel(m) ==
  /\ m \in Model /\ m.master # <<>>
  /\ \A i \in DOMAIN m.tracks : WritableTrack(m.tracks[i])
  /\ WritablePlaylist(m.master[1])
  /\ \A i \in DOMAIN m.lists : WritablePlaylist(m.lists[i])

\* Every part of a file that is short enough fits its cells, sizes and counts
\* included.
LEMMA SerializeSized ==
  ASSUME NEW m, WritableModel(m), NEW k \in Kinds, NEW timestamp \in Cells
  PROVE  LET out == Serialize(m, k, timestamp)
         IN Sized(out) /\ Len(out) \in Nat /\ Len(out) >= Layout[k].root
<1> DEFINE count == 1 + Len(m.lists)
           n == Len(m.tracks)
           list(i) == IF i = 1 THEN m.master[1] ELSE m.lists[i - 1]
           lists == [i \in 1 .. count |-> PlaylistRecord(list(i), k, timestamp)]
           records == [i \in DOMAIN m.tracks |-> TrackRecord(m.tracks[i], k)]
           tracks == Dataset(1, mhlt, records, k)
           albums == Dataset(4, mhla, <<>>, k)
           lists2 == Dataset(2, mhlp, lists, k)
           lists3 == Dataset(3, mhlp, lists, k)
           body == IF k = "hash58" THEN albums \o tracks \o lists3 \o lists2
                                   ELSE tracks \o lists2
<1>1. Serialize(m, k, timestamp) = WholeFile(m, k, body)
  BY DEF Serialize
<1>2. /\ m.pid \in Wide /\ m.tracks \in Seq(Track) /\ m.lists \in Seq(Playlist)
      /\ n \in Nat /\ DOMAIN m.tracks = 1 .. n /\ count \in Nat
      /\ DOMAIN m.lists = 1 .. count - 1
  BY LenProperties DEF WritableModel, Model
<1>3. \A i \in 1 .. n : Part(TrackRecord(m.tracks[i], k))
  BY <1>2, TrackRecordType DEF WritableModel
<1>4. records \in [1 .. n -> Seq(Nat)] /\ \A i \in 1 .. n : Part(records[i])
  BY <1>2, <1>3 DEF Part
<1>5. \A i \in 1 .. count : WritablePlaylist(list(i))
  <2> SUFFICES ASSUME NEW i \in 1 .. count PROVE WritablePlaylist(list(i))
    OBVIOUS
  <2>1. CASE i = 1
    BY <2>1 DEF WritableModel
  <2>2. CASE i # 1
    <3>1. i - 1 \in DOMAIN m.lists
      BY <1>2, <2>2
    <3> QED
      BY <2>2, <3>1 DEF WritableModel
  <2> QED
    BY <2>1, <2>2
<1> HIDE DEF n, count, list
<1>6. lists \in [1 .. count -> Seq(Nat)] /\ \A i \in 1 .. count : Part(lists[i])
  <2>1. \A i \in 1 .. count : Part(PlaylistRecord(list(i), k, timestamp))
    BY <1>5, PlaylistRecordType
  <2> QED
    BY <2>1 DEF Part
<1> HIDE DEF records, lists
<1>7. /\ mhlt \in Cells /\ mhlp \in Cells /\ mhla \in Cells
      /\ {1, 2, 3, 4} \subseteq 0 .. 5
  BY MarkersAreCells
<1> HIDE DEF mhlt, mhlp, mhla
<1>8. Part(tracks) /\ Part(lists2) /\ Part(lists3)
  <2>1. Part(tracks)
    BY <1>2, <1>4, <1>7, DatasetPart
  <2>2. Part(lists2)
    BY <1>2, <1>6, <1>7, DatasetPart
  <2>3. Part(lists3)
    BY <1>2, <1>6, <1>7, DatasetPart
  <2> QED
    BY <2>1, <2>2, <2>3
<1>9. Part(albums)
  <2> DEFINE none == <<>>
  <2>1. 0 \in Nat /\ none \in [1 .. 0 -> Seq(Nat)] /\ \A i \in 1 .. 0 : Part(none[i])
    OBVIOUS
  <2> HIDE DEF none
  <2>2. Part(Dataset(4, mhla, none, k))
    BY <1>7, <2>1, DatasetPart
  <2> QED
    BY <2>2 DEF none
<1> HIDE DEF tracks, albums, lists2, lists3
<1>10. Sized(body)
  <2>1. Sized(tracks) /\ Sized(lists2) /\ Sized(lists3) /\ Sized(albums)
    BY <1>8, <1>9 DEF Part
  <2>2. Sized(tracks \o lists2)
    BY <2>1, SizedConcat
  <2>3. Sized(albums \o tracks)
    BY <2>1, SizedConcat
  <2>4. Sized(albums \o tracks \o lists3)
    BY <2>1, <2>3, SizedConcat
  <2>5. Sized(albums \o tracks \o lists3 \o lists2)
    BY <2>1, <2>4, SizedConcat
  <2> QED
    BY <2>2, <2>5
<1> HIDE DEF body
<1> QED
  BY <1>1, <1>2, <1>10, RootRecordType

\* The signature fits its cell and never looks like a missing one.
LEMMA HashType ==
  ASSUME NEW key \in Nat, NEW w \in Seq(Cells), Len(w) >= 1
  PROVE  Hash58(key, w) \in Cells /\ Hash58(key, w) # 0
<1> DEFINE c == Canonical(w)
           n == Len(w)
           rest == 0 .. Width - 2
           IsRun(f) == f = [i \in 0 .. n |-> IF i = 0 THEN key
                                             ELSE (f[i - 1] + i * c[i]) % (Width - 1)]
           F == [p \in Nat \X (1 .. n) |-> (p[1] + p[2] * c[p[2]]) % (Width - 1)]
           state == CHOOSE f : IsRun(f)
<1>1. n \in Nat /\ n >= 1
  BY LenProperties
<1>2. \A i \in 1 .. n : c[i] \in Nat
  <2> SUFFICES ASSUME NEW i \in 1 .. n PROVE c[i] \in Nat
    OBVIOUS
  <2>1. i \in DOMAIN w /\ w[i] \in Cells
    BY LenProperties, ElementOfSeq
  <2> QED
    BY <2>1, WideZero DEF Canonical
<1>3. Hash58(key, w) = 1 + state[n]
  BY DEF Hash58, Iterate
<1> HIDE DEF c, n
<1>4. Width - 1 \in Nat /\ Width - 1 > 0 /\ rest \subseteq Nat
  BY FormatAssumption
<1>5. \A x \in Nat : x % (Width - 1) \in rest
  BY <1>4, FormatAssumption
<1>6. \A s \in Nat, i \in 1 .. n : (s + i * c[i]) % (Width - 1) \in rest
  <2> SUFFICES ASSUME NEW s \in Nat, NEW i \in 1 .. n
               PROVE  (s + i * c[i]) % (Width - 1) \in rest
    OBVIOUS
  <2>1. i \in Nat /\ c[i] \in Nat
    BY <1>1, <1>2
  <2>2. s + i * c[i] \in Nat
    BY <2>1
  <2> QED
    BY <1>5, <2>2
<1> HIDE DEF rest
<1>7. PICK g : Iterates(g, F, key, n) /\ \A i \in 0 .. n : g[i] \in Nat
  <2>1. \A s \in Nat, i \in 1 .. n : F[<<s, i>>] \in Nat
    BY <1>4, <1>6
  <2> HIDE DEF F
  <2> QED
    BY <1>1, <2>1, IterationIn
<1>8. IsRun(g)
  <2>1. ASSUME NEW i \in 1 .. n
        PROVE  F[<<g[i - 1], i>>] = (g[i - 1] + i * c[i]) % (Width - 1)
    BY <1>1, <1>7
  <2> HIDE DEF F
  <2>2. g = [i \in 0 .. n |-> IF i = 0 THEN key ELSE F[<<g[i - 1], i>>]]
    BY <1>7 DEF Iterates
  <2>3. ASSUME NEW i \in 0 .. n
        PROVE  g[i] = IF i = 0 THEN key ELSE (g[i - 1] + i * c[i]) % (Width - 1)
    <3>1. CASE i = 0
      BY <2>2, <3>1
    <3>2. CASE i # 0
      <4>1. i \in 1 .. n
        BY <1>1, <3>2
      <4>2. g[i] = F[<<g[i - 1], i>>]
        BY <2>2, <3>2
      <4> QED
        BY <2>1, <3>2, <4>1, <4>2
    <3> QED
      BY <3>1, <3>2
  <2> QED
    BY <2>2, <2>3
<1> HIDE DEF IsRun, F
<1>9. IsRun(state)
  BY <1>8
<1> HIDE DEF state
<1>10. state[n] \in rest
  <2> DEFINE J == [i \in 0 .. n |-> IF i = 0 THEN Nat ELSE rest]
  <2>1. state[0] \in J[0]
    BY <1>1, <1>9 DEF IsRun
  <2>2. ASSUME NEW i \in 1 .. n, state[i - 1] \in J[i - 1] PROVE state[i] \in J[i]
    <3>1. i - 1 \in 0 .. n /\ i \in 0 .. n /\ i # 0
      BY <1>1
    <3>2. state[i - 1] \in Nat
      BY <1>4, <2>2, <3>1
    <3>3. state[i] = (state[i - 1] + i * c[i]) % (Width - 1)
      BY <1>9, <3>1 DEF IsRun
    <3>4. state[i] \in rest
      BY <1>6, <3>2, <3>3
    <3> QED
      BY <3>1, <3>4
  <2> HIDE DEF J
  <2>3. \A i \in 0 .. n : state[i] \in J[i]
    BY <1>1, <2>1, <2>2, AllOf
  <2>4. n \in 0 .. n /\ n # 0
    BY <1>1
  <2>5. J[n] = rest
    BY <2>4 DEF J
  <2> QED
    BY <2>3, <2>4, <2>5
<1> QED
  BY <1>3, <1>10, FormatAssumption DEF Cells, rest

=============================================================================
