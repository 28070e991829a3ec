--------------------------- MODULE RoundTripProofs ---------------------------
(***************************************************************************)
(* What the writer of DatabaseFormat writes the reader reads back, for     *)
(* every profile, every library and every size.                            *)
(*                                                                         *)
(* A record written at an offset is found there (Placed), its fields and   *)
(* sizes are those the reader asks for (Standing), its children follow one *)
(* another (Positions); so each loop of the reader, from the units of a    *)
(* text to the datasets of a file, goes through what the writer's went     *)
(* through.  The lemmas follow the nesting: text, string, track, member,   *)
(* playlist, the loops over them, dataset, root, file, signature.          *)
(***************************************************************************)
EXTENDS FormatProofs


-----------------------------------------------------------------------------
(* The way through the file: what the reader makes of what the writer      *)
(* wrote.  Placed says that r stands in w at an offset.                    *)
Placed(w, at, r) ==
  /\ at \in Nat /\ at + Len(r) <= Len(w)
  /\ \A i \in 1 .. Len(r) : w[at + i] = r[i]

LEMMA PlacedSplit ==
  ASSUME NEW w \in Seq(Nat), NEW at, NEW a \in Seq(Nat), NEW b \in Seq(Nat),
         Placed(w, at, a \o b)
  PROVE  Placed(w, at, a) /\ Placed(w, at + Len(a), b)
<1>1. /\ Len(a) \in Nat /\ Len(b) \in Nat /\ Len(w) \in Nat /\ at \in Nat
      /\ Len(a \o b) = Len(a) + Len(b)
      /\ at + Len(a) + Len(b) <= Len(w)
  BY LenProperties, ConcatProperties DEF Placed
<1>2. /\ \A i \in 1 .. Len(a) : (a \o b)[i] = a[i]
      /\ \A i \in 1 .. Len(b) : (a \o b)[Len(a) + i] = b[i]
  BY <1>1, ConcatProperties
<1>3. ASSUME NEW i \in 1 .. Len(a) PROVE w[at + i] = a[i]
  <2>1. i \in 1 .. Len(a \o b)
    BY <1>1
  <2> QED
    BY <1>2, <2>1 DEF Placed
<1>4. ASSUME NEW i \in 1 .. Len(b) PROVE w[at + Len(a) + i] = b[i]
  <2>1. Len(a) + i \in 1 .. Len(a \o b) /\ at + (Len(a) + i) = at + Len(a) + i
    BY <1>1
  <2>2. w[at + (Len(a) + i)] = (a \o b)[Len(a) + i]
    BY <2>1 DEF Placed
  <2> QED
    BY <1>2, <2>1, <2>2
<1>5. at + Len(a) \in Nat /\ at + Len(a) <= Len(w)
  BY <1>1
<1> QED
  BY <1>1, <1>3, <1>4, <1>5 DEF Placed

LEMMA PlacedCell ==
  ASSUME NEW w \in Seq(Nat), NEW at, NEW r \in Seq(Nat), Placed(w, at, r),
         NEW i \in Nat, i < Len(r)
  PROVE  Cell(w, at + i) = r[i + 1] /\ at + i < Len(w) /\ at + i \in Nat
<1>1. Len(r) \in Nat /\ Len(w) \in Nat /\ at \in Nat /\ at + Len(r) <= Len(w)
  BY LenProperties DEF Placed
<1>2. i + 1 \in 1 .. Len(r) /\ at + (i + 1) = at + i + 1 /\ at + i < Len(w) /\ at + i \in Nat
  BY <1>1
<1>3. w[at + (i + 1)] = r[i + 1]
  BY <1>2 DEF Placed
<1> QED
  BY <1>2, <1>3 DEF Cell

\* The n parts of a concatenation stand one after the other, part i up to p[i].
Positions(p, w, at, s, n) ==
  /\ p \in [0 .. n -> Nat] /\ p[0] = at /\ p[n] = at + Len(FlattenSeq(s))
  /\ \A i \in 0 .. n : p[i] <= p[n]
  /\ \A i \in 1 .. n : p[i] = p[i - 1] + Len(s[i]) /\ Placed(w, p[i - 1], s[i])

LEMMA PlacedParts ==
  ASSUME NEW w \in Seq(Nat), NEW at, NEW s \in Seq(Seq(Nat)), Placed(w, at, FlattenSeq(s)),
         NEW n, n = Len(s)
  PROVE  \E p : Positions(p, w, at, s, n)
<1>1. n \in Nat /\ at \in Nat /\ \A i \in 1 .. n : s[i] \in Seq(Nat)
  BY LenProperties, ElementOfSeq DEF Placed
<1>2. PICK f : Joined(f, s, Nat) /\ FlattenSeq(s) = f[n]
  BY Flattening
<1>3. /\ \A i \in 0 .. n : f[i] \in Seq(Nat) /\ Len(f[i]) \in Nat
      /\ f[0] = <<>> /\ Len(f[0]) = 0
      /\ \A i \in 1 .. n : f[i] = f[i - 1] \o s[i]
  BY <1>2, LenProperties, EmptySeq DEF Joined
<1> DEFINE Good(i) == Placed(w, at, f[i]) /\ Len(f[i]) <= Len(f[n])
           J == [i \in 0 .. n |-> {j \in {0} : Good(n - i)}]
           zero == [i \in 0 .. n |-> 0]
<1>4. ASSUME NEW i \in 1 .. n, Good(i)
      PROVE  /\ Good(i - 1) /\ Len(f[i]) = Len(f[i - 1]) + Len(s[i])
             /\ Placed(w, at + Len(f[i - 1]), s[i])
  <2>1. i - 1 \in 0 .. n /\ i \in 0 .. n
    BY <1>1
  <2>2. f[i - 1] \in Seq(Nat) /\ s[i] \in Seq(Nat) /\ f[i] = f[i - 1] \o s[i]
    BY <1>1, <1>3, <2>1
  <2>3. Len(f[i]) = Len(f[i - 1]) + Len(s[i]) /\ Len(s[i]) \in Nat
    BY <2>2, ConcatProperties, LenProperties
  <2>4. Placed(w, at, f[i - 1]) /\ Placed(w, at + Len(f[i - 1]), s[i])
    BY <1>4, <2>2, PlacedSplit
  <2>5. Len(f[i - 1]) <= Len(f[n])
    <3>1. Len(f[i - 1]) \in Nat /\ Len(f[n]) \in Nat /\ Len(f[i]) <= Len(f[n])
      BY SMTT(30), <1>1, <1>3, <1>4, <2>1
    <3>2. \A x, y, z \in Nat : x + y <= z => x <= z
      OBVIOUS
    <3>3. Len(f[i - 1]) + Len(s[i]) <= Len(f[n])
      BY <2>3, <3>1
    <3> QED
      BY <2>3, <3>1, <3>2, <3>3
  <2> QED
    BY <2>3, <2>4, <2>5
<1>5. Good(n)
  BY <1>1, <1>2, <1>3
<1> HIDE DEF Good
<1>6. \A i \in 0 .. n : zero[i] \in J[i]
  <2>1. zero[0] \in J[0]
    BY <1>1, <1>5
  <2>2. ASSUME NEW i \in 1 .. n, zero[i - 1] \in J[i - 1] PROVE zero[i] \in J[i]
    <3>1. i - 1 \in 0 .. n /\ i \in 0 .. n /\ n - (i - 1) \in 1 .. n /\ n - (i - 1) - 1 = n - i
      BY <1>1
    <3>2. Good(n - (i - 1))
      BY <2>2, <3>1
    <3>3. Good(n - i)
      BY <1>4, <3>1, <3>2
    <3> QED
      BY <3>1, <3>3
  <2> HIDE DEF J, zero
  <2> QED
    BY <1>1, <2>1, <2>2, AllOf
<1>7. \A i \in 0 .. n : Good(i)
  <2> SUFFICES ASSUME NEW i \in 0 .. n PROVE Good(i)
    OBVIOUS
  <2>1. n - i \in 0 .. n /\ n - (n - i) = i
    BY <1>1
  <2>2. zero[n - i] \in J[n - i]
    BY <1>6, <2>1
  <2> QED
    BY <2>1, <2>2
<1> DEFINE p == [i \in 0 .. n |-> at + Len(f[i])]
<1>8. p \in [0 .. n -> Nat] /\ p[0] = at /\ p[n] = at + Len(FlattenSeq(s))
  <2>1. \A i \in 0 .. n : at + Len(f[i]) \in Nat
    BY <1>1, <1>3
  <2>2. at + Len(f[0]) = at
    BY <1>1, <1>3
  <2> QED
    BY <1>1, <1>2, <2>1, <2>2
<1>9. \A i \in 0 .. n : p[i] <= p[n]
  <2> SUFFICES ASSUME NEW i \in 0 .. n PROVE at + Len(f[i]) <= at + Len(f[n])
    BY <1>1
  <2>1. Len(f[i]) \in Nat /\ Len(f[n]) \in Nat /\ Len(f[i]) <= Len(f[n])
    BY <1>1, <1>3, <1>7 DEF Good
  <2> QED
    BY <1>1, <2>1
<1>10. ASSUME NEW i \in 1 .. n
       PROVE  p[i] = p[i - 1] + Len(s[i]) /\ Placed(w, p[i - 1], s[i])
  <2>1. i - 1 \in 0 .. n /\ i \in 0 .. n
    BY <1>1
  <2>2. /\ Len(f[i]) = Len(f[i - 1]) + Len(s[i])
        /\ Placed(w, at + Len(f[i - 1]), s[i])
    BY <1>4, <1>7, <2>1
  <2>3. Len(f[i - 1]) \in Nat /\ Len(s[i]) \in Nat
    BY <1>1, <1>3, <2>1, LenProperties
  <2>4. p[i] = at + Len(f[i]) /\ p[i - 1] = at + Len(f[i - 1])
    BY <2>1
  <2>5. \A x, y, z, v \in Nat : v = y + z => x + v = x + y + z
    OBVIOUS
  <2>7. Len(f[i]) \in Nat
    BY <1>3, <2>1
  <2> HIDE DEF p, zero, J
  <2>6. at \in Nat
    BY <1>1
  <2>9. Len(f[i]) = Len(f[i - 1]) + Len(s[i])
    BY <2>2
  <2>8. at + Len(f[i]) = at + Len(f[i - 1]) + Len(s[i])
    <3> DEFINE x == Len(f[i]) 
               y == Len(f[i-1])
               z == Len(s[i])
    <3>1. x \in Nat /\ y \in Nat /\ z \in Nat /\ x = y + z
       BY <2>3, <2>7, <2>9
    <3> HIDE DEF x, y, z
    <3>2. at + x = at + y + z
      BY <2>6, <3>1
    <3> QED BY <3>2 DEF x, y, z
  <2> QED
    BY <2>2, <2>4, <2>8
<1> HIDE DEF p
<1> QED
  BY <1>8, <1>9, <1>10 DEF Positions

\* A sequence, element by element.
LEMMA Fronts ==
  ASSUME NEW S, NEW s \in Seq(S)
  PROVE  /\ SubSeq(s, 1, 0) = <<>> /\ SubSeq(s, 1, Len(s)) = s
         /\ \A i \in 1 .. Len(s) : SubSeq(s, 1, i) = Append(SubSeq(s, 1, i - 1), s[i])
<1>1. Len(s) \in Nat
  BY LenProperties
<1>2. SubSeq(s, 1, 0) = <<>> /\ SubSeq(s, 1, Len(s)) = s
  BY <1>1
<1>3. ASSUME NEW i \in 1 .. Len(s)
      PROVE  SubSeq(s, 1, i) = Append(SubSeq(s, 1, i - 1), s[i])
  BY <1>1
<1> QED
  BY <1>2, <1>3

-----------------------------------------------------------------------------
(* Text.                                                                   *)

UnitStart == [ok |-> TRUE, high |-> 0, text |-> <<>>]
IsDecoding(f, units) ==
  f = [i \in 0 .. Len(units) |-> IF i = 0 THEN UnitStart
                                 ELSE NextUnit(f[i - 1], units[i] % 16)]

LEMMA Decoding ==
  ASSUME NEW units \in Seq(Nat)
  PROVE  \E f : IsDecoding(f, units) /\ Decoded(units) = f[Len(units)]
<1> DEFINE n == Len(units)
           start == [ok |-> TRUE, high |-> 0, text |-> <<>>]
           IsRun(f) == f = [i \in 0 .. n |-> IF i = 0 THEN start
                                             ELSE NextUnit(f[i - 1], units[i] % 16)]
           F == [p \in UnitStates \X (1 .. n) |-> NextUnit(p[1], units[p[2]] % 16)]
           state == CHOOSE f : IsRun(f)
<1>1. n \in Nat /\ start \in UnitStates
  BY EmptySeq, LenProperties DEF UnitStates
<1>2. \A c \in UnitStates, i \in 1 .. n : NextUnit(c, units[i] % 16) \in UnitStates
  <2> SUFFICES ASSUME NEW c \in UnitStates, NEW i \in 1 .. n
               PROVE  NextUnit(c, units[i] % 16) \in UnitStates
    OBVIOUS
  <2>1. units[i] \in Nat
    BY ElementOfSeq
  <2>2. \A x \in Nat : x % 16 \in 0 .. 15
    OBVIOUS
  <2> QED
    BY <2>1, <2>2, NextUnitType
<1>3. Decoded(units) = state[n]
  BY DEF Decoded, Iterate
<1> HIDE DEF n, start
<1>4. PICK g : Iterates(g, F, start, n) /\ \A i \in 0 .. n : g[i] \in UnitStates
  BY <1>1, <1>2, IterationIn
<1>5. IsRun(g)
  <2>1. ASSUME NEW i \in 1 .. n
        PROVE  F[<<g[i - 1], i>>] = NextUnit(g[i - 1], units[i] % 16)
    BY <1>1, <1>4
  <2> HIDE DEF F
  <2> QED
    BY <1>1, <1>4, <2>1 DEF Iterates
<1> HIDE DEF IsRun
<1>6. IsRun(state)
  BY <1>5
<1> HIDE DEF state
<1>7. IsDecoding(state, units)
  BY <1>6 DEF IsRun, IsDecoding, UnitStart, start, n
<1> QED
  BY <1>3, <1>7 DEF n

Points == (0 .. MaxPoint) \ (HighUnits \cup LowUnits)
Clean(text) == [ok |-> TRUE, high |-> 0, text |-> text]

\* The units of one point, decoded.
LEMMA LowPoint ==
  ASSUME NEW t \in Seq(Nat), NEW c \in Points, c < 16
  PROVE  UnitsOf(c) = <<c>> /\ c \in 0 .. 15 /\ NextUnit(Clean(t), c) = Clean(Append(t, c))
<1>1. c \in 0 .. 15 /\ c \notin HighUnits /\ c \notin LowUnits
  BY DEF Points, MaxPoint, HighUnits, LowUnits
<1>2. UnitsOf(c) = <<c>>
  BY DEF UnitsOf
<1>3. NextUnit(Clean(t), c) = [Clean(t) EXCEPT !.text = Append(t, c)]
  BY <1>1 DEF NextUnit, Clean
<1> QED
  BY <1>1, <1>2, <1>3 DEF Clean

LEMMA HighPoint ==
  ASSUME NEW t \in Seq(Nat), NEW c \in Points, c >= 16
  PROVE  \E h, l \in 0 .. 15 : /\ UnitsOf(c) = <<h, l>>
                               /\ NextUnit(NextUnit(Clean(t), h), l) = Clean(Append(t, c))
<1>1. c \in 16 .. 19
  BY DEF Points, MaxPoint
<1>2. PICK h \in 8 .. 9, l \in 10 .. 11 : UnitsOf(c) = <<h, l>> /\ 16 + 2 * (h - 8) + (l - 10) = c
  <2> DEFINE h == 8 + ((c - 16) \div 2)
             l == 10 + ((c - 16) % 2)
  <2>1. h \in 8 .. 9 /\ l \in 10 .. 11 /\ 16 + 2 * (h - 8) + (l - 10) = c
    BY <1>1
  <2>2. UnitsOf(c) = <<h, l>>
    BY <1>1 DEF UnitsOf
  <2> HIDE DEF h, l
  <2> QED
    BY <2>1, <2>2
<1>3. NextUnit(Clean(t), h) = [ok |-> TRUE, high |-> h, text |-> t]
  <2>1. h \in HighUnits /\ Clean(t).ok /\ Clean(t).high = 0
    BY <1>2 DEF HighUnits, Clean
  <2>2. NextUnit(Clean(t), h) = [Clean(t) EXCEPT !.high = h]
    BY <2>1 DEF NextUnit
  <2> QED
    BY <2>2 DEF Clean
<1>4. NextUnit(NextUnit(Clean(t), h), l) = Clean(Append(t, c))
  <2> DEFINE u == [ok |-> TRUE, high |-> h, text |-> t]
  <2>1. l \in LowUnits /\ u.ok /\ u.high # 0 /\ u.high = h /\ u.text = t
    BY <1>2 DEF LowUnits
  <2>2. NextUnit(u, l) = [u EXCEPT !.high = 0, !.text = Append(t, c)]
    <3> HIDE DEF u
    <3> QED
      BY <1>2, <2>1 DEF NextUnit
  <2>3. NextUnit(u, l) = Clean(Append(t, c))
    BY <2>2 DEF Clean
  <2> QED
    BY <1>3, <2>3
<1>5. h \in 0 .. 15 /\ l \in 0 .. 15
  BY <1>2
<1> QED
  BY <1>2, <1>4, <1>5

\* A text survives the way through its units.
LEMMA TextKept ==
  ASSUME NEW text \in Seq(Nat), Encodable(text)
  PROVE  Decode(Encode(text)) = [ok |-> TRUE, text |-> text]
<1> DEFINE units == Encode(text)
           parts == [i \in DOMAIN text |-> UnitsOf(text[i])]
           n == Len(text)
<1>1. units \in Seq(Nat) /\ units \in Seq(0 .. 15) /\ n \in Nat /\ Len(units) \in Nat
  BY EncodeType, LenProperties
<1>2. /\ DOMAIN text = 1 .. n
      /\ \A i \in 1 .. n : text[i] \in Nat /\ text[i] \in Points
  BY LenProperties, ElementOfSeq DEF Encodable, Points
<1>3. units = FlattenSeq(parts)
  BY DEF Encode, UnitsOf
<1>4. parts \in [1 .. n -> Seq(Nat)] /\ \A i \in 1 .. n : parts[i] = UnitsOf(text[i])
  BY <1>2, UnitsType
<1> HIDE DEF units, parts, n
<1>5. parts \in Seq(Seq(Nat)) /\ Len(parts) = n
  BY <1>1, <1>4, FieldsAreCells
<1>6. Placed(units, 0, FlattenSeq(parts))
  BY <1>1, <1>3 DEF Placed
<1>7. PICK p : Positions(p, units, 0, parts, n)
  BY <1>1, <1>5, <1>6, PlacedParts
<1>8. PICK f : IsDecoding(f, units) /\ Decoded(units) = f[Len(units)]
  BY <1>1, Decoding
<1>9. /\ f[0] = UnitStart
      /\ \A j \in 1 .. Len(units) : f[j] = NextUnit(f[j - 1], units[j])
  <2>1. \A j \in 1 .. Len(units) : units[j] \in 0 .. 15
    BY <1>1, ElementOfSeq
  <2>2. \A x \in 0 .. 15 : x % 16 = x
    OBVIOUS
  <2>3. \A j \in 1 .. Len(units) : j \in 0 .. Len(units) /\ j # 0
    BY <1>1
  <2>4. 0 \in 0 .. Len(units)
    BY <1>1
  <2>5. ASSUME NEW j \in 1 .. Len(units) PROVE f[j] = NextUnit(f[j - 1], units[j])
    <3>1. f[j] = NextUnit(f[j - 1], units[j] % 16)
      BY <1>8, <2>3 DEF IsDecoding
    <3> QED
      BY <2>1, <2>2, <3>1
  <2> QED
    BY <1>8, <2>4, <2>5 DEF IsDecoding
<1> DEFINE at == [i \in 0 .. n |-> f[p[i]]]
           J == [i \in 0 .. n |-> {Clean(SubSeq(text, 1, i))}]
<1>10. at[0] \in J[0]
  <2>1. at[0] = UnitStart /\ SubSeq(text, 1, 0) = <<>>
    BY <1>1, <1>7, <1>9, Fronts DEF Positions
  <2>2. J[0] = {Clean(SubSeq(text, 1, 0))}
    BY <1>1
  <2> HIDE DEF at, J
  <2>3. UnitStart = Clean(<<>>)
    BY DEF UnitStart, Clean
  <2> QED
    BY <2>1, <2>2, <2>3
<1>11. ASSUME NEW i \in 1 .. n, at[i - 1] \in J[i - 1] PROVE at[i] \in J[i]
  <2> DEFINE t == SubSeq(text, 1, i - 1)
             c == text[i]
             q == p[i - 1]
  <2>1. /\ i \in 0 .. n /\ i - 1 \in 0 .. n /\ q \in Nat /\ p[i] = q + Len(UnitsOf(c))
        /\ Placed(units, q, UnitsOf(c)) /\ c \in Points
    BY <1>1, <1>2, <1>4, <1>7 DEF Positions
  <2>2. f[q] = Clean(t)
    BY <1>11, <2>1
  <2>3. t \in Seq(Nat) /\ SubSeq(text, 1, i) = Append(t, c)
    BY Fronts DEF n
  <2> HIDE DEF t, c, q
  <2>4. f[p[i]] = Clean(Append(t, c))
    <3>1. CASE c < 16
      <4>1. UnitsOf(c) = <<c>> /\ NextUnit(Clean(t), c) = Clean(Append(t, c))
        BY <2>1, <2>3, <3>1, LowPoint
      <4>2. Len(<<c>>) = 1 /\ <<c>>[1] = c
        OBVIOUS
      <4>3. p[i] = q + 1 /\ units[q + 1] = c /\ q + 1 <= Len(units)
        BY <2>1, <4>1, <4>2 DEF Placed
      <4>4. q + 1 \in 1 .. Len(units) /\ (q + 1) - 1 = q
        BY <1>1, <2>1, <4>3
      <4> QED
        BY <1>9, <2>2, <4>1, <4>3, <4>4
    <3>2. CASE c >= 16
      <4>1. PICK h, l \in 0 .. 15 : /\ UnitsOf(c) = <<h, l>>
                                    /\ NextUnit(NextUnit(Clean(t), h), l) = Clean(Append(t, c))
        BY <2>1, <2>3, <3>2, HighPoint
      <4>2. Len(<<h, l>>) = 2 /\ <<h, l>>[1] = h /\ <<h, l>>[2] = l
        OBVIOUS
      <4>3. /\ p[i] = q + 2 /\ q + 2 <= Len(units)
            /\ units[q + 1] = h /\ units[q + 2] = l
        BY <2>1, <4>1, <4>2 DEF Placed
      <4>4. /\ q + 1 \in 1 .. Len(units) /\ (q + 1) - 1 = q
            /\ q + 2 \in 1 .. Len(units) /\ (q + 2) - 1 = q + 1
        BY <1>1, <2>1, <4>3
      <4>5. f[q + 1] = NextUnit(Clean(t), h)
        BY <1>9, <2>2, <4>3, <4>4
      <4> QED
        BY <1>9, <4>1, <4>3, <4>4, <4>5
    <3> QED
      BY <2>1, <3>1, <3>2 DEF Points, MaxPoint
  <2> QED
    BY <2>1, <2>3, <2>4
<1> HIDE DEF at, J
<1>12. \A i \in 0 .. n : at[i] \in J[i]
  BY <1>1, <1>10, <1>11, AllOf
<1>13. Decoded(units) = Clean(text)
  <2>1. at[n] = f[Len(units)]
    BY <1>1, <1>3, <1>7 DEF at, Positions
  <2>2. at[n] = Clean(SubSeq(text, 1, n))
    BY <1>1, <1>12 DEF J
  <2>3. SubSeq(text, 1, n) = text
    BY Fronts DEF n
  <2> QED
    BY <1>8, <2>1, <2>2, <2>3
<1>14. Decode(units) = [ok |-> Decoded(units).ok /\ Decoded(units).high = 0,
                       text |-> Decoded(units).text]
  BY DEF Decode
<1>15. Clean(text).ok /\ Clean(text).high = 0 /\ Clean(text).text = text
  BY DEF Clean
<1>16. (Clean(text).ok /\ Clean(text).high = 0) = TRUE
  BY <1>15
<1> QED
  BY <1>13, <1>14, <1>15, <1>16 DEF units

-----------------------------------------------------------------------------
(* Records.                                                                *)

LEMMA PlacedSub ==
  ASSUME NEW w \in Seq(Nat), NEW at, NEW r \in Seq(Nat), Placed(w, at, r)
  PROVE  SubSeq(w, at + 1, at + Len(r)) = r
<1> DEFINE n == Len(r)
<1>1. n \in Nat /\ at \in Nat /\ Len(w) \in Nat /\ at + n <= Len(w) /\ DOMAIN r = 1 .. n
      /\ r \in [1 .. n -> Nat]
  BY LenProperties DEF Placed
<1>2. \A i \in 1 .. n : w[at + i] = r[i]
  BY DEF Placed
<1> HIDE DEF n
<1>3. SubSeq(w, at + 1, at + n) = [i \in 1 .. n |-> w[at + i]]
  BY <1>1
<1>4. [i \in 1 .. n |-> w[at + i]] = [i \in 1 .. n |-> r[i]]
  BY <1>2
<1>5. [i \in 1 .. n |-> r[i]] = r
  BY <1>1
<1> QED
  BY <1>3, <1>4, <1>5 DEF n

LEMMA EnvelopeAccepted ==
  ASSUME NEW w \in Seq(Cells), NEW at \in Nat, NEW end \in Nat, NEW marker, NEW minimum \in Nat,
         Cell(w, at) = marker, minimum >= 3, minimum <= Header(w, at),
         Header(w, at) <= Size(w, at), at + Size(w, at) <= end, end <= Len(w)
  PROVE  EnvelopeError(w, at, end, minimum, marker) = "none"
<1>1. Header(w, at) \in Nat /\ Size(w, at) \in Nat /\ Len(w) \in Nat
  BY CellType, LenProperties
<1>2. at + 3 <= end /\ at <= end /\ 3 <= end - at /\ Size(w, at) <= end - at
  BY <1>1
<1> QED
  BY <1>1, <1>2 DEF EnvelopeError, Fits, Within

\* A record of a header of fixed size, and what follows it.
Standing(w, at, marker, header, size, fields, kids) ==
  /\ at \in Nat /\ Len(kids) \in Nat /\ Len(w) \in Nat
  /\ at + header + Len(kids) <= Len(w)
  /\ Len(fields \o kids) = header + Len(kids)
  /\ Cell(w, at) = marker /\ Header(w, at) = header /\ Size(w, at) = size
  /\ Body(w, at) = at + header /\ End(w, at) = at + size
  /\ Placed(w, at + header, kids)
  /\ \A i \in 0 .. header - 1 : Cell(w, at + i) = fields[i + 1]

LEMMA RecordPlaced ==
  ASSUME NEW w \in Seq(Cells), NEW at, NEW header \in Nat, NEW fields \in [1 .. header -> Nat],
         NEW kids \in Seq(Nat), header >= 3, NEW marker, NEW size,
         fields[1] = marker, fields[2] = header, fields[3] = size,
         Placed(w, at, fields \o kids)
  PROVE  Standing(w, at, marker, header, size, fields, kids)
<1>1. w \in Seq(Nat) /\ fields \in Seq(Nat) /\ Len(fields) = header
  <2>1. Cells \subseteq Nat
    BY FormatAssumption DEF Cells
  <2>2. w \in [1 .. Len(w) -> Nat] /\ Len(w) \in Nat
    BY <2>1, LenProperties, ElementOfSeq
  <2> QED
    BY <2>2, FieldsAreCells
<1>2. Placed(w, at, fields) /\ Placed(w, at + header, kids)
  BY <1>1, PlacedSplit
<1>3. at \in Nat /\ Len(kids) \in Nat /\ Len(w) \in Nat /\ at + header + Len(kids) <= Len(w)
  BY <1>2, LenProperties DEF Placed
<1>4. Len(fields \o kids) = header + Len(kids)
  <2>1. fields \in Seq(Nat) /\ Len(fields) = header
    BY <1>1
  <2>2. Len(fields \o kids) = Len(fields) + Len(kids)
    BY <2>1, ConcatProperties
  <2> QED
    BY <2>1, <2>2
<1>5. ASSUME NEW i \in 0 .. header - 1 PROVE Cell(w, at + i) = fields[i + 1]
  <2>1. i \in Nat /\ i < Len(fields)
    BY <1>1
  <2>2. w \in Seq(Nat) /\ fields \in Seq(Nat) /\ Placed(w, at, fields)
    BY <1>1, <1>2
  <2> QED
    BY <2>1, <2>2, PlacedCell
<1>6. Cell(w, at) = marker /\ Cell(w, at + 1) = header /\ Cell(w, at + 2) = size
  <2>1. 0 \in 0 .. header - 1 /\ 1 \in 0 .. header - 1 /\ 2 \in 0 .. header - 1 /\ at + 0 = at
    BY <1>3
  <2>2. Cell(w, at + 0) = fields[0 + 1] /\ Cell(w, at + 1) = fields[1 + 1] /\ Cell(w, at + 2) = fields[2 + 1]
    BY <1>5, <2>1
  <2> QED
    BY <2>1, <2>2
<1> QED
  BY <1>2, <1>3, <1>4, <1>5, <1>6 DEF Header, Size, Body, End, Standing

LEMMA CellsAreNats == ASSUME NEW w \in Seq(Cells) PROVE w \in Seq(Nat)
<1>1. Cells \subseteq Nat
  BY FormatAssumption DEF Cells
<1>2. w \in [1 .. Len(w) -> Nat] /\ Len(w) \in Nat
  BY <1>1, LenProperties, ElementOfSeq
<1> QED
  BY <1>2, FieldsAreCells

\* The fixed part of every record.
Fixed(r, marker, header, size) ==
  /\ r \in [1 .. header -> Nat] /\ r[1] = marker /\ r[2] = header /\ r[3] = size
  /\ \A i \in 4 .. header : r[i] = 0

LEMMA RecordFields ==
  ASSUME NEW marker \in Nat, NEW header \in Nat, NEW size \in Nat, header >= 3
  PROVE  Fixed(Record(marker, header, size), marker, header, size)
BY DEF Record, Fixed

\* A text record.
LEMMA StringKept ==
  ASSUME NEW w \in Seq(Cells), NEW at, NEW end \in Nat, NEW type \in TextTypes,
         NEW text \in Seq(Nat), Encodable(text), Placed(w, at, StringRecord(type, text)),
         at + Len(StringRecord(type, text)) <= end, end <= Len(w)
  PROVE  /\ at \in Nat /\ Len(StringRecord(type, text)) \in Nat
         /\ Len(StringRecord(type, text)) >= 10
         /\ MhodError(w, at, end) = "none" /\ Cell(w, at + 3) = type
         /\ Size(w, at) = Len(StringRecord(type, text))
         /\ MhodText(w, at).text = text
<1> DEFINE units == Encode(text)
           n == Len(units)
           plain == Record(mhod, 6, 10 + n)
           fields == [plain EXCEPT ![4] = type]
           prefix == <<0, n, 1, 0>>
           kids == prefix \o units
<1>1. units \in Seq(Nat) /\ n \in Nat /\ Decode(units) = [ok |-> TRUE, text |-> text]
  BY EncodeType, TextKept
<1>2. StringRecord(type, text) = fields \o prefix \o units
  BY DEF StringRecord
<1> HIDE DEF units, n
<1>3. type \in Nat /\ type \in 1 .. 4
  BY DEF TextTypes
<1>4. /\ fields \in [1 .. 6 -> Nat] /\ fields[1] = mhod /\ fields[2] = 6 /\ fields[3] = 10 + n
      /\ fields[4] = type
  <2>1. mhod \in Nat /\ 6 \in Nat /\ 10 + n \in Nat /\ 6 >= 3
    BY <1>1 DEF mhod
  <2>2. plain \in [1 .. 6 -> Nat] /\ plain[1] = mhod /\ plain[2] = 6 /\ plain[3] = 10 + n
    <3>1. Fixed(plain, mhod, 6, 10 + n)
      BY <2>1, RecordFields
    <3> HIDE DEF plain
    <3> QED
      BY <3>1 DEF Fixed
  <2> HIDE DEF plain
  <2> QED
    BY SMTT(30), <1>3, <2>2
<1>5. prefix \in Seq(Nat) /\ Len(prefix) = 4 /\ prefix[2] = n
  BY <1>1
<1> HIDE DEF plain, fields, prefix
<1>6. kids \in Seq(Nat) /\ Len(kids) = 4 + n
  BY ZenonT(60), <1>1, <1>5, ConcatProperties DEF n
<1>7. StringRecord(type, text) = fields \o kids
  <2>1. fields \in Seq(Nat)
    BY <1>4, FieldsAreCells
  <2> QED
    BY <1>1, <1>2, <1>5, <2>1, JoinThree
<1> HIDE DEF kids
<1>8. Standing(w, at, mhod, 6, 10 + n, fields, kids)
  <2>1. 6 \in Nat /\ 6 >= 3 /\ Placed(w, at, fields \o kids)
    BY <1>7
  <2> QED
    BY <1>4, <1>6, <2>1, RecordPlaced
<1>9. Cell(w, at + 3) = type
  BY <1>4, <1>8 DEF Standing
<1>10. Placed(w, at + 6, prefix) /\ Placed(w, at + 10, units)
  <2>1. w \in Seq(Nat) /\ at + 6 + 4 = at + 10
    BY <1>8, CellsAreNats DEF Standing
  <2>2. Placed(w, at + 6, prefix) /\ Placed(w, at + 6 + Len(prefix), units)
    BY <1>1, <1>5, <1>8, <2>1, PlacedSplit DEF kids, Standing
  <2> QED
    BY <1>5, <2>1, <2>2
<1>11. Cell(w, at + 7) = n
  <2>1. at + 6 + 1 = at + 7 /\ 1 < Len(prefix) /\ w \in Seq(Nat)
    BY <1>5, <1>8, CellsAreNats DEF Standing
  <2>2. prefix \in Seq(Nat) /\ Placed(w, at + 6, prefix) /\ 1 \in Nat
    BY <1>5, <1>10
  <2>3. Cell(w, at + 6 + 1) = prefix[1 + 1]
    BY <2>1, <2>2, PlacedCell
  <2> QED
    BY <1>5, <2>1, <2>3
<1>12. MhodText(w, at) = [ok |-> TRUE, text |-> text]
  <2>1. SubSeq(w, at + 10 + 1, at + 10 + n) = units
    BY <1>1, <1>10, CellsAreNats, PlacedSub DEF n
  <2>2. at + 10 + 1 = at + 11
    BY <1>8 DEF Standing
  <2> QED
    BY <1>1, <1>11, <2>1, <2>2 DEF MhodText
<1>13. Len(StringRecord(type, text)) = 10 + n
  BY <1>1, <1>6, <1>7, <1>8 DEF Standing
<1>14. EnvelopeError(w, at, end, 6, mhod) = "none"
  <2>1. 6 >= 3 /\ 6 <= 10 + n /\ at + (10 + n) <= end
    BY <1>1, <1>8, <1>13 DEF Standing
  <2> HIDE DEF mhod
  <2> QED
    BY SMTT(30), <1>8, <2>1, EnvelopeAccepted DEF Standing
<1>15. MhodError(w, at, end) = "none"
  <2>1. Within(w, at, 4) /\ Fits(at + 10, n, at + (10 + n)) /\ Within(w, at + 10, n)
    BY <1>1, <1>6, <1>8 DEF Within, Fits, Standing
  <2>2. Header(w, at) = 6 /\ ~(Size(w, at) < 10) /\ MhodText(w, at).ok
    BY <1>1, <1>8, <1>12 DEF Standing
  <2> QED
    BY <1>8, <1>9, <1>11, <1>14, <2>1, <2>2 DEF MhodError, Or, Standing
<1> QED
  BY <1>1, <1>8, <1>9, <1>12, <1>13, <1>15 DEF Standing

\* A loop whose states are known.
LEMMA LoopKnown ==
  ASSUME NEW n \in Nat, NEW e, NEW f, f[0] = e[0],
         \A i \in 1 .. n : f[i - 1] = e[i - 1] => f[i] = e[i]
  PROVE  f[n] = e[n]
<1> DEFINE J == [i \in 0 .. n |-> {e[i]}]
<1>1. f[0] \in J[0]
  OBVIOUS
<1>2. ASSUME NEW i \in 1 .. n, f[i - 1] \in J[i - 1] PROVE f[i] \in J[i]
  <2>1. i - 1 \in 0 .. n /\ i \in 0 .. n
    OBVIOUS
  <2> QED
    BY <1>2, <2>1
<1> HIDE DEF J
<1>3. \A i \in 0 .. n : f[i] \in J[i]
  BY <1>1, <1>2, AllOf
<1> QED
  BY <1>3 DEF J

\* What the reader knows after i texts of a record.
ChildAt(p, texts, i) ==
  [at |-> p[i], error |-> "none", seen |-> 1 .. i,
   text |-> [type \in TextTypes |-> IF type <= i THEN texts[type] ELSE <<>>]]

\* n texts stand in a row from p[0] to p[n].
TextsStand(w, end, p, texts, n) ==
  /\ n \in 1 .. 4 /\ p \in [0 .. n -> Nat] /\ texts \in [1 .. n -> Seq(Nat)]
  /\ p[n] <= end /\ end \in Nat /\ end <= Len(w)
  /\ \A i \in 1 .. n : /\ Encodable(texts[i]) /\ Placed(w, p[i - 1], StringRecord(i, texts[i]))
                       /\ p[i] = p[i - 1] + Len(StringRecord(i, texts[i])) /\ p[i] <= p[n]

LEMMA ChildKept ==
  ASSUME NEW w \in Seq(Cells), NEW end, NEW p, NEW texts, NEW n,
         TextsStand(w, end, p, texts, n), NEW i \in 1 .. n
  PROVE  /\ ChildStep(w, end, ChildAt(p, texts, i - 1)) = ChildAt(p, texts, i)
         /\ p[i - 1] + 10 <= p[i]
<1> DEFINE at == p[i - 1]
           c == ChildAt(p, texts, i - 1)
           r == StringRecord(i, texts[i])
           prefix(k) == [type \in TextTypes |-> IF type <= k THEN texts[type] ELSE <<>>]
<1>1. /\ n \in 1 .. 4 /\ i - 1 \in 0 .. n /\ i \in 0 .. n /\ i \in TextTypes
      /\ at \in Nat /\ p[i] \in Nat /\ p[n] \in Nat /\ p[i] <= p[n] /\ p[n] <= end
      /\ end \in Nat /\ end <= Len(w)
      /\ texts[i] \in Seq(Nat) /\ Encodable(texts[i]) /\ Placed(w, at, r) /\ p[i] = at + Len(r)
  <2>1. n \in 1 .. 4
    BY DEF TextsStand
  <2>2. i - 1 \in 0 .. n /\ i \in 0 .. n /\ n \in 0 .. n /\ i \in TextTypes
    BY <2>1 DEF TextTypes
  <2>3. at \in Nat /\ p[i] \in Nat /\ p[n] \in Nat
    BY <2>2 DEF TextsStand
  <2> QED
    BY <2>1, <2>2, <2>3 DEF TextsStand
<1> HIDE DEF at, r
<1>2. at + Len(r) <= end
  BY <1>1
<1>3. /\ Len(r) \in Nat /\ Len(r) >= 10 /\ MhodError(w, at, end) = "none"
      /\ Cell(w, at + 3) = i /\ Size(w, at) = Len(r) /\ MhodText(w, at).text = texts[i]
  BY <1>1, <1>2, StringKept DEF r
<1>4. c = [at |-> at, error |-> "none", seen |-> 1 .. i - 1, text |-> prefix(i - 1)]
  BY DEF ChildAt, at
<1>5. [prefix(i - 1) EXCEPT ![i] = texts[i]] = prefix(i)
  <2> DEFINE old == prefix(i - 1)
             new == prefix(i)
  <2>1. \A type \in TextTypes : type # i => (type <= i - 1 <=> type <= i)
    BY <1>1 DEF TextTypes
  <2>2. \A type \in TextTypes : new[type] = IF type = i THEN texts[i] ELSE old[type]
    BY <1>1, <2>1 DEF TextTypes
  <2>3. old = [t \in TextTypes |-> old[t]] /\ new = [t \in TextTypes |-> new[t]]
    OBVIOUS
  <2> HIDE DEF old, new
  <2>4. [old EXCEPT ![i] = texts[i]] = new
    BY <1>1, <2>2, <2>3
  <2> QED
    BY <2>4 DEF old, new
<1>6. (1 .. i - 1) \cup {i} = 1 .. i
  BY <1>1
<1> HIDE DEF c, prefix
<1>7. ChildStep(w, end, c) = NextChild(w, c, i, "none")
  BY <1>3, <1>4 DEF ChildStep
<1>8. NextChild(w, c, i, "none") = [c EXCEPT !.at = at + Len(r), !.seen = (1 .. i - 1) \cup {i},
                                            !.text = [prefix(i - 1) EXCEPT ![i] = texts[i]]]
  BY <1>1, <1>3, <1>4 DEF NextChild
<1>9. NextChild(w, c, i, "none") = [at |-> p[i], error |-> "none", seen |-> 1 .. i, text |-> prefix(i)]
  BY <1>1, <1>4, <1>5, <1>6, <1>8
<1> QED
  BY <1>1, <1>3, <1>7, <1>9 DEF ChildAt, c, prefix, at

LEMMA ChildrenKept ==
  ASSUME NEW w \in Seq(Cells), NEW end, NEW p, NEW texts, NEW n,
         TextsStand(w, end, p, texts, n)
  PROVE  Children(w, p[0], end, n) = ChildAt(p, texts, n) /\ p[0] + 10 * n <= p[n]
<1> DEFINE e == [i \in 0 .. n |-> ChildAt(p, texts, i)]
           start == [at |-> p[0], error |-> "none", seen |-> {}, text |-> [t \in TextTypes |-> <<>>]]
           IsRun(f) == f = [i \in 0 .. n |-> IF i = 0 THEN start ELSE ChildStep(w, end, f[i - 1])]
           state == CHOOSE f : IsRun(f)
<1>1. /\ n \in Nat /\ n \in 1 .. 4 /\ Len(w) \in Nat /\ p[n] <= Len(w) /\ p[n] \in Nat
      /\ p \in [0 .. n -> Nat]
  BY LenProperties DEF TextsStand
<1>2. p[0] + 10 * n <= p[n]
  <2>1. \A i \in 1 .. n : p[i - 1] + 10 <= p[i]
    BY ChildKept
  <2>2. \A i \in 0 .. n : p[i] \in Nat
    BY <1>1
  <2>3. p[0] \in Nat /\ p[1] \in Nat /\ p[0] + 10 <= p[1]
    <3>1. 1 \in 1 .. n /\ 0 \in 0 .. n /\ 1 \in 0 .. n /\ 1 - 1 = 0
      BY <1>1
    <3> QED
      BY <2>1, <2>2, <3>1
  <2>4. n >= 2 => p[2] \in Nat /\ p[1] + 10 <= p[2]
    <3>1. n >= 2 => 2 \in 1 .. n /\ 2 \in 0 .. n /\ 2 - 1 = 1
      BY <1>1
    <3> QED
      BY <2>1, <2>2, <3>1
  <2>5. n >= 3 => p[3] \in Nat /\ p[2] + 10 <= p[3]
    <3>1. n >= 3 => 3 \in 1 .. n /\ 3 \in 0 .. n /\ 3 - 1 = 2
      BY <1>1
    <3> QED
      BY <2>1, <2>2, <3>1
  <2>6. n >= 4 => p[4] \in Nat /\ p[3] + 10 <= p[4]
    <3>1. n >= 4 => 4 \in 1 .. n /\ 4 \in 0 .. n /\ 4 - 1 = 3
      BY <1>1
    <3> QED
      BY <2>1, <2>2, <3>1
  <2>7. n = 1 \/ n = 2 \/ n = 3 \/ n = 4
    BY <1>1
  <2>8. /\ 10 * 1 = 10 /\ 10 * 2 = 20 /\ 10 * 3 = 30 /\ 10 * 4 = 40
        /\ \A x, y, z, k \in Nat : x + k <= y /\ y + 10 <= z => x + (k + 10) <= z
    OBVIOUS
  <2>9. n >= 2 => p[0] + 20 <= p[2]
    BY <2>3, <2>4, <2>8
  <2>10. n >= 3 => p[0] + 30 <= p[3]
    BY <2>3, <2>4, <2>5, <2>8, <2>9, <1>1
  <2>11. n >= 4 => p[0] + 40 <= p[4]
    BY <2>3, <2>5, <2>6, <2>8, <2>10, <1>1
  <2>12. CASE n = 1
    BY <2>3, <2>8, <2>12
  <2>13. CASE n = 2
    BY <2>8, <2>9, <2>13
  <2>14. CASE n = 3
    BY <2>8, <2>10, <2>14
  <2>15. CASE n = 4
    BY <2>8, <2>11, <2>15
  <2> QED
    BY <2>7, <2>12, <2>13, <2>14, <2>15
<1>3. Rounds(w, n) = n
  <2>1. p[0] \in Nat
    BY <1>1
  <2> QED
    BY <1>1, <1>2, <2>1 DEF Rounds
<1>4. Children(w, p[0], end, n) = state[n]
  BY <1>3 DEF Children, Iterate
<1>5. start = ChildAt(p, texts, 0)
  <2>1. 1 .. 0 = {}
    OBVIOUS
  <2>2. [t \in TextTypes |-> <<>>] = [type \in TextTypes |-> IF type <= 0 THEN texts[type] ELSE <<>>]
    BY DEF TextTypes
  <2> QED
    BY <2>1, <2>2 DEF ChildAt
<1>6. \A i \in 1 .. n : ChildStep(w, end, e[i - 1]) = e[i]
  BY <1>1, ChildKept
<1> HIDE DEF start
<1>7. IsRun(e)
  BY SMTT(30), <1>1, <1>5, <1>6
<1> HIDE DEF e, IsRun
<1>8. IsRun(state)
  BY <1>7
<1> HIDE DEF state
<1>9. state[n] = e[n]
  <2>1. state[0] = e[0]
    BY <1>1, <1>7, <1>8 DEF IsRun
  <2>2. \A i \in 1 .. n : state[i - 1] = e[i - 1] => state[i] = e[i]
    BY <1>1, <1>6, <1>8 DEF IsRun
  <2> QED
    BY <1>1, <2>1, <2>2, LoopKnown
<1> QED
  BY <1>1, <1>2, <1>4, <1>9 DEF e

LEMMA IdKept ==
  ASSUME NEW id \in Wide
  PROVE  Low(id) + Width * High(id) = id
<1>1. id \in Nat /\ id \in 0 .. Width * Width - 1 /\ Width \in Nat /\ Width > 115
  BY WideZero, FormatAssumption DEF Wide
<1>2. (id % Width) + Width * (id \div Width) = id
  BY <1>1
<1>3. id \div Width \in 0 .. Width - 1
  BY <1>1
<1>4. (id \div Width) % Width = id \div Width
  BY <1>1, <1>3
<1> QED
  BY <1>2, <1>4 DEF Low, High

\* A record r of at least n cells, understood to hold the value.
RecordRead(parsed, w, at, r, value, header, n) ==
  /\ parsed = [error |-> "none", opaque |-> FALSE, value |-> value]
  /\ at \in Nat /\ Len(r) \in Nat /\ Len(r) >= n
  /\ Header(w, at) = header /\ End(w, at) = at + Len(r)

\* A track survives.
LEMMA TrackKept ==
  ASSUME NEW w \in Seq(Cells), NEW at, NEW end \in Nat, NEW t, WritableTrack(t), NEW k \in Kinds,
         Placed(w, at, TrackRecord(t, k)), at + Len(TrackRecord(t, k)) <= end, end <= Len(w)
  PROVE  RecordRead(ParseTrack(w, at, end), w, at, TrackRecord(t, k), t, Layout[k].track, 30)
<1> DEFINE strings == [type \in TextTypes |-> StringRecord(type, t.text[type])]
           kids == FlattenSeq(strings)
           header == Layout[k].track
           size == header + Len(kids)
           plain == Record(mhit, header, size)
           fields == [plain EXCEPT ![4] = 4, ![5] = t.id, ![29] = Low(t.pid), ![30] = High(t.pid)]
<1>1. /\ t.id \in Cells /\ t.pid \in Wide /\ t.text \in [1 .. 4 -> Seq(Nat)]
      /\ t = [id |-> t.id, pid |-> t.pid, text |-> t.text]
      /\ \A i \in 1 .. 4 : t.text[i] \in Seq(Nat) /\ Encodable(t.text[i])
  BY DEF WritableTrack, Track, TextOf, TextTypes
<1>2. TrackRecord(t, k) = fields \o kids
  BY DEF TrackRecord
<1>3. strings \in [1 .. 4 -> Seq(Nat)] /\ \A i \in 1 .. 4 : strings[i] = StringRecord(i, t.text[i])
  BY <1>1, StringType DEF TextTypes
<1> HIDE DEF strings
<1>4. strings \in Seq(Seq(Nat)) /\ Len(strings) = 4 /\ 4 \in Nat
  BY <1>3, FieldsAreCells
<1>5. kids \in Seq(Nat) /\ Len(kids) \in Nat
  BY <1>4, FlattenType, LenProperties
<1>6. header \in Nat /\ header >= 30 /\ header >= 3 /\ mhit \in Nat /\ size \in Nat
  BY <1>5, LayoutType DEF mhit
<1> HIDE DEF kids, header, size
<1>7. /\ fields \in [1 .. header -> Nat] /\ fields[1] = mhit /\ fields[2] = header /\ fields[3] = size
      /\ fields[4] = 4 /\ fields[5] = t.id /\ fields[29] = Low(t.pid) /\ fields[30] = High(t.pid)
  <2>1. Fixed(plain, mhit, header, size)
    BY <1>6, RecordFields
  <2>2. Low(t.pid) \in Nat /\ High(t.pid) \in Nat /\ t.id \in Nat
    BY <1>1, HalvesAreCells, FormatAssumption DEF Cells
  <2>3. plain \in [1 .. header -> Nat] /\ plain[1] = mhit /\ plain[2] = header /\ plain[3] = size
    BY <2>1 DEF Fixed
  <2>4. {1, 2, 3, 4, 5, 29, 30} \subseteq 1 .. header
    BY <1>6
  <2> HIDE DEF plain
  <2>5. fields \in [1 .. header -> Nat]
    BY <2>2, <2>3, <2>4
  <2>6. fields[1] = plain[1] /\ fields[2] = plain[2] /\ fields[3] = plain[3]
    BY <2>3, <2>4
  <2>7. fields[4] = 4 /\ fields[5] = t.id /\ fields[29] = Low(t.pid) /\ fields[30] = High(t.pid)
    BY <2>3, <2>4
  <2> QED
    BY <2>3, <2>5, <2>6, <2>7
<1> HIDE DEF plain, fields
<1>8. Standing(w, at, mhit, header, size, fields, kids)
  <2>1. Placed(w, at, fields \o kids)
    BY <1>2
  <2> QED
    BY <1>5, <1>6, <1>7, <2>1, RecordPlaced
<1>9. /\ at \in Nat /\ Len(w) \in Nat /\ at + header \in Nat /\ at + size <= end
      /\ Len(TrackRecord(t, k)) = size /\ size >= 30
      /\ Header(w, at) = header /\ Size(w, at) = size
      /\ Body(w, at) = at + header /\ End(w, at) = at + size /\ at + size \in Nat
  BY <1>2, <1>5, <1>6, <1>8 DEF Standing, size
<1>10. Cell(w, at + 3) = 4 /\ Cell(w, at + 4) = t.id /\ Id(w, at + 28) = t.pid
  <2>1. /\ 3 \in 0 .. header - 1 /\ 4 \in 0 .. header - 1 /\ 28 \in 0 .. header - 1
        /\ 29 \in 0 .. header - 1 /\ at + 28 + 1 = at + 29
    BY <1>6, <1>9
  <2>2. /\ Cell(w, at + 3) = fields[3 + 1] /\ Cell(w, at + 4) = fields[4 + 1]
        /\ Cell(w, at + 28) = fields[28 + 1] /\ Cell(w, at + 29) = fields[29 + 1]
    BY <1>8, <2>1 DEF Standing
  <2>3. /\ Cell(w, at + 3) = 4 /\ Cell(w, at + 4) = t.id
        /\ Cell(w, at + 28) = Low(t.pid) /\ Cell(w, at + 28 + 1) = High(t.pid)
    BY <1>7, <2>1, <2>2
  <2> QED
    BY <1>1, <2>3, IdKept DEF Id
<1>11. PICK p : Positions(p, w, at + header, strings, 4)
  <2>1. Placed(w, at + header, FlattenSeq(strings)) /\ w \in Seq(Nat)
    BY <1>8, CellsAreNats DEF Standing, kids
  <2> QED
    BY <1>4, <2>1, PlacedParts
<1>12. /\ p[0] = at + header /\ p[4] = at + size
       /\ TextsStand(w, at + size, p, t.text, 4)
  <2>1. p[0] = at + header /\ p[4] = at + header + Len(kids) /\ p \in [0 .. 4 -> Nat]
    BY <1>11 DEF Positions, kids
  <2>2. p[4] = at + size
    BY <1>5, <1>6, <1>9, <2>1 DEF size
  <2>3. \A i \in 1 .. 4 : /\ Placed(w, p[i - 1], StringRecord(i, t.text[i]))
                          /\ p[i] = p[i - 1] + Len(StringRecord(i, t.text[i])) /\ p[i] <= p[4]
    <3> SUFFICES ASSUME NEW i \in 1 .. 4
                 PROVE  /\ Placed(w, p[i - 1], strings[i])
                        /\ p[i] = p[i - 1] + Len(strings[i]) /\ p[i] <= p[4]
      BY <1>3
    <3>1. i \in 0 .. 4
      OBVIOUS
    <3> QED
      BY <1>11, <3>1 DEF Positions
  <2>4. 4 \in 1 .. 4 /\ p[4] <= at + size /\ at + size <= Len(w)
    BY <1>9, <2>2
  <2> QED
    BY <1>1, <1>9, <2>1, <2>2, <2>3, <2>4 DEF TextsStand
<1>13. Children(w, at + header, at + size, 4) = ChildAt(p, t.text, 4) /\ at + header + 10 * 4 <= at + size
  BY <1>12, ChildrenKept
<1>14. /\ ChildAt(p, t.text, 4).error = "none" /\ ChildAt(p, t.text, 4).seen = TextTypes
       /\ ChildAt(p, t.text, 4).text = t.text /\ ChildAt(p, t.text, 4).at = at + size
  <2>1. \A i \in 1 .. 4 : i <= 4
    OBVIOUS
  <2>2. [type \in 1 .. 4 |-> IF type <= 4 THEN t.text[type] ELSE <<>>] = t.text
    BY <1>1, <2>1
  <2> QED
    BY <1>12, <2>2 DEF ChildAt, TextTypes
<1>15. EnvelopeError(w, at, end, 5, mhit) = "none"
  <2>1. 5 \in Nat /\ 5 >= 3 /\ 5 <= header /\ header <= size /\ at + size <= end
    BY <1>5, <1>6, <1>9 DEF size
  <2> HIDE DEF mhit
  <2> QED
    BY <1>8, <1>9, <2>1, EnvelopeAccepted DEF Standing
<1>16. Within(w, at, 30) /\ ~(4 > (at + size - (at + header)) \div 6)
  <2>1. at + size - (at + header) \in Nat /\ at + size - (at + header) >= 40
    BY <1>6, <1>9, <1>13
  <2>2. \A x \in Nat : x >= 40 => ~(4 > x \div 6)
    OBVIOUS
  <2> QED
    BY <1>9, <2>1, <2>2 DEF Within
<1>17. ParseTrack(w, at, end)
        = Checked("none", TrackFrom(w, at, 30, ChildAt(p, t.text, 4)))
  BY <1>6, <1>9, <1>10, <1>13, <1>15, <1>16 DEF ParseTrack, Or
<1>18. TrackFrom(w, at, 30, ChildAt(p, t.text, 4))
        = [error |-> "none", opaque |-> FALSE, value |-> [id |-> t.id, pid |-> t.pid, text |-> t.text]]
  BY <1>9, <1>10, <1>14 DEF TrackFrom, Checked
<1> QED
  BY <1>1, <1>9, <1>17, <1>18 DEF Checked, header, RecordRead

LEMMA Spaced ==
  ASSUME NEW n \in Nat, NEW p \in [0 .. n -> Nat], \A i \in 1 .. n : p[i - 1] + 3 <= p[i]
  PROVE  p[0] + 3 * n <= p[n]
<1> DEFINE J == [i \in 0 .. n |-> {x \in Nat : p[0] + 3 * i <= x}]
<1>1. p[0] \in J[0]
  OBVIOUS
<1>2. ASSUME NEW i \in 1 .. n, p[i - 1] \in J[i - 1] PROVE p[i] \in J[i]
  <2>1. /\ i - 1 \in 0 .. n /\ i \in 0 .. n /\ p[0] \in Nat /\ p[i] \in Nat /\ p[i - 1] \in Nat
        /\ p[i - 1] + 3 <= p[i]
    OBVIOUS
  <2>2. p[0] + 3 * (i - 1) <= p[i - 1]
    BY <1>2, <2>1
  <2>3. p[0] + 3 * i <= p[i]
    BY <2>1, <2>2
  <2> QED
    BY <2>1, <2>3
<1> HIDE DEF J
<1>3. \A i \in 0 .. n : p[i] \in J[i]
  BY <1>1, <1>2, AllOf
<1> QED
  BY <1>3 DEF J

LEMMA RoundsEnough ==
  ASSUME NEW w \in Seq(Cells), NEW n \in Nat, 3 * n <= Len(w)
  PROVE  Rounds(w, n) = n
<1>1. Len(w) \in Nat
  BY LenProperties
<1>2. \A x \in Nat : 3 * n <= x => ~(n > x \div 3)
  OBVIOUS
<1> QED
  BY <1>1, <1>2 DEF Rounds

-----------------------------------------------------------------------------
(* Playlists.                                                              *)

LEMMA ItemKept ==
  ASSUME NEW w \in Seq(Cells), NEW at, NEW end \in Nat, NEW id \in Cells, NEW k \in Kinds,
         Placed(w, at, ItemRecord(id, k)), at + Layout[k].item <= end, end <= Len(w)
  PROVE  /\ EnvelopeError(w, at, end, 7, mhip) = "none" /\ Within(w, at, 7)
         /\ Cell(w, at + 6) = id /\ Size(w, at) = Layout[k].item
<1> DEFINE header == Layout[k].item
           plain == Record(mhip, header, header)
           fields == [plain EXCEPT ![7] = id]
           none == <<>>
<1>1. header \in Nat /\ header >= 7 /\ header >= 3 /\ mhip \in Nat /\ id \in Nat
  BY SMTT(30), LayoutType, FormatAssumption DEF mhip, Cells
<1>2. ItemRecord(id, k) = fields
  BY DEF ItemRecord
<1> HIDE DEF header
<1>3. fields \in [1 .. header -> Nat] /\ fields[1] = mhip /\ fields[2] = header /\ fields[3] = header
      /\ fields[7] = id
  <2>1. Fixed(plain, mhip, header, header)
    BY <1>1, RecordFields
  <2>2. plain \in [1 .. header -> Nat] /\ plain[1] = mhip /\ plain[2] = header /\ plain[3] = header
    BY <2>1 DEF Fixed
  <2>3. {1, 2, 3, 7} \subseteq 1 .. header
    BY <1>1
  <2> HIDE DEF plain
  <2> QED
    BY <1>1, <2>2, <2>3
<1> HIDE DEF plain, fields
<1>4. fields \in Seq(Nat) /\ none \in Seq(Nat) /\ Len(none) = 0 /\ fields \o none = fields
  <2>1. fields \in Seq(Nat)
    BY <1>1, <1>3, FieldsAreCells
  <2> QED
    BY <2>1
<1> HIDE DEF none
<1>5. Standing(w, at, mhip, header, header, fields, none)
  <2>1. Placed(w, at, fields \o none)
    BY <1>2, <1>4
  <2> QED
    BY <1>1, <1>3, <1>4, <2>1, RecordPlaced
<1>6. /\ at \in Nat /\ Len(w) \in Nat /\ at + header <= Len(w) /\ at + header <= end
      /\ Cell(w, at) = mhip /\ Header(w, at) = header /\ Size(w, at) = header
  BY <1>1, <1>4, <1>5 DEF Standing, header
<1>7. Cell(w, at + 6) = id
  <2>1. 6 \in 0 .. header - 1
    BY <1>1
  <2>2. Cell(w, at + 6) = fields[6 + 1]
    BY <1>5, <2>1 DEF Standing
  <2> QED
    BY <1>3, <2>2
<1>8. EnvelopeError(w, at, end, 7, mhip) = "none"
  <2>1. 7 \in Nat /\ 7 >= 3 /\ 7 <= header /\ header <= header
    BY <1>1
  <2> HIDE DEF mhip
  <2> QED
    BY <1>6, <2>1, EnvelopeAccepted
<1> QED
  BY <1>1, <1>6, <1>7, <1>8 DEF Within, header

ItemsAt(p, members, i) == [at |-> p[i], error |-> "none", members |-> SubSeq(members, 1, i)]

ItemsStand(w, end, p, members, k) ==
  LET n == Len(members)
  IN /\ p \in [0 .. n -> Nat] /\ end \in Nat /\ p[n] <= end /\ end <= Len(w)
     /\ \A i \in 1 .. n : /\ Placed(w, p[i - 1], ItemRecord(members[i], k))
                          /\ p[i] = p[i - 1] + Layout[k].item /\ p[i] <= p[n]

ItemsRead(w, end, p, members, n) ==
  /\ Items(w, p[0], end, n) = [at |-> p[n], error |-> "none", members |-> members]
  /\ p[0] + 3 * n <= p[n]

LEMMA ItemsKept ==
  ASSUME NEW w \in Seq(Cells), NEW end, NEW p, NEW members \in Seq(Cells), NEW k \in Kinds,
         ItemsStand(w, end, p, members, k), NEW n, n = Len(members)
  PROVE  ItemsRead(w, end, p, members, n)
<1> DEFINE e == [i \in 0 .. n |-> ItemsAt(p, members, i)]
           start == [at |-> p[0], error |-> "none", members |-> <<>>]
           IsRun(f) == f = [i \in 0 .. n |-> IF i = 0 THEN start ELSE ItemStep(w, end, f[i - 1])]
           state == CHOOSE f : IsRun(f)
           size == Layout[k].item
<1>1. /\ n \in Nat /\ Len(w) \in Nat /\ p \in [0 .. n -> Nat] /\ end \in Nat
      /\ p[n] <= end /\ end <= Len(w) /\ size \in Nat /\ size >= 7
  BY LenProperties, LayoutType DEF ItemsStand
<1>2. \A i \in 1 .. n :
        /\ i - 1 \in 0 .. n /\ i \in 0 .. n /\ p[i - 1] \in Nat /\ p[i] \in Nat /\ members[i] \in Cells
        /\ Placed(w, p[i - 1], ItemRecord(members[i], k)) /\ p[i] = p[i - 1] + size /\ p[i] <= p[n]
  <2> SUFFICES ASSUME NEW i \in 1 .. n
               PROVE  /\ i - 1 \in 0 .. n /\ i \in 0 .. n /\ p[i - 1] \in Nat /\ p[i] \in Nat
                      /\ members[i] \in Cells
                      /\ Placed(w, p[i - 1], ItemRecord(members[i], k))
                      /\ p[i] = p[i - 1] + size /\ p[i] <= p[n]
    OBVIOUS
  <2>1. i - 1 \in 0 .. n /\ i \in 0 .. n
    BY <1>1
  <2>2. members[i] \in Cells
    BY ElementOfSeq
  <2>3. /\ Placed(w, p[i - 1], ItemRecord(members[i], k))
        /\ p[i] = p[i - 1] + size /\ p[i] <= p[n]
    BY DEF ItemsStand
  <2> QED
    BY <1>1, <2>1, <2>2, <2>3
<1>3. p[0] + 3 * n <= p[n]
  <2>1. \A i \in 1 .. n : p[i - 1] + 3 <= p[i]
    BY <1>1, <1>2
  <2> QED
    BY <1>1, <2>1, Spaced
<1>4. Rounds(w, n) = n
  <2>1. p[0] \in Nat /\ p[n] \in Nat
    BY <1>1
  <2>2. 3 * n <= Len(w)
    BY <1>1, <1>3, <2>1
  <2> QED
    BY <1>1, <2>2, RoundsEnough
<1>5. Items(w, p[0], end, n) = state[n]
  BY <1>4 DEF Items, Iterate
<1> HIDE DEF size
<1>6. ASSUME NEW i \in 1 .. n PROVE ItemStep(w, end, e[i - 1]) = e[i]
  <2> DEFINE at == p[i - 1]
             c == ItemsAt(p, members, i - 1)
  <2>1. at + size <= end /\ at \in Nat /\ p[i] = at + size
    <3>1. p[i] \in Nat /\ p[n] \in Nat /\ p[i] <= p[n] /\ at \in Nat /\ p[i] = at + size
      BY <1>1, <1>2
    <3> QED
      BY <1>1, <3>1
  <2>2. /\ EnvelopeError(w, at, end, 7, mhip) = "none" /\ Within(w, at, 7)
        /\ Cell(w, at + 6) = members[i] /\ Size(w, at) = size
    BY <1>1, <1>2, <2>1, ItemKept DEF size
  <2>3. c = [at |-> at, error |-> "none", members |-> SubSeq(members, 1, i - 1)]
    BY DEF ItemsAt
  <2>4. SubSeq(members, 1, i) = Append(SubSeq(members, 1, i - 1), members[i])
    BY Fronts
  <2> HIDE DEF at, c
  <2>5. ItemStep(w, end, c) = NextItem(w, c, "none")
    BY <2>2, <2>3 DEF ItemStep, Or
  <2>6. NextItem(w, c, "none") = [at |-> at + size, error |-> "none", members |-> SubSeq(members, 1, i)]
    BY <2>2, <2>3, <2>4 DEF NextItem
  <2>7. e[i - 1] = c /\ e[i] = ItemsAt(p, members, i)
    BY <1>2 DEF c
  <2> QED
    BY <2>1, <2>5, <2>6, <2>7 DEF ItemsAt
<1>7. start = ItemsAt(p, members, 0)
  BY <1>1, Fronts DEF ItemsAt
<1> HIDE DEF start
<1>8. IsRun(e)
  <2>1. e[0] = start
    BY <1>1, <1>7
  <2>2. e = [i \in 0 .. n |-> e[i]]
    OBVIOUS
  <2>3. ASSUME NEW i \in 0 .. n PROVE e[i] = IF i = 0 THEN start ELSE ItemStep(w, end, e[i - 1])
    <3>1. i = 0 \/ i \in 1 .. n
      BY <1>1
    <3> HIDE DEF e
    <3> QED
      BY <1>6, <2>1, <3>1
  <2> HIDE DEF e
  <2> QED
    BY <2>2, <2>3
<1> HIDE DEF e, IsRun
<1>9. IsRun(state)
  BY <1>8
<1> HIDE DEF state
<1>10. state[n] = e[n]
  <2>1. state[0] = e[0]
    <3>1. 0 \in 0 .. n
      BY <1>1
    <3> QED
      BY <1>8, <1>9, <3>1 DEF IsRun
  <2>2. \A i \in 1 .. n : state[i - 1] = e[i - 1] => state[i] = e[i]
    BY <1>1, <1>6, <1>9 DEF IsRun
  <2> QED
    BY <1>1, <2>1, <2>2, LoopKnown
<1>11. e[n] = [at |-> p[n], error |-> "none", members |-> members]
  BY <1>1, Fronts DEF e, ItemsAt
<1> QED
  BY <1>3, <1>5, <1>10, <1>11 DEF ItemsRead

LEMMA ItemLength ==
  ASSUME NEW id \in Cells, NEW k \in Kinds
  PROVE  ItemRecord(id, k) \in Seq(Nat) /\ Len(ItemRecord(id, k)) = Layout[k].item
<1> DEFINE header == Layout[k].item
           plain == Record(mhip, header, header)
           fields == [plain EXCEPT ![7] = id]
<1>1. header \in Nat /\ header >= 7 /\ header >= 3 /\ mhip \in Nat /\ id \in Nat
  BY LayoutType, FormatAssumption DEF mhip, Cells
<1>2. ItemRecord(id, k) = fields
  BY DEF ItemRecord
<1>3. plain \in [1 .. header -> Nat]
  <2> HIDE DEF header
  <2>1. Fixed(plain, mhip, header, header)
    BY <1>1, RecordFields
  <2> QED
    BY <2>1 DEF Fixed
<1> HIDE DEF header, plain
<1>4. fields \in [1 .. header -> Nat]
  BY <1>1, <1>3
<1> HIDE DEF fields
<1>5. fields \in Seq(Nat) /\ Len(fields) = header
  BY <1>1, <1>4, FieldsAreCells
<1> QED
  BY <1>2, <1>5 DEF header

\* A playlist survives.
LEMMA PlaylistKept ==
  ASSUME NEW w \in Seq(Cells), NEW at, NEW end \in Nat, NEW list, WritablePlaylist(list),
         list.kind \in {"master", "ordinary"}, NEW k \in Kinds, NEW timestamp \in Cells,
         Placed(w, at, PlaylistRecord(list, k, timestamp)),
         at + Len(PlaylistRecord(list, k, timestamp)) <= end, end <= Len(w)
  PROVE  RecordRead(ParsePlaylist(w, at, end), w, at, PlaylistRecord(list, k, timestamp), list,
                    Layout[k].playlist, 9)
<1> DEFINE n == Len(list.members)
           items == [i \in DOMAIN list.members |-> ItemRecord(list.members[i], k)]
           name == StringRecord(1, list.name)
           row == FlattenSeq(items)
           kids == name \o row
           header == Layout[k].playlist
           size == header + Len(kids)
           plain == Record(mhyp, header, size)
           kind == IF list.kind = "master" THEN 1 ELSE 0
           fields == [plain EXCEPT ![4] = 1, ![5] = n, ![6] = kind, ![7] = timestamp,
                                   ![8] = Low(list.pid), ![9] = High(list.pid)]
<1>1. /\ list.pid \in Wide /\ list.members \in Seq(Cells) /\ list.name \in Seq(Nat)
      /\ Encodable(list.name)
      /\ list = [pid |-> list.pid, name |-> list.name, members |-> list.members, kind |-> list.kind]
  BY DEF WritablePlaylist, Playlist
<1>2. PlaylistRecord(list, k, timestamp) = fields \o kids
  BY DEF PlaylistRecord
<1>3. n \in Nat /\ DOMAIN list.members = 1 .. n /\ \A i \in 1 .. n : list.members[i] \in Cells
  BY <1>1, LenProperties, ElementOfSeq
<1>4. /\ items \in [1 .. n -> Seq(Nat)]
      /\ \A i \in 1 .. n : /\ items[i] = ItemRecord(list.members[i], k)
                           /\ Len(items[i]) = Layout[k].item
  BY <1>3, ItemLength
<1> HIDE DEF items
<1>5. items \in Seq(Seq(Nat)) /\ Len(items) = n
  BY <1>3, <1>4, FieldsAreCells
<1>6. row \in Seq(Nat) /\ Len(row) \in Nat
  BY <1>5, FlattenType, LenProperties
<1>7. name \in Seq(Nat) /\ Len(name) \in Nat
  BY <1>1, StringType, LenProperties DEF TextTypes
<1> HIDE DEF row, name, n
<1>8. kids \in Seq(Nat) /\ Len(kids) \in Nat /\ Len(kids) = Len(name) + Len(row)
  BY <1>6, <1>7, ConcatProperties, LenProperties
<1>9. header \in Nat /\ header >= 9 /\ header >= 3 /\ mhyp \in Nat /\ size \in Nat
  BY <1>8, LayoutType DEF mhyp
<1> HIDE DEF kids, header, size
<1>10. kind \in Nat
  OBVIOUS
<1>11. /\ fields \in [1 .. header -> Nat] /\ fields[1] = mhyp /\ fields[2] = header /\ fields[3] = size
       /\ fields[4] = 1 /\ fields[5] = n /\ fields[6] = kind
       /\ fields[8] = Low(list.pid) /\ fields[9] = High(list.pid)
  <2>1. Fixed(plain, mhyp, header, size)
    BY <1>9, RecordFields
  <2>2. Low(list.pid) \in Nat /\ High(list.pid) \in Nat /\ timestamp \in Nat
    BY <1>1, HalvesAreCells, FormatAssumption DEF Cells
  <2>3. plain \in [1 .. header -> Nat] /\ plain[1] = mhyp /\ plain[2] = header /\ plain[3] = size
    BY <2>1 DEF Fixed
  <2>4. {1, 2, 3, 4, 5, 6, 7, 8, 9} \subseteq 1 .. header
    BY <1>9
  <2> HIDE DEF plain, kind
  <2>5. fields \in [1 .. header -> Nat]
    BY <1>3, <1>10, <2>2, <2>3, <2>4
  <2>6. fields[1] = plain[1] /\ fields[2] = plain[2] /\ fields[3] = plain[3]
    BY <2>3, <2>4
  <2>7. /\ fields[4] = 1 /\ fields[5] = n /\ fields[6] = kind
        /\ fields[8] = Low(list.pid) /\ fields[9] = High(list.pid)
    BY <2>3, <2>4
  <2> QED
    BY <2>3, <2>5, <2>6, <2>7
<1> HIDE DEF plain, fields, kind
<1>12. Standing(w, at, mhyp, header, size, fields, kids)
  <2>1. Placed(w, at, fields \o kids)
    BY <1>2
  <2> QED
    BY <1>8, <1>9, <1>11, <2>1, RecordPlaced
<1>13. /\ at \in Nat /\ Len(w) \in Nat /\ at + header \in Nat /\ at + size <= end
       /\ Len(PlaylistRecord(list, k, timestamp)) = size /\ size >= 9
       /\ Header(w, at) = header /\ Size(w, at) = size
       /\ Body(w, at) = at + header /\ End(w, at) = at + size /\ at + size \in Nat
  BY <1>2, <1>8, <1>9, <1>12 DEF Standing, size
<1>14. /\ Cell(w, at + 3) = 1 /\ Cell(w, at + 4) = n /\ Cell(w, at + 5) = kind
       /\ Id(w, at + 7) = list.pid
  <2>1. /\ 3 \in 0 .. header - 1 /\ 4 \in 0 .. header - 1 /\ 5 \in 0 .. header - 1
        /\ 7 \in 0 .. header - 1 /\ 8 \in 0 .. header - 1 /\ at + 7 + 1 = at + 8
    BY <1>9, <1>13
  <2>2. /\ Cell(w, at + 3) = fields[3 + 1] /\ Cell(w, at + 4) = fields[4 + 1]
        /\ Cell(w, at + 5) = fields[5 + 1]
        /\ Cell(w, at + 7) = fields[7 + 1] /\ Cell(w, at + 8) = fields[8 + 1]
    BY <1>12, <2>1 DEF Standing
  <2>3. /\ Cell(w, at + 3) = 1 /\ Cell(w, at + 4) = n /\ Cell(w, at + 5) = kind
        /\ Cell(w, at + 7) = Low(list.pid) /\ Cell(w, at + 7 + 1) = High(list.pid)
    BY <1>11, <2>1, <2>2
  <2> QED
    BY <1>1, <2>3, IdKept DEF Id
<1> DEFINE middle == at + header + Len(name)
<1>15. Placed(w, at + header, name) /\ Placed(w, middle, row)
  <2>1. Placed(w, at + header, name \o row) /\ w \in Seq(Nat)
    BY <1>12, CellsAreNats DEF Standing, kids
  <2> QED
    BY <1>6, <1>7, <2>1, PlacedSplit
<1>16. middle \in Nat /\ middle + Len(row) = at + size /\ middle <= at + size
  BY <1>6, <1>7, <1>8, <1>9, <1>13 DEF size
<1> HIDE DEF middle
<1> DEFINE p == [i \in 0 .. 1 |-> IF i = 0 THEN at + header ELSE middle]
           texts == [i \in 1 .. 1 |-> list.name]
<1>17. /\ p \in [0 .. 1 -> Nat] /\ p[0] = at + header /\ p[1] = middle
       /\ texts \in [1 .. 1 -> Seq(Nat)] /\ texts[1] = list.name
  BY <1>1, <1>13, <1>16
<1> HIDE DEF p, texts
<1>18. TextsStand(w, at + size, p, texts, 1)
  <2>1. /\ Encodable(texts[1]) /\ Placed(w, p[0], StringRecord(1, texts[1]))
        /\ p[1] = p[0] + Len(StringRecord(1, texts[1])) /\ p[1] <= p[1]
    BY <1>1, <1>15, <1>16, <1>17 DEF name, middle
  <2>2. \A i \in 1 .. 1 : i = 1 /\ i - 1 = 0
    OBVIOUS
  <2>3. 1 \in 1 .. 4 /\ p[1] <= at + size /\ at + size \in Nat /\ at + size <= Len(w)
    BY <1>13, <1>16, <1>17
  <2> QED
    BY <1>17, <2>1, <2>2, <2>3 DEF TextsStand
<1>19. Children(w, at + header, at + size, 1) = ChildAt(p, texts, 1) /\ at + header + 10 <= middle
  <2>1. Children(w, p[0], at + size, 1) = ChildAt(p, texts, 1) /\ p[0] + 10 * 1 <= p[1]
    BY <1>18, ChildrenKept
  <2> QED
    BY <1>13, <1>17, <2>1
<1>20. /\ ChildAt(p, texts, 1).error = "none" /\ ChildAt(p, texts, 1).seen = {1}
       /\ ChildAt(p, texts, 1).text[1] = list.name /\ ChildAt(p, texts, 1).at = middle
  BY <1>17 DEF ChildAt, TextTypes
<1>21. PICK q : Positions(q, w, middle, items, n)
  <2>1. w \in Seq(Nat) /\ Placed(w, middle, FlattenSeq(items))
    BY <1>15, CellsAreNats DEF row
  <2> QED
    BY <1>5, <2>1, PlacedParts
<1>22. q[0] = middle /\ q[n] = at + size /\ ItemsStand(w, at + size, q, list.members, k)
  <2>1. q[0] = middle /\ q[n] = middle + Len(row) /\ q \in [0 .. n -> Nat]
    BY <1>21 DEF Positions, row
  <2>2. q[n] = at + size /\ q[n] <= at + size /\ at + size \in Nat /\ at + size <= Len(w)
    BY <1>13, <1>16, <2>1
  <2>3. \A i \in 1 .. n : /\ Placed(w, q[i - 1], ItemRecord(list.members[i], k))
                          /\ q[i] = q[i - 1] + Layout[k].item /\ q[i] <= q[n]
    <3> SUFFICES ASSUME NEW i \in 1 .. n
                 PROVE  /\ Placed(w, q[i - 1], items[i])
                        /\ q[i] = q[i - 1] + Len(items[i]) /\ q[i] <= q[n]
      BY <1>4
    <3>1. i \in 0 .. n
      BY <1>3
    <3> QED
      BY <1>21, <3>1 DEF Positions
  <2>4. n = Len(list.members)
    BY DEF n
  <2> HIDE DEF n
  <2> QED
    BY <2>1, <2>2, <2>3, <2>4 DEF ItemsStand
<1>23. /\ Items(w, middle, at + size, n) = [at |-> at + size, error |-> "none", members |-> list.members]
       /\ middle + 3 * n <= at + size
  <2>1. n = Len(list.members)
    BY DEF n
  <2> DEFINE last == at + size
  <2>3. ItemsStand(w, last, q, list.members, k) /\ list.members \in Seq(Cells)
    BY <1>1, <1>22
  <2> DEFINE members == list.members
  <2>5. ItemsStand(w, last, q, members, k) /\ members \in Seq(Cells) /\ n = Len(members)
    BY <2>1, <2>3
  <2>6. members = list.members
    OBVIOUS
  <2> HIDE DEF last, n, members
  <2>7. /\ Items(w, q[0], last, n) = [at |-> q[n], error |-> "none", members |-> members]
        /\ q[0] + 3 * n <= q[n]
    <3>1. ItemsRead(w, last, q, members, n)
      BY <2>5, ItemsKept
    <3> QED
      BY <3>1 DEF ItemsRead
  <2>4. /\ Items(w, q[0], last, n) = [at |-> q[n], error |-> "none", members |-> list.members]
        /\ q[0] + 3 * n <= q[n]
    BY <2>6, <2>7
  <2>2. /\ Items(w, q[0], at + size, n) = [at |-> q[n], error |-> "none", members |-> list.members]
        /\ q[0] + 3 * n <= q[n]
    BY <2>4 DEF last
  <2> QED
    BY <1>22, <2>2
<1>24. EnvelopeError(w, at, end, 9, mhyp) = "none"
  <2>1. 9 \in Nat /\ 9 >= 3 /\ 9 <= header /\ header <= size /\ at + size <= end
    BY <1>8, <1>9, <1>13 DEF size
  <2> HIDE DEF mhyp
  <2> QED
    BY <1>12, <1>13, <2>1, EnvelopeAccepted DEF Standing
<1>25. /\ Within(w, at, 9) /\ ~(1 > (at + size - (at + header)) \div 6)
       /\ ~(n > (at + size - (at + header)) \div 3)
  <2>1. /\ at + size - (at + header) \in Nat /\ at + size - (at + header) >= 10
        /\ at + size - (at + header) >= 3 * n
    <3>1. \A a, h, s, m, t \in Nat :
            /\ a + h + 10 <= m /\ m <= a + s /\ a + h <= m /\ m + t <= a + s
            => /\ a + s - (a + h) \in Nat /\ a + s - (a + h) >= 10
               /\ a + s - (a + h) >= t
      OBVIOUS
    <3>2. middle + 3 * n <= at + size /\ 3 * n \in Nat /\ at + header <= middle
      BY SMTT(30), <1>3, <1>9, <1>13, <1>16, <1>19, <1>23
    <3> HIDE DEF n
    <3> QED
      BY <1>9, <1>13, <1>16, <1>19, <3>1, <3>2
  <2>2. \A x \in Nat : x >= 10 => ~(1 > x \div 6)
    OBVIOUS
  <2>3. \A x, m \in Nat : x >= 3 * m => ~(m > x \div 3)
    OBVIOUS
  <2> QED
    BY <1>3, <1>9, <1>13, <2>1, <2>2, <2>3 DEF Within
<1>26. ParsePlaylist(w, at, end)
        = PlaylistFrom(w, at, ChildAt(p, texts, 1),
                       [at |-> at + size, error |-> "none", members |-> list.members])
  <2> DEFINE read == Children(w, Body(w, at), End(w, at), Cell(w, at + 3))
  <2>1. ParsePlaylist(w, at, end)
         = PlaylistFrom(w, at, read, Items(w, read.at, End(w, at), Cell(w, at + 4)))
    BY SMTT(30), <1>13, <1>14, <1>24, <1>25 DEF ParsePlaylist, Or, Checked
  <2>2. read = ChildAt(p, texts, 1)
    BY <1>13, <1>14, <1>19
  <2>3. Items(w, read.at, End(w, at), Cell(w, at + 4))
         = [at |-> at + size, error |-> "none", members |-> list.members]
    BY <1>13, <1>14, <1>20, <1>23, <2>2
  <2> HIDE DEF read
  <2> QED
    BY <2>1, <2>2, <2>3
<1>27. (IF {1} \cap {50, 51} # {} THEN "smart" ELSE IF Cell(w, at + 5) = 1 THEN "master" ELSE "ordinary")
        = list.kind
  BY <1>14 DEF kind
<1>28. PlaylistFrom(w, at, ChildAt(p, texts, 1),
                    [at |-> at + size, error |-> "none", members |-> list.members])
        = [error |-> "none", opaque |-> FALSE,
           value |-> [pid |-> list.pid, name |-> list.name, members |-> list.members, kind |-> list.kind]]
  BY <1>13, <1>14, <1>20, <1>27 DEF PlaylistFrom, Checked, Or
<1> QED
  BY <1>1, <1>9, <1>13, <1>26, <1>28 DEF header, RecordRead

-----------------------------------------------------------------------------
(* The records of a dataset.                                               *)

TracksRead(p, tracks, i) ==
  [at |-> p[i], error |-> "none", values |-> SubSeq(tracks, 1, i), opaque |-> FALSE]

\* The records of these tracks stand in a row, from p[0] to the end of the dataset.
TracksStand(w, last, p, tracks, k) ==
  LET n == Len(tracks)
  IN /\ p \in [0 .. n -> Nat] /\ p[n] = last /\ last <= Len(w)
     /\ k = "hash58" => n = 0
     /\ \A i \in 1 .. n : /\ WritableTrack(tracks[i]) /\ Placed(w, p[i - 1], TrackRecord(tracks[i], k))
                          /\ p[i] = p[i - 1] + Len(TrackRecord(tracks[i], k)) /\ p[i] <= p[n]

LEMMA OneTrackRead ==
  ASSUME NEW w \in Seq(Cells), NEW last, NEW p, NEW tracks \in Seq(Track), NEW k \in Kinds,
         TracksStand(w, last, p, tracks, k), NEW i \in 1 .. Len(tracks)
  PROVE  /\ TrackStep(w, last, k, TracksRead(p, tracks, i - 1)) = TracksRead(p, tracks, i)
         /\ p[i - 1] + 3 <= p[i]
<1> DEFINE n == Len(tracks)
           t == tracks[i]
           at == p[i - 1]
           r == TrackRecord(t, k)
           c == TracksRead(p, tracks, i - 1)
<1>1. /\ n \in Nat /\ i \in 1 .. n /\ i - 1 \in 0 .. n /\ i \in 0 .. n /\ n \in 0 .. n /\ k # "hash58"
      /\ p \in [0 .. n -> Nat] /\ p[n] = last /\ last <= Len(w)
      /\ WritableTrack(t) /\ Placed(w, at, r) /\ p[i] = at + Len(r) /\ p[i] <= p[n]
  BY LenProperties DEF TracksStand
<1> HIDE DEF n, t, r
<1>2. at \in Nat /\ p[i] \in Nat /\ last \in Nat /\ at + Len(r) <= last
  BY <1>1
<1> HIDE DEF at
<1>3. /\ ParseTrack(w, at, last) = [error |-> "none", opaque |-> FALSE, value |-> t]
      /\ Len(r) \in Nat /\ Len(r) >= 30 /\ End(w, at) = at + Len(r)
  <2>1. WritableTrack(t) /\ Placed(w, at, TrackRecord(t, k)) /\ at + Len(TrackRecord(t, k)) <= last
    BY <1>1, <1>2 DEF r
  <2>2. RecordRead(ParseTrack(w, at, last), w, at, TrackRecord(t, k), t, Layout[k].track, 30)
    BY <1>1, <1>2, <2>1, TrackKept
  <2> QED
    BY <2>2 DEF RecordRead, r
<1>4. SubSeq(tracks, 1, i) = Append(SubSeq(tracks, 1, i - 1), t)
  BY Fronts DEF t
<1>5. c = [at |-> at, error |-> "none", values |-> SubSeq(tracks, 1, i - 1), opaque |-> FALSE]
  BY DEF TracksRead, at
<1> HIDE DEF c
<1>6. TrackHeaderError(w, at, k) = "none"
  BY <1>1 DEF TrackHeaderError
<1>7. TrackStep(w, last, k, c) = NextTrack(w, c, ParseTrack(w, at, last), k)
  BY <1>5 DEF TrackStep
<1>8. NextTrack(w, c, [error |-> "none", opaque |-> FALSE, value |-> t], k)
       = [at |-> at + Len(r), error |-> "none", values |-> SubSeq(tracks, 1, i), opaque |-> FALSE]
  BY <1>1, <1>3, <1>4, <1>5, <1>6 DEF NextTrack, Or
<1>9. p[i - 1] + 3 <= p[i]
  BY <1>1, <1>2, <1>3 DEF at
<1> QED
  BY <1>1, <1>3, <1>7, <1>8, <1>9 DEF c, TracksRead

TracksFill(w, set, p, tracks, k) ==
  TracksStand(w, set.last, p, tracks, k) /\ set.first = p[0] /\ set.count = Len(tracks)

LEMMA TracksKept ==
  ASSUME NEW w \in Seq(Cells), NEW set, NEW p, NEW tracks \in Seq(Track), NEW k \in Kinds,
         TracksFill(w, set, p, tracks, k)
  PROVE  Tracks(w, set, k) = [at |-> set.last, error |-> "none", values |-> tracks, opaque |-> FALSE]
<1> DEFINE n == Len(tracks)
           last == set.last
           e == [i \in 0 .. n |-> TracksRead(p, tracks, i)]
           start == [at |-> set.first, error |-> "none", values |-> <<>>, opaque |-> FALSE]
           IsRun(f) == f = [i \in 0 .. n |-> IF i = 0 THEN start ELSE TrackStep(w, last, k, f[i - 1])]
           state == CHOOSE f : IsRun(f)
<1>1. /\ n \in Nat /\ Len(w) \in Nat /\ p \in [0 .. n -> Nat] /\ p[n] = last /\ last <= Len(w)
  BY LenProperties DEF TracksStand, TracksFill
<1>2. \A i \in 1 .. n : /\ TrackStep(w, last, k, TracksRead(p, tracks, i - 1)) = TracksRead(p, tracks, i)
                        /\ p[i - 1] + 3 <= p[i]
  BY OneTrackRead DEF TracksFill
<1>3. Rounds(w, n) = n
  <2>1. p[0] \in Nat /\ p[n] \in Nat
    BY <1>1
  <2>2. p[0] + 3 * n <= p[n]
    BY <1>1, <1>2, Spaced
  <2>3. 3 * n <= Len(w)
    BY <1>1, <2>1, <2>2
  <2> QED
    BY <1>1, <2>3, RoundsEnough
<1>4. Tracks(w, set, k) = Filling(state[n], last)
  BY <1>3 DEF Tracks, Iterate, TracksFill
<1> HIDE DEF last
<1>5. start = TracksRead(p, tracks, 0)
  BY <1>1, Fronts DEF TracksRead, TracksFill
<1> HIDE DEF start, n
<1>6. \A i \in 1 .. n : /\ i \in 0 .. n /\ i - 1 \in 0 .. n /\ e[i] = TracksRead(p, tracks, i)
                        /\ TrackStep(w, last, k, e[i - 1]) = e[i]
  BY <1>1, <1>2
<1>7. 0 \in 0 .. n /\ n \in 0 .. n /\ e[0] = start /\ e[n] = TracksRead(p, tracks, n)
  BY <1>1, <1>5
<1>8. IsRun(e)
  <2>1. e = [i \in 0 .. n |-> e[i]]
    OBVIOUS
  <2>2. ASSUME NEW i \in 0 .. n PROVE e[i] = IF i = 0 THEN start ELSE TrackStep(w, last, k, e[i - 1])
    <3>1. i = 0 \/ i \in 1 .. n
      BY <1>1
    <3> HIDE DEF e
    <3> QED
      BY <1>6, <1>7, <3>1
  <2> HIDE DEF e
  <2> QED
    BY <2>1, <2>2
<1> HIDE DEF e, IsRun
<1>9. IsRun(state)
  BY <1>8
<1> HIDE DEF state
<1>10. state[n] = e[n]
  <2>1. state[0] = e[0]
    BY <1>7, <1>8, <1>9 DEF IsRun
  <2>2. \A i \in 1 .. n : state[i - 1] = e[i - 1] => state[i] = e[i]
    BY <1>1, <1>6, <1>9 DEF IsRun
  <2> QED
    BY <1>1, <2>1, <2>2, LoopKnown
<1>11. e[n] = [at |-> last, error |-> "none", values |-> tracks, opaque |-> FALSE]
  BY <1>1, <1>7, Fronts DEF TracksRead, n
<1> QED
  BY <1>4, <1>10, <1>11 DEF Filling, last

\* The playlists in the order they are written, the master first.
ListNo(master, lists, i) == IF i = 1 THEN master ELSE lists[i - 1]

PlaylistsRead(p, master, lists, i) ==
  [at |-> p[i], error |-> "none", values |-> IF i = 0 THEN <<>> ELSE SubSeq(lists, 1, i - 1),
   master |-> IF i = 0 THEN <<>> ELSE <<master>>, opaque |-> FALSE]

PlaylistsStand(w, last, p, master, lists, k, timestamp) ==
  LET n == 1 + Len(lists)
      record(i) == PlaylistRecord(ListNo(master, lists, i), k, timestamp)
  IN /\ p \in [0 .. n -> Nat] /\ p[n] = last /\ last <= Len(w)
     /\ master.kind = "master" /\ \A i \in DOMAIN lists : lists[i].kind = "ordinary"
     /\ \A i \in 1 .. n : /\ WritablePlaylist(ListNo(master, lists, i)) /\ Placed(w, p[i - 1], record(i))
                          /\ p[i] = p[i - 1] + Len(record(i)) /\ p[i] <= p[n]

LEMMA OnePlaylistRead ==
  ASSUME NEW w \in Seq(Cells), NEW last, NEW p, NEW master, NEW lists \in Seq(Playlist),
         NEW k \in Kinds, NEW timestamp \in Cells,
         PlaylistsStand(w, last, p, master, lists, k, timestamp), NEW i \in 1 .. 1 + Len(lists)
  PROVE  /\ PlaylistStep(w, last, k, PlaylistsRead(p, master, lists, i - 1))
              = PlaylistsRead(p, master, lists, i)
         /\ p[i - 1] + 3 <= p[i]
<1> DEFINE n == 1 + Len(lists)
           l == ListNo(master, lists, i)
           at == p[i - 1]
           r == PlaylistRecord(l, k, timestamp)
           c == PlaylistsRead(p, master, lists, i - 1)
<1>1. /\ n \in Nat /\ i \in 1 .. n /\ i - 1 \in 0 .. n /\ i \in 0 .. n /\ n \in 0 .. n
      /\ p \in [0 .. n -> Nat] /\ p[n] = last /\ last <= Len(w)
      /\ WritablePlaylist(l) /\ Placed(w, at, r) /\ p[i] = at + Len(r) /\ p[i] <= p[n]
  BY SMTT(30), LenProperties DEF PlaylistsStand
<1>2. /\ l.kind = IF i = 1 THEN "master" ELSE "ordinary"
      /\ i = 1 => l = master
      /\ i # 1 => l = lists[i - 1] /\ i - 1 \in 1 .. Len(lists)
  <2>1. master.kind = "master" /\ \A j \in 1 .. Len(lists) : lists[j].kind = "ordinary"
    BY LenProperties DEF PlaylistsStand
  <2>2. i # 1 => i - 1 \in 1 .. Len(lists)
    BY LenProperties
  <2> QED
    BY <2>1, <2>2 DEF ListNo
<1> HIDE DEF n, l, r
<1>3. at \in Nat /\ p[i] \in Nat /\ last \in Nat /\ at + Len(r) <= last
  BY <1>1
<1> HIDE DEF at
<1>4. /\ ParsePlaylist(w, at, last) = [error |-> "none", opaque |-> FALSE, value |-> l]
      /\ Len(r) \in Nat /\ Len(r) >= 9 /\ End(w, at) = at + Len(r)
      /\ Header(w, at) = Layout[k].playlist
  <2>1. /\ WritablePlaylist(l) /\ l.kind \in {"master", "ordinary"}
        /\ Placed(w, at, PlaylistRecord(l, k, timestamp))
        /\ at + Len(PlaylistRecord(l, k, timestamp)) <= last
    BY <1>1, <1>2, <1>3 DEF r
  <2>2. RecordRead(ParsePlaylist(w, at, last), w, at, PlaylistRecord(l, k, timestamp), l,
                   Layout[k].playlist, 9)
    BY <1>1, <1>3, <2>1, PlaylistKept
  <2> QED
    BY <2>2 DEF RecordRead, r
<1>5. c = [at |-> at, error |-> "none",
           values |-> IF i - 1 = 0 THEN <<>> ELSE SubSeq(lists, 1, i - 1 - 1),
           master |-> IF i - 1 = 0 THEN <<>> ELSE <<master>>, opaque |-> FALSE]
  BY DEF PlaylistsRead, at
<1> HIDE DEF c
<1>6. PlaylistHeaderError(w, at, k) = "none"
  BY <1>4, ProfileAssumption DEF PlaylistHeaderError
<1> DEFINE q == [error |-> "none", opaque |-> FALSE, value |-> l]
<1>7. PlaylistStep(w, last, k, c) = NextPlaylist(w, c, q, PlaylistError(w, c, q, k))
  BY <1>4, <1>5 DEF PlaylistStep
<1>8. PlaylistError(w, c, q, k) = "none"
  <2>1. PlaylistHeaderError(w, c.at, k) = "none"
    BY <1>5, <1>6
  <2>2. ~(q.value.kind = "master" /\ c.master # <<>>)
    BY <1>1, <1>2, <1>5
  <2> QED
    BY <2>1, <2>2 DEF PlaylistError, Or
<1>9. NextPlaylist(w, c, q, "none")
       = [at |-> at + Len(r), error |-> "none", values |-> SubSeq(lists, 1, i - 1),
          master |-> <<master>>, opaque |-> FALSE]
  <2>1. CASE i = 1
    <3>1. SubSeq(lists, 1, i - 1) = <<>>
      <4>1. SubSeq(lists, 1, 0) = <<>> /\ i - 1 = 0
        BY <2>1, Fronts
      <4> QED
        BY <4>1
    <3>2. c = [at |-> at, error |-> "none", values |-> <<>>, master |-> <<>>, opaque |-> FALSE]
      BY <1>5, <2>1
    <3> QED
      BY <1>2, <1>4, <2>1, <3>1, <3>2 DEF NextPlaylist
  <2>2. CASE i # 1
    <3>1. SubSeq(lists, 1, i - 1) = Append(SubSeq(lists, 1, i - 1 - 1), l)
      BY <1>2, <2>2, Fronts
    <3>2. c = [at |-> at, error |-> "none", values |-> SubSeq(lists, 1, i - 1 - 1),
               master |-> <<master>>, opaque |-> FALSE]
      BY <1>1, <1>5, <2>2
    <3> QED
      BY <1>2, <1>4, <2>2, <3>1, <3>2 DEF NextPlaylist
  <2> QED
    BY <2>1, <2>2
<1>10. p[i - 1] + 3 <= p[i]
  BY <1>1, <1>3, <1>4 DEF at
<1>11. PlaylistsRead(p, master, lists, i)
        = [at |-> p[i], error |-> "none", values |-> SubSeq(lists, 1, i - 1),
           master |-> <<master>>, opaque |-> FALSE]
  <2>1. i # 0
    BY <1>1
  <2> QED
    BY <2>1 DEF PlaylistsRead
<1> QED
  BY <1>1, <1>7, <1>8, <1>9, <1>10, <1>11 DEF c

ListsFound(r, set, master, lists) ==
  r = [at |-> set.last, error |-> "none", values |-> lists, master |-> <<master>>, opaque |-> FALSE]

PlaylistsFill(w, set, p, master, lists, k, timestamp) ==
  /\ PlaylistsStand(w, set.last, p, master, lists, k, timestamp)
  /\ set.first = p[0] /\ set.count = 1 + Len(lists)

LEMMA PlaylistsKept ==
  ASSUME NEW w \in Seq(Cells), NEW set, NEW p, NEW master, NEW lists \in Seq(Playlist),
         NEW k \in Kinds, NEW timestamp \in Cells,
         PlaylistsFill(w, set, p, master, lists, k, timestamp)
  PROVE  ListsFound(Playlists(w, set, k), set, master, lists)
<1> DEFINE n == 1 + Len(lists)
           last == set.last
           e == [i \in 0 .. n |-> PlaylistsRead(p, master, lists, i)]
           start == [at |-> set.first, error |-> "none", values |-> <<>>, master |-> <<>>, opaque |-> FALSE]
           IsRun(f) == f = [i \in 0 .. n |-> IF i = 0 THEN start ELSE PlaylistStep(w, last, k, f[i - 1])]
           state == CHOOSE f : IsRun(f)
<1>1. /\ n \in Nat /\ Len(w) \in Nat /\ p \in [0 .. n -> Nat] /\ p[n] = last /\ last <= Len(w)
      /\ n - 1 = Len(lists) /\ n # 0
  BY LenProperties DEF PlaylistsStand, PlaylistsFill
<1>2. \A i \in 1 .. n : /\ PlaylistStep(w, last, k, PlaylistsRead(p, master, lists, i - 1))
                            = PlaylistsRead(p, master, lists, i)
                        /\ p[i - 1] + 3 <= p[i]
  BY OnePlaylistRead DEF PlaylistsFill
<1>3. Rounds(w, n) = n
  <2> HIDE DEF n
  <2>1. p[0] \in Nat /\ p[n] \in Nat
    BY <1>1
  <2>2. p[0] + 3 * n <= p[n]
    BY <1>1, <1>2, Spaced
  <2>3. 3 * n <= Len(w)
    BY <1>1, <2>1, <2>2
  <2> QED
    BY <1>1, <2>3, RoundsEnough
<1>4. Playlists(w, set, k) = Filling(state[n], last)
  BY <1>3 DEF Playlists, Iterate, PlaylistsFill
<1> HIDE DEF last
<1>5. start = PlaylistsRead(p, master, lists, 0)
  BY DEF PlaylistsRead, PlaylistsFill
<1> HIDE DEF start, n
<1>6. \A i \in 1 .. n : /\ i \in 0 .. n /\ i - 1 \in 0 .. n /\ e[i] = PlaylistsRead(p, master, lists, i)
                        /\ PlaylistStep(w, last, k, e[i - 1]) = e[i]
  BY <1>1, <1>2
<1>7. 0 \in 0 .. n /\ n \in 0 .. n /\ e[0] = start /\ e[n] = PlaylistsRead(p, master, lists, n)
  BY <1>1, <1>5
<1>8. IsRun(e)
  <2>1. e = [i \in 0 .. n |-> e[i]]
    OBVIOUS
  <2>2. ASSUME NEW i \in 0 .. n PROVE e[i] = IF i = 0 THEN start ELSE PlaylistStep(w, last, k, e[i - 1])
    <3>1. i = 0 \/ i \in 1 .. n
      BY <1>1
    <3> HIDE DEF e
    <3> QED
      BY <1>6, <1>7, <3>1
  <2> HIDE DEF e
  <2> QED
    BY <2>1, <2>2
<1> HIDE DEF e, IsRun
<1>9. IsRun(state)
  BY <1>8
<1> HIDE DEF state
<1>10. state[n] = e[n]
  <2>1. state[0] = e[0]
    BY <1>7, <1>8, <1>9 DEF IsRun
  <2>2. \A i \in 1 .. n : state[i - 1] = e[i - 1] => state[i] = e[i]
    BY <1>1, <1>6, <1>9 DEF IsRun
  <2> QED
    BY <1>1, <2>1, <2>2, LoopKnown
<1>11. e[n] = [at |-> last, error |-> "none", values |-> lists, master |-> <<master>>, opaque |-> FALSE]
  <2>1. SubSeq(lists, 1, n - 1) = lists
    BY <1>1, Fronts
  <2> QED
    BY <1>1, <1>7, <2>1 DEF PlaylistsRead
<1> QED
  BY <1>4, <1>10, <1>11 DEF Filling, last, n, ListsFound

-----------------------------------------------------------------------------
(* Datasets.                                                               *)

\* A dataset of n records as the reader finds it, its records at first.
FoundSet(type, n, first, last) == [type |-> type, count |-> n, first |-> first, last |-> last]

SetRead(w, k, at, type, records, n, last) ==
  LET first == at + Layout[k].dataset + Layout[k].list
  IN /\ at \in Nat /\ first \in Nat /\ last \in Nat /\ at + 7 <= last
     /\ Placed(w, first, FlattenSeq(records)) /\ last = first + Len(FlattenSeq(records))
     /\ \A sets : DatasetStep(w, k, [at |-> at, error |-> "none", sets |-> sets])
                    = [at |-> last, error |-> "none",
                       sets |-> Append(sets, FoundSet(type, n, first, last))]

LEMMA SetKept ==
  ASSUME NEW w \in Seq(Cells), NEW at, NEW k \in Kinds, NEW type \in 1 .. 5, NEW marker,
         marker = ListMarker(type), NEW n \in Nat, NEW records \in [1 .. n -> Seq(Nat)],
         Placed(w, at, Dataset(type, marker, records, k)), NEW last,
         last = at + Len(Dataset(type, marker, records, k)),
         last <= Size(w, 0), Size(w, 0) <= Len(w)
  PROVE  SetRead(w, k, at, type, records, n, last)
<1> DEFINE body == FlattenSeq(records)
           header == Layout[k].dataset
           list == Layout[k].list
           size == header + list + Len(body)
           plain == Record(mhsd, header, size)
           fields == [plain EXCEPT ![4] = type]
           head == Record(marker, list, n)
           kids == head \o body
           first == at + header + list
           end == Size(w, 0)
<1>1. records \in Seq(Seq(Nat)) /\ Len(records) = n
  BY FieldsAreCells
<1>2. body \in Seq(Nat) /\ Len(body) \in Nat
  BY <1>1, FlattenType, LenProperties
<1>3. Dataset(type, marker, records, k) = fields \o head \o body
  BY <1>1 DEF Dataset
<1>4. /\ header \in Nat /\ header >= 4 /\ header >= 3 /\ list \in Nat /\ list >= 3
      /\ mhsd \in Nat /\ size \in Nat /\ type \in Nat
  BY SMTT(60), <1>2, LayoutType DEF mhsd
<1>5. marker \in Nat
  BY DEF ListMarker, mhlt, mhla, mhlp
<1>6. end \in Nat /\ Len(w) \in Nat /\ end <= Len(w)
  BY CellType, LenProperties DEF Size
<1> HIDE DEF body, header, list, size, end
<1>7. Fixed(head, marker, list, n)
  BY <1>4, <1>5, RecordFields
<1>8. /\ fields \in [1 .. header -> Nat] /\ fields[1] = mhsd /\ fields[2] = header /\ fields[3] = size
      /\ fields[4] = type
  <2>1. Fixed(plain, mhsd, header, size)
    BY <1>4, RecordFields
  <2>2. plain \in [1 .. header -> Nat] /\ plain[1] = mhsd /\ plain[2] = header /\ plain[3] = size
    BY <2>1 DEF Fixed
  <2>3. {1, 2, 3, 4} \subseteq 1 .. header
    BY <1>4
  <2> HIDE DEF plain
  <2> QED
    BY <1>4, <2>2, <2>3
<1> HIDE DEF plain, fields, head
<1>9. head \in [1 .. list -> Nat] /\ head[1] = marker /\ head[2] = list /\ head[3] = n
  BY <1>7 DEF Fixed
<1>10. head \in Seq(Nat) /\ Len(head) = list /\ fields \in Seq(Nat)
  BY SMTT(30), <1>4, <1>8, <1>9, FieldsAreCells
<1>11. kids \in Seq(Nat) /\ Len(kids) = list + Len(body)
  BY <1>2, <1>4, <1>10, ConcatProperties
<1>12. Dataset(type, marker, records, k) = fields \o kids
  BY <1>2, <1>3, <1>10, JoinThree
<1> HIDE DEF kids
<1>13. Standing(w, at, mhsd, header, size, fields, kids)
  <2>1. Placed(w, at, fields \o kids)
    BY <1>12
  <2> QED
    BY <1>4, <1>8, <1>11, <2>1, RecordPlaced
<1>14. /\ at \in Nat /\ Header(w, at) = header /\ Size(w, at) = size /\ Cell(w, at) = mhsd
       /\ Body(w, at) = at + header /\ End(w, at) = at + size /\ last = at + size /\ last <= end
       /\ at + header \in Nat
  BY <1>2, <1>4, <1>11, <1>12, <1>13 DEF Standing, size, end
<1>15. Cell(w, at + 3) = type
  <2>1. 3 \in 0 .. header - 1
    BY <1>4
  <2>2. Cell(w, at + 3) = fields[3 + 1]
    BY <1>13, <2>1 DEF Standing
  <2> QED
    BY <1>8, <2>2
<1>16. Standing(w, at + header, marker, list, n, head, body)
  <2>1. Placed(w, at + header, head \o body)
    BY <1>13 DEF Standing, kids
  <2> QED
    BY <1>2, <1>4, <1>9, <2>1, RecordPlaced
<1>17. /\ Cell(w, at + header) = marker /\ Header(w, at + header) = list
       /\ Cell(w, at + header + 2) = n /\ Body(w, at + header) = first
       /\ Placed(w, first, body)
  BY <1>16 DEF Standing, Size
<1>18. /\ first \in Nat /\ last \in Nat /\ at + 7 <= last /\ last = first + Len(body)
       /\ at + header + 3 <= last /\ at + header + list <= last /\ at + header <= last
       /\ 3 <= last - (at + header) /\ list <= last - (at + header)
       /\ last <= Len(w) /\ at + 4 <= Len(w) /\ at + header + 3 <= Len(w)
  BY <1>2, <1>4, <1>6, <1>14 DEF size
<1>19. EnvelopeError(w, at, end, 4, mhsd) = "none"
  <2>1. 4 \in Nat /\ 4 >= 3 /\ 4 <= header /\ header <= size /\ at + size <= end
    BY <1>2, <1>4, <1>14 DEF size
  <2> HIDE DEF mhsd
  <2> QED
    BY <1>6, <1>14, <2>1, EnvelopeAccepted
<1>20. DatasetError(w, at, end, k) = "none"
  <2>1. /\ Fits(at + header, 3, last) /\ Fits(at + header, list, last)
        /\ Within(w, at, 4) /\ Within(w, at + header, 3)
    BY <1>18 DEF Fits, Within
  <2>2. header = Layout[k].dataset /\ list = Layout[k].list /\ list >= 3
    BY <1>4 DEF header, list
  <2> DEFINE at1 == at + header
  <2>3. End(w, at) = last /\ Body(w, at) = at1 /\ Cell(w, at + 3) = type
    BY <1>14, <1>15
  <2>4. Cell(w, at1) = ListMarker(type) /\ Header(w, at1) = list /\ ~(list < 3)
    BY <1>4, <1>17
  <2>5. Fits(at1, 3, last) /\ Fits(at1, list, last) /\ Within(w, at, 4) /\ Within(w, at1, 3)
    BY <2>1
  <2>6. Header(w, at) = Layout[k].dataset /\ Header(w, at1) = Layout[k].list
    BY <1>14, <2>2, <2>4
  <2> HIDE DEF first, at1
  <2> QED
    BY <1>19, <2>3, <2>4, <2>5, <2>6 DEF DatasetError, Or
<1>21. ASSUME NEW sets
       PROVE  DatasetStep(w, k, [at |-> at, error |-> "none", sets |-> sets])
                = [at |-> last, error |-> "none", sets |-> Append(sets, FoundSet(type, n, first, last))]
  <2> DEFINE d == [at |-> at, error |-> "none", sets |-> sets]
  <2>1. d.error = "none" /\ d.at = at /\ d.sets = sets
    OBVIOUS
  <2>2. DatasetStep(w, k, d) = NextDataset(w, d, at + header, "none")
    BY <1>14, <1>20 DEF DatasetStep, end
  <2> HIDE DEF first
  <2>3. NextDataset(w, d, at + header, "none")
         = [d EXCEPT !.at = last, !.sets = Append(sets, FoundSet(type, n, first, last))]
    BY <1>14, <1>15, <1>17, <2>1 DEF NextDataset, FoundSet
  <2> QED
    BY <2>2, <2>3
<1> QED
  BY <1>14, <1>17, <1>18, <1>21 DEF SetRead, header, list, body

SetsRead(p, sets, i) == [at |-> p[i], error |-> "none", sets |-> SubSeq(sets, 1, i)]

\* n datasets are found one after the other.
SetsStand(w, k, p, sets, n) ==
  /\ n \in Nat /\ 3 * n <= Len(w) /\ Cell(w, 5) = n /\ Len(sets) = n
  /\ p[0] = Header(w, 0)
  /\ \A i \in 1 .. n : \A s :
       DatasetStep(w, k, [at |-> p[i - 1], error |-> "none", sets |-> s])
         = [at |-> p[i], error |-> "none", sets |-> Append(s, sets[i])]

LEMMA SetsKept ==
  ASSUME NEW w \in Seq(Cells), NEW k \in Kinds, NEW p, NEW n, NEW sets \in Seq(DatasetTypes),
         SetsStand(w, k, p, sets, n)
  PROVE  Datasets(w, k) = [at |-> p[n], error |-> "none", sets |-> sets]
<1> DEFINE e == [i \in 0 .. n |-> SetsRead(p, sets, i)]
           start == [at |-> Header(w, 0), error |-> "none", sets |-> <<>>]
           IsRun(f) == f = [i \in 0 .. n |-> IF i = 0 THEN start ELSE DatasetStep(w, k, f[i - 1])]
           state == CHOOSE f : IsRun(f)
<1>1. n \in Nat /\ 3 * n <= Len(w) /\ Len(sets) = n
  BY DEF SetsStand
<1>2. Datasets(w, k) = state[n]
  <2>1. Rounds(w, Cell(w, 5)) = n
    BY <1>1, RoundsEnough DEF SetsStand
  <2> QED
    BY <2>1 DEF Datasets, Iterate
<1>3. start = SetsRead(p, sets, 0)
  BY Fronts DEF SetsRead, SetsStand
<1> HIDE DEF start
<1>4. \A i \in 1 .. n : /\ i \in 0 .. n /\ i - 1 \in 0 .. n
                        /\ DatasetStep(w, k, e[i - 1]) = e[i]
  <2> SUFFICES ASSUME NEW i \in 1 .. n
               PROVE  /\ i \in 0 .. n /\ i - 1 \in 0 .. n
                      /\ DatasetStep(w, k, e[i - 1]) = e[i]
    OBVIOUS
  <2>1. i \in 0 .. n /\ i - 1 \in 0 .. n
    BY <1>1
  <2>2. SubSeq(sets, 1, i) = Append(SubSeq(sets, 1, i - 1), sets[i])
    BY <1>1, Fronts
  <2>3. DatasetStep(w, k, SetsRead(p, sets, i - 1)) = SetsRead(p, sets, i)
    BY <2>2 DEF SetsRead, SetsStand
  <2> QED
    BY <2>1, <2>3
<1>5. 0 \in 0 .. n /\ n \in 0 .. n /\ e[0] = start /\ e[n] = SetsRead(p, sets, n)
  BY <1>1, <1>3
<1>6. IsRun(e)
  <2>1. e = [i \in 0 .. n |-> e[i]]
    OBVIOUS
  <2>2. ASSUME NEW i \in 0 .. n PROVE e[i] = IF i = 0 THEN start ELSE DatasetStep(w, k, e[i - 1])
    <3>1. i = 0 \/ i \in 1 .. n
      BY <1>1
    <3> HIDE DEF e
    <3> QED
      BY <1>4, <1>5, <3>1
  <2> HIDE DEF e
  <2> QED
    BY <2>1, <2>2
<1> HIDE DEF e, IsRun
<1>7. IsRun(state)
  BY <1>6
<1> HIDE DEF state
<1>8. state[n] = e[n]
  <2>1. state[0] = e[0]
    BY <1>5, <1>6, <1>7 DEF IsRun
  <2>2. \A i \in 1 .. n : state[i - 1] = e[i - 1] => state[i] = e[i]
    BY <1>1, <1>4, <1>7 DEF IsRun
  <2> QED
    BY <1>1, <2>1, <2>2, LoopKnown
<1>9. SetsRead(p, sets, n) = [at |-> p[n], error |-> "none", sets |-> sets]
  BY <1>1, Fronts DEF SetsRead
<1> QED
  BY <1>2, <1>5, <1>8, <1>9

\* The only dataset of the first type asked for is the one chosen.
LEMMA ChosenKept ==
  ASSUME NEW sets \in Seq(DatasetTypes), NEW types \in Seq(Nat), NEW c \in 1 .. Len(sets),
         Len(types) >= 1, \A i \in 1 .. Len(sets) : sets[i].type = types[1] <=> i = c
  PROVE  Chosen(sets, types) = <<sets[c]>>
<1> DEFINE has(t) == \E i \in DOMAIN sets : sets[i].type = t
           T == {i \in 1 .. Len(types) : has(types[i])}
           type == IF T # {} THEN Min(T) ELSE 0
           S == {i \in 1 .. Len(sets) : sets[i].type = types[type]}
           first == IF S # {} THEN Min(S) ELSE 0
<1>1. Chosen(sets, types) = IF type = 0 THEN <<>> ELSE <<sets[first]>>
  BY DEF Chosen, SelectInSeq
<1>2. T \in SUBSET Nat /\ S \in SUBSET Nat /\ DOMAIN sets = 1 .. Len(sets) /\ Len(types) \in Nat
  BY LenProperties
<1>3. 1 \in T
  BY <1>2
<1>4. type = 1
  <2>1. Min(T) \in T /\ Min(T) <= 1
    BY <1>2, <1>3, MinIn
  <2>2. \A x \in 1 .. Len(types) : x <= 1 => x = 1
    OBVIOUS
  <2> QED
    BY <1>3, <2>1, <2>2
<1> HIDE DEF type, T
<1>5. c \in S /\ \A i \in S : i = c
  BY <1>4
<1>6. first = c
  BY <1>2, <1>5, MinIn
<1> HIDE DEF first
<1> QED
  BY <1>1, <1>4, <1>6

-----------------------------------------------------------------------------
(* The root.                                                               *)

RootStands(w, m, k, body) ==
  LET header == Layout[k].root
  IN /\ Len(w) = header + Len(body) /\ Len(body) \in Nat
     /\ Cell(w, 0) = mhbd /\ Header(w, 0) = header /\ Size(w, 0) = header + Len(body)
     /\ Cell(w, 3) = 1 /\ Cell(w, 4) = Layout[k].version
     /\ Cell(w, 5) = IF k = "hash58" THEN 4 ELSE 2
     /\ Id(w, 6) = m.pid
     /\ k = "hash58" => Cell(w, 12) = 1
     /\ Placed(w, header, body)

LEMMA RootKept ==
  ASSUME NEW m, m.pid \in Wide, NEW k \in Kinds, NEW body \in Seq(Nat), NEW w \in Seq(Cells),
         w = WholeFile(m, k, body)
  PROVE  RootStands(w, m, k, body)
<1> DEFINE header == Layout[k].root
           kinds == IF k = "hash58" THEN 4 ELSE 2
           size == header + Len(body)
           plain == Record(mhbd, header, size)
           fixed == [plain EXCEPT ![4] = 1, ![5] = Layout[k].version, ![6] = kinds,
                                  ![7] = Low(m.pid), ![8] = High(m.pid)]
           fields == IF k = "hash58" THEN [fixed EXCEPT ![13] = 1] ELSE fixed
<1>1. w = fields \o body
  BY DEF WholeFile, RootRecord
<1>2. /\ header \in Nat /\ header >= 8 /\ header >= 3 /\ (k = "hash58" => header >= 27)
      /\ Layout[k].version \in Nat /\ Len(body) \in Nat /\ size \in Nat /\ mhbd \in Nat
      /\ Low(m.pid) \in Nat /\ High(m.pid) \in Nat /\ kinds \in Nat
  <2>1. Layout[k].version \in Nat
    BY LayoutType, WideZero
  <2>2. Len(body) \in Nat
    BY LenProperties
  <2>3. Low(m.pid) \in Nat /\ High(m.pid) \in Nat
    BY HalvesAreCells, WideZero
  <2> QED
    BY <2>1, <2>2, <2>3, LayoutType DEF mhbd
<1> HIDE DEF header, size
<1>3. /\ fixed \in [1 .. header -> Nat] /\ fixed[1] = mhbd /\ fixed[2] = header /\ fixed[3] = size
      /\ fixed[4] = 1 /\ fixed[5] = Layout[k].version /\ fixed[6] = kinds
      /\ fixed[7] = Low(m.pid) /\ fixed[8] = High(m.pid)
  <2>1. Fixed(plain, mhbd, header, size)
    BY <1>2, RecordFields
  <2>2. plain \in [1 .. header -> Nat] /\ plain[1] = mhbd /\ plain[2] = header /\ plain[3] = size
    BY <2>1 DEF Fixed
  <2>3. {1, 2, 3, 4, 5, 6, 7, 8} \subseteq 1 .. header
    BY <1>2
  <2> HIDE DEF plain, kinds
  <2>4. fixed \in [1 .. header -> Nat]
    BY <1>2, <2>2, <2>3
  <2>5. fixed[1] = plain[1] /\ fixed[2] = plain[2] /\ fixed[3] = plain[3]
    BY <2>2, <2>3
  <2>6. /\ fixed[4] = 1 /\ fixed[5] = Layout[k].version /\ fixed[6] = kinds
        /\ fixed[7] = Low(m.pid) /\ fixed[8] = High(m.pid)
    BY <2>2, <2>3
  <2> QED
    BY <2>2, <2>4, <2>5, <2>6
<1> HIDE DEF plain, fixed, kinds
<1>4. /\ fields \in [1 .. header -> Nat]
      /\ \A i \in 1 .. 8 : fields[i] = fixed[i]
      /\ k = "hash58" => fields[13] = 1
  <2>1. CASE k = "hash58"
    <3>1. fields = [fixed EXCEPT ![13] = 1] /\ 13 \in 1 .. header /\ 13 \notin 1 .. 8
      BY <1>2, <2>1
    <3>2. 1 .. 8 \subseteq 1 .. header
      BY <1>2
    <3> HIDE DEF fields
    <3> QED
      BY <1>3, <3>1, <3>2
  <2>2. CASE k # "hash58"
    BY <1>3, <2>2
  <2> QED
    BY <2>1, <2>2
<1> HIDE DEF fields
<1>5. fields[1] = mhbd /\ fields[2] = header /\ fields[3] = size
  BY <1>3, <1>4
<1>6. Standing(w, 0, mhbd, header, size, fields, body)
  <2>1. Placed(w, 0, fields \o body)
    BY <1>1, LenProperties DEF Placed
  <2> QED
    BY <1>2, <1>4, <1>5, <2>1, RecordPlaced
<1>7. /\ Cell(w, 3) = 1 /\ Cell(w, 4) = Layout[k].version /\ Cell(w, 5) = kinds
      /\ Id(w, 6) = m.pid /\ (k = "hash58" => Cell(w, 12) = 1)
  <2>1. /\ 3 \in 0 .. header - 1 /\ 4 \in 0 .. header - 1 /\ 5 \in 0 .. header - 1
        /\ 6 \in 0 .. header - 1 /\ 7 \in 0 .. header - 1 /\ (k = "hash58" => 12 \in 0 .. header - 1)
    BY <1>2
  <2>2. \A i \in 0 .. header - 1 : Cell(w, 0 + i) = fields[i + 1]
    BY <1>6 DEF Standing
  <2>3. /\ Cell(w, 0 + 3) = fields[3 + 1] /\ Cell(w, 0 + 4) = fields[4 + 1]
        /\ Cell(w, 0 + 5) = fields[5 + 1] /\ Cell(w, 0 + 6) = fields[6 + 1]
        /\ Cell(w, 0 + 7) = fields[7 + 1] /\ (k = "hash58" => Cell(w, 0 + 12) = fields[12 + 1])
    BY <2>1, <2>2
  <2>4. /\ Cell(w, 3) = 1 /\ Cell(w, 4) = Layout[k].version /\ Cell(w, 5) = kinds
        /\ Cell(w, 6) = Low(m.pid) /\ Cell(w, 6 + 1) = High(m.pid)
        /\ (k = "hash58" => Cell(w, 12) = 1)
    BY <1>3, <1>4, <2>3
  <2> QED
    BY <2>4, IdKept DEF Id
<1>8. Len(w) = header + Len(body) /\ Placed(w, header, body)
  <2>1. 0 + header = header
    BY <1>2
  <2> QED
    BY <1>1, <1>6, <2>1 DEF Standing
<1> QED
  BY <1>2, <1>6, <1>7, <1>8 DEF RootStands, Standing, header, kinds, size

\* What the writer accepts, under profile kind k.
Accepted(m, k) ==
  /\ WritableModel(m) /\ Len(m.master) = 1 /\ m.master[1].kind = "master"
  /\ \A i \in DOMAIN m.lists : m.lists[i].kind = "ordinary"
  /\ k = "hash58" => m.tracks = <<>>

TrackRecords(m, k) == [i \in DOMAIN m.tracks |-> TrackRecord(m.tracks[i], k)]
ListRecords(m, k, timestamp) ==
  [i \in 1 .. 1 + Len(m.lists) |->
     PlaylistRecord(IF i = 1 THEN m.master[1] ELSE m.lists[i - 1], k, timestamp)]

LEMMA TrackRecordsType ==
  ASSUME NEW m, NEW k \in Kinds, Accepted(m, k)
  PROVE  /\ Len(m.tracks) \in Nat /\ TrackRecords(m, k) \in [1 .. Len(m.tracks) -> Seq(Nat)]
         /\ \A i \in 1 .. Len(m.tracks) : /\ WritableTrack(m.tracks[i])
                                          /\ TrackRecords(m, k)[i] = TrackRecord(m.tracks[i], k)
<1>1. m.tracks \in Seq(Track) /\ \A i \in DOMAIN m.tracks : WritableTrack(m.tracks[i])
  BY DEF Accepted, WritableModel, Model
<1>2. Len(m.tracks) \in Nat /\ DOMAIN m.tracks = 1 .. Len(m.tracks)
  BY <1>1, LenProperties
<1>3. \A i \in 1 .. Len(m.tracks) : TrackRecord(m.tracks[i], k) \in Seq(Nat)
  BY <1>1, <1>2, TrackRecordType DEF Part
<1> QED
  BY <1>1, <1>2, <1>3 DEF TrackRecords

LEMMA ListRecordsType ==
  ASSUME NEW m, NEW k \in Kinds, Accepted(m, k), NEW timestamp \in Cells
  PROVE  /\ 1 + Len(m.lists) \in Nat
         /\ ListRecords(m, k, timestamp) \in [1 .. 1 + Len(m.lists) -> Seq(Nat)]
         /\ \A i \in 1 .. 1 + Len(m.lists) :
              /\ WritablePlaylist(ListNo(m.master[1], m.lists, i))
              /\ ListRecords(m, k, timestamp)[i]
                   = PlaylistRecord(ListNo(m.master[1], m.lists, i), k, timestamp)
<1>1. /\ m.lists \in Seq(Playlist) /\ WritablePlaylist(m.master[1])
      /\ \A i \in DOMAIN m.lists : WritablePlaylist(m.lists[i])
  BY DEF Accepted, WritableModel, Model
<1>2. Len(m.lists) \in Nat /\ DOMAIN m.lists = 1 .. Len(m.lists)
  BY <1>1, LenProperties
<1>3. ASSUME NEW i \in 1 .. 1 + Len(m.lists) PROVE WritablePlaylist(ListNo(m.master[1], m.lists, i))
  <2>1. i = 1 \/ i - 1 \in 1 .. Len(m.lists)
    BY <1>2
  <2> QED
    BY <1>1, <1>2, <2>1 DEF ListNo
<1>4. \A i \in 1 .. 1 + Len(m.lists) :
        PlaylistRecord(ListNo(m.master[1], m.lists, i), k, timestamp) \in Seq(Nat)
  BY <1>3, PlaylistRecordType DEF Part
<1>5. ListRecords(m, k, timestamp)
       = [i \in 1 .. 1 + Len(m.lists) |-> PlaylistRecord(ListNo(m.master[1], m.lists, i), k, timestamp)]
  BY DEF ListRecords, ListNo
<1> QED
  BY <1>2, <1>3, <1>4, <1>5

\* The set of n records that stand behind the headers at an offset.
SetAt(k, at, type, n, last) ==
  FoundSet(type, n, at + Layout[k].dataset + Layout[k].list, last)

HasTracks(r, set, m) ==
  r = [at |-> set.last, error |-> "none", values |-> m.tracks, opaque |-> FALSE]
HasLists(r, set, m) ==
  r = [at |-> set.last, error |-> "none", values |-> m.lists, master |-> m.master, opaque |-> FALSE]

LEMMA TracksBack ==
  ASSUME NEW w \in Seq(Cells), NEW k \in Kinds, NEW m, Accepted(m, k), NEW at, NEW last, last <= Len(w),
         SetRead(w, k, at, 1, TrackRecords(m, k), Len(m.tracks), last), NEW set,
         set = SetAt(k, at, 1, Len(m.tracks), last)
  PROVE  HasTracks(Tracks(w, set, k), set, m)
<1> DEFINE s == TrackRecords(m, k)
           n == Len(m.tracks)
           first == at + Layout[k].dataset + Layout[k].list
<1>1. /\ n \in Nat /\ s \in [1 .. n -> Seq(Nat)] /\ m.tracks \in Seq(Track)
      /\ \A i \in 1 .. n : WritableTrack(m.tracks[i]) /\ s[i] = TrackRecord(m.tracks[i], k)
  BY TrackRecordsType DEF Accepted, WritableModel, Model
<1>2. Placed(w, first, FlattenSeq(s)) /\ last = first + Len(FlattenSeq(s))
  BY DEF SetRead
<1>3. set.first = first /\ set.last = last /\ set.count = n
  BY DEF FoundSet, SetAt
<1>4. k = "hash58" => n = 0
  <2>1. k = "hash58" => m.tracks = <<>>
    BY DEF Accepted
  <2> QED
    BY <2>1
<1> HIDE DEF s, n, first
<1>5. s \in Seq(Seq(Nat)) /\ n = Len(s)
  BY <1>1, FieldsAreCells
<1>6. PICK p : Positions(p, w, first, s, n)
  BY <1>2, <1>5, CellsAreNats, PlacedParts
<1>7. /\ p \in [0 .. n -> Nat] /\ p[0] = first /\ p[n] = last
      /\ \A i \in 1 .. n : p[i] <= p[n] /\ p[i] = p[i - 1] + Len(s[i]) /\ Placed(w, p[i - 1], s[i])
  <2>1. \A i \in 1 .. n : i \in 0 .. n
    BY <1>1
  <2> QED
    BY <1>2, <1>6, <2>1 DEF Positions
<1>8. TracksStand(w, set.last, p, m.tracks, k)
  <2>1. n = Len(m.tracks)
    BY DEF n
  <2> QED
    BY <1>1, <1>3, <1>4, <1>7, <2>1 DEF TracksStand
<1>9. set.first = p[0] /\ set.count = Len(m.tracks)
  BY <1>3, <1>7 DEF n
<1>10. TracksFill(w, set, p, m.tracks, k)
  BY <1>8, <1>9 DEF TracksFill
<1>11. Tracks(w, set, k) = [at |-> set.last, error |-> "none", values |-> m.tracks, opaque |-> FALSE]
  BY <1>1, <1>10, TracksKept
<1> QED
  BY <1>11 DEF HasTracks

LEMMA ListsBack ==
  ASSUME NEW w \in Seq(Cells), NEW k \in Kinds, NEW m, Accepted(m, k), NEW timestamp \in Cells,
         NEW at, NEW type, NEW last, last <= Len(w),
         SetRead(w, k, at, type, ListRecords(m, k, timestamp), 1 + Len(m.lists), last), NEW set,
         set = SetAt(k, at, type, 1 + Len(m.lists), last)
  PROVE  HasLists(Playlists(w, set, k), set, m)
<1> DEFINE s == ListRecords(m, k, timestamp)
           n == 1 + Len(m.lists)
           first == at + Layout[k].dataset + Layout[k].list
           master == m.master[1]
<1>1. /\ n \in Nat /\ s \in [1 .. n -> Seq(Nat)] /\ m.lists \in Seq(Playlist)
      /\ \A i \in 1 .. n : /\ WritablePlaylist(ListNo(master, m.lists, i))
                           /\ s[i] = PlaylistRecord(ListNo(master, m.lists, i), k, timestamp)
      /\ master.kind = "master" /\ \A i \in DOMAIN m.lists : m.lists[i].kind = "ordinary"
  <2>1. /\ m.lists \in Seq(Playlist) /\ master.kind = "master"
        /\ \A i \in DOMAIN m.lists : m.lists[i].kind = "ordinary"
    BY DEF Accepted, WritableModel, Model
  <2> QED
    BY <2>1, ListRecordsType
<1>2. Placed(w, first, FlattenSeq(s)) /\ last = first + Len(FlattenSeq(s))
  BY DEF SetRead
<1>3. set.first = first /\ set.last = last /\ set.count = n
  BY DEF FoundSet, SetAt
<1>4. m.master = <<master>>
  <2>1. m.master \in Seq(Playlist) /\ Len(m.master) = 1
    BY DEF Accepted, WritableModel, Model
  <2> QED
    BY <2>1
<1> HIDE DEF s, n, first, master
<1>5. s \in Seq(Seq(Nat)) /\ n = Len(s)
  BY <1>1, FieldsAreCells
<1>6. PICK p : Positions(p, w, first, s, n)
  BY <1>2, <1>5, CellsAreNats, PlacedParts
<1>7. /\ p \in [0 .. n -> Nat] /\ p[0] = first /\ p[n] = last
      /\ \A i \in 1 .. n : p[i] <= p[n] /\ p[i] = p[i - 1] + Len(s[i]) /\ Placed(w, p[i - 1], s[i])
  <2>1. \A i \in 1 .. n : i \in 0 .. n
    BY <1>1
  <2> QED
    BY <1>2, <1>6, <2>1 DEF Positions
<1>8. PlaylistsStand(w, set.last, p, master, m.lists, k, timestamp)
  <2>1. n = 1 + Len(m.lists)
    BY DEF n
  <2> QED
    BY <1>1, <1>3, <1>7, <2>1 DEF PlaylistsStand
<1>9. set.first = p[0] /\ set.count = 1 + Len(m.lists)
  BY <1>3, <1>7 DEF n
<1>10. PlaylistsFill(w, set, p, master, m.lists, k, timestamp)
  BY <1>8, <1>9 DEF PlaylistsFill
<1>11. Playlists(w, set, k) = [at |-> set.last, error |-> "none", values |-> m.lists,
                              master |-> <<master>>, opaque |-> FALSE]
  <2>1. m.lists \in Seq(Playlist)
    BY <1>1
  <2>2. ListsFound(Playlists(w, set, k), set, master, m.lists)
    BY <1>10, <2>1, PlaylistsKept
  <2> QED
    BY <2>2 DEF ListsFound
<1> QED
  BY <1>4, <1>11 DEF HasLists

-----------------------------------------------------------------------------
(* The file.                                                               *)

\* The reader takes w for the document of kind k with nothing but m in it.
ReadsBack(w, k, key, m) ==
  Read(w, k, key) = [error |-> "none", doc |->
    [kind |-> k, original |-> w, modified |-> FALSE, opaque |-> FALSE,
     signature |-> SignatureState(w, k, key), model |-> m]]

\* What the loop over the datasets, and the loops over their records, find.
AllFound(w, k, m, sets, tracks, lists) ==
  /\ Datasets(w, k) = [at |-> Size(w, 0), error |-> "none", sets |-> sets]
  /\ k = "hash58" => IsPrefix(<<4, 1, 3, 2>>, [i \in DOMAIN sets |-> sets[i].type])
  /\ Chosen(sets, <<1>>) = <<tracks>> /\ Chosen(sets, <<2, 3>>) = <<lists>>
  /\ \A i \in DOMAIN sets : ~Preserved(sets[i])
  /\ HasTracks(Tracks(w, tracks, k), tracks, m) /\ HasLists(Playlists(w, lists, k), lists, m)

LEMMA RootAccepted ==
  ASSUME NEW w \in Seq(Cells), NEW m, NEW k \in Kinds, NEW body, RootStands(w, m, k, body),
         Len(w) <= Layout[k].maxIn, Len(body) >= 14, k = "hash58" => Len(body) >= 28
  PROVE  RootError(w, k) = "none" /\ Size(w, 0) = Len(w)
<1> DEFINE header == Layout[k].root
<1>1. /\ Len(w) \in Nat /\ Len(body) \in Nat /\ Len(w) = header + Len(body)
      /\ header \in Nat /\ header >= 8 /\ (k = "hash58" => header >= 27)
      /\ Cell(w, 0) = mhbd /\ Header(w, 0) = header /\ Size(w, 0) = header + Len(body)
      /\ Cell(w, 3) = 1 /\ Cell(w, 4) = Layout[k].version
      /\ Cell(w, 5) = (IF k = "hash58" THEN 4 ELSE 2) /\ (k = "hash58" => Cell(w, 12) = 1)
  BY LenProperties, LayoutType DEF RootStands
<1> HIDE DEF header
<1>2. EnvelopeError(w, 0, Len(w), 8, mhbd) = "none"
  <2>1. /\ 0 \in Nat /\ 8 \in Nat /\ 8 >= 3 /\ 8 <= Header(w, 0) /\ Header(w, 0) <= Size(w, 0)
        /\ 0 + Size(w, 0) <= Len(w) /\ Len(w) <= Len(w)
    BY <1>1
  <2> HIDE DEF mhbd
  <2> QED
    BY <1>1, <2>1, EnvelopeAccepted
<1>3. Cell(w, 0) # sqlite /\ ~(Len(w) > Layout[k].maxIn)
  BY <1>1, LayoutType DEF mhbd, sqlite
<1>4. Within(w, 0, 8) /\ (k = "hash58" => Within(w, 0, 13))
  BY <1>1 DEF Within
<1>5. ~(Cell(w, 5) > (Size(w, 0) - Header(w, 0)) \div 4)
  <2>1. Size(w, 0) - Header(w, 0) = Len(body)
    BY <1>1
  <2>2. \A x \in Nat : (x >= 14 => ~(2 > x \div 4)) /\ (x >= 28 => ~(4 > x \div 4))
    OBVIOUS
  <2> QED
    BY <1>1, <2>1, <2>2
<1>6. k = "hash58" => Header(w, 0) = Layout[k].root /\ Cell(w, 4) \in {49, 115}
  BY <1>1, ProfileAssumption DEF header
<1>7. RootError(w, k) = "none"
  BY <1>1, <1>2, <1>3, <1>4, <1>5, <1>6 DEF RootError, Or
<1> QED
  BY <1>1, <1>7

LEMMA FoundRead ==
  ASSUME NEW w, NEW k, NEW key, NEW m \in Model, NEW sets, NEW tracks, NEW lists,
         RootError(w, k) = "none", Size(w, 0) = Len(w), Id(w, 6) = m.pid,
         AllFound(w, k, m, sets, tracks, lists)
  PROVE  ReadsBack(w, k, key, m)
<1> DEFINE found == [at |-> Size(w, 0), error |-> "none", sets |-> sets]
           t == [at |-> tracks.last, error |-> "none", values |-> m.tracks, opaque |-> FALSE]
           p == [at |-> lists.last, error |-> "none", values |-> m.lists, master |-> m.master,
                 opaque |-> FALSE]
           document == [kind |-> k, original |-> w, modified |-> FALSE, opaque |-> FALSE,
                        signature |-> SignatureState(w, k, key), model |-> m]
<1>1. Read(w, k, key)
       = Contents(w, k, key, found, Chosen(sets, <<1>>), Chosen(sets, <<2, 3>>))
  <2>1. Datasets(w, k) = found /\ found.error = "none" /\ found.sets = sets
    BY DEF AllFound
  <2>2. ~(k = "hash58" /\ ~IsPrefix(<<4, 1, 3, 2>>, [i \in DOMAIN sets |-> sets[i].type]))
    BY DEF AllFound
  <2> HIDE DEF found
  <2> QED
    BY <2>1, <2>2 DEF Read, Checked, Or
<1>2. Contents(w, k, key, found, <<tracks>>, <<lists>>) = Document(w, k, key, found, t, p)
  <2>1. <<tracks>> # <<>> /\ <<tracks>>[1] = tracks /\ <<lists>> # <<>> /\ <<lists>>[1] = lists
    OBVIOUS
  <2>2. Tracks(w, tracks, k) = t /\ Playlists(w, lists, k) = p
    BY DEF AllFound, HasTracks, HasLists
  <2> HIDE DEF found, t, p
  <2> QED
    BY <2>1, <2>2 DEF Contents
<1>3. m = [pid |-> m.pid, tracks |-> m.tracks, master |-> m.master, lists |-> m.lists]
  BY DEF Model
<1>4. Document(w, k, key, found, t, p) = [error |-> "none", doc |-> document]
  <2>1. (\/ t.opaque \/ p.opaque \/ found.at # Size(w, 0) \/ Size(w, 0) # Len(w)
         \/ \E i \in DOMAIN found.sets : Preserved(found.sets[i])) = FALSE
    BY DEF AllFound
  <2>2. t.error = "none" /\ p.error = "none" /\ t.values = m.tracks /\ p.master = m.master
        /\ p.values = m.lists
    OBVIOUS
  <2>3. [pid |-> Id(w, 6), tracks |-> t.values, master |-> p.master, lists |-> p.values] = m
    BY <1>3, <2>2
  <2> HIDE DEF t, p, found
  <2> QED
    BY <2>1, <2>2, <2>3 DEF Document, Checked, Or
<1>5. Chosen(sets, <<1>>) = <<tracks>> /\ Chosen(sets, <<2, 3>>) = <<lists>>
  BY DEF AllFound
<1> HIDE DEF found, t, p, document
<1>6. Read(w, k, key) = [error |-> "none", doc |-> document]
  BY <1>1, <1>2, <1>4, <1>5
<1> QED
  BY <1>6 DEF ReadsBack, document

TracksPart(m, k) == Dataset(1, mhlt, TrackRecords(m, k), k)
ListsPart(type, m, k, timestamp) == Dataset(type, mhlp, ListRecords(m, k, timestamp), k)
AlbumsPart(k) == Dataset(4, mhla, <<>>, k)

\* What follows the root.
Written(m, k, timestamp) ==
  IF k = "hash58" THEN AlbumsPart(k) \o TracksPart(m, k) \o ListsPart(3, m, k, timestamp)
                         \o ListsPart(2, m, k, timestamp)
  ELSE TracksPart(m, k) \o ListsPart(2, m, k, timestamp)

LEMMA SerializeIs ==
  ASSUME NEW m, NEW k, NEW timestamp
  PROVE  Serialize(m, k, timestamp) = WholeFile(m, k, Written(m, k, timestamp))
BY DEF Serialize, Written, TracksPart, ListsPart, AlbumsPart, TrackRecords, ListRecords

LEMMA PartsType ==
  ASSUME NEW m, NEW k \in Kinds, Accepted(m, k), NEW timestamp \in Cells
  PROVE  /\ TracksPart(m, k) \in Seq(Nat) /\ AlbumsPart(k) \in Seq(Nat)
         /\ ListsPart(2, m, k, timestamp) \in Seq(Nat) /\ ListsPart(3, m, k, timestamp) \in Seq(Nat)
<1>1. /\ mhlt \in Cells /\ mhlp \in Cells /\ mhla \in Cells
      /\ 1 \in 0 .. 5 /\ 2 \in 0 .. 5 /\ 3 \in 0 .. 5 /\ 4 \in 0 .. 5
  BY MarkersAreCells
<1> DEFINE n == Len(m.tracks)
           tracks == TrackRecords(m, k)
           count == 1 + Len(m.lists)
           lists == ListRecords(m, k, timestamp)
           none == <<>>
<1>2. n \in Nat /\ tracks \in [1 .. n -> Seq(Nat)] /\ \A i \in 1 .. n : Part(tracks[i])
  BY TrackRecordsType, TrackRecordType
<1>3. count \in Nat /\ lists \in [1 .. count -> Seq(Nat)] /\ \A i \in 1 .. count : Part(lists[i])
  BY ListRecordsType, PlaylistRecordType
<1>4. 0 \in Nat /\ none \in [1 .. 0 -> Seq(Nat)] /\ \A i \in 1 .. 0 : Part(none[i])
  OBVIOUS
<1> HIDE DEF n, tracks, count, lists, none, mhlt, mhlp, mhla
<1>5. Part(Dataset(1, mhlt, tracks, k))
  BY <1>1, <1>2, DatasetPart
<1>6. Part(Dataset(2, mhlp, lists, k)) /\ Part(Dataset(3, mhlp, lists, k))
  <2>1. Part(Dataset(2, mhlp, lists, k))
    BY <1>1, <1>3, DatasetPart
  <2>2. Part(Dataset(3, mhlp, lists, k))
    BY <1>1, <1>3, DatasetPart
  <2> QED
    BY <2>1, <2>2
<1>7. Part(Dataset(4, mhla, none, k))
  BY <1>1, <1>4, DatasetPart
<1> QED
  BY <1>5, <1>6, <1>7 DEF Part, TracksPart, ListsPart, AlbumsPart, tracks, lists, none

\* One part of the body, standing between at and last.
LEMMA TracksPartKept ==
  ASSUME NEW w \in Seq(Cells), NEW k \in Kinds, NEW m, Accepted(m, k), NEW at,
         Placed(w, at, TracksPart(m, k)), NEW last, last = at + Len(TracksPart(m, k)),
         last <= Size(w, 0), Size(w, 0) <= Len(w)
  PROVE  SetRead(w, k, at, 1, TrackRecords(m, k), Len(m.tracks), last)
<1> DEFINE n == Len(m.tracks)
           s == TrackRecords(m, k)
<1>1. n \in Nat /\ s \in [1 .. n -> Seq(Nat)] /\ 1 \in 1 .. 5 /\ mhlt = ListMarker(1)
  BY TrackRecordsType DEF ListMarker
<1>2. TracksPart(m, k) = Dataset(1, mhlt, s, k)
  BY DEF TracksPart
<1> HIDE DEF n, s, mhlt
<1>3. Placed(w, at, Dataset(1, mhlt, s, k)) /\ last = at + Len(Dataset(1, mhlt, s, k))
  BY <1>2
<1>4. SetRead(w, k, at, 1, s, n, last)
  BY <1>1, <1>3, SetKept
<1> QED
  BY <1>4 DEF n, s

LEMMA ListsPartKept ==
  ASSUME NEW w \in Seq(Cells), NEW k \in Kinds, NEW m, Accepted(m, k), NEW timestamp \in Cells, NEW at,
         NEW type \in 2 .. 3, Placed(w, at, ListsPart(type, m, k, timestamp)), NEW last,
         last = at + Len(ListsPart(type, m, k, timestamp)),
         last <= Size(w, 0), Size(w, 0) <= Len(w)
  PROVE  SetRead(w, k, at, type, ListRecords(m, k, timestamp), 1 + Len(m.lists), last)
<1> DEFINE n == 1 + Len(m.lists)
           s == ListRecords(m, k, timestamp)
<1>1. n \in Nat /\ s \in [1 .. n -> Seq(Nat)] /\ type \in 1 .. 5 /\ mhlp = ListMarker(type)
  BY ListRecordsType DEF ListMarker
<1>2. ListsPart(type, m, k, timestamp) = Dataset(type, mhlp, s, k)
  BY DEF ListsPart
<1> HIDE DEF n, s, mhlp
<1>3. Placed(w, at, Dataset(type, mhlp, s, k)) /\ last = at + Len(Dataset(type, mhlp, s, k))
  BY <1>2
<1>4. SetRead(w, k, at, type, s, n, last)
  BY <1>1, <1>3, SetKept
<1> QED
  BY <1>4 DEF n, s

LEMMA AlbumsPartKept ==
  ASSUME NEW w \in Seq(Cells), NEW k \in Kinds, NEW at, Placed(w, at, AlbumsPart(k)),
         NEW last, last = at + Len(AlbumsPart(k)), last <= Size(w, 0), Size(w, 0) <= Len(w)
  PROVE  SetRead(w, k, at, 4, <<>>, 0, last)
<1> DEFINE s == <<>>
<1>1. 0 \in Nat /\ s \in [1 .. 0 -> Seq(Nat)] /\ 4 \in 1 .. 5 /\ mhla = ListMarker(4)
  BY DEF ListMarker
<1>2. AlbumsPart(k) = Dataset(4, mhla, s, k)
  BY DEF AlbumsPart
<1> HIDE DEF s, mhla
<1>3. Placed(w, at, Dataset(4, mhla, s, k)) /\ last = at + Len(Dataset(4, mhla, s, k))
  BY <1>2
<1>4. SetRead(w, k, at, 4, s, 0, last)
  BY <1>1, <1>3, SetKept
<1> QED
  BY <1>4 DEF s

\* A written file that is not signed is read back.
LEMMA UnsignedBack ==
  ASSUME NEW w \in Seq(Cells), NEW k \in Kinds, k # "hash58", NEW key, NEW m, Accepted(m, k),
         NEW timestamp \in Cells, RootStands(w, m, k, Written(m, k, timestamp)),
         Len(w) <= Layout[k].maxIn
  PROVE  ReadsBack(w, k, key, m)
<1> DEFINE a == TracksPart(m, k)
           b == ListsPart(2, m, k, timestamp)
           root == Layout[k].root
           mid == root + Len(a)
           end == Len(w)
           t == SetAt(k, root, 1, Len(m.tracks), mid)
           l == SetAt(k, mid, 2, 1 + Len(m.lists), end)
           sets == <<t, l>>
           p == <<mid, end>>
           q == [i \in 0 .. 2 |-> IF i = 0 THEN root ELSE p[i]]
<1>1. Written(m, k, timestamp) = a \o b
  BY DEF Written
<1>2. a \in Seq(Nat) /\ b \in Seq(Nat) /\ Len(a) \in Nat /\ Len(b) \in Nat /\ Len(a \o b) = Len(a) + Len(b)
  <2>1. a \in Seq(Nat) /\ b \in Seq(Nat)
    BY PartsType
  <2> HIDE DEF a, b
  <2> QED
    BY <2>1, LenProperties, ConcatProperties
<1>3. /\ Len(w) = root + Len(a \o b) /\ Size(w, 0) = root + Len(a \o b) /\ Header(w, 0) = root
      /\ Cell(w, 5) = 2 /\ Id(w, 6) = m.pid /\ Placed(w, root, a \o b) /\ RootStands(w, m, k, a \o b)
  BY <1>1 DEF RootStands
<1>4. root \in Nat
  BY LayoutType
<1>5. Placed(w, root, a) /\ Placed(w, mid, b)
  <2>1. w \in Seq(Nat)
    BY CellsAreNats
  <2> HIDE DEF a, b, root
  <2> QED
    BY <1>2, <1>3, <2>1, PlacedSplit
<1>6. SetRead(w, k, root, 1, TrackRecords(m, k), Len(m.tracks), mid)
  <2>1. mid <= Size(w, 0) /\ Size(w, 0) <= Len(w)
    <3> HIDE DEF a, b, root
    <3> QED
      BY <1>2, <1>3, <1>4
  <2> QED
    BY <1>5, <2>1, TracksPartKept
<1>7. SetRead(w, k, mid, 2, ListRecords(m, k, timestamp), 1 + Len(m.lists), end)
  <2>1. end = mid + Len(b) /\ end <= Size(w, 0) /\ Size(w, 0) <= Len(w)
    <3> HIDE DEF a, b, root
    <3> QED
      BY <1>2, <1>3, <1>4
  <2>2. 2 \in 2 .. 3
    OBVIOUS
  <2> HIDE DEF mid, end
  <2> QED
    BY <1>5, <2>1, <2>2, ListsPartKept
<1>8. /\ root + 7 <= mid /\ mid + 7 <= end /\ mid \in Nat /\ end \in Nat
      /\ t \in DatasetTypes /\ l \in DatasetTypes
  <2>1. Len(m.tracks) \in Nat /\ 1 + Len(m.lists) \in Nat
    BY TrackRecordsType, ListRecordsType
  <2> HIDE DEF a, root, end, mid
  <2> QED
    BY <1>6, <1>7, <2>1 DEF SetRead, FoundSet, SetAt, DatasetTypes
<1>9. /\ t.type = 1 /\ l.type = 2
      /\ \A s : DatasetStep(w, k, [at |-> root, error |-> "none", sets |-> s])
                  = [at |-> mid, error |-> "none", sets |-> Append(s, t)]
      /\ \A s : DatasetStep(w, k, [at |-> mid, error |-> "none", sets |-> s])
                  = [at |-> end, error |-> "none", sets |-> Append(s, l)]
  BY <1>6, <1>7 DEF SetRead, FoundSet, SetAt
<1>10. HasTracks(Tracks(w, t, k), t, m)
  <2>1. mid <= Len(w)
    BY <1>8
  <2> HIDE DEF mid, root
  <2> QED
    BY <1>6, <2>1, TracksBack
<1>11. HasLists(Playlists(w, l, k), l, m)
  <2>1. end <= Len(w)
    BY <1>8
  <2> HIDE DEF mid, end
  <2> QED
    BY <1>7, <2>1, ListsBack
<1> HIDE DEF t, l
<1>12. /\ sets \in Seq(DatasetTypes) /\ Len(sets) = 2 /\ sets[1] = t /\ sets[2] = l
       /\ DOMAIN sets = 1 .. 2
  BY <1>8
<1>13. q[0] = root /\ q[1] = mid /\ q[2] = end
  OBVIOUS
<1> HIDE DEF a, b, root, mid, end, sets, p, q
<1>14. SetsStand(w, k, q, sets, 2)
  <2>1. 2 \in Nat /\ 3 * 2 <= Len(w)
    BY <1>4, <1>8 DEF end
  <2>2. \A i \in 1 .. 2 : (i = 1 /\ i - 1 = 0) \/ (i = 2 /\ i - 1 = 1)
    OBVIOUS
  <2>3. \A i \in 1 .. 2 : \A s :
          DatasetStep(w, k, [at |-> q[i - 1], error |-> "none", sets |-> s])
            = [at |-> q[i], error |-> "none", sets |-> Append(s, sets[i])]
    BY <1>9, <1>12, <1>13, <2>2
  <2> QED
    BY <1>3, <1>12, <1>13, <2>1, <2>3 DEF SetsStand
<1>15. Datasets(w, k) = [at |-> Size(w, 0), error |-> "none", sets |-> sets]
  <2>1. Datasets(w, k) = [at |-> q[2], error |-> "none", sets |-> sets]
    BY <1>12, <1>14, SetsKept
  <2> QED
    BY <1>3, <1>13, <2>1 DEF end
<1>16. Chosen(sets, <<1>>) = <<t>>
  <2> DEFINE types == <<1>>
  <2>1. types \in Seq(Nat) /\ Len(types) >= 1 /\ types[1] = 1 /\ 1 \in 1 .. Len(sets)
    BY <1>12
  <2>2. \A i \in 1 .. Len(sets) : sets[i].type = types[1] <=> i = 1
    BY <1>9, <1>12
  <2> HIDE DEF types
  <2>3. Chosen(sets, types) = <<sets[1]>>
    BY <1>12, <2>1, <2>2, ChosenKept
  <2> QED
    BY <1>12, <2>3 DEF types
<1>17. Chosen(sets, <<2, 3>>) = <<l>>
  <2> DEFINE types == <<2, 3>>
  <2>1. types \in Seq(Nat) /\ Len(types) >= 1 /\ types[1] = 2 /\ 2 \in 1 .. Len(sets)
    BY <1>12
  <2>2. \A i \in 1 .. Len(sets) : sets[i].type = types[1] <=> i = 2
    BY <1>9, <1>12
  <2> HIDE DEF types
  <2>3. Chosen(sets, types) = <<sets[2]>>
    BY <1>12, <2>1, <2>2, ChosenKept
  <2> QED
    BY <1>12, <2>3 DEF types
<1>18. \A i \in DOMAIN sets : ~Preserved(sets[i])
  BY <1>9, <1>12 DEF Preserved
<1>19. AllFound(w, k, m, sets, t, l)
  BY <1>10, <1>11, <1>15, <1>16, <1>17, <1>18 DEF AllFound
<1>20. RootError(w, k) = "none" /\ Size(w, 0) = Len(w)
  <2>1. Len(a \o b) >= 14
    BY <1>2, <1>3, <1>4, <1>8 DEF end
  <2> QED
    BY <1>3, <2>1, RootAccepted
<1>21. m \in Model
  BY DEF Accepted, WritableModel
<1> QED
  BY <1>3, <1>19, <1>20, <1>21, FoundRead

\* Four parts in a row.
LEMMA FourPlaced ==
  ASSUME NEW w \in Seq(Nat), NEW at \in Nat, NEW a \in Seq(Nat), NEW b \in Seq(Nat),
         NEW c \in Seq(Nat), NEW d \in Seq(Nat), Placed(w, at, a \o b \o c \o d)
  PROVE  /\ Placed(w, at, a) /\ Placed(w, at + Len(a), b) /\ Placed(w, at + Len(a) + Len(b), c)
         /\ Placed(w, at + Len(a) + Len(b) + Len(c), d)
         /\ Len(a) \in Nat /\ Len(b) \in Nat /\ Len(c) \in Nat /\ Len(d) \in Nat
         /\ Len(a \o b \o c \o d) = Len(a) + Len(b) + Len(c) + Len(d)
<1> DEFINE ab == a \o b
           abc == ab \o c
<1>1. ab \in Seq(Nat) /\ Len(ab) = Len(a) + Len(b)
  BY ConcatProperties
<1> HIDE DEF ab
<1>2. abc \in Seq(Nat) /\ Len(abc) = Len(ab) + Len(c)
  BY <1>1, ConcatProperties
<1> HIDE DEF abc
<1>3. Len(abc \o d) = Len(abc) + Len(d)
  BY <1>2, ConcatProperties
<1>4. Placed(w, at, abc \o d)
  BY DEF abc, ab
<1>5. Placed(w, at, abc) /\ Placed(w, at + Len(abc), d)
  BY <1>2, <1>4, PlacedSplit
<1>6. Placed(w, at, ab) /\ Placed(w, at + Len(ab), c)
  BY <1>1, <1>5, PlacedSplit DEF abc
<1>7. Placed(w, at, a) /\ Placed(w, at + Len(a), b)
  BY <1>6, PlacedSplit DEF ab
<1>8. Len(a) \in Nat /\ Len(b) \in Nat /\ Len(c) \in Nat /\ Len(d) \in Nat
  BY LenProperties
<1>9. at + Len(ab) = at + Len(a) + Len(b) /\ at + Len(abc) = at + Len(a) + Len(b) + Len(c)
  BY <1>1, <1>2, <1>8
<1>10. Len(abc \o d) = Len(a) + Len(b) + Len(c) + Len(d)
  BY <1>1, <1>2, <1>3
<1> QED
  BY <1>5, <1>6, <1>7, <1>8, <1>9, <1>10 DEF abc, ab

\* A signed file is read back.
LEMMA SignedBack ==
  ASSUME NEW w \in Seq(Cells), NEW k \in Kinds, k = "hash58", NEW key, NEW m, Accepted(m, k),
         NEW timestamp \in Cells, RootStands(w, m, k, Written(m, k, timestamp)),
         Len(w) <= Layout[k].maxIn
  PROVE  ReadsBack(w, k, key, m)
<1> DEFINE a == AlbumsPart(k)
           b == TracksPart(m, k)
           c == ListsPart(3, m, k, timestamp)
           d == ListsPart(2, m, k, timestamp)
           body == a \o b \o c \o d
           root == Layout[k].root
           p1 == root + Len(a)
           p2 == root + Len(a) + Len(b)
           p3 == root + Len(a) + Len(b) + Len(c)
           end == Len(w)
           s == SetAt(k, root, 4, 0, p1)
           t == SetAt(k, p1, 1, Len(m.tracks), p2)
           u == SetAt(k, p2, 3, 1 + Len(m.lists), p3)
           l == SetAt(k, p3, 2, 1 + Len(m.lists), end)
           sets == <<s, t, u, l>>
           p == <<p1, p2, p3, end>>
           q == [i \in 0 .. 4 |-> IF i = 0 THEN root ELSE p[i]]
<1>1. Written(m, k, timestamp) = body
  BY DEF Written
<1>2. a \in Seq(Nat) /\ b \in Seq(Nat) /\ c \in Seq(Nat) /\ d \in Seq(Nat)
  BY PartsType
<1>3. /\ Len(w) = root + Len(body) /\ Size(w, 0) = root + Len(body) /\ Header(w, 0) = root
      /\ Cell(w, 5) = 4 /\ Id(w, 6) = m.pid /\ Placed(w, root, body) /\ RootStands(w, m, k, body)
  BY <1>1 DEF RootStands
<1>4. root \in Nat
  BY LayoutType
<1> HIDE DEF a, b, c, d, root
<1>5. /\ Placed(w, root, a) /\ Placed(w, p1, b) /\ Placed(w, p2, c) /\ Placed(w, p3, d)
      /\ Len(a) \in Nat /\ Len(b) \in Nat /\ Len(c) \in Nat /\ Len(d) \in Nat
      /\ Len(body) = Len(a) + Len(b) + Len(c) + Len(d)
  <2>1. w \in Seq(Nat)
    BY CellsAreNats
  <2> QED
    BY SMTT(30), <1>2, <1>3, <1>4, <2>1, FourPlaced
<1>6. /\ p1 \in Nat /\ p2 \in Nat /\ p3 \in Nat /\ end \in Nat
      /\ p2 = p1 + Len(b) /\ p3 = p2 + Len(c) /\ end = p3 + Len(d)
      /\ p1 <= Size(w, 0) /\ p2 <= Size(w, 0) /\ p3 <= Size(w, 0) /\ end <= Size(w, 0)
      /\ Size(w, 0) <= Len(w) /\ p2 <= Len(w) /\ end <= Len(w)
  <2> HIDE DEF body
  <2> QED
    BY <1>3, <1>4, <1>5
<1>7. SetRead(w, k, root, 4, <<>>, 0, p1)
  <2>1. Placed(w, root, AlbumsPart(k)) /\ p1 = root + Len(AlbumsPart(k))
    BY <1>5 DEF a
  <2> HIDE DEF p1
  <2> QED
    BY <1>6, <2>1, AlbumsPartKept
<1>8. SetRead(w, k, p1, 1, TrackRecords(m, k), Len(m.tracks), p2)
  <2>1. Placed(w, p1, TracksPart(m, k)) /\ p2 = p1 + Len(TracksPart(m, k))
    BY <1>5, <1>6 DEF b
  <2> HIDE DEF p1, p2
  <2> QED
    BY <1>6, <2>1, TracksPartKept
<1>9. SetRead(w, k, p2, 3, ListRecords(m, k, timestamp), 1 + Len(m.lists), p3)
  <2>1. /\ Placed(w, p2, ListsPart(3, m, k, timestamp))
        /\ p3 = p2 + Len(ListsPart(3, m, k, timestamp)) /\ 3 \in 2 .. 3
    BY <1>5, <1>6 DEF c
  <2> HIDE DEF p2, p3
  <2> QED
    BY <1>6, <2>1, ListsPartKept
<1>10. SetRead(w, k, p3, 2, ListRecords(m, k, timestamp), 1 + Len(m.lists), end)
  <2>1. /\ Placed(w, p3, ListsPart(2, m, k, timestamp))
        /\ end = p3 + Len(ListsPart(2, m, k, timestamp)) /\ 2 \in 2 .. 3
    BY <1>5, <1>6 DEF d
  <2> HIDE DEF p3, end
  <2> QED
    BY <1>6, <2>1, ListsPartKept
<1> HIDE DEF body, p1, p2, p3, end
<1>11. /\ root + 7 <= p1 /\ p1 + 7 <= p2 /\ p2 + 7 <= p3 /\ p3 + 7 <= end
       /\ s \in DatasetTypes /\ t \in DatasetTypes /\ u \in DatasetTypes /\ l \in DatasetTypes
  <2>1. Len(m.tracks) \in Nat /\ 1 + Len(m.lists) \in Nat
    BY TrackRecordsType, ListRecordsType
  <2> QED
    BY <1>7, <1>8, <1>9, <1>10, <2>1 DEF SetRead, FoundSet, SetAt, DatasetTypes
<1>12. /\ s.type = 4 /\ s.count = 0 /\ t.type = 1 /\ u.type = 3 /\ l.type = 2
       /\ \A x : DatasetStep(w, k, [at |-> root, error |-> "none", sets |-> x])
                   = [at |-> p1, error |-> "none", sets |-> Append(x, s)]
       /\ \A x : DatasetStep(w, k, [at |-> p1, error |-> "none", sets |-> x])
                   = [at |-> p2, error |-> "none", sets |-> Append(x, t)]
       /\ \A x : DatasetStep(w, k, [at |-> p2, error |-> "none", sets |-> x])
                   = [at |-> p3, error |-> "none", sets |-> Append(x, u)]
       /\ \A x : DatasetStep(w, k, [at |-> p3, error |-> "none", sets |-> x])
                   = [at |-> end, error |-> "none", sets |-> Append(x, l)]
  BY <1>7, <1>8, <1>9, <1>10 DEF SetRead, FoundSet, SetAt
<1>13. HasTracks(Tracks(w, t, k), t, m)
  BY <1>6, <1>8, TracksBack
<1>14. HasLists(Playlists(w, l, k), l, m)
  BY <1>6, <1>10, ListsBack
<1> HIDE DEF s, t, u, l
<1>15. /\ sets \in Seq(DatasetTypes) /\ Len(sets) = 4 /\ DOMAIN sets = 1 .. 4
       /\ sets[1] = s /\ sets[2] = t /\ sets[3] = u /\ sets[4] = l
  BY <1>11
<1>16. q[0] = root /\ q[1] = p1 /\ q[2] = p2 /\ q[3] = p3 /\ q[4] = end
  OBVIOUS
<1> HIDE DEF sets, p, q
<1>17. SetsStand(w, k, q, sets, 4)
  <2>1. 4 \in Nat /\ 3 * 4 <= Len(w)
    BY <1>4, <1>6, <1>11
  <2>3. \A i \in 1 .. 4 : \A x :
          DatasetStep(w, k, [at |-> q[i - 1], error |-> "none", sets |-> x])
            = [at |-> q[i], error |-> "none", sets |-> Append(x, sets[i])]
    <3> SUFFICES ASSUME NEW i \in 1 .. 4, NEW x
                 PROVE  DatasetStep(w, k, [at |-> q[i - 1], error |-> "none", sets |-> x])
                          = [at |-> q[i], error |-> "none", sets |-> Append(x, sets[i])]
      OBVIOUS
    <3>1. CASE i = 1
      <4>1. q[i - 1] = root /\ q[i] = p1 /\ sets[i] = s
        BY <1>15, <1>16, <3>1
      <4> QED
        BY <1>12, <4>1
    <3>2. CASE i = 2
      BY <1>12, <1>15, <1>16, <3>2
    <3>3. CASE i = 3
      BY <1>12, <1>15, <1>16, <3>3
    <3>4. CASE i = 4
      BY <1>12, <1>15, <1>16, <3>4
    <3> QED
      BY <3>1, <3>2, <3>3, <3>4
  <2> QED
    BY <1>3, <1>15, <1>16, <2>1, <2>3 DEF SetsStand
<1>18. Datasets(w, k) = [at |-> Size(w, 0), error |-> "none", sets |-> sets]
  <2>1. Datasets(w, k) = [at |-> q[4], error |-> "none", sets |-> sets]
    BY <1>15, <1>17, SetsKept
  <2> QED
    BY <1>3, <1>16, <2>1 DEF end
<1>19. Chosen(sets, <<1>>) = <<t>>
  <2> DEFINE types == <<1>>
  <2>1. types \in Seq(Nat) /\ Len(types) >= 1 /\ types[1] = 1 /\ 2 \in 1 .. Len(sets)
    BY <1>15
  <2>2. \A i \in 1 .. Len(sets) : sets[i].type = types[1] <=> i = 2
    BY <1>12, <1>15
  <2> HIDE DEF types
  <2>3. Chosen(sets, types) = <<sets[2]>>
    BY <1>15, <2>1, <2>2, ChosenKept
  <2> QED
    BY <1>15, <2>3 DEF types
<1>20. Chosen(sets, <<2, 3>>) = <<l>>
  <2> DEFINE types == <<2, 3>>
  <2>1. types \in Seq(Nat) /\ Len(types) >= 1 /\ types[1] = 2 /\ 4 \in 1 .. Len(sets)
    BY <1>15
  <2>2. \A i \in 1 .. Len(sets) : sets[i].type = types[1] <=> i = 4
    BY <1>12, <1>15
  <2> HIDE DEF types
  <2>3. Chosen(sets, types) = <<sets[4]>>
    BY <1>15, <2>1, <2>2, ChosenKept
  <2> QED
    BY <1>15, <2>3 DEF types
<1>21. \A i \in DOMAIN sets : ~Preserved(sets[i])
  BY <1>12, <1>15 DEF Preserved
<1>22. IsPrefix(<<4, 1, 3, 2>>, [i \in DOMAIN sets |-> sets[i].type])
  <2>1. [i \in DOMAIN sets |-> sets[i].type] = <<4, 1, 3, 2>>
    BY <1>12, <1>15
  <2> QED
    BY <2>1 DEF IsPrefix
<1>23. AllFound(w, k, m, sets, t, l)
  BY <1>13, <1>14, <1>18, <1>19, <1>20, <1>21, <1>22 DEF AllFound
<1>24. RootError(w, k) = "none" /\ Size(w, 0) = Len(w)
  <2>1. Len(body) >= 14 /\ Len(body) >= 28
    <3>1. Len(body) \in Nat
      BY <1>5
    <3> QED
      BY SMTT(30), <1>3, <1>4, <1>6, <1>11, <3>1 DEF end
  <2> QED
    BY <1>3, <2>1, RootAccepted
<1>25. m \in Model
  BY DEF Accepted, WritableModel
<1> QED
  BY <1>3, <1>23, <1>24, <1>25, FoundRead

-----------------------------------------------------------------------------
(* What is serialized and signed.                                          *)

\* What the writer makes of a library stands as the reader expects it.
LEMMA SerializeStands ==
  ASSUME NEW m, NEW k \in Kinds, Accepted(m, k), NEW timestamp \in Cells, NEW out,
         out = Serialize(m, k, timestamp), Len(out) < Width
  PROVE  /\ out \in Seq(Cells) /\ RootStands(out, m, k, Written(m, k, timestamp))
         /\ Written(m, k, timestamp) \in Seq(Nat)
<1> DEFINE body == Written(m, k, timestamp)
<1>1. WritableModel(m) /\ m.pid \in Wide
  BY DEF Accepted, WritableModel, Model
<1>2. out \in Seq(Cells)
  <2>1. Sized(Serialize(m, k, timestamp))
    BY <1>1, SerializeSized
  <2> QED
    BY <2>1 DEF Sized
<1>3. body \in Seq(Nat)
  <2> DEFINE a == TracksPart(m, k)
             b == AlbumsPart(k)
             c == ListsPart(2, m, k, timestamp)
             d == ListsPart(3, m, k, timestamp)
  <2>1. a \in Seq(Nat) /\ b \in Seq(Nat) /\ c \in Seq(Nat) /\ d \in Seq(Nat)
    BY PartsType
  <2>2. body = IF k = "hash58" THEN b \o a \o d \o c ELSE a \o c
    BY DEF Written
  <2> HIDE DEF a, b, c, d, body
  <2>3. a \o c \in Seq(Nat) /\ b \o a \in Seq(Nat)
    BY <2>1, ConcatProperties
  <2>4. b \o a \o d \in Seq(Nat)
    BY <2>1, <2>3, ConcatProperties
  <2>5. b \o a \o d \o c \in Seq(Nat)
    BY <2>1, <2>4, ConcatProperties
  <2> QED
    BY <2>2, <2>3, <2>5
<1>4. out = WholeFile(m, k, body)
  BY SerializeIs
<1> HIDE DEF body
<1>5. RootStands(out, m, k, body)
  BY <1>1, <1>2, <1>3, <1>4, RootKept
<1> QED
  BY <1>2, <1>3, <1>5 DEF body

\* The signature changes one cell, which is neither a field of the root nor part
\* of what follows it.
LEMMA SignedStands ==
  ASSUME NEW w \in Seq(Cells), NEW m, NEW k \in Kinds, k = "hash58", NEW body \in Seq(Nat),
         NEW key \in Nat, RootStands(w, m, k, body)
  PROVE  /\ Signed(key, w) \in Seq(Cells) /\ Len(Signed(key, w)) = Len(w)
         /\ RootStands(Signed(key, w), m, k, body)
         /\ VerifyError(key, Signed(key, w)) = "none"
<1> DEFINE s == Signed(key, w)
           h == Hash58(key, w)
           n == Len(w)
           header == Layout[k].root
<1>1. /\ n \in Nat /\ header \in Nat /\ header >= 27 /\ Len(body) \in Nat
      /\ n = header + Len(body) /\ n >= 27 /\ DOMAIN w = 1 .. n
  BY LenProperties, LayoutType DEF RootStands
<1>2. h \in Cells /\ h # 0
  <2>1. Len(w) >= 1
    BY <1>1
  <2> HIDE DEF h, n, header
  <2> QED
    BY <2>1, HashType DEF h
<1>3. s = [w EXCEPT ![23] = h]
  BY DEF Signed
<1>4. w \in [1 .. n -> Cells]
  BY <1>1, ElementOfSeq
<1> HIDE DEF h, s, n, header
<1>5. s \in [1 .. n -> Cells] /\ s[23] = h /\ \A i \in 1 .. n : i # 23 => s[i] = w[i]
  BY <1>1, <1>2, <1>3, <1>4
<1>6. s \in Seq(Cells) /\ Len(s) = n
  BY <1>1, <1>5, FieldsAreCells
<1>7. \A at \in Nat : at # 22 => Cell(s, at) = Cell(w, at)
  <2> SUFFICES ASSUME NEW at \in Nat, at # 22 PROVE Cell(s, at) = Cell(w, at)
    OBVIOUS
  <2>1. CASE at < n
    <3>1. at + 1 \in 1 .. n /\ at + 1 # 23
      BY <1>1, <2>1
    <3> QED
      BY <1>5, <1>6, <3>1 DEF Cell, n
  <2>2. CASE ~(at < n)
    BY <1>6, <2>2 DEF Cell, n
  <2> QED
    BY <2>1, <2>2
<1>8. Cell(s, 22) = h
  <2>1. 22 < n /\ 22 + 1 = 23
    BY <1>1
  <2> QED
    BY <1>5, <1>6, <2>1 DEF Cell
<1>9. RootStands(s, m, k, body)
  <2>1. /\ Cell(s, 0) = Cell(w, 0) /\ Header(s, 0) = Header(w, 0) /\ Size(s, 0) = Size(w, 0)
        /\ Cell(s, 3) = Cell(w, 3) /\ Cell(s, 4) = Cell(w, 4) /\ Cell(s, 5) = Cell(w, 5)
        /\ Id(s, 6) = Id(w, 6) /\ Cell(s, 12) = Cell(w, 12)
    BY <1>7 DEF Header, Size, Id
  <2>2. Placed(s, header, body)
    <3>1. \A i \in 1 .. Len(body) : w[header + i] = body[i]
      BY DEF RootStands, Placed, header
    <3>2. ASSUME NEW i \in 1 .. Len(body) PROVE s[header + i] = body[i]
      <4>1. header + i \in 1 .. n /\ header + i # 23
        BY <1>1
      <4> QED
        BY <1>5, <3>1, <4>1
    <3> QED
      BY <1>1, <1>6, <3>2 DEF Placed
  <2>3. Len(s) = Len(w)
    BY <1>6 DEF n
  <2> QED
    BY <2>1, <2>2, <2>3 DEF RootStands, header
<1>10. Hash58(key, s) = h
  <2>1. Canonical(s) = Canonical(w)
    <3>1. DOMAIN s = DOMAIN w
      BY <1>1, <1>5
    <3>2. ASSUME NEW i \in DOMAIN w
          PROVE  (IF i - 1 \in {6, 7} \cup 13 .. 17 \cup 22 .. 26 THEN 0 ELSE IF i = 13 THEN 1 ELSE s[i])
                   = (IF i - 1 \in {6, 7} \cup 13 .. 17 \cup 22 .. 26 THEN 0 ELSE IF i = 13 THEN 1 ELSE w[i])
      <4>1. CASE i = 23
        BY <4>1
      <4>2. CASE i # 23
        BY <1>1, <1>5, <4>2
      <4> QED
        BY <4>1, <4>2
    <3> DEFINE blank(r, i) == IF i - 1 \in {6, 7} \cup 13 .. 17 \cup 22 .. 26
                              THEN 0 ELSE IF i = 13 THEN 1 ELSE r[i]
    <3>3. \A i \in DOMAIN w : blank(s, i) = blank(w, i)
      BY <3>2
    <3>4. Canonical(s) = [i \in DOMAIN s |-> blank(s, i)] /\ Canonical(w) = [i \in DOMAIN w |-> blank(w, i)]
      BY DEF Canonical
    <3> HIDE DEF blank
    <3>5. DOMAIN Canonical(s) = DOMAIN w /\ \A i \in DOMAIN w : Canonical(s)[i] = blank(s, i)
      BY <3>1, <3>4
    <3>6. DOMAIN Canonical(w) = DOMAIN w /\ \A i \in DOMAIN w : Canonical(w)[i] = blank(w, i)
      BY <3>4
    <3>7. Canonical(s) = [i \in DOMAIN w |-> Canonical(s)[i]]
      BY <3>1, <3>4, <3>5
    <3>8. Canonical(w) = [i \in DOMAIN w |-> Canonical(w)[i]]
      BY <3>4, <3>6
    <3> QED
      BY <3>3, <3>5, <3>6, <3>7, <3>8
  <2>2. Len(s) = Len(w)
    BY <1>6 DEF n
  <2> DEFINE H(c, length) == 1 + Iterate(LAMBDA sum, i : (sum + i * c[i]) % (Width - 1), key, length)
  <2>3. Hash58(key, s) = H(Canonical(s), Len(s)) /\ h = H(Canonical(w), Len(w))
    BY DEF Hash58, h
  <2> HIDE DEF H
  <2> QED
    BY <2>1, <2>2, <2>3
<1>11. VerifyError(key, s) = "none"
  <2>1. HashEnvelopeError(s) = "none"
    BY <1>1, <1>6, <1>9 DEF HashEnvelopeError, RootStands, header
  <2>2. Cell(s, 12) = 1
    BY <1>9 DEF RootStands
  <2> QED
    BY <1>2, <1>8, <1>10, <2>1, <2>2 DEF VerifyError, Or
<1> QED
  BY <1>6, <1>9, <1>11 DEF s, n

==============================================================================
