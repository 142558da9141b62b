------------------------- MODULE TableSections_proofs -------------------------
(***************************************************************************)
(* For any number of columns and any number of rows up to half the range   *)
(* of a uint32_t: the announced sizes are the true ones modulo 2^Width,    *)
(* and so is the sum the closing ASSERT compares.                          *)
(***************************************************************************)
EXTENDS TableSections, WellFoundedInduction, TLAPS

-------------------------------------------------------------------------------
(***************************************************************************)
(* Arithmetic modulo a variable modulus.                                   *)
(***************************************************************************)
LEMMA Division ==
  ASSUME NEW x \in Nat, NEW m \in Nat \ {0}
  PROVE  /\ x = m * (x \div m) + (x % m)
         /\ x % m \in 0 .. m - 1 /\ x \div m \in Nat
  OBVIOUS

LEMMA RemainderUnique ==
  ASSUME NEW m \in Nat \ {0}, NEW c \in Nat, NEW d \in Nat,
         NEW r \in 0 .. m - 1, NEW t \in 0 .. m - 1, m * c + r = m * d + t
  PROVE  r = t
<1>1. ASSUME NEW a \in Nat, NEW b \in Nat, a < b,
             NEW u \in 0 .. m - 1, NEW v \in 0 .. m - 1
      PROVE  m * a + u # m * b + v
  <2>1. PICK e \in Nat : b = a + 1 + e
    BY <1>1
  <2>2. m * b = m * a + m + m * e
    BY <2>1
  <2>3. m * e \in Nat /\ m * a \in Nat
    OBVIOUS
  <2>4. QED  BY <2>2, <2>3
<1>2. c = d
  BY <1>1
<1>3. QED  BY <1>2

\* Reducing an addend first does not change a sum modulo m.
LEMMA SumMod ==
  ASSUME NEW x \in Nat, NEW p \in Nat, NEW m \in Nat \ {0}
  PROVE  ((x % m) + p) % m = (x + p) % m
<1> DEFINE y == (x % m) + p
           z == x + p
           c == (x \div m) + (y \div m)
<1>1. x = m * (x \div m) + (x % m) /\ x % m \in 0 .. m - 1 /\ x \div m \in Nat
  BY Division
<1>2. y \in Nat /\ z \in Nat
  BY <1>1
<1>3. y = m * (y \div m) + (y % m) /\ y % m \in 0 .. m - 1 /\ y \div m \in Nat
  BY <1>2, Division
<1>4. z = m * (z \div m) + (z % m) /\ z % m \in 0 .. m - 1 /\ z \div m \in Nat
  BY <1>2, Division
<1>5. c \in Nat /\ z = m * c + (y % m)
  <2>1. m * c = m * (x \div m) + m * (y \div m)
    BY <1>1, <1>3
  <2>2. QED  BY <2>1, <1>1, <1>3
<1> DEFINE d == z \div m
           r == y % m
           t == z % m
<1>6. d \in Nat /\ r \in 0 .. m - 1 /\ t \in 0 .. m - 1 /\ m * c + r = m * d + t
  BY <1>3, <1>4, <1>5
<1> HIDE DEF c, d, r, t
<1>7. r = t
  BY <1>5, <1>6, RemainderUnique
<1>8. QED  BY <1>7 DEF r, t, y, z

\* Four counters that wrapped, added up with wrapping.
LEMMA FourSumMod ==
  ASSUME NEW m \in Nat \ {0}
  PROVE  \A a, b, c, d \in Nat :
             ((a % m) + (b % m) + (c % m) + (d % m)) % m = (a + b + c + d) % m
<1> TAKE a, b, c, d \in Nat
<1> DEFINE aa == a % m
           bb == b % m
           cc == c % m
           dd == d % m
<1>1. aa \in Nat /\ bb \in Nat /\ cc \in Nat /\ dd \in Nat
  BY Division
<1>2. \A x, p \in Nat : ((x % m) + p) % m = (x + p) % m
  BY SumMod
<1>3. \A p \in Nat : /\ (aa + p) % m = (a + p) % m
                     /\ (bb + p) % m = (b + p) % m
                     /\ (cc + p) % m = (c + p) % m
                     /\ (dd + p) % m = (d + p) % m
  BY <1>2
<1> HIDE DEF aa, bb, cc, dd
<1> DEFINE p == bb + cc + dd
           q == a + cc + dd
           r == a + b + dd
           t == a + b + c
<1>4. p \in Nat /\ q \in Nat /\ r \in Nat /\ t \in Nat
  BY <1>1
<1>5. /\ aa + bb + cc + dd = aa + p
      /\ a + p = bb + q
      /\ b + q = cc + r
      /\ c + r = dd + t
      /\ d + t = a + b + c + d
  BY <1>1
<1> HIDE DEF p, q, r, t
<1>6. /\ (aa + p) % m = (a + p) % m
      /\ (bb + q) % m = (b + q) % m
      /\ (cc + r) % m = (c + r) % m
      /\ (dd + t) % m = (d + t) % m
  BY <1>3, <1>4
<1>7. (aa + bb + cc + dd) % m = (a + b + c + d) % m
  BY <1>5, <1>6
<1>8. QED  BY <1>7 DEF aa, bb, cc, dd
-------------------------------------------------------------------------------
(***************************************************************************)
(* Rows.                                                                   *)
(***************************************************************************)
LEMMA Modular == /\ Modulus \in Nat \ {0}
                 /\ 2 ^ (Width - 1) \in Nat \ {0}
                 /\ Modulus = 2 * 2 ^ (Width - 1)
<1>1. 2 ^ (Width - 1) \in Nat \ {0} /\ 2 ^ Width = 2 * 2 ^ (Width - 1)
  BY WidthAssumption DEF Powers
<1>2. QED  BY <1>1 DEF Modulus

LEMMA LeastExists ==
  ASSUME NEW T \in SUBSET Nat, T # {}
  PROVE  \E x \in T : \A y \in T : x <= y
<1>1. PICK x \in T : \A y \in T : ~ (<<y, x>> \in OpToRel(<, Nat))
  BY NatLessThanWellFounded, WFMin
<1>2. ASSUME NEW y \in T, y < x
      PROVE  FALSE
  <2>1. <<y, x>> \in Nat \X Nat /\ <<y, x>>[1] < <<y, x>>[2]
    BY <1>2
  <2>2. <<y, x>> \in OpToRel(<, Nat)
    BY <2>1 DEF OpToRel
  <2>3. QED  BY <1>1, <2>2
<1>3. QED  BY <1>2

LEMMA GreatestExists ==
  ASSUME NEW bound \in Nat, NEW S \in SUBSET (0 .. bound), S # {}
  PROVE  \E x \in S : \A y \in S : y <= x
<1> DEFINE T == {bound - x : x \in S}
<1>1. T \in SUBSET Nat /\ T # {}
  <2>1. \A x \in S : bound - x \in Nat
    OBVIOUS
  <2>2. QED  BY <2>1
<1>2. PICK t \in T : \A y \in T : t <= y
  BY <1>1, LeastExists
<1>3. PICK x \in S : t = bound - x
  BY <1>2
<1>4. \A y \in S : bound - y \in T
  OBVIOUS
<1>5. \A y \in S : y <= x
  BY <1>2, <1>3, <1>4
<1>6. QED  BY <1>5

LEMMA CeilPowerBounds ==
  ASSUME NEW n \in Nat \ {0}, n <= 2 ^ (Width - 1)
  PROVE  CeilPower(n) \in Nat /\ n <= CeilPower(n) /\ CeilPower(n) <= 2 ^ (Width - 1)
<1> DEFINE T == {p \in Powers : p >= n}
<1>1. 2 ^ (Width - 1) \in Powers
  BY WidthAssumption DEF Powers
<1>2. T \in SUBSET Nat /\ 2 ^ (Width - 1) \in T
  BY <1>1, WidthAssumption
<1>3. \E p \in T : \A q \in T : p <= q
  BY <1>2, LeastExists
<1>4. \E p \in Powers : p >= n /\ \A q \in Powers : q >= n => p <= q
  BY <1>3
<1>5. /\ CeilPower(n) \in Powers /\ CeilPower(n) >= n
      /\ \A q \in Powers : q >= n => CeilPower(n) <= q
  BY <1>4 DEF CeilPower
<1>6. QED  BY <1>1, <1>2, <1>5, WidthAssumption

\* Up to half the range the padded rows are a number; below it they exceed the rows.
LEMMA PaddedExceeds ==
  ASSUME NEW n \in Nat, n <= 2 ^ (Width - 1)
  PROVE  PaddedRows(n) \in Nat /\ (n < 2 ^ (Width - 1) => n < PaddedRows(n))
<1> DEFINE power == CeilPower(n)
           half == 2 ^ (Width - 1)
<1>1. half \in Nat \ {0} /\ 2 ^ Width = 2 * half /\ MinRows \in Nat \ {0}
  BY Modular, MinRowsAssumption DEF Modulus
<1>2. CASE n = 0
  <2>1. power = 0
    BY <1>2 DEF CeilPower
  <2>2. (2 * power) % (2 ^ Width) = 0
    BY <1>1, <2>1
  <2>3. QED  BY <1>1, <1>2, <2>1, <2>2 DEF PaddedRows, Largest
<1>3. CASE n # 0
  <2>1. power \in Nat /\ n <= power /\ power <= half
    BY <1>3, CeilPowerBounds, Modular
  <2>2. CASE power # n
    BY <1>1, <2>1, <2>2 DEF PaddedRows, Largest
  <2>3. CASE power = n /\ n < half
    <3>1. (2 * power) % (2 * half) = 2 * power
      BY <1>1, <2>1, <2>3
    <3>2. QED  BY <1>1, <1>3, <2>1, <2>3, <3>1 DEF PaddedRows, Largest
  <2>4. CASE power = n /\ n = half
    <3>1. (2 * power) % (2 * half) = 0
      BY <1>1, <2>1, <2>4
    <3>2. QED  BY <1>1, <2>1, <2>4, <3>1 DEF PaddedRows, Largest
  <2>5. QED  BY <2>1, <2>2, <2>3, <2>4, <1>1
<1>4. QED  BY <1>2, <1>3
-------------------------------------------------------------------------------
(***************************************************************************)
(* The inductive invariant.                                                *)
(***************************************************************************)
Half_of_range == 2 ^ (Width - 1)

TableInv == /\ multi \in BOOLEAN
            /\ count \in [Sections -> [Halves -> Nat]]
            /\ longest \in [Sections -> [Halves -> 0 .. Half_of_range]]
            /\ longest["witness"]["trailing"] = 0
            /\ listed \in [Lookups -> 0 .. Half_of_range]
            /\ used_rows \in 0 .. Half_of_range

Size(s) == Columns(s) * Padded

\* A section that is complete, open with c columns written, or not reached.
Complete(s) == /\ announced[s] = Size(s) % Modulus
               /\ written[s] = Size(s)
               /\ multi => idx[s] = Size(s) % Modulus

Open(s, c) == /\ announced[s] = Size(s) % Modulus
              /\ written[s] = c * Padded
              /\ multi => idx[s] = (c * Padded) % Modulus

Unreached(s) == written[s] = 0 /\ idx[s] = 0

SectionInv ==
    at # "abort" =>
        \A n \in 1 .. 4 :
            /\ n < section => Complete(Order[n])
            /\ n = section /\ at = "columns" => Open(Order[n], column)
            /\ n > section \/ (n = section /\ at = "size") => Unreached(Order[n])

PlaceInv == /\ at \in {"size", "columns"} => section \in 1 .. 4 /\ column <= Columns(Order[section])
            /\ at \in {"closing", "printed"} => section = 5
            /\ at = "abort" => section \in 1 .. 4 /\ Usable >= Padded

IInv == TypeOK /\ TableInv /\ SectionInv /\ PlaceInv

LEMMA OrderSections ==
  /\ \A n \in 1 .. 4 : Order[n] \in Sections
  /\ \A n, m \in 1 .. 4 : Order[n] = Order[m] => n = m
  BY DEF Order, Sections

\* usable_rows_amount is the largest of what it is compared with.
LEMMA UsableBounds ==
  ASSUME TableInv
  PROVE  /\ Usable \in 0 .. Half_of_range
         /\ multi => /\ used_rows <= Usable
                     /\ \A h \in Halves : longest["public"][h] <= Usable
                     /\ \A s \in Lookups : listed[s] <= Usable
         /\ ~multi => \A s \in Sections, h \in Halves : longest[s][h] <= Usable
<1> DEFINE rows == IF multi THEN MultiRows ELSE SingleRows
<1>1. Half_of_range \in Nat
  BY Modular DEF Half_of_range
<1>2. \A s \in Sections, h \in Halves : longest[s][h] \in 0 .. Half_of_range
  BY DEF TableInv
<1>3. MultiRows \subseteq 0 .. Half_of_range
  <2>1. "public" \in Sections /\ "leading" \in Halves /\ "trailing" \in Halves
    BY DEF Sections, Halves
  <2>2. listed["constant"] \in 0 .. Half_of_range /\ listed["selector"] \in 0 .. Half_of_range
    BY DEF TableInv, Lookups
  <2>3. QED  BY <1>2, <2>1, <2>2 DEF MultiRows, TableInv
<1>4. SingleRows \subseteq 0 .. Half_of_range
  BY <1>2 DEF SingleRows
<1>5. rows \in SUBSET (0 .. Half_of_range)
  BY <1>3, <1>4
<1>6. multi => /\ used_rows \in rows
               /\ \A h \in Halves : longest["public"][h] \in rows
               /\ \A s \in Lookups : listed[s] \in rows
  BY DEF MultiRows, Halves, Lookups
<1>7. ~multi => \A s \in Sections, h \in Halves : longest[s][h] \in rows
  BY DEF SingleRows
<1>8. rows # {}
  BY <1>6, <1>7 DEF Sections, Halves
<1>9. Usable = CHOOSE n \in rows : \A m \in rows : m <= n
  BY DEF Usable
<1> HIDE DEF rows
<1>10. \E n \in rows : \A m \in rows : m <= n
  BY <1>1, <1>5, <1>8, GreatestExists
<1>11. Usable \in rows /\ \A m \in rows : m <= Usable
  BY <1>9, <1>10
<1>12. QED  BY <1>5, <1>6, <1>7, <1>11

LEMMA PaddedNat ==
  ASSUME TableInv
  PROVE  /\ Padded \in Nat
         /\ Usable < Half_of_range => Usable < Padded
         /\ \A s \in Sections : Columns(s) \in Nat /\ Size(s) \in Nat
<1>1. Usable \in Nat /\ Usable <= 2 ^ (Width - 1)
  BY UsableBounds, Modular DEF Half_of_range
<1>2. Padded \in Nat /\ (Usable < 2 ^ (Width - 1) => Usable < Padded)
  BY <1>1, PaddedExceeds DEF Padded
<1>3. \A s \in Sections : Columns(s) \in Nat
  BY DEF TableInv, Columns, Halves
<1>4. \A s \in Sections : Size(s) \in Nat
  BY <1>2, <1>3 DEF Size
<1>5. QED  BY <1>2, <1>3, <1>4 DEF Half_of_range

\* The table does not change while it is printed.
LEMMA TableFixed ==
  ASSUME UNCHANGED table
  PROVE  /\ Padded' = Padded /\ Usable' = Usable
         /\ \A s : Columns(s)' = Columns(s) /\ Size(s)' = Size(s)
         /\ TableInv => TableInv'
<1>1. Usable' = Usable
  BY DEF table, Usable, MultiRows, SingleRows
<1>2. Padded' = Padded
  BY <1>1 DEF Padded
<1>3. \A s : Columns(s)' = Columns(s)
  BY DEF table, Columns
<1>4. \A s : Size(s)' = Size(s)
  BY <1>2, <1>3 DEF Size
<1>5. TableInv => TableInv'
  BY DEF table, TableInv
<1>6. QED  BY <1>1, <1>2, <1>3, <1>4, <1>5

LEMMA InitInv == Init => IInv
<1> SUFFICES ASSUME Init PROVE IInv
  OBVIOUS
<1>1. Counts \cup {0, 1} \subseteq Nat /\ Lengths \cup {0} \subseteq 0 .. Half_of_range
  BY SectionsAssumption, Modular DEF Half_of_range
<1>2. TableInv
  <2>1. count \in [Sections -> [Halves -> Nat]]
    BY <1>1 DEF Init
  <2>2. longest \in [Sections -> [Halves -> 0 .. Half_of_range]]
    BY <1>1 DEF Init
  <2>3. used_rows \in 0 .. Half_of_range
    BY <1>1 DEF Init
  <2>4. longest["witness"]["trailing"] = 0
    BY DEF Init, Sections, Halves
  <2>5. listed \in [Lookups -> 0 .. Half_of_range]
    BY <1>1 DEF Init
  <2>6. QED  BY <2>1, <2>2, <2>3, <2>4, <2>5 DEF Init, TableInv
<1>3. Columns(Order[1]) \in Nat
  BY <1>2, PaddedNat, OrderSections
<1>4. PlaceInv
  BY <1>3 DEF Init, PlaceInv
<1>5. SectionInv
  <2>1. \A n \in 1 .. 4 : Unreached(Order[n])
    BY OrderSections DEF Init, Nothing, Unreached
  <2>2. QED  BY <2>1 DEF Init, SectionInv
<1>6. TypeOK
  <2>1. 0 \in 0 .. Modulus - 1
    BY Modular
  <2>2. /\ longest \in [Sections -> [Halves -> Nat]] /\ listed \in [Lookups -> Nat]
        /\ used_rows \in Nat
    BY <1>2 DEF TableInv
  <2>3. Nothing \in [Sections -> 0 .. Modulus - 1] /\ Nothing \in [Sections -> Nat]
    BY <2>1 DEF Nothing
  <2>4. QED  BY <1>2, <1>4, <2>2, <2>3 DEF Init, TableInv, PlaceInv, TypeOK
<1>7. QED  BY <1>2, <1>4, <1>5, <1>6 DEF IInv

-------------------------------------------------------------------------------
(***************************************************************************)
(* Every step keeps it.                                                    *)
(***************************************************************************)
\* A section whose entries a step leaves alone is where it was.
LEMMA SectionKept ==
  ASSUME UNCHANGED table, NEW s \in Sections, NEW c,
         announced'[s] = announced[s], written'[s] = written[s], idx'[s] = idx[s]
  PROVE  /\ Complete(s)' = Complete(s) /\ Unreached(s)' = Unreached(s)
         /\ (announced'[s] = Size(s)' % Modulus /\ written'[s] = c * Padded'
             /\ (multi' => idx'[s] = (c * Padded') % Modulus)) = Open(s, c)
<1>1. multi' = multi
  BY DEF table
<1>2. Size(s)' = Size(s) /\ Padded' = Padded
  BY TableFixed
<1>3. QED  BY <1>1, <1>2 DEF Complete, Unreached, Open

\* What the printer's place and the table say once and for all.
LEMMA PlaceFacts ==
  ASSUME IInv, at \in {"size", "columns"}
  PROVE  /\ section \in 1 .. 4 /\ Here \in Sections /\ Here = Order[section]
         /\ column \in Nat /\ column <= Columns(Here) /\ Columns(Here) \in Nat
         /\ Padded \in Nat /\ Modulus \in Nat \ {0}
<1>1. section \in 1 .. 4 /\ column <= Columns(Order[section])
  BY DEF IInv, PlaceInv
<1>2. Here \in Sections
  BY <1>1, OrderSections DEF Here
<1>3. QED  BY <1>1, <1>2, PaddedNat, Modular DEF IInv, TypeOK, Here

LEMMA PrintSizeInv == IInv /\ PrintSize => IInv'
<1> SUFFICES ASSUME IInv, PrintSize PROVE IInv'
  OBVIOUS
<1>1. /\ section \in 1 .. 4 /\ Here \in Sections /\ Here = Order[section]
      /\ Columns(Here) \in Nat /\ Padded \in Nat /\ Modulus \in Nat \ {0}
  BY PlaceFacts DEF PrintSize
<1> DEFINE size == Size(Here) % Modulus
<1>2. /\ UNCHANGED <<table, section, written, idx, dropped>> /\ column' = 0 /\ at' = "columns"
      /\ announced' = [announced EXCEPT ![Here] = size]
  BY DEF PrintSize, Size
<1>3. size \in 0 .. Modulus - 1
  <2>1. Size(Here) \in Nat
    BY <1>1, PaddedNat DEF IInv
  <2>2. QED  BY <1>1, <2>1, Division
<1> HIDE DEF size
<1>4. UNCHANGED table
  BY <1>2
<1>5. TableInv' /\ \A s : Columns(s)' = Columns(s) /\ Size(s)' = Size(s)
  BY <1>4, TableFixed DEF IInv
<1>6. PlaceInv'
  <2>1. Columns(Order[section])' = Columns(Here)
    BY <1>1, <1>2, <1>5
  <2>2. QED  BY <1>1, <1>2, <2>1 DEF PlaceInv
<1>7. TypeOK'
  BY <1>1, <1>2, <1>3, <1>5, <1>6 DEF IInv, TypeOK, TableInv, PlaceInv, table
<1>8. SectionInv'
  <2>1. SUFFICES ASSUME NEW n \in 1 .. 4
                 PROVE  /\ n < section => Complete(Order[n])'
                        /\ n = section => Open(Order[n], column)'
                        /\ n > section => Unreached(Order[n])'
    BY <1>2 DEF SectionInv
  <2>2. Order[n] \in Sections
    BY OrderSections
  <2>3. CASE n # section
    <3>1. Order[n] # Here
      BY <1>1, <2>3, OrderSections
    <3>2. Complete(Order[n])' = Complete(Order[n]) /\ Unreached(Order[n])' = Unreached(Order[n])
      BY <1>2, <1>4, <2>2, <3>1, SectionKept DEF IInv, TypeOK
    <3>3. QED  BY <2>3, <3>2, <1>1 DEF IInv, SectionInv, PrintSize
  <2>4. CASE n = section
    <3>1. Unreached(Here)
      BY <1>1, <2>4 DEF IInv, SectionInv, PrintSize
    <3>2. Order[n] = Here /\ Size(Order[n])' = Size(Here)
      BY <1>1, <1>5, <2>4
    <3>3. announced'[Order[n]] = Size(Order[n])' % Modulus
      BY <1>1, <1>2, <3>2 DEF IInv, TypeOK, size
    <3>4. Padded' = Padded
      BY <1>4, TableFixed
    <3>5. column' * Padded' = 0
      BY <1>1, <1>2, <3>4
    <3>6. 0 % Modulus = 0
      BY Modular
    <3>7. written'[Order[n]] = 0 /\ idx'[Order[n]] = 0
      BY <1>2, <3>1, <3>2 DEF Unreached
    <3>8. Open(Order[n], column)'
      BY <3>3, <3>5, <3>6, <3>7, Zenon DEF Open
    <3>9. QED  BY <1>1, <2>4, <3>8
  <2>5. QED  BY <2>3, <2>4, <1>1
<1>9. QED  BY <1>5, <1>6, <1>7, <1>8 DEF IInv

\* A column of padded_rows_amount cells, whoever printed it.
LEMMA WholeColumnInv ==
  ASSUME IInv, at = "columns", column < Columns(Here), Count(Padded), Advance,
         dropped' \subseteq Sections \X Halves
  PROVE  IInv'
<1> DEFINE sum == (idx[Here] + Padded) % Modulus
<1>1. /\ section \in 1 .. 4 /\ Here \in Sections /\ Here = Order[section]
      /\ column \in Nat /\ Columns(Here) \in Nat /\ Padded \in Nat /\ Modulus \in Nat \ {0}
  BY PlaceFacts
<1>2. /\ UNCHANGED <<table, section, announced>> /\ column' = column + 1 /\ at' = "columns"
      /\ written' = [written EXCEPT ![Here] = @ + Padded]
      /\ idx' = IF multi THEN [idx EXCEPT ![Here] = sum] ELSE idx
  BY DEF Count, Advance
<1>3. sum \in 0 .. Modulus - 1
  <2>1. idx[Here] + Padded \in Nat
    BY <1>1 DEF IInv, TypeOK
  <2>2. QED  BY <1>1, <2>1, Division
<1> HIDE DEF sum
<1>4. UNCHANGED table /\ multi' = multi
  BY <1>2 DEF table
<1>5. TableInv' /\ Padded' = Padded /\ \A s : Columns(s)' = Columns(s) /\ Size(s)' = Size(s)
  BY <1>4, TableFixed DEF IInv
<1>6. PlaceInv'
  <2>1. Columns(Order[section])' = Columns(Here)
    BY <1>1, <1>2, <1>5
  <2>2. QED  BY <1>1, <1>2, <2>1 DEF PlaceInv
<1>7. TypeOK'
  <2>1. written' \in [Sections -> Nat]
    BY <1>1, <1>2 DEF IInv, TypeOK
  <2>2. idx' \in [Sections -> 0 .. Modulus - 1]
    BY <1>1, <1>2, <1>3 DEF IInv, TypeOK
  <2>3. QED  BY <1>1, <1>2, <1>5, <1>6, <2>1, <2>2 DEF IInv, TypeOK, PlaceInv, table
<1>8. SectionInv'
  <2>1. SUFFICES ASSUME NEW n \in 1 .. 4
                 PROVE  /\ n < section => Complete(Order[n])'
                        /\ n = section => Open(Order[n], column)'
                        /\ n > section => Unreached(Order[n])'
    BY <1>2 DEF SectionInv
  <2>2. Order[n] \in Sections
    BY OrderSections
  <2>3. CASE n # section
    <3>1. Order[n] # Here
      BY <1>1, <2>3, OrderSections
    <3>2. /\ announced'[Order[n]] = announced[Order[n]]
          /\ written'[Order[n]] = written[Order[n]] /\ idx'[Order[n]] = idx[Order[n]]
      BY <1>2, <2>2, <3>1 DEF IInv, TypeOK
    <3>3. Complete(Order[n])' = Complete(Order[n]) /\ Unreached(Order[n])' = Unreached(Order[n])
      BY <1>4, <2>2, <3>2, SectionKept
    <3>4. QED  BY <2>3, <3>3, <1>1 DEF IInv, SectionInv
  <2>4. CASE n = section
    <3> DEFINE before == column * Padded
               after == (column + 1) * Padded
    <3>1. Open(Here, column)
      BY <1>1, <2>4 DEF IInv, SectionInv
    <3>2. Order[n] = Here /\ Size(Order[n])' = Size(Here)
      BY <1>1, <1>5, <2>4
    <3>3. announced'[Order[n]] = Size(Order[n])' % Modulus
      BY <1>2, <3>1, <3>2 DEF Open
    <3>4. before \in Nat /\ after = before + Padded /\ column' * Padded' = after
      BY <1>1, <1>2, <1>5
    <3>5. written[Here] = before /\ (multi => idx[Here] = before % Modulus)
      BY <3>1 DEF Open
    <3> HIDE DEF before, after
    <3>6. written'[Order[n]] = after
      BY <1>1, <1>2, <3>2, <3>4, <3>5 DEF IInv, TypeOK
    <3>7. ASSUME multi PROVE idx'[Order[n]] = after % Modulus
      <4>1. idx'[Order[n]] = sum
        BY <1>1, <1>2, <3>2, <3>7 DEF IInv, TypeOK
      <4>2. sum = ((before % Modulus) + Padded) % Modulus
        BY <3>5, <3>7 DEF sum
      <4>3. ((before % Modulus) + Padded) % Modulus = (before + Padded) % Modulus
        BY <1>1, <3>4, SumMod
      <4>4. QED  BY <3>4, <4>1, <4>2, <4>3, Zenon
    <3>8. Open(Order[n], column)'
      BY <1>4, <3>3, <3>4, <3>6, <3>7, Zenon DEF Open
    <3>9. QED  BY <1>1, <2>4, <3>8
  <2>5. QED  BY <2>3, <2>4, <1>1
<1>9. QED  BY <1>5, <1>6, <1>7, <1>8 DEF IInv

LEMMA PrintWholeColumnInv == IInv /\ PrintWholeColumn => IInv'
<1> SUFFICES ASSUME IInv, PrintWholeColumn PROVE IInv'
  OBVIOUS
<1>1. at = "columns" /\ column < Columns(Here) /\ Count(Padded) /\ Advance /\ Here \in Sections
  BY PlaceFacts DEF PrintWholeColumn, PrintAll
<1>2. <<Here, Half>> \in Sections \X Halves
  BY <1>1 DEF Half, Halves
<1>3. dropped' \subseteq Sections \X Halves
  BY <1>2 DEF PrintWholeColumn, PrintAll, IInv, TypeOK
<1>4. QED  BY <1>1, <1>3, WholeColumnInv

LEMMA PrintCutColumnInv == IInv /\ PrintCutColumn => IInv'
<1> SUFFICES ASSUME IInv, PrintCutColumn PROVE IInv'
  OBVIOUS
<1>1. /\ section \in 1 .. 4 /\ Here \in Sections /\ Padded \in Nat
      /\ at = "columns" /\ column < Columns(Here)
  BY PlaceFacts DEF PrintCutColumn
<1> UNCHANGED dropped /\ dropped \subseteq Sections \X Halves
  BY DEF PrintCutColumn, IInv, TypeOK
<1>2. PICK offset \in 0 .. used_rows :
          IF offset < Padded
          THEN Count(Padded) /\ Advance
          ELSE Count(offset) /\ at' = "abort" /\ UNCHANGED <<idx, column>>
  BY DEF PrintCutColumn
<1>3. CASE offset < Padded
  BY <1>1, <1>2, <1>3, WholeColumnInv
<1>4. CASE ~(offset < Padded)
  <2>1. /\ UNCHANGED <<table, section, announced, idx, column>> /\ at' = "abort"
        /\ written' = [written EXCEPT ![Here] = @ + offset]
    BY <1>2, <1>4 DEF Count
  <2>2. TableInv' /\ Padded' = Padded /\ Usable' = Usable
    BY <2>1, TableFixed DEF IInv
  <2>3. Usable >= Padded
    <3>1. Usable \in Nat /\ used_rows <= Usable /\ used_rows \in Nat
      BY UsableBounds, Modular DEF IInv, PrintCutColumn, Cut, Half_of_range, TypeOK
    <3>2. QED  BY <1>1, <1>4, <3>1
  <2>4. PlaceInv'
    BY <1>1, <2>1, <2>2, <2>3 DEF PlaceInv
  <2>5. written' \in [Sections -> Nat]
    BY <1>1, <2>1 DEF IInv, TypeOK
  <2>6. TypeOK'
    BY <1>1, <2>1, <2>5 DEF IInv, TypeOK, table
  <2>7. SectionInv'
    BY <2>1 DEF SectionInv
  <2>8. QED  BY <2>2, <2>4, <2>6, <2>7 DEF IInv
<1>5. QED  BY <1>3, <1>4

LEMMA NextSectionInv == IInv /\ NextSection => IInv'
<1> SUFFICES ASSUME IInv, NextSection PROVE IInv'
  OBVIOUS
<1>1. /\ section \in 1 .. 4 /\ Here \in Sections /\ Here = Order[section]
      /\ column = Columns(Here) /\ at = "columns"
  BY PlaceFacts DEF NextSection
<1>2. /\ UNCHANGED <<table, announced, written, idx, dropped>> /\ UNCHANGED table
      /\ section' = section + 1 /\ column' = 0
      /\ at' = IF section = 4 THEN "closing" ELSE "size"
  BY DEF NextSection, file
<1>3. TableInv' /\ \A s : Columns(s)' = Columns(s)
  BY <1>2, TableFixed DEF IInv
<1>4. PlaceInv'
  <2>1. CASE section = 4
    BY <1>2, <2>1 DEF PlaceInv
  <2>2. CASE section # 4
    <3>1. PICK m \in 1 .. 4 : section' = m
      BY <1>1, <1>2, <2>2
    <3>2. Order[m] \in Sections
      BY OrderSections
    <3>3. Columns(Order[m])' \in Nat
      BY <1>3, <3>2, PaddedNat DEF IInv
    <3>4. Columns(Order[section])' \in Nat
      BY <3>1, <3>3, Zenon DEF Columns
    <3>5. QED  BY <1>2, <2>2, <3>1, <3>4 DEF PlaceInv
  <2>3. QED  BY <2>1, <2>2
<1>5. TypeOK'
  BY <1>1, <1>2, <1>3, <1>4 DEF IInv, TypeOK, PlaceInv, table
<1>6. SectionInv'
  <2>1. SUFFICES ASSUME NEW n \in 1 .. 4
                 PROVE  /\ n < section + 1 => Complete(Order[n])'
                        /\ n >= section + 1 => Unreached(Order[n])'
    BY <1>1, <1>2 DEF SectionInv
  <2>2. Order[n] \in Sections
    BY OrderSections
  <2>3. Complete(Order[n])' = Complete(Order[n]) /\ Unreached(Order[n])' = Unreached(Order[n])
    BY <1>2, <2>2, SectionKept
  <2>4. n < section => Complete(Order[n])
    BY <1>1 DEF IInv, SectionInv
  <2>5. n > section => Unreached(Order[n])
    BY <1>1 DEF IInv, SectionInv
  <2>6. n = section => Complete(Order[n])
    BY <1>1 DEF IInv, SectionInv, Open, Complete, Size
  <2>7. QED  BY <1>1, <2>3, <2>4, <2>5, <2>6
<1>7. QED  BY <1>3, <1>4, <1>5, <1>6 DEF IInv

\* The sum of the counters is the total, both modulo 2^Width.
LEMMA ClosingSum ==
  ASSUME IInv, at = "closing", multi
  PROVE  (idx["witness"] + idx["public"] + idx["constant"] + idx["selector"]) % Modulus
         = TotalSize
<1> DEFINE w == Size("witness")
           p == Size("public")
           c == Size("constant")
           s == Size("selector")
<1>1. {"witness", "public", "constant", "selector"} \subseteq Sections
  BY DEF Sections
<1>2. w \in Nat /\ p \in Nat /\ c \in Nat /\ s \in Nat /\ Modulus \in Nat \ {0}
  BY <1>1, PaddedNat, Modular DEF IInv
<1>3. /\ idx["witness"] = w % Modulus /\ idx["public"] = p % Modulus
      /\ idx["constant"] = c % Modulus /\ idx["selector"] = s % Modulus
  <2>1. \A n \in 1 .. 4 : Complete(Order[n])
    BY DEF IInv, SectionInv, PlaceInv
  <2>2. Complete("witness") /\ Complete("public") /\ Complete("constant") /\ Complete("selector")
    BY <2>1 DEF Order
  <2>3. QED  BY <2>2 DEF Complete
<1>4. w + p + c + s = Padded * TotalColumns
  <2> DEFINE cw == Columns("witness")
             cp == Columns("public")
             cc == Columns("constant")
             cs == Columns("selector")
  <2>1. cw \in Nat /\ cp \in Nat /\ cc \in Nat /\ cs \in Nat /\ Padded \in Nat
    BY <1>1, PaddedNat DEF IInv
  <2>2. w = cw * Padded /\ p = cp * Padded /\ c = cc * Padded /\ s = cs * Padded
    BY DEF Size
  <2>3. TotalColumns = cw + cp + cc + cs
    BY DEF TotalColumns
  <2> HIDE DEF cw, cp, cc, cs, w, p, c, s
  <2>4. cw * Padded + cp * Padded + cc * Padded + cs * Padded = Padded * (cw + cp + cc + cs)
    BY <2>1
  <2>5. QED  BY <2>2, <2>3, <2>4
<1> HIDE DEF w, p, c, s
<1>5. ((w % Modulus) + (p % Modulus) + (c % Modulus) + (s % Modulus)) % Modulus
      = (w + p + c + s) % Modulus
  <2>1. \A a, b, d, e \in Nat :
            ((a % Modulus) + (b % Modulus) + (d % Modulus) + (e % Modulus)) % Modulus
            = (a + b + d + e) % Modulus
    BY <1>2, FourSumMod, Zenon
  <2>2. \A d, e \in Nat :
            ((w % Modulus) + (p % Modulus) + (d % Modulus) + (e % Modulus)) % Modulus
            = (w + p + d + e) % Modulus
    BY <1>2, <2>1, Zenon
  <2>3. QED  BY <1>2, <2>2, Zenon
<1>6. (w + p + c + s) % Modulus = TotalSize
  BY <1>4 DEF TotalSize
<1> DEFINE sum == (w % Modulus) + (p % Modulus) + (c % Modulus) + (s % Modulus)
<1>7. idx["witness"] + idx["public"] + idx["constant"] + idx["selector"] = sum
  BY <1>3
<1>8. sum % Modulus = (w + p + c + s) % Modulus
  BY <1>5
<1> HIDE DEF sum
<1>9. QED  BY <1>6, <1>7, <1>8

LEMMA ClosingInv == IInv /\ Closing => IInv'
<1> SUFFICES ASSUME IInv, Closing PROVE IInv'
  OBVIOUS
<1>1. /\ UNCHANGED <<table, section, column, announced, written, idx, dropped>>
      /\ UNCHANGED table
      /\ at = "closing" /\ at' = "printed"
  <2>1. at = "closing" /\ UNCHANGED <<table, section, column, file>>
    BY DEF Closing
  <2>2. at' = "printed"
    BY <2>1, ClosingSum, Zenon DEF Closing
  <2>3. QED  BY <2>1, <2>2 DEF file
<1>2. TableInv'
  BY <1>1, TableFixed DEF IInv
<1>3. PlaceInv' /\ section = 5
  BY <1>1 DEF IInv, PlaceInv
<1>4. TypeOK'
  BY <1>1, <1>2 DEF IInv, TypeOK, table
<1>5. SectionInv'
  <2>1. \A n \in 1 .. 4 : Complete(Order[n])
    BY <1>1, <1>3 DEF IInv, SectionInv
  <2>2. \A n \in 1 .. 4 : Complete(Order[n])' = Complete(Order[n])
    BY <1>1, OrderSections, SectionKept
  <2>3. QED  BY <1>1, <1>3, <2>1, <2>2 DEF SectionInv
<1>6. QED  BY <1>2, <1>3, <1>4, <1>5 DEF IInv

LEMMA StutterInv == IInv /\ UNCHANGED vars => IInv'
<1> SUFFICES ASSUME IInv, UNCHANGED vars PROVE IInv'
  OBVIOUS
<1>1. UNCHANGED <<table, section, column, announced, written, idx, dropped, at>> /\ UNCHANGED table
  BY DEF vars, file
<1>2. TableInv' /\ Usable' = Usable /\ Padded' = Padded /\ \A s : Columns(s)' = Columns(s)
  BY <1>1, TableFixed DEF IInv
<1>3. \A n \in 1 .. 4 : /\ Complete(Order[n])' = Complete(Order[n])
                        /\ Unreached(Order[n])' = Unreached(Order[n])
  BY <1>1, OrderSections, SectionKept
<1>4. Columns(Order[section])' = Columns(Order[section])
  BY <1>1 DEF table, Columns
<1>5. TypeOK'
  BY <1>1, <1>4 DEF IInv, TypeOK, table
<1>6. PlaceInv'
  BY <1>1, <1>2, <1>4 DEF IInv, PlaceInv
<1>7. SectionInv'
  <2>1. \A n \in 1 .. 4 : Open(Order[n], column)' = Open(Order[n], column)
    <3>1. \A n \in 1 .. 4 : Size(Order[n])' = Size(Order[n])
      BY <1>1, TableFixed
    <3>2. multi' = multi
      BY <1>1 DEF table
    <3>3. QED  BY <1>1, <1>2, <3>1, <3>2 DEF Open
  <2>2. QED  BY <1>1, <1>3, <2>1 DEF IInv, SectionInv
<1>8. QED  BY <1>2, <1>5, <1>6, <1>7 DEF IInv

THEOREM Inductive == Spec => []IInv
<1>1. IInv /\ [Next]_vars => IInv'
  BY PrintSizeInv, PrintCutColumnInv, PrintWholeColumnInv, NextSectionInv, ClosingInv,
     StutterInv DEF Next
<1>2. QED  BY InitInv, <1>1, PTL DEF Spec
-------------------------------------------------------------------------------
(***************************************************************************)
(* What it gives.                                                          *)
(***************************************************************************)
\* The counters and sizes of print_assignment_table stay in the range of a uint32_t, and
\* no section has more columns printed than it has, for a table of any size.
THEOREM TypeCorrect == Spec => []TypeOK
<1>1. IInv => TypeOK
  BY DEF IInv
<1>2. QED  BY Inductive, <1>1, PTL

\* The announced sizes lead a reader of the printed table to every section up to the
\* first one that is too large for a uint32_t, for a table of any size.
THEOREM SectionsFound == Spec => []SectionsAreFound
<1>1. ASSUME IInv PROVE SectionsAreFound
  <2>1. SUFFICES ASSUME at = "printed", NEW n \in 1 .. 4,
                        Columns(Order[n]) * Padded < Modulus
                 PROVE  announced[Order[n]] = written[Order[n]]
    BY DEF SectionsAreFound
  <2>2. Complete(Order[n])
    BY <1>1, <2>1 DEF IInv, SectionInv, PlaceInv
  <2>3. Size(Order[n]) \in Nat /\ Size(Order[n]) < Modulus /\ Modulus \in Nat \ {0}
    BY <1>1, <2>1, OrderSections, PaddedNat, Modular DEF IInv, Size
  <2>4. Size(Order[n]) % Modulus = Size(Order[n])
    <3>1. \A x \in Nat, m \in Nat \ {0} : x < m => x % m = x
      OBVIOUS
    <3>2. QED  BY <2>3, <3>1
  <2>5. QED  BY <2>2, <2>4 DEF Complete
<1>2. QED  BY Inductive, <1>1, PTL

\* The closing ASSERT of print_assignment_table never fires, whatever wraps: only a column
\* as long as padded_rows_amount stops the printer.
THEOREM OnlyLongColumns == Spec => []OnlyLongColumnsAbort
<1>1. IInv => OnlyLongColumnsAbort
  BY DEF IInv, PlaceInv, OnlyLongColumnsAbort
<1>2. QED  BY Inductive, <1>1, PTL

\* What print_vector_value left out is of a column that is printed whole and is longer than
\* padded_rows_amount.
DropInv == \A p \in dropped : ~Cut(p[1], p[2]) /\ longest[p[1]][p[2]] > Padded

LEMMA DropStep == IInv /\ DropInv /\ [Next]_vars => DropInv'
<1> SUFFICES ASSUME IInv, DropInv, [Next]_vars PROVE DropInv'
  OBVIOUS
<1>1. UNCHANGED table
  BY DEF Next, PrintSize, PrintCutColumn, PrintWholeColumn, PrintAll, Count, NextSection,
         Closing, vars
<1>2. longest' = longest /\ multi' = multi /\ Padded' = Padded
  BY <1>1, TableFixed DEF table
<1>3. \A p \in dropped' : ~Cut(p[1], p[2]) /\ longest[p[1]][p[2]] > Padded
  <2>1. CASE dropped' = dropped
    BY <2>1 DEF DropInv
  <2>2. CASE PrintWholeColumn
    BY <2>2 DEF PrintWholeColumn, PrintAll, DropInv
  <2>3. QED  BY <2>1, <2>2 DEF Next, PrintSize, PrintCutColumn, NextSection, Closing, file, vars
<1>4. QED  BY <1>2, <1>3 DEF DropInv, Cut

\* print_vector_value prints every cell of a column as long as doubling the usable rows
\* does not wrap, but for a lookup column longer than those the library lists.
THEOREM NothingIsDropped == Spec => []NothingDropped
<1>1. ASSUME IInv, DropInv PROVE NothingDropped
  <2>1. SUFFICES ASSUME 2 * Usable < Modulus, NEW p \in dropped
                 PROVE  /\ multi
                        /\ p \in Lookups \X {"trailing"}
                        /\ listed[p[1]] < longest[p[1]][p[2]]
    BY DEF NothingDropped
  <2> DEFINE s == p[1]
             h == p[2]
  <2>2. s \in Sections /\ h \in Halves /\ p = <<s, h>>
    BY <1>1 DEF IInv, TypeOK
  <2>3. ~Cut(s, h) /\ longest[s][h] > Padded
    BY <1>1 DEF DropInv
  <2> HIDE DEF s, h
  <2>4. Usable \in Nat /\ Usable < Half_of_range
    BY <1>1, <2>1, UsableBounds, Modular DEF IInv, Half_of_range
  <2>5. Padded \in Nat /\ Usable < Padded /\ longest[s][h] \in Nat
    BY <1>1, <2>2, <2>4, PaddedNat DEF IInv, TypeOK
  <2>6. ~(longest[s][h] <= Usable)
    BY <2>3, <2>4, <2>5
  <2>7. multi /\ s # "public"
    BY <1>1, <2>2, <2>6, UsableBounds DEF IInv
  <2>8. h = "trailing"
    BY <2>2, <2>3, <2>7 DEF Cut, Halves
  <2>9. s # "witness"
    BY <1>1, <2>3, <2>5, <2>8 DEF IInv, TableInv
  <2>10. s \in Lookups
    BY <2>2, <2>7, <2>9 DEF Sections, Lookups
  <2>11. listed[s] <= Usable /\ listed[s] \in Nat
    BY <1>1, <2>7, <2>10, UsableBounds DEF IInv, TypeOK
  <2>12. listed[s] < longest[s][h]
    BY <2>4, <2>5, <2>6, <2>11
  <2>13. QED  BY <2>2, <2>7, <2>8, <2>10, <2>12 DEF s, h
<1>2. Init => DropInv
  BY DEF Init, DropInv
<1>3. QED  BY Inductive, <1>1, <1>2, DropStep, PTL DEF Spec
===============================================================================
