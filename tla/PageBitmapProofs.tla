-------------------------- MODULE PageBitmapProofs --------------------------
(***************************************************************************)
(* The bitmap code of mm/page_frame.cpp implements the contract of         *)
(* PageFrames, whatever the width of a word, the size of a page, the       *)
(* bitmap's limit and the boot loader's map are.                           *)
(*                                                                         *)
(* The loops of the code are recursive functions over the number of        *)
(* rounds.  LoopRuns shows that such a function exists, so that its        *)
(* equation may be used, and EveryRound that what a round keeps holds at   *)
(* the end: both rest on the least element of a set of naturals.  Each     *)
(* loop then has its lemma (SurveyIs, PaintMapIs, CountIs, ScanIs) and     *)
(* each call a step that keeps Inv and is a step of the contract.          *)
(***************************************************************************)
EXTENDS PageBitmap, FiniteSetTheorems, TLAPS

-----------------------------------------------------------------------------
(* Loops.                                                                   *)

\* A set of naturals that is not empty has a least element.
LEMMA LeastExists ==
    ASSUME NEW T \in SUBSET Nat, T # {}
    PROVE  \E x \in T : \A y \in T : x <= y
<1> DEFINE R == OpToRel(LAMBDA p, q : p < q, Nat)
<1>1. IsWellFoundedOn(R, Nat)
  BY NatLessThanWellFounded, Zenon
<1>2. \A x, y \in Nat : x < y => <<x, y>> \in R
  BY DEF OpToRel
<1> HIDE DEF R
<1>3. PICK x \in T : \A y \in T : ~ (<<y, x>> \in R)
  BY <1>1, WFMin, Zenon
<1>4. \A y \in T : ~(y < x)
  BY <1>2, <1>3, Zenon
<1>5. \A y \in T : x <= y
  BY <1>4
<1> QED
  BY <1>5

\* What holds before a loop and is kept by each of its n rounds holds after
\* every round.
LEMMA EveryRound ==
    ASSUME NEW n \in Nat, NEW P, 0 \in P, \A i \in 1..n : i - 1 \in P => i \in P
    PROVE  \A i \in 0..n : i \in P
<1> DEFINE T == {i \in 0..n : i \notin P}
<1> SUFFICES ASSUME T # {} PROVE FALSE
  OBVIOUS
<1>0. T \in SUBSET Nat
  OBVIOUS
<1>1. PICK x \in T : \A y \in T : x <= y
  <2> HIDE DEF T
  <2> QED
    BY <1>0, LeastExists
<1>2. x \in 1..n /\ x - 1 \in 0..n /\ x - 1 < x
  BY <1>1
<1>3. x - 1 \in P
  BY <1>1, <1>2
<1> QED
  BY <1>1, <1>2, <1>3

\* A loop of n rounds over the states S, whose round i takes the state s to
\* step[<<i, s>>], and its run from x.
IsStep(step, n, S) == step \in [(1..n) \X S -> S]
IsRun(f, n, x, step, S) ==
    /\ f \in [0..n -> S]
    /\ f[0] = x
    /\ \A i \in 1..n : f[i] = step[<<i, f[i - 1]>>]

\* Every loop has a run.
LEMMA LoopRuns ==
    ASSUME NEW n \in Nat, NEW S, NEW x \in S, NEW step, IsStep(step, n, S)
    PROVE  \E f : IsRun(f, n, x, step, S)
<1> DEFINE Run(f, k) == /\ f \in [0..k -> S]
                        /\ f[0] = x
                        /\ \A i \in 1..k : f[i] = step[<<i, f[i - 1]>>]
           P == {k \in 0..n : \E f : Run(f, k)}
<1>1. 0 \in P
  <2> DEFINE f == [i \in 0..0 |-> x]
  <2>1. f \in [0..0 -> S] /\ f[0] = x /\ 1..0 = {}
    OBVIOUS
  <2> HIDE DEF f
  <2>2. Run(f, 0)
    BY <2>1
  <2>3. 0 \in 0..n
    OBVIOUS
  <2> QED
    BY <2>2, <2>3, Zenon
<1>2. ASSUME NEW i \in 1..n, i - 1 \in P PROVE i \in P
  <2>1. PICK f : Run(f, i - 1)
    BY <1>2
  <2>2. f[i - 1] \in S
    BY <2>1
  <2> DEFINE y == step[<<i, f[i - 1]>>]
             g == [j \in 0..i |-> IF j = i THEN y ELSE f[j]]
  <2>3. y \in S
    BY <2>2 DEF IsStep
  <2>4. g \in [0..i -> S]
    BY <2>1, <2>3
  <2>5. ASSUME NEW j \in 1..i PROVE g[j] = step[<<j, g[j - 1]>>]
    <3>1. CASE j = i
      <4>1. g[j] = y /\ g[j - 1] = f[i - 1]
        BY <3>1
      <4> QED
        BY <3>1, <4>1
    <3>2. CASE j # i
      <4>1. j \in 1..(i - 1) /\ g[j] = f[j] /\ g[j - 1] = f[j - 1]
        BY <3>2
      <4> HIDE DEF g
      <4> QED
        BY <2>1, <4>1
    <3> QED
      BY <3>1, <3>2
  <2>6. g[0] = x
    BY <2>1
  <2>7. Run(g, i)
    BY <2>4, <2>5, <2>6, Zenon
  <2>8. i \in 0..n
    OBVIOUS
  <2> HIDE DEF g
  <2> QED
    BY <2>7, <2>8, Zenon
<1> HIDE DEF P
<1>3. n \in P
  BY <1>1, <1>2, EveryRound
<1>4. PICK f : Run(f, n)
  BY <1>3 DEF P
<1> QED
  BY <1>4, Zenon DEF IsRun

-----------------------------------------------------------------------------
(* Words and pages.                                                         *)

\* A number is its quotient times n plus its remainder.
LEMMA DivMod ==
    ASSUME NEW n \in Nat \ {0}, NEW a \in Nat
    PROVE  a = (a \div n) * n + (a % n) /\ a % n \in 0..(n - 1) /\ a \div n \in Nat
  OBVIOUS

\* A multiple plus a remainder has that quotient and that remainder.
LEMMA DivModUnique ==
    ASSUME NEW n \in Nat \ {0}, NEW q \in Nat, NEW r \in 0..(n - 1)
    PROVE  /\ q * n + r \in Nat
           /\ (q * n + r) \div n = q
           /\ (q * n + r) % n = r
  OBVIOUS

\* Multiples of n are ordered as their factors, n apart.
LEMMA TimesOrder ==
    ASSUME NEW n \in Nat \ {0}, NEW a \in Nat, NEW b \in Nat
    PROVE  /\ a * n \in Nat
           /\ a < b <=> a * n < b * n
           /\ a <= b <=> a * n <= b * n
           /\ a < b <=> a * n + n <= b * n
  OBVIOUS

Word == 0..(BitmapLimit - 1)
Page == 0..(BitmapLimit * WordBits - 1)
Bitmap == [Word -> SUBSET Bits]

\* The pages whose bit is 1.
PagesOf(b) == {p \in Page : IsFree(b, p)}

\* Pages are numbers.
LEMMA PageIsNat == BitmapLimit * WordBits \in Nat /\ Page \subseteq Nat
<1>1. BitmapLimit * WordBits \in Nat
  BY PageBitmapAssumption
<1> QED
  BY <1>1 DEF Page

\* A page is a bit of a word of the bitmap.
LEMMA BitOfPage ==
    ASSUME NEW p \in Page
    PROVE  /\ p \div WordBits \in Word
           /\ p % WordBits \in Bits
           /\ p = (p \div WordBits) * WordBits + (p % WordBits)
<1> USE PageBitmapAssumption
<1>0. p \in Nat
  BY PageIsNat
<1>1. /\ p = (p \div WordBits) * WordBits + (p % WordBits)
      /\ p % WordBits \in 0..(WordBits - 1)
      /\ p \div WordBits \in Nat
  BY <1>0, DivMod, Zenon
<1> DEFINE q == p \div WordBits
           r == p % WordBits
<1>a. p = q * WordBits + r /\ q \in Nat /\ r \in 0..(WordBits - 1)
  BY <1>1, Zenon
<1> HIDE DEF q, r
<1>2. q * WordBits < BitmapLimit * WordBits
  <2> DEFINE qw == q * WordBits
             bw == BitmapLimit * WordBits
  <2>1. qw \in Nat /\ bw \in Nat
    BY <1>a
  <2>2. p = qw + r /\ r \in 0..(WordBits - 1)
    BY <1>a, Zenon
  <2>3. p \in 0..(bw - 1)
    BY DEF Page
  <2> HIDE DEF qw, bw
  <2>4. qw < bw
    BY <2>1, <2>2, <2>3
  <2> QED
    BY <2>4 DEF qw, bw
<1>3. q < BitmapLimit
  BY <1>1, <1>2, TimesOrder DEF q
<1> QED
  BY <1>1, <1>3 DEF q, Word, Bits

\* A bit of a word of the bitmap is a page.
LEMMA PageOfBit ==
    ASSUME NEW w \in Word, NEW k \in Bits
    PROVE  /\ w * WordBits + k \in Page
           /\ (w * WordBits + k) \div WordBits = w
           /\ (w * WordBits + k) % WordBits = k
<1> USE PageBitmapAssumption
<1>1. w \in Nat /\ k \in 0..(WordBits - 1) /\ w < BitmapLimit
  BY DEF Word, Bits
<1>2. w * WordBits + WordBits <= BitmapLimit * WordBits /\ w * WordBits \in Nat
      /\ BitmapLimit * WordBits \in Nat
  BY <1>1, TimesOrder
<1>3. w * WordBits + k \in Page
  BY <1>1, <1>2 DEF Page
<1> QED
  BY <1>1, <1>3, DivModUnique, Zenon

\* is_free() reads the bit of the page.
LEMMA FreeBit ==
    ASSUME NEW b, NEW w \in Word, NEW k \in Bits
    PROVE  w * WordBits + k \in PagesOf(b) <=> k \in b[w]
  BY PageOfBit, Zenon DEF PagesOf, IsFree

\* Two bitmaps whose words differ by the bits of the pages S.
LEMMA BitsAdded ==
    ASSUME NEW b \in Bitmap, NEW c \in Bitmap, NEW S \in SUBSET Page,
           \A w \in Word, k \in Bits : k \in c[w] <=> k \in b[w] \/ w * WordBits + k \in S
    PROVE  PagesOf(c) = PagesOf(b) \cup S
<1> SUFFICES ASSUME NEW p \in Page PROVE p \in PagesOf(c) <=> p \in PagesOf(b) \cup S
  BY DEF PagesOf
<1> DEFINE w == p \div WordBits
           k == p % WordBits
<1>1. w \in Word /\ k \in Bits /\ p = w * WordBits + k
  BY BitOfPage, Zenon
<1>2. (p \in PagesOf(c) <=> k \in c[w]) /\ (p \in PagesOf(b) <=> k \in b[w])
  BY Zenon DEF PagesOf, IsFree
<1> HIDE DEF w, k
<1> QED
  BY <1>1, <1>2, Zenon

\* The same with bits taken away.
LEMMA BitsRemoved ==
    ASSUME NEW b \in Bitmap, NEW c \in Bitmap, NEW S,
           \A w \in Word, k \in Bits : k \in c[w] <=> k \in b[w] /\ w * WordBits + k \notin S
    PROVE  PagesOf(c) = PagesOf(b) \ S
<1> SUFFICES ASSUME NEW p \in Page PROVE p \in PagesOf(c) <=> p \in PagesOf(b) \ S
  BY DEF PagesOf
<1> DEFINE w == p \div WordBits
           k == p % WordBits
<1>1. w \in Word /\ k \in Bits /\ p = w * WordBits + k
  BY BitOfPage, Zenon
<1>2. (p \in PagesOf(c) <=> k \in c[w]) /\ (p \in PagesOf(b) <=> k \in b[w])
  BY Zenon DEF PagesOf, IsFree
<1> HIDE DEF w, k
<1> QED
  BY <1>1, <1>2, Zenon

\* Painting a range of pages sets the bits of the range and no other.
LEMMA PaintSets ==
    ASSUME NEW b \in Bitmap, NEW s \in Nat, NEW e \in Nat, s < e,
           e <= BitmapLimit * WordBits
    PROVE  Paint(b, s, e) \in Bitmap /\ PagesOf(Paint(b, s, e)) = PagesOf(b) \cup s..(e - 1)
<1> USE PageBitmapAssumption
<1> DEFINE u == s \div WordBits
           x == s % WordBits
           v == (e - 1) \div WordBits
           y == (e - 1) % WordBits
           z == e % WordBits
           c == Paint(b, s, e)
<1>1. s = u * WordBits + x /\ x \in Bits /\ u \in Nat
  BY DivMod, Zenon DEF Bits
<1>2. e - 1 = v * WordBits + y /\ y \in Bits /\ v \in Nat
  <2>1. e - 1 \in Nat
    OBVIOUS
  <2> QED
    BY <2>1, DivMod, Zenon DEF Bits
<1>3. z = IF y = WordBits - 1 THEN 0 ELSE y + 1
  <2> HIDE DEF v, y
  <2>1. CASE y = WordBits - 1
    <3>1. e = (v + 1) * WordBits + 0
      BY <1>2, <2>1 DEF Bits
    <3> QED
      BY <1>2, <2>1, <3>1, DivModUnique DEF Bits
  <2>2. CASE y # WordBits - 1
    <3>1. e = v * WordBits + (y + 1) /\ y + 1 \in 0..(WordBits - 1)
      BY <1>2, <2>2 DEF Bits
    <3> QED
      BY <1>2, <2>2, <3>1, DivModUnique DEF Bits
  <2> QED
    BY <2>1, <2>2
<1>4. \A w \in Word : c[w] =
          CASE w = u /\ w = v -> b[w] \cup x..y
            [] w = u /\ w # v -> b[w] \cup x..(WordBits - 1)
            [] u < w /\ w < v -> Bits
            [] w = v /\ w # u -> b[w] \cup (IF z = 0 THEN Bits ELSE 0..(z - 1))
            [] OTHER -> b[w]
  BY DEF Paint, Bitmap
<1>5. c = [w \in Word |-> c[w]]
  BY DEF Paint, Bitmap
<1> HIDE DEF u, v, x, y, z, c
<1>6. ASSUME NEW w \in Word PROVE /\ c[w] \subseteq Bits
                                 /\ \A k \in Bits : k \in c[w] <=> k \in b[w] \/ w * WordBits + k \in s..(e - 1)
  <2>1. b[w] \subseteq Bits /\ w \in Nat
    BY DEF Bitmap, Word
  <2>2. w < u => w * WordBits + WordBits <= u * WordBits
    BY <1>1, <2>1, TimesOrder
  <2>3. u < w => u * WordBits + WordBits <= w * WordBits
    BY <1>1, <2>1, TimesOrder
  <2>4. w < v => w * WordBits + WordBits <= v * WordBits
    BY <1>2, <2>1, TimesOrder
  <2>5. v < w => v * WordBits + WordBits <= w * WordBits
    BY <1>2, <2>1, TimesOrder
  <2>6. u <= v
    <3>1. v < u => v * WordBits + WordBits <= u * WordBits
      BY <1>1, <1>2, TimesOrder
    <3> DEFINE uw == u * WordBits
               vw == v * WordBits
    <3>2. uw \in Nat /\ vw \in Nat
      BY <1>1, <1>2
    <3> HIDE DEF uw, vw
    <3> QED
      BY <1>1, <1>2, <3>1, <3>2 DEF Bits, uw, vw
  <2> DEFINE ww == w * WordBits
             uw == u * WordBits
             vw == v * WordBits
  <2>7. ww \in Nat /\ uw \in Nat /\ vw \in Nat
    BY <1>1, <1>2, <2>1
  <2>8. /\ s = uw + x /\ e - 1 = vw + y
        /\ w < u => ww + WordBits <= uw
        /\ u < w => uw + WordBits <= ww
        /\ w < v => ww + WordBits <= vw
        /\ v < w => vw + WordBits <= ww
        /\ w = u => ww = uw
        /\ w = v => ww = vw
    BY <1>1, <1>2, <2>2, <2>3, <2>4, <2>5
  <2> SUFFICES /\ c[w] \subseteq Bits
               /\ \A k \in Bits : k \in c[w] <=> k \in b[w] \/ ww + k \in s..(e - 1)
    OBVIOUS
  <2> HIDE DEF ww, uw, vw
  <2>9. x \in 0..(WordBits - 1) /\ y \in 0..(WordBits - 1) /\ Bits = 0..(WordBits - 1)
    BY <1>1, <1>2 DEF Bits
  <2> DEFINE c1 == b[w] \cup x..y
             c2 == b[w] \cup x..(WordBits - 1)
             c4 == b[w] \cup (IF z = 0 THEN Bits ELSE 0..(z - 1))
  <2>10. c[w] = CASE w = u /\ w = v -> c1
                  [] w = u /\ w # v -> c2
                  [] u < w /\ w < v -> Bits
                  [] w = v /\ w # u -> c4
                  [] OTHER -> b[w]
    BY <1>4, Zenon
  <2> HIDE DEF c1, c2, c4
  <2>11. /\ w = u /\ w = v => c[w] = c1
         /\ w = u /\ w # v => c[w] = c2
         /\ u < w /\ w < v => c[w] = Bits
         /\ w = v /\ w # u => c[w] = c4
         /\ w < u \/ v < w => c[w] = b[w]
    BY <1>1, <1>2, <2>1, <2>6, <2>10
  <2>12. CASE w = u /\ w = v
    BY <2>1, <2>7, <2>8, <2>9, <2>11, <2>12 DEF c1
  <2>13. CASE w = u /\ w # v
    BY <1>1, <1>2, <2>1, <2>6, <2>7, <2>8, <2>9, <2>11, <2>13 DEF c2
  <2>14. CASE u < w /\ w < v
    <3>1. \A k \in Bits : ww + k \in s..(e - 1)
      BY <2>7, <2>8, <2>9, <2>14
    <3> QED
      BY <2>11, <2>14, <3>1
  <2>15. CASE w = v /\ w # u
    <3>1. c4 = b[w] \cup 0..y
      BY <1>3, <2>9 DEF c4
    <3>2. u < w
      BY <1>1, <1>2, <2>6, <2>15
    <3> QED
      BY <2>1, <2>7, <2>8, <2>9, <2>11, <2>15, <3>1, <3>2
  <2>16. CASE w < u \/ v < w
    <3>1. \A k \in Bits : ww + k \notin s..(e - 1)
      BY <2>7, <2>8, <2>9, <2>16
    <3> QED
      BY <2>1, <2>11, <2>16, <3>1
  <2> QED
    BY <1>1, <1>2, <2>1, <2>12, <2>13, <2>14, <2>15, <2>16
<1>7. c \in Bitmap
  BY <1>5, <1>6 DEF Bitmap
<1>8. s..(e - 1) \in SUBSET Page
  BY DEF Page
<1>9. PagesOf(c) = PagesOf(b) \cup s..(e - 1)
  BY <1>6, <1>7, <1>8, BitsAdded, ZenonT(40)
<1> QED
  BY <1>7, <1>9 DEF c

-----------------------------------------------------------------------------
(* The boot map.                                                            *)

\* The first page of a region, and the page behind its last trackable one.
FirstPage(r) == (r.start + PageSize - 1) \div PageSize
EndPage(r) == LesserOf((r.start + r.length) \div PageSize, BitmapLimit * WordBits)

\* The pages of a region as the contract has them, and the aligned and clipped
\* addresses the code computes for them.
LEMMA RegionIs ==
    ASSUME NEW r \in Region
    PROVE  /\ FirstPage(r) \in Nat /\ EndPage(r) \in Nat
           /\ EndPage(r) <= BitmapLimit * WordBits
           /\ Abstract!RegionPages(r) = IF r.usable THEN FirstPage(r)..(EndPage(r) - 1) ELSE {}
           /\ AlignUpPage(r.start) = FirstPage(r) * PageSize
           /\ LesserOf(AlignDownPage(r.start + r.length), BitmapLimit * WordBits * PageSize)
                = EndPage(r) * PageSize
<1> USE PageBitmapAssumption
<1> DEFINE x == (r.start + r.length) \div PageSize
           bw == BitmapLimit * WordBits
<1>1. r.start \in Nat /\ r.length \in Nat /\ r.usable \in BOOLEAN
  BY DEF Region
<1>2. FirstPage(r) \in Nat
  <2>1. r.start + PageSize - 1 \in Nat
    BY <1>1
  <2> QED
    BY <2>1, DivMod DEF FirstPage
<1>3. x \in Nat /\ bw \in Nat
  <2>1. r.start + r.length \in Nat
    BY <1>1
  <2> QED
    BY <2>1, DivMod, PageIsNat
<1>4. AlignUpPage(r.start) = FirstPage(r) * PageSize
  BY DEF AlignUpPage, FirstPage
<1>5. EndPage(r) = LesserOf(x, bw) /\ AlignDownPage(r.start + r.length) = x * PageSize
      /\ Page = 0..(bw - 1)
  BY DEF EndPage, AlignDownPage, Page
<1>6. Abstract!RegionPages(r) = {p \in 0..(bw - 1) : r.usable /\ FirstPage(r) <= p /\ p < x}
  BY DEF Abstract!RegionPages, Abstract!AlignUpPage, Abstract!AlignDownPage, FirstPage
<1> HIDE DEF x, bw
<1>7. EndPage(r) \in Nat /\ EndPage(r) <= bw
  BY <1>3, <1>5 DEF LesserOf
<1>8. LesserOf(x * PageSize, bw * PageSize) = EndPage(r) * PageSize
  <2>1. x < bw <=> x * PageSize < bw * PageSize
    BY <1>3, TimesOrder
  <2> QED
    BY <1>5, <2>1, Zenon DEF LesserOf
<1>9. Abstract!RegionPages(r) = IF r.usable THEN FirstPage(r)..(EndPage(r) - 1) ELSE {}
  <2> DEFINE ff == FirstPage(r)
             ll == EndPage(r)
  <2> HIDE DEF ff, ll
  <2>1. ll = (IF x < bw THEN x ELSE bw) /\ ff \in Nat
    BY <1>2, <1>5 DEF ll, ff, LesserOf
  <2>2. \A p \in 0..(bw - 1) : ff <= p /\ p < x <=> p \in ff..(ll - 1)
    BY <1>3, <2>1
  <2>3. ff..(ll - 1) \subseteq 0..(bw - 1)
    BY <1>3, <2>1
  <2> QED
    BY <1>1, <1>6, <2>2, <2>3 DEF ff, ll
<1> QED
  BY <1>2, <1>4, <1>5, <1>7, <1>8, <1>9 DEF bw

Surveyed == [size : Nat, end : Nat]

\* What the first pass knows of the pages U of the regions it has seen.
SurveyInv(acc, U) ==
    /\ acc \in Surveyed
    /\ U \subseteq Page
    /\ \/ acc.size = 0 /\ acc.end = 0 /\ U = {}
       \/ /\ acc.size > 0
          /\ \E last \in U : acc.end = (last + 1) * PageSize /\ \A p \in U : p <= last

\* One region of the first pass.
LEMMA SurveyStep ==
    ASSUME NEW acc, NEW U, SurveyInv(acc, U), NEW r \in Region
    PROVE  SurveyInv(SurveyRegion(acc, r), U \cup Abstract!RegionPages(r))
<1> USE PageBitmapAssumption
<1> DEFINE ff == FirstPage(r)
           ll == EndPage(r)
           R == Abstract!RegionPages(r)
           fp == ff * PageSize
           lp == ll * PageSize
<1>1. ff \in Nat /\ ll \in Nat /\ ll <= BitmapLimit * WordBits
  BY RegionIs
<1>2. R = IF r.usable THEN ff..(ll - 1) ELSE {}
  BY RegionIs
<1>3. SurveyRegion(acc, r) = IF ~r.usable \/ lp <= fp THEN acc
                             ELSE [size |-> acc.size + (lp - fp), end |-> GreaterOf(acc.end, lp)]
  BY RegionIs, Zenon DEF SurveyRegion
<1>4. (lp <= fp <=> ll <= ff) /\ lp \in Nat /\ fp \in Nat
  BY <1>1, TimesOrder
<1>5. r.usable \in BOOLEAN
  BY DEF Region
<1> HIDE DEF ff, ll, R, fp
<1>6. CASE ~r.usable \/ ll <= ff
  <2>1. R = {}
    BY <1>1, <1>2, <1>5, <1>6
  <2>2. SurveyRegion(acc, r) = acc
    BY <1>3, <1>4, <1>6
  <2> QED
    BY <2>1, <2>2 DEF R
<1>7. CASE r.usable /\ ff < ll
  <2>1. R = ff..(ll - 1) /\ R \subseteq Page
    BY <1>1, <1>2, <1>7, PageIsNat DEF Page
  <2>2. acc.size \in Nat /\ acc.end \in Nat
    BY DEF SurveyInv, Surveyed
  <2>3. ~(lp <= fp)
    BY <1>1, <1>4, <1>7
  <2> DEFINE new == SurveyRegion(acc, r)
  <2>4. new = [size |-> acc.size + (lp - fp), end |-> GreaterOf(acc.end, lp)]
    BY <1>3, <1>7, <2>3
  <2>5. new.size = acc.size + (lp - fp) /\ new.end = GreaterOf(acc.end, lp)
    BY <2>4
  <2> HIDE DEF new, lp
  <2>6. new.size \in Nat /\ new.size > 0 /\ new.end \in Nat
    BY <1>4, <2>2, <2>3, <2>5 DEF GreaterOf
  <2>7. new \in Surveyed
    BY <2>4, <2>5, <2>6 DEF Surveyed
  <2>8. \A p \in R : p \in Nat /\ p <= ll - 1
    BY <1>1, <2>1
  <2>9. ll - 1 \in R /\ lp = ((ll - 1) + 1) * PageSize
    BY <1>1, <1>7, <2>1 DEF lp
  <2>10. \E last \in U \cup R : new.end = (last + 1) * PageSize /\ \A p \in U \cup R : p <= last
    <3>1. CASE acc.end = 0 /\ U = {}
      <4>1. new.end = lp
        BY <1>4, <2>2, <2>3, <2>5, <3>1 DEF GreaterOf
      <4> QED
        BY <2>8, <2>9, <3>1, <4>1
    <3>2. CASE \E last \in U : acc.end = (last + 1) * PageSize /\ \A p \in U : p <= last
      <4>1. PICK last \in U : acc.end = (last + 1) * PageSize /\ \A p \in U : p <= last
        BY <3>2
      <4>2. last \in Nat /\ U \subseteq Nat
        BY PageIsNat DEF SurveyInv
      <4>3. acc.end > lp <=> last + 1 > ll
        BY <1>1, <4>1, <4>2, TimesOrder DEF lp
      <4>4. CASE last + 1 > ll
        <5>1. new.end = acc.end
          BY <2>5, <4>3, <4>4 DEF GreaterOf
        <5>2. \A p \in U \cup R : p <= last
          BY <1>1, <2>8, <4>1, <4>2, <4>4
        <5> QED
          BY <4>1, <5>1, <5>2
      <4>5. CASE ~(last + 1 > ll)
        <5>1. new.end = lp
          BY <2>5, <4>3, <4>5 DEF GreaterOf
        <5>2. \A p \in U \cup R : p <= ll - 1
          BY <1>1, <2>8, <4>1, <4>2, <4>5
        <5> QED
          BY <2>9, <5>1, <5>2
      <4> QED
        BY <4>4, <4>5
    <3> QED
      BY <3>1, <3>2 DEF SurveyInv
  <2> QED
    BY <2>1, <2>6, <2>7, <2>10 DEF SurveyInv, new, R
<1> QED
  BY <1>1, <1>5, <1>6, <1>7

\* The usable pages of the first i regions.
UsableUpTo(m, i) == UNION {Abstract!RegionPages(m[j]) : j \in 1..i}

\* The usable pages, region by region.
LEMMA UsableNext ==
    ASSUME NEW m
    PROVE  /\ UsableUpTo(m, 0) = {}
           /\ \A i \in Nat : UsableUpTo(m, i + 1) = UsableUpTo(m, i) \cup Abstract!RegionPages(m[i + 1])
<1>1. 1..0 = {} /\ \A i \in Nat : 1..(i + 1) = (1..i) \cup {i + 1}
  OBVIOUS
<1>2. UsableUpTo(m, 0) = {}
  BY <1>1 DEF UsableUpTo
<1>3. ASSUME NEW i \in Nat
      PROVE  UsableUpTo(m, i + 1) = UsableUpTo(m, i) \cup Abstract!RegionPages(m[i + 1])
  <2>1. 1..(i + 1) = (1..i) \cup {i + 1}
    BY <1>1
  <2> QED
    BY <2>1, Zenon DEF UsableUpTo
<1> QED
  BY <1>2, <1>3

\* The first pass finds the end of the last usable page, and whether there is
\* one.
LEMMA SurveyIs ==
    ASSUME NEW m \in Seq(Region)
    PROVE  SurveyInv(Survey(m), Abstract!UsablePages(m))
<1> DEFINE n == Len(m)
           x == [size |-> 0, end |-> 0]
           Pass(f) == f = [i \in 0..n |-> IF i = 0 THEN x ELSE SurveyRegion(f[i - 1], m[i])]
           g == CHOOSE f : Pass(f)
<1>1. n \in Nat /\ \A i \in 1..n : m[i] \in Region
  OBVIOUS
<1>2. Survey(m) = g[n] /\ Abstract!UsablePages(m) = UsableUpTo(m, n)
  BY DEF Survey, Abstract!UsablePages, UsableUpTo
<1>3. x \in Surveyed
  BY DEF Surveyed
<1>4. \A acc \in Surveyed, r \in Region : SurveyRegion(acc, r) \in Surveyed
  <2> SUFFICES ASSUME NEW acc \in Surveyed, NEW r \in Region PROVE SurveyRegion(acc, r) \in Surveyed
    OBVIOUS
  <2> DEFINE fp == FirstPage(r) * PageSize
             lp == EndPage(r) * PageSize
  <2>1. SurveyRegion(acc, r) = IF ~r.usable \/ lp <= fp THEN acc
                               ELSE [size |-> acc.size + (lp - fp), end |-> GreaterOf(acc.end, lp)]
    BY RegionIs, Zenon DEF SurveyRegion
  <2>2. fp \in Nat /\ lp \in Nat
    BY RegionIs, TimesOrder, PageBitmapAssumption
  <2> HIDE DEF fp, lp
  <2> QED
    BY <2>1, <2>2 DEF Surveyed, GreaterOf
<1> HIDE DEF n, x
<1>5. Pass(g)
  <2> DEFINE step == [a \in (1..n) \X Surveyed |-> SurveyRegion(a[2], m[a[1]])]
  <2>1. IsStep(step, n, Surveyed)
    BY <1>1, <1>4 DEF IsStep
  <2>2. \A i \in 1..n, acc \in Surveyed : step[<<i, acc>>] = SurveyRegion(acc, m[i])
    OBVIOUS
  <2> HIDE DEF step
  <2>0. PICK f : IsRun(f, n, x, step, Surveyed)
    BY <1>1, <1>3, <2>1, LoopRuns, Zenon
  <2>3. f \in [0..n -> Surveyed] /\ f[0] = x /\ \A i \in 1..n : f[i] = step[<<i, f[i - 1]>>]
    BY <2>0, Zenon DEF IsRun
  <2>4. ASSUME NEW i \in 1..n PROVE f[i] = SurveyRegion(f[i - 1], m[i])
    <3>1. f[i - 1] \in Surveyed
      BY <1>1, <2>3
    <3> QED
      BY <2>2, <2>3, <3>1, Zenon
  <2>5. \A i \in 0..n : f[i] = IF i = 0 THEN x ELSE SurveyRegion(f[i - 1], m[i])
    BY <1>1, <2>3, <2>4
  <2>6. Pass(f)
    BY <2>3, <2>5
  <2> QED
    BY <2>6, Zenon
<1> HIDE DEF g
<1>6. g[0] = x /\ \A i \in 1..n : g[i] = SurveyRegion(g[i - 1], m[i])
  BY <1>1, <1>5
<1> DEFINE P == {i \in 0..n : SurveyInv(g[i], UsableUpTo(m, i))}
<1>7. 0 \in P
  BY <1>1, <1>3, <1>6, UsableNext DEF SurveyInv, x
<1>8. ASSUME NEW i \in 1..n, i - 1 \in P PROVE i \in P
  <2>1. UsableUpTo(m, i) = UsableUpTo(m, i - 1) \cup Abstract!RegionPages(m[i])
    <3>1. i - 1 \in Nat /\ (i - 1) + 1 = i
      OBVIOUS
    <3> QED
      BY <3>1, UsableNext
  <2>2. SurveyInv(g[i - 1], UsableUpTo(m, i - 1)) /\ i \in 0..n
    BY <1>1, <1>8
  <2>3. SurveyInv(SurveyRegion(g[i - 1], m[i]), UsableUpTo(m, i))
    BY <1>1, <2>1, <2>2, SurveyStep
  <2> QED
    BY <1>6, <2>2, <2>3
<1> HIDE DEF P
<1>9. n \in P
  <2>1. n \in 0..n
    BY <1>1
  <2> QED
    BY <1>1, <1>7, <1>8, <2>1, EveryRound, Zenon
<1> QED
  BY <1>2, <1>9 DEF P

\* The second pass paints the whole pages of a region when the memory end is
\* not below them.
LEMMA PaintStep ==
    ASSUME NEW b \in Bitmap, NEW r \in Region, NEW e \in Nat, e <= BitmapLimit * WordBits,
           Abstract!RegionPages(r) \subseteq 0..(e - 1)
    PROVE  /\ PaintRegion(b, r, e * PageSize) \in Bitmap
           /\ PagesOf(PaintRegion(b, r, e * PageSize)) = PagesOf(b) \cup Abstract!RegionPages(r)
<1> USE PageBitmapAssumption
<1> DEFINE R == Abstract!RegionPages(r)
           ff == FirstPage(r)
           ll == EndPage(r)
           x == (r.start + r.length) \div PageSize
           last == LesserOf(x, e)
           bw == BitmapLimit * WordBits
           c == PaintRegion(b, r, e * PageSize)
<1>1. ff \in Nat /\ ll \in Nat
  BY RegionIs
<1>2. R = IF r.usable THEN ff..(ll - 1) ELSE {}
  BY RegionIs
<1>3. x \in Nat
  <2>1. r.start + r.length \in Nat
    BY DEF Region
  <2> QED
    BY <2>1, DivMod
<1>4. r.usable \in BOOLEAN
  BY DEF Region
<1>5. \A q \in Nat : (q * PageSize) \div PageSize = q
  <2> SUFFICES ASSUME NEW q \in Nat PROVE (q * PageSize) \div PageSize = q
    OBVIOUS
  <2>1. q * PageSize + 0 = q * PageSize /\ 0 \in 0..(PageSize - 1)
    OBVIOUS
  <2> QED
    BY <2>1, DivModUnique
<1>6. AlignUpPage(r.start) \div PageSize = ff
  BY <1>1, <1>5, RegionIs
<1>7. LesserOf(AlignDownPage(r.start + r.length), e * PageSize) \div PageSize = last
  <2>1. AlignDownPage(r.start + r.length) = x * PageSize
    BY DEF AlignDownPage
  <2>2. x < e <=> x * PageSize < e * PageSize
    BY <1>3, TimesOrder
  <2>3. LesserOf(x * PageSize, e * PageSize) = last * PageSize /\ last \in Nat
    BY <1>3, <2>2 DEF LesserOf
  <2> QED
    BY <1>5, <2>1, <2>3
<1>8. c = IF ~r.usable \/ last <= ff THEN b ELSE Paint(b, ff, last)
  BY <1>6, <1>7, Zenon DEF PaintRegion
<1>9. last = (IF x < e THEN x ELSE e) /\ ll = (IF x < bw THEN x ELSE bw)
  BY DEF LesserOf, EndPage
<1>10. bw \in Nat /\ e <= bw /\ R \subseteq 0..(e - 1)
  BY PageIsNat
<1> HIDE DEF R, ff, ll, x, last, bw, c
<1>11. last \in Nat /\ last <= bw
  BY <1>3, <1>9, <1>10
<1>12. r.usable => R = ff..(last - 1)
  BY <1>1, <1>2, <1>3, <1>9, <1>10
<1>13. CASE ~r.usable \/ last <= ff
  <2>1. R = {}
    BY <1>1, <1>2, <1>4, <1>11, <1>12, <1>13
  <2> QED
    BY <1>8, <1>13, <2>1 DEF c, R
<1>14. CASE r.usable /\ ff < last
  <2>1. ~(last <= ff)
    BY <1>1, <1>11, <1>14
  <2>2. c = Paint(b, ff, last)
    BY <1>8, <1>14, <2>1
  <2> QED
    BY <1>1, <1>11, <1>12, <1>14, <2>2, PaintSets DEF c, R, bw
<1> QED
  BY <1>1, <1>4, <1>11, <1>13, <1>14

\* The second pass makes the usable pages of the map free, and no others.
LEMMA PaintMapIs ==
    ASSUME NEW b \in Bitmap, PagesOf(b) = {}, NEW m \in Seq(Region), NEW e \in Nat,
           e <= BitmapLimit * WordBits, Abstract!UsablePages(m) \subseteq 0..(e - 1)
    PROVE  /\ PaintMap(b, m, e * PageSize) \in Bitmap
           /\ PagesOf(PaintMap(b, m, e * PageSize)) = Abstract!UsablePages(m)
<1> DEFINE n == Len(m)
           end == e * PageSize
           Pass(f) == f = [i \in 0..n |-> IF i = 0 THEN b ELSE PaintRegion(f[i - 1], m[i], end)]
           g == CHOOSE f : Pass(f)
<1>1. n \in Nat /\ \A i \in 1..n : m[i] \in Region
  OBVIOUS
<1>2. PaintMap(b, m, end) = g[n] /\ Abstract!UsablePages(m) = UsableUpTo(m, n)
  BY DEF PaintMap, Abstract!UsablePages, UsableUpTo
<1>3. \A i \in 1..n : Abstract!RegionPages(m[i]) \subseteq 0..(e - 1)
  BY DEF Abstract!UsablePages
<1>4. \A i \in 1..n, c \in Bitmap :
        /\ PaintRegion(c, m[i], end) \in Bitmap
        /\ PagesOf(PaintRegion(c, m[i], end)) = PagesOf(c) \cup Abstract!RegionPages(m[i])
  BY <1>1, <1>3, PaintStep
<1> HIDE DEF n, end
<1>5. Pass(g)
  <2> DEFINE step == [a \in (1..n) \X Bitmap |-> PaintRegion(a[2], m[a[1]], end)]
  <2>1. IsStep(step, n, Bitmap)
    BY <1>1, <1>4, SMTT(30) DEF IsStep
  <2>2. \A i \in 1..n, c \in Bitmap : step[<<i, c>>] = PaintRegion(c, m[i], end)
    OBVIOUS
  <2> HIDE DEF step
  <2>3. PICK f : IsRun(f, n, b, step, Bitmap)
    BY <1>1, <2>1, LoopRuns, Zenon
  <2>4. f \in [0..n -> Bitmap] /\ f[0] = b /\ \A i \in 1..n : f[i] = step[<<i, f[i - 1]>>]
    BY <2>3, Zenon DEF IsRun
  <2>5. ASSUME NEW i \in 1..n PROVE f[i] = PaintRegion(f[i - 1], m[i], end)
    <3>1. f[i - 1] \in Bitmap
      BY <1>1, <2>4
    <3> QED
      BY <2>2, <2>4, <3>1, Zenon
  <2>6. \A i \in 0..n : f[i] = IF i = 0 THEN b ELSE PaintRegion(f[i - 1], m[i], end)
    BY <1>1, <2>4, <2>5
  <2>7. Pass(f)
    BY <2>4, <2>6
  <2> QED
    BY <2>7, Zenon
<1> HIDE DEF g
<1>6. g[0] = b /\ \A i \in 1..n : g[i] = PaintRegion(g[i - 1], m[i], end)
  BY <1>1, <1>5
<1> DEFINE P == {i \in 0..n : g[i] \in Bitmap /\ PagesOf(g[i]) = UsableUpTo(m, i)}
<1>7. 0 \in P
  <2>1. 0 \in 0..n
    BY <1>1
  <2>2. UsableUpTo(m, 0) = {}
    BY UsableNext
  <2> QED
    BY <1>6, <2>1, <2>2, Zenon
<1>8. ASSUME NEW i \in 1..n, i - 1 \in P PROVE i \in P
  <2>1. UsableUpTo(m, i) = UsableUpTo(m, i - 1) \cup Abstract!RegionPages(m[i])
    <3>1. i - 1 \in Nat /\ (i - 1) + 1 = i
      OBVIOUS
    <3> QED
      BY <3>1, UsableNext
  <2>2. g[i - 1] \in Bitmap /\ PagesOf(g[i - 1]) = UsableUpTo(m, i - 1) /\ i \in 0..n
    BY <1>1, <1>8
  <2> QED
    BY <1>4, <1>6, <2>1, <2>2, Zenon
<1> HIDE DEF P
<1>9. n \in P
  <2>1. n \in 0..n
    BY <1>1
  <2> QED
    BY <1>1, <1>7, <1>8, <2>1, EveryRound, Zenon
<1> QED
  BY <1>2, <1>9 DEF P, end

-----------------------------------------------------------------------------
(* Counting.                                                                *)

\* Sets of pages can be counted.
LEMMA PagesFinite ==
    ASSUME NEW S \in SUBSET Page
    PROVE  IsFiniteSet(S) /\ Cardinality(S) \in Nat
<1>1. IsFiniteSet(Page)
  BY PageIsNat, FS_Interval DEF Page
<1>2. IsFiniteSet(S)
  BY <1>1, FS_Subset, Zenon
<1> QED
  BY <1>2, FS_CardinalityType

\* The free pages of word w are as many as the 1 bits of the word.
WordPages(b, w) == {p \in PagesOf(b) : w * WordBits <= p /\ p < (w + 1) * WordBits}

\* Words are counted by their bits.
LEMMA WordCount ==
    ASSUME NEW b \in Bitmap, NEW w \in Word
    PROVE  Cardinality(WordPages(b, w)) = Cardinality(b[w]) /\ Cardinality(b[w]) \in Nat
<1> USE PageBitmapAssumption
<1> DEFINE ww == w * WordBits
           S == b[w]
           T == WordPages(b, w)
           f == [k \in S |-> ww + k]
<1>1. S \subseteq Bits /\ w \in Nat /\ ww \in Nat
  BY DEF Bitmap, Word
<1>2. (w + 1) * WordBits = ww + WordBits
  BY <1>1
<1>3. \A k \in S : ww + k \in PagesOf(b)
  BY <1>1, FreeBit
<1>4. ASSUME NEW p \in T PROVE \E k \in S : ww + k = p
  <2>1. p \in PagesOf(b) /\ ww <= p /\ p < ww + WordBits /\ p \in Nat
    BY <1>2, <1>4, PageIsNat DEF WordPages, PagesOf
  <2>2. p - ww \in Bits /\ ww + (p - ww) = p
    BY <1>1, <2>1 DEF Bits
  <2>3. p - ww \in S
    <3> HIDE DEF ww
    <3>1. ww + (p - ww) \in PagesOf(b)
      BY <2>1, <2>2
    <3> QED
      BY <2>2, <3>1, FreeBit DEF ww
  <2> QED
    BY <2>2, <2>3
<1>5. \A k \in S : ww + k \in T
  <2> SUFFICES ASSUME NEW k \in S PROVE ww + k \in T
    OBVIOUS
  <2>1. k \in 0..(WordBits - 1)
    BY <1>1 DEF Bits
  <2>2. ww <= ww + k /\ ww + k < ww + WordBits
    BY <1>1, <2>1
  <2> QED
    BY <1>2, <1>3, <2>2 DEF WordPages
<1>6. IsFiniteSet(Bits)
  BY FS_Interval DEF Bits
<1>7. IsFiniteSet(S)
  BY <1>1, <1>6, FS_Subset, Zenon
<1>8. \A k \in S, l \in S : ww + k = ww + l => k = l
  BY <1>1 DEF Bits
<1> HIDE DEF ww, T, S
<1>9. f \in Bijection(S, T)
  BY <1>4, <1>5, <1>8 DEF Bijection, Injection, IsInjective, Surjection
<1>10. ExistsBijection(S, T)
  BY <1>9 DEF ExistsBijection
<1> QED
  BY <1>7, <1>10, FS_Bijection, FS_CardinalityType DEF S, T

\* The free pages of the words before w.
PagesBefore(b, w) == {p \in PagesOf(b) : p < w * WordBits}

\* What the third pass knows after the first i words.
CountInv(acc, b, i, pages) ==
    /\ acc \in [num : Nat, ipage : Nat]
    /\ acc.num = Cardinality(PagesBefore(b, i))
    /\ acc.ipage <= pages
    /\ acc.ipage <= i * WordBits

\* One word of the third pass: the cut at the pages left counts no bit away,
\* because no bit behind page_count_ is 1.
LEMMA CountStep ==
    ASSUME NEW b \in Bitmap, NEW w \in Word, NEW pages \in Nat, PagesOf(b) \subseteq 0..(pages - 1),
           NEW acc, CountInv(acc, b, w, pages)
    PROVE  CountInv(CountWord(acc, b[w], pages), b, w + 1, pages)
<1> USE PageBitmapAssumption
<1> DEFINE ww == w * WordBits
           taken == LesserOf(WordBits, pages - acc.ipage)
           A == PagesBefore(b, w)
           B == WordPages(b, w)
           C == PagesBefore(b, w + 1)
           new == CountWord(acc, b[w], pages)
<1>1. w \in Nat /\ ww \in Nat /\ (w + 1) * WordBits = ww + WordBits /\ b[w] \subseteq Bits
  BY DEF Word, Bitmap
<1>2. acc.num \in Nat /\ acc.ipage \in Nat /\ acc.num = Cardinality(A) /\ acc.ipage <= pages
      /\ acc.ipage <= ww
  BY DEF CountInv
<1>3. C = A \cup B /\ A \cap B = {} /\ A \subseteq Page /\ B \subseteq Page
  <2> HIDE DEF ww
  <2>1. A = {p \in PagesOf(b) : p < ww}
    BY DEF PagesBefore, ww
  <2>2. B = {p \in PagesOf(b) : ww <= p /\ p < ww + WordBits}
    BY <1>1 DEF WordPages, ww
  <2>3. C = {p \in PagesOf(b) : p < ww + WordBits}
    BY <1>1 DEF PagesBefore
  <2>4. PagesOf(b) \subseteq Page /\ PagesOf(b) \subseteq Nat
    BY PageIsNat DEF PagesOf
  <2> HIDE DEF A, B, C
  <2> QED
    BY <1>1, <2>1, <2>2, <2>3, <2>4
<1>4. Cardinality(C) = Cardinality(A) + Cardinality(b[w]) /\ Cardinality(b[w]) \in Nat
  <2>1. IsFiniteSet(A) /\ IsFiniteSet(B) /\ Cardinality(A) \in Nat
    BY <1>3, PagesFinite
  <2>2. Cardinality(A \cup B) = Cardinality(A) + Cardinality(B) - Cardinality(A \cap B)
    BY <2>1, FS_Union, Zenon
  <2>3. Cardinality(A \cap B) = 0
    BY <1>3, FS_EmptySet, Zenon
  <2>4. Cardinality(B) = Cardinality(b[w]) /\ Cardinality(b[w]) \in Nat
    BY WordCount
  <2> HIDE DEF A, B, C
  <2> QED
    BY <1>3, <2>1, <2>2, <2>3, <2>4
<1>5. {k \in b[w] : k < taken} = b[w]
  <2> SUFFICES ASSUME NEW k \in b[w] PROVE k < taken
    OBVIOUS
  <2>1. ww + k \in PagesOf(b) /\ k \in 0..(WordBits - 1)
    BY <1>1, FreeBit DEF Bits
  <2> HIDE DEF ww
  <2>2. ww + k < pages
    BY <1>1, <2>1
  <2> QED
    BY <1>1, <1>2, <2>1, <2>2 DEF LesserOf
<1>6. taken \in Nat /\ taken <= WordBits /\ taken <= pages - acc.ipage
  BY <1>2 DEF LesserOf
<1>7. new = IF b[w] = {} THEN acc
            ELSE [num |-> acc.num + Cardinality(b[w]), ipage |-> acc.ipage + taken]
  BY <1>5, Zenon DEF CountWord
<1>8. b[w] = {} => Cardinality(b[w]) = 0
  BY FS_EmptySet
<1> HIDE DEF taken, A, B, C, new, ww
<1>9. CASE b[w] = {}
  <2>1. new = acc /\ acc.num = Cardinality(C) /\ acc.ipage <= ww + WordBits
    BY <1>1, <1>2, <1>4, <1>7, <1>8, <1>9
  <2> QED
    BY <1>1, <1>2, <2>1 DEF CountInv, C, new
<1>10. CASE b[w] # {}
  <2>1. new = [num |-> acc.num + Cardinality(b[w]), ipage |-> acc.ipage + taken]
    BY <1>7, <1>10
  <2>2. new.num = acc.num + Cardinality(b[w]) /\ new.ipage = acc.ipage + taken
    BY <2>1
  <2>3. new.num = Cardinality(C) /\ new.num \in Nat /\ new.ipage \in Nat /\ new.ipage <= pages
        /\ new.ipage <= ww + WordBits
    BY <1>1, <1>2, <1>4, <1>6, <2>2, SMTT(30)
  <2>4. new \in [num : Nat, ipage : Nat]
    BY <2>1, <2>2, <2>3
  <2> QED
    BY <1>1, <2>3, <2>4 DEF CountInv, C, new
<1> QED
  BY <1>9, <1>10

\* The third pass counts the free pages, although it takes ipage for the
\* position only until the first zero word.
LEMMA CountIs ==
    ASSUME NEW b \in Bitmap, NEW size \in 0..BitmapLimit, NEW pages \in Nat,
           PagesOf(b) \subseteq 0..(pages - 1), pages <= size * WordBits
    PROVE  CountFree(b, size, pages) = Cardinality(PagesOf(b))
<1> USE PageBitmapAssumption
<1> DEFINE x == [num |-> 0, ipage |-> 0]
           S == {acc \in [num : Nat, ipage : Nat] : acc.ipage <= pages}
           Pass(f) == f = [i \in 0..size |-> IF i = 0 THEN x ELSE CountWord(f[i - 1], b[i - 1], pages)]
           g == CHOOSE f : Pass(f)
<1>1. size \in Nat /\ \A i \in 1..size : i - 1 \in Word
  BY DEF Word
<1>2. CountFree(b, size, pages) = g[size].num
  BY DEF CountFree
<1>3. x \in S
  OBVIOUS
<1>4. ASSUME NEW acc \in S, NEW w \in Word PROVE CountWord(acc, b[w], pages) \in S
  <2> DEFINE taken == LesserOf(WordBits, pages - acc.ipage)
             T == {k \in b[w] : k < taken}
             new == CountWord(acc, b[w], pages)
  <2>1. acc.num \in Nat /\ acc.ipage \in Nat /\ acc.ipage <= pages
    OBVIOUS
  <2>2. taken \in Nat /\ acc.ipage + taken <= pages
    BY <2>1 DEF LesserOf
  <2>3. T \subseteq Bits
    BY DEF Bitmap
  <2>4. IsFiniteSet(Bits)
    BY FS_Interval DEF Bits
  <2>5. IsFiniteSet(T)
    BY <2>3, <2>4, FS_Subset, Zenon
  <2>6. Cardinality(T) \in Nat
    BY <2>5, FS_CardinalityType
  <2>7. new = IF b[w] = {} THEN acc ELSE [num |-> acc.num + Cardinality(T), ipage |-> acc.ipage + taken]
    BY Zenon DEF CountWord
  <2> HIDE DEF taken, T, new
  <2>8. new \in S
    BY <2>1, <2>2, <2>6, <2>7
  <2> QED
    BY <2>8 DEF new
<1> HIDE DEF x, S
<1>5. Pass(g)
  <2> DEFINE step == [a \in (1..size) \X S |-> CountWord(a[2], b[a[1] - 1], pages)]
  <2>1. IsStep(step, size, S)
    BY <1>1, <1>4 DEF IsStep
  <2>2. \A i \in 1..size, acc \in S : step[<<i, acc>>] = CountWord(acc, b[i - 1], pages)
    OBVIOUS
  <2> HIDE DEF step
  <2>3. PICK f : IsRun(f, size, x, step, S)
    BY <1>1, <1>3, <2>1, LoopRuns, Zenon
  <2>4. f \in [0..size -> S] /\ f[0] = x /\ \A i \in 1..size : f[i] = step[<<i, f[i - 1]>>]
    BY <2>3, Zenon DEF IsRun
  <2>5. ASSUME NEW i \in 1..size PROVE f[i] = CountWord(f[i - 1], b[i - 1], pages)
    <3>1. f[i - 1] \in S
      BY <1>1, <2>4
    <3> QED
      BY <2>2, <2>4, <3>1, Zenon
  <2>6. \A i \in 0..size : f[i] = IF i = 0 THEN x ELSE CountWord(f[i - 1], b[i - 1], pages)
    BY <1>1, <2>4, <2>5
  <2>7. Pass(f)
    BY <2>4, <2>6, Zenon
  <2> QED
    BY <2>7, Zenon
<1> HIDE DEF g
<1>6. g[0] = x /\ \A i \in 1..size : g[i] = CountWord(g[i - 1], b[i - 1], pages)
  BY <1>1, <1>5
<1> DEFINE P == {i \in 0..size : CountInv(g[i], b, i, pages)}
<1>7. 0 \in P
  <2>1. PagesBefore(b, 0) = {}
    BY PageIsNat DEF PagesBefore, PagesOf
  <2>2. Cardinality(PagesBefore(b, 0)) = 0
    BY <2>1, FS_EmptySet, Zenon
  <2> QED
    BY <1>1, <1>6, <2>2 DEF CountInv, x
<1>8. ASSUME NEW i \in 1..size, i - 1 \in P PROVE i \in P
  <2>1. CountInv(g[i - 1], b, i - 1, pages) /\ i \in 0..size /\ (i - 1) + 1 = i
    BY <1>1, <1>8
  <2>2. CountInv(CountWord(g[i - 1], b[i - 1], pages), b, (i - 1) + 1, pages)
    BY <1>1, <2>1, CountStep
  <2> QED
    BY <1>6, <2>1, <2>2
<1> HIDE DEF P
<1>9. size \in P
  <2>1. size \in 0..size
    BY <1>1
  <2> QED
    BY <1>1, <1>7, <1>8, <2>1, EveryRound, Zenon
<1>10. PagesBefore(b, size) = PagesOf(b)
  <2> DEFINE sw == size * WordBits
  <2>1. sw \in Nat /\ pages <= sw /\ PagesBefore(b, size) = {p \in PagesOf(b) : p < sw}
    BY <1>1 DEF PagesBefore
  <2> HIDE DEF sw
  <2> QED
    BY <2>1
<1> QED
  BY <1>2, <1>9, <1>10 DEF P, CountInv

\* mark_busy_counted() over a set of pages takes the free ones among them out
\* of the bitmap, and their number off the count.
LEMMA MarkIs ==
    ASSUME NEW b \in Bitmap, NEW S \in SUBSET Page
    PROVE  LET marked == MarkBusyCounted(b, Cardinality(PagesOf(b)), S)
           IN  /\ marked.bitmap \in Bitmap
               /\ PagesOf(marked.bitmap) = PagesOf(b) \ S
               /\ marked.count = Cardinality(PagesOf(b) \ S)
               /\ marked.count = Cardinality(PagesOf(b)) - Cardinality(PagesOf(b) \cap S)
<1> DEFINE F == PagesOf(b)
           hit == {p \in S : IsFree(b, p)}
           c == [w \in DOMAIN b |-> {k \in b[w] : w * WordBits + k \notin hit}]
           marked == MarkBusyCounted(b, Cardinality(F), S)
<1>1. hit = F \cap S
  BY DEF PagesOf
<1>2. marked = [bitmap |-> c, count |-> GreaterOf(0, Cardinality(F) - Cardinality(hit))]
  BY Zenon DEF MarkBusyCounted
<1>3. marked.bitmap = c /\ marked.count = GreaterOf(0, Cardinality(F) - Cardinality(hit))
  BY <1>2
<1>4. c \in Bitmap
  BY DEF Bitmap
<1>5. \A w \in Word, k \in Bits : k \in c[w] <=> k \in b[w] /\ w * WordBits + k \notin hit
  BY DEF Bitmap
<1> HIDE DEF hit, c
<1>6. PagesOf(c) = F \ hit
  BY <1>4, <1>5, BitsRemoved, Zenon
<1>7. F \ hit = F \ S
  BY <1>1
<1>8. IsFiniteSet(F) /\ Cardinality(F) \in Nat
  BY PagesFinite DEF PagesOf
<1>9. IsFiniteSet(F \ S) /\ Cardinality(F \ S) = Cardinality(F) - Cardinality(F \cap S)
  BY <1>8, FS_Difference, Zenon
<1>10. Cardinality(F \ S) \in Nat
  BY <1>9, FS_CardinalityType
<1>11. IsFiniteSet(F \cap S)
  BY <1>8, FS_Subset
<1>12. Cardinality(F \cap S) \in Nat
  BY <1>11, FS_CardinalityType
<1> HIDE DEF F, marked
<1>13. marked.count = Cardinality(F) - Cardinality(F \cap S)
  BY <1>1, <1>3, <1>8, <1>9, <1>10, <1>12 DEF GreaterOf
<1> QED
  BY <1>3, <1>4, <1>6, <1>7, <1>9, <1>13 DEF marked, F

-----------------------------------------------------------------------------
(* The scan for a run.                                                      *)

Scanned == [start : 0..pageCount, hit : BOOLEAN]

RunAt(s, n) == \A p \in s..(s + n - 1) : IsFree(bitmap, p)

\* A run that is still growing begins behind a busy page.
Behind(s) == s = 0 \/ ~IsFree(bitmap, s - 1)

\* What the scan knows after the first i pages: it has the lowest run, or
\* there is none in these pages and it knows where the last free stretch began.
ScanInv(acc, i, n) ==
    /\ acc \in Scanned
    /\ acc.hit => /\ acc.start + n <= i
                  /\ RunAt(acc.start, n)
                  /\ \A s \in Nat : s < acc.start => ~RunAt(s, n)
    /\ ~acc.hit => /\ \A s \in Nat : s + n <= i => ~RunAt(s, n)
                   /\ \/ acc.start = pageCount /\ Behind(i)
                      \/ /\ acc.start < i /\ i - acc.start < n
                         /\ \A p \in acc.start..(i - 1) : IsFree(bitmap, p)
                         /\ Behind(acc.start)

\* One page of the scan.
LEMMA ScanStep ==
    ASSUME pageCount \in Nat, NEW n \in Nat, n > 0, NEW i \in 0..(pageCount - 1),
           NEW acc, ScanInv(acc, i, n)
    PROVE  ScanInv(ScanPage(acc, i, n), i + 1, n)
<1> DEFINE st == IF acc.start = pageCount THEN i ELSE acc.start
           new == ScanPage(acc, i, n)
<1>1. acc.start \in 0..pageCount /\ acc.hit \in BOOLEAN
  BY DEF ScanInv, Scanned
<1>2. new = IF acc.hit THEN acc
            ELSE IF IsFree(bitmap, i) THEN [start |-> st, hit |-> i - st + 1 = n]
            ELSE [start |-> pageCount, hit |-> FALSE]
  BY Zenon DEF ScanPage
<1> HIDE DEF new
<1>3. CASE acc.hit
  BY <1>1, <1>2, <1>3 DEF ScanInv, new
<1>4. CASE ~acc.hit /\ ~IsFree(bitmap, i)
  <2>1. new = [start |-> pageCount, hit |-> FALSE]
    BY <1>2, <1>4
  <2>2. new \in Scanned /\ new.start = pageCount /\ ~new.hit
    BY <2>1 DEF Scanned
  <2>3. Behind(i + 1)
    BY <1>4 DEF Behind
  <2>4. ASSUME NEW s \in Nat, s + n <= i + 1 PROVE ~RunAt(s, n)
    <3>1. CASE s + n <= i
      BY <1>4, <3>1 DEF ScanInv
    <3>2. CASE s + n = i + 1
      <4>1. i \in s..(s + n - 1)
        BY <3>2
      <4> QED
        BY <1>4, <4>1 DEF RunAt
    <3> QED
      BY <2>4, <3>1, <3>2
  <2> QED
    BY <2>2, <2>3, <2>4 DEF ScanInv, new
<1>5. CASE ~acc.hit /\ IsFree(bitmap, i)
  <2>1. /\ st \in 0..i /\ i - st < n
        /\ \A p \in st..i : IsFree(bitmap, p)
        /\ Behind(st)
    <3>1. CASE acc.start = pageCount /\ Behind(i)
      BY <1>5, <3>1
    <3>2. CASE /\ acc.start < i /\ i - acc.start < n
               /\ \A p \in acc.start..(i - 1) : IsFree(bitmap, p)
               /\ Behind(acc.start)
      <4>1. st = acc.start
        BY <1>1, <3>2
      <4> QED
        BY <1>1, <1>5, <3>2, <4>1
    <3> QED
      BY <1>5, <3>1, <3>2 DEF ScanInv
  <2>2. \A s \in Nat : s + n <= i => ~RunAt(s, n)
    BY <1>5 DEF ScanInv
  <2>3. new = [start |-> st, hit |-> i - st + 1 = n]
    BY <1>2, <1>5
  <2> HIDE DEF st
  <2>4. new \in Scanned /\ new.start = st /\ (new.hit <=> i - st + 1 = n)
    <3> DEFINE h == i - st + 1 = n
    <3>1. h \in BOOLEAN /\ st \in 0..pageCount
      BY <2>1
    <3>2. new = [start |-> st, hit |-> h]
      BY <2>3
    <3> HIDE DEF h
    <3>3. new \in Scanned /\ new.start = st /\ new.hit = h
      BY <3>1, <3>2 DEF Scanned
    <3> QED
      BY <3>3, Zenon DEF h
  <2>5. ASSUME NEW s \in Nat, s < st, s + n > i PROVE ~RunAt(s, n)
    <3>1. st - 1 \in s..(s + n - 1) /\ st # 0
      BY <2>1, <2>5
    <3> QED
      BY <2>1, <3>1 DEF RunAt, Behind
  <2>6. CASE i - st + 1 = n
    <3>1. st + n <= i + 1
      BY <2>1, <2>6
    <3>2. RunAt(st, n)
      <4>1. st + n - 1 = i
        BY <2>1, <2>6
      <4> QED
        BY <2>1, <4>1 DEF RunAt
    <3>3. \A s \in Nat : s < st => ~RunAt(s, n)
      BY <2>1, <2>2, <2>5
    <3> QED
      BY <2>4, <2>6, <3>1, <3>2, <3>3 DEF ScanInv, new
  <2>7. CASE i - st + 1 # n
    <3>1. \A s \in Nat : s + n <= i + 1 => ~RunAt(s, n)
      <4> SUFFICES ASSUME NEW s \in Nat, s + n <= i + 1 PROVE ~RunAt(s, n)
        OBVIOUS
      <4>1. s + n <= i \/ (s < st /\ s + n > i)
        BY <2>1, <2>7
      <4> QED
        BY <2>2, <2>5, <4>1
    <3>2. st < i + 1 /\ (i + 1) - st < n /\ (i + 1) - 1 = i
      BY <2>1, <2>7
    <3> QED
      BY <2>1, <2>4, <2>7, <3>1, <3>2 DEF ScanInv, new
  <2> QED
    BY <2>6, <2>7
<1> QED
  BY <1>1, <1>3, <1>4, <1>5

\* allocate(address, count) finds the lowest run, or there is none.
LEMMA ScanIs ==
    ASSUME pageCount \in Nat, NEW n \in Nat, n > 0
    PROVE  ScanInv(ScanRun(n), pageCount, n)
<1> DEFINE x == [start |-> pageCount, hit |-> FALSE]
           Pass(f) == f = [i \in 0..pageCount |-> IF i = 0 THEN x ELSE ScanPage(f[i - 1], i - 1, n)]
           g == CHOOSE f : Pass(f)
<1>1. \A i \in 1..pageCount : i - 1 \in 0..(pageCount - 1) /\ i - 1 \in 0..pageCount /\ (i - 1) + 1 = i
  OBVIOUS
<1>2. ScanRun(n) = g[pageCount]
  BY DEF ScanRun
<1>3. x \in Scanned
  BY DEF Scanned
<1>4. ASSUME NEW acc \in Scanned, NEW i \in 0..(pageCount - 1) PROVE ScanPage(acc, i, n) \in Scanned
  BY DEF Scanned, ScanPage
<1> HIDE DEF x
<1>5. Pass(g)
  <2> DEFINE step == [a \in (1..pageCount) \X Scanned |-> ScanPage(a[2], a[1] - 1, n)]
  <2>1. IsStep(step, pageCount, Scanned)
    BY <1>1, <1>4 DEF IsStep
  <2>2. \A i \in 1..pageCount, acc \in Scanned : step[<<i, acc>>] = ScanPage(acc, i - 1, n)
    OBVIOUS
  <2> HIDE DEF step
  <2>3. PICK f : IsRun(f, pageCount, x, step, Scanned)
    BY <1>3, <2>1, LoopRuns, Zenon
  <2>4. /\ f \in [0..pageCount -> Scanned] /\ f[0] = x
        /\ \A i \in 1..pageCount : f[i] = step[<<i, f[i - 1]>>]
    BY <2>3, Zenon DEF IsRun
  <2>5. ASSUME NEW i \in 1..pageCount PROVE f[i] = ScanPage(f[i - 1], i - 1, n)
    <3>1. f[i - 1] \in Scanned
      BY <1>1, <2>4
    <3> QED
      BY <2>2, <2>4, <3>1, Zenon
  <2>6. \A i \in 0..pageCount : f[i] = IF i = 0 THEN x ELSE ScanPage(f[i - 1], i - 1, n)
    BY <2>4, <2>5
  <2>7. Pass(f)
    BY <2>4, <2>6
  <2> QED
    BY <2>7, Zenon
<1> HIDE DEF g
<1>6. g[0] = x /\ \A i \in 1..pageCount : g[i] = ScanPage(g[i - 1], i - 1, n)
  BY <1>5
<1> DEFINE P == {i \in 0..pageCount : ScanInv(g[i], i, n)}
<1>7. 0 \in P
  BY <1>3, <1>6 DEF ScanInv, Behind, x
<1>8. ASSUME NEW i \in 1..pageCount, i - 1 \in P PROVE i \in P
  <2>1. ScanInv(g[i - 1], i - 1, n) /\ i \in 0..pageCount
    BY <1>8
  <2>2. ScanInv(ScanPage(g[i - 1], i - 1, n), (i - 1) + 1, n)
    BY <1>1, <2>1, ScanStep
  <2> QED
    BY <1>1, <1>6, <2>1, <2>2
<1> HIDE DEF P
<1>9. pageCount \in P
  <2>1. pageCount \in 0..pageCount
    OBVIOUS
  <2> QED
    BY <1>7, <1>8, <2>1, EveryRound, Zenon
<1> QED
  BY <1>2, <1>9 DEF P

-----------------------------------------------------------------------------
(* The inductive invariant.                                                 *)

\* The bitmap has the free pages and no bit behind page_count_; the counter is
\* exact; pages in circulation are usable ones.
Inv ==
    /\ TypeOK
    /\ bootMap \in BootMaps
    /\ freeCount = Cardinality(PagesOf(bitmap))
    /\ ~initialized => /\ pageCount = 0 /\ bitmapSize = 0 /\ PagesOf(bitmap) = {}
                       /\ held = {}
    /\ PagesOf(bitmap) \subseteq 0..(pageCount - 1)
    /\ pageCount <= bitmapSize * WordBits
    /\ initialized => memoryEnd = pageCount * PageSize
    /\ PagesOf(bitmap) \cup held \subseteq Abstract!UsablePages(bootMap)
    /\ RefusalJustified

\* The set the contract calls free.
LEMMA FreePagesIs ==
    ASSUME Inv
    PROVE  FreePages = PagesOf(bitmap)
<1> USE PageBitmapAssumption
<1> DEFINE sw == bitmapSize * WordBits
           bw == BitmapLimit * WordBits
<1>1. sw \in Nat /\ bw \in Nat /\ sw <= bw
  <2>1. bitmapSize \in Nat /\ bitmapSize <= BitmapLimit
    BY DEF Inv, TypeOK
  <2> QED
    BY <2>1, TimesOrder
<1>2. PagesOf(bitmap) \subseteq 0..(pageCount - 1) /\ pageCount <= sw /\ pageCount \in Nat
  BY DEF Inv, TypeOK
<1>3. /\ FreePages = {p \in 0..(sw - 1) : IsFree(bitmap, p)}
      /\ PagesOf(bitmap) = {p \in 0..(bw - 1) : IsFree(bitmap, p)}
  BY DEF FreePages, PagesOf, Page
<1> HIDE DEF sw, bw
<1> QED
  BY <1>1, <1>2, <1>3

\* Before initialize() there is no free page.
LEMMA InitInv == Init => Inv
<1> SUFFICES ASSUME Init PROVE Inv
  OBVIOUS
<1> USE PageBitmapAssumption
<1>1. PagesOf(bitmap) = {}
  <2> SUFFICES ASSUME NEW p \in Page PROVE ~IsFree(bitmap, p)
    BY DEF PagesOf
  <2>1. p \div WordBits \in Word
    BY BitOfPage
  <2> QED
    BY <2>1, Zenon DEF Init, IsFree, Word
<1>2. bitmap \in [0..(BitmapLimit - 1) -> SUBSET Bits]
  BY DEF Init
<1>3. TypeOK
  BY <1>2 DEF Init, TypeOK
<1>4. Cardinality({}) = 0
  BY FS_EmptySet
<1>5. RefusalJustified
  BY DEF Init, RefusalJustified
<1>6. pageCount = 0 /\ bitmapSize = 0 /\ held = {} /\ freeCount = 0 /\ ~initialized
      /\ bootMap \in BootMaps
  BY DEF Init
<1>7. pageCount <= bitmapSize * WordBits
  BY <1>6
<1> QED
  BY <1>1, <1>3, <1>4, <1>5, <1>6, <1>7 DEF Inv

\* A usable page is a page of memory, byte by byte.
LEMMA UsableIsRam == Inv => PagesAreUsableRam
<1> SUFFICES ASSUME Inv, initialized,
                    NEW p \in FreePages \cup held,
                    NEW a \in (p * PageSize)..((p + 1) * PageSize - 1)
             PROVE  \E i \in DOMAIN bootMap : /\ bootMap[i].usable
                                               /\ bootMap[i].start <= a
                                               /\ a < bootMap[i].start + bootMap[i].length
  BY DEF PagesAreUsableRam
<1> USE PageBitmapAssumption
<1>1. p \in Abstract!UsablePages(bootMap)
  BY FreePagesIs DEF Inv
<1>2. bootMap \in Seq(Region)
  BY DEF Inv
<1>3. PICK i \in 1..Len(bootMap) : p \in Abstract!RegionPages(bootMap[i])
  BY <1>1 DEF Abstract!UsablePages
<1> DEFINE r == bootMap[i]
           ff == (r.start + PageSize - 1) \div PageSize
           x == (r.start + r.length) \div PageSize
<1>4. r \in Region /\ i \in DOMAIN bootMap
  BY <1>2
<1>5. p \in Page /\ r.usable /\ ff <= p /\ p < x
  BY <1>3 DEF Abstract!RegionPages, Abstract!AlignUpPage, Abstract!AlignDownPage, Page
<1> HIDE DEF r
<1>6. r.start \in Nat /\ r.length \in Nat
  BY <1>4 DEF Region
<1>7. p \in Nat
  BY <1>5, PageIsNat
<1>8. r.start <= p * PageSize
  <2> DEFINE d == r.start + PageSize - 1
             fp == ff * PageSize
             pp == p * PageSize
             dm == d % PageSize
  <2>1. d \in Nat
    BY <1>6
  <2>2. d = fp + dm /\ dm \in 0..(PageSize - 1) /\ ff \in Nat
    BY <2>1, DivMod, Zenon
  <2>3. fp <= pp /\ fp \in Nat /\ pp \in Nat
    BY <1>5, <1>7, <2>2, TimesOrder, Zenon
  <2> HIDE DEF fp, pp, dm, ff
  <2>4. r.start <= pp
    BY <1>6, <2>2, <2>3
  <2> QED
    BY <2>4 DEF pp
<1>9. (p + 1) * PageSize <= r.start + r.length
  <2> DEFINE d == r.start + r.length
             xp == x * PageSize
             pp == (p + 1) * PageSize
             dm == d % PageSize
  <2>1. d \in Nat
    BY <1>6
  <2>2. d = xp + dm /\ dm \in 0..(PageSize - 1) /\ x \in Nat
    BY <2>1, DivMod, Zenon
  <2>3. p + 1 <= x /\ p + 1 \in Nat
    BY <1>5, <1>7, <2>2
  <2>4. pp <= xp /\ xp \in Nat /\ pp \in Nat
    BY <1>7, <2>2, <2>3, TimesOrder, Zenon
  <2> HIDE DEF xp, pp, dm, x, d
  <2>5. pp <= d
    BY <2>1, <2>2, <2>4
  <2> QED
    BY <2>5 DEF pp, d
<1>10. p * PageSize \in Nat /\ (p + 1) * PageSize \in Nat
  BY <1>7
<1>11. r.start <= a /\ a < r.start + r.length
  <2> DEFINE u == p * PageSize
             v == (p + 1) * PageSize
  <2>1. a \in u..(v - 1)
    OBVIOUS
  <2> HIDE DEF u, v
  <2> QED
    BY <1>6, <1>8, <1>9, <1>10, <2>1 DEF u, v
<1> QED
  BY <1>4, <1>5, <1>11 DEF r

-----------------------------------------------------------------------------
(* initialize().                                                            *)

\* The same after a step.
LEMMA FreePagesNext == Inv' => (FreePages = PagesOf(bitmap))'
  BY FreePagesIs, PTL

\* The contract counts as the code does.
LEMMA SameCardinality == \A S : Abstract!Cardinality(S) = Cardinality(S)
  BY Zenon DEF Abstract!Cardinality, Cardinality

\* bitmap_size_ words hold page_count_ pages and fit into the bitmap.
LEMMA SizeIs ==
    ASSUME NEW pages \in Nat, pages <= BitmapLimit * WordBits
    PROVE  LET size == (pages + WordBits - 1) \div WordBits
           IN  size \in 0..BitmapLimit /\ pages <= size * WordBits
<1> USE PageBitmapAssumption
<1> DEFINE d == pages + WordBits - 1
           size == d \div WordBits
           r == d % WordBits
           sw == size * WordBits
           bw == BitmapLimit * WordBits
           cw == (BitmapLimit + 1) * WordBits
<1>1. d \in Nat
  OBVIOUS
<1>2. d = sw + r /\ r \in 0..(WordBits - 1) /\ size \in Nat
  BY <1>1, DivMod, Zenon
<1>3. sw \in Nat /\ bw \in Nat /\ cw = bw + WordBits
  BY <1>2
<1>4. d = pages + WordBits - 1 /\ pages <= bw
  OBVIOUS
<1> HIDE DEF d, size, r
<1>5. size < BitmapLimit + 1 <=> sw < cw
  BY <1>2, TimesOrder
<1> HIDE DEF sw, bw, cw
<1>6. pages <= sw /\ sw < cw
  BY <1>2, <1>3, <1>4
<1>7. size \in 0..BitmapLimit
  BY <1>2, <1>5, <1>6
<1> QED
  BY <1>6, <1>7 DEF sw, size, d

\* initialize() builds the bitmap the contract asks for, or refuses without
\* having changed what the contract sees.
LEMMA InitializeStep ==
    ASSUME Inv, Initialize
    PROVE  Inv' /\ (Abstract!Initialize \/ UNCHANGED Abstract!vars)
<1> USE PageBitmapAssumption
<1> DEFINE U == Abstract!UsablePages(bootMap)
           survey == Survey(bootMap)
           pages == survey.end \div PageSize
           size == (pages + WordBits - 1) \div WordBits
           blank == [w \in DOMAIN bitmap |-> IF w < size THEN {} ELSE bitmap[w]]
           painted == PaintMap(blank, bootMap, survey.end)
           low == {p \in BootReserved : p < pages}
           marked == MarkBusyCounted(painted, CountFree(painted, size, pages), low)
<1>1. /\ ~initialized /\ memoryEnd' = survey.end
      /\ IF survey.size > 0 /\ survey.end > 0
         THEN /\ pageCount' = pages
              /\ bitmapSize' = size
              /\ IF size <= BitmapLimit
                 THEN /\ initialized' = TRUE
                      /\ bitmap' = marked.bitmap
                      /\ freeCount' = marked.count
                      /\ pinned' = BootReserved
                 ELSE UNCHANGED <<initialized, bitmap, freeCount, pinned>>
         ELSE UNCHANGED <<initialized, pageCount, bitmap, bitmapSize, freeCount, pinned>>
      /\ refused' = 0
      /\ UNCHANGED <<held, bootMap>>
  BY Zenon DEF Initialize
<1>2. bootMap \in Seq(Region)
  BY DEF Inv
<1>3. SurveyInv(survey, U)
  BY <1>2, SurveyIs
<1>4. survey.size \in Nat /\ survey.end \in Nat /\ U \subseteq Page
  BY <1>3, SMTT(30) DEF SurveyInv, Surveyed
<1>5. bitmap \in Bitmap /\ PagesOf(bitmap) = {} /\ held = {}
  BY <1>1 DEF Inv, TypeOK, Bitmap, Word
<1> HIDE DEF U, survey, painted
<1>6. CASE survey.size = 0 /\ survey.end = 0 /\ U = {}
  <2>1. UNCHANGED <<initialized, pageCount, bitmap, bitmapSize, freeCount, pinned, held, bootMap>>
        /\ memoryEnd' = 0 /\ refused' = 0
    BY <1>1, <1>6
  <2>2. UNCHANGED FreePages
    BY <2>1 DEF FreePages
  <2>3. UNCHANGED Abstract!vars
    BY <2>1, <2>2 DEF Abstract!vars
  <2>4. Inv'
    BY <1>1, <2>1 DEF Inv, TypeOK, RefusalJustified, PagesOf, IsFree
  <2> QED
    BY <2>3, <2>4
<1>7. CASE /\ survey.size > 0
           /\ \E last \in U : survey.end = (last + 1) * PageSize /\ \A p \in U : p <= last
  <2>1. PICK last \in U : survey.end = (last + 1) * PageSize /\ \A p \in U : p <= last
    BY <1>7
  <2>2. last \in Nat /\ last + 1 \in Nat /\ last + 1 <= BitmapLimit * WordBits
    BY <1>4, PageIsNat DEF Page
  <2>3. pages = last + 1
    <3>1. (last + 1) * PageSize + 0 = (last + 1) * PageSize /\ 0 \in 0..(PageSize - 1)
      BY <2>2
    <3> QED
      BY <2>1, <2>2, <3>1, DivModUnique
  <2>4. size \in 0..BitmapLimit /\ pages <= size * WordBits /\ pages \in Nat
    BY <2>2, <2>3, SizeIs, Zenon
  <2>5. survey.end = pages * PageSize /\ survey.end > 0
    <3>1. 0 * PageSize < (last + 1) * PageSize
      BY <2>2, TimesOrder
    <3> QED
      BY <1>4, <2>1, <2>3, <3>1
  <2>6. U \subseteq 0..(pages - 1)
    BY <1>4, <2>1, <2>2, <2>3, PageIsNat
  <2>7. pages <= BitmapLimit * WordBits
    BY <2>2, <2>3
  <2> HIDE DEF pages, size
  <2>8. blank \in Bitmap /\ PagesOf(blank) = {}
    <3>1. blank \in Bitmap
      BY <1>5 DEF Bitmap
    <3>2. \A w \in Word, k \in Bits : k \in blank[w] => k \in bitmap[w]
      BY <1>5 DEF Bitmap
    <3> HIDE DEF blank
    <3>3. ASSUME NEW p \in PagesOf(blank) PROVE p \in PagesOf(bitmap)
      <4>1. p \in Page /\ (p % WordBits) \in blank[p \div WordBits]
        BY DEF PagesOf, IsFree
      <4>2. p \div WordBits \in Word /\ p % WordBits \in Bits
        BY <4>1, BitOfPage
      <4>3. (p % WordBits) \in bitmap[p \div WordBits]
        BY <3>2, <4>1, <4>2, Zenon
      <4> QED
        BY <4>1, <4>3, Zenon DEF PagesOf, IsFree
    <3> QED
      BY <1>5, <3>1, <3>3
  <2> HIDE DEF blank
  <2>9. painted \in Bitmap /\ PagesOf(painted) = U
    <3>1. painted = PaintMap(blank, bootMap, pages * PageSize)
      BY <2>5 DEF painted
    <3>2. Abstract!UsablePages(bootMap) \subseteq 0..(pages - 1)
      BY <2>6 DEF U
    <3>3. /\ PaintMap(blank, bootMap, pages * PageSize) \in Bitmap
          /\ PagesOf(PaintMap(blank, bootMap, pages * PageSize)) = Abstract!UsablePages(bootMap)
      BY <1>2, <2>4, <2>7, <2>8, <3>2, PaintMapIs, Zenon
    <3> QED
      BY <3>1, <3>3 DEF U
  <2>10. CountFree(painted, size, pages) = Cardinality(PagesOf(painted))
    BY <2>4, <2>6, <2>9, CountIs, Zenon
  <2>11. low \in SUBSET Page
    <3> DEFINE bw == BitmapLimit * WordBits
    <3>1. bw \in Nat /\ pages <= bw /\ Page = 0..(bw - 1) /\ BootReserved \subseteq Nat
      BY <2>7, PageIsNat DEF Page
    <3> HIDE DEF bw
    <3>2. ASSUME NEW p \in BootReserved, p < pages PROVE p \in Page
      BY <2>4, <3>1, <3>2
    <3> QED
      BY <3>2, Zenon
  <2>12. /\ marked.bitmap \in Bitmap
         /\ PagesOf(marked.bitmap) = U \ low
         /\ marked.count = Cardinality(U \ low)
    <3>1. marked = MarkBusyCounted(painted, Cardinality(PagesOf(painted)), low)
      BY <2>10
    <3> HIDE DEF marked, low
    <3> QED
      BY <2>9, <2>11, <3>1, MarkIs, Zenon
  <2>13. U \ low = U \ BootReserved
    <3>1. \A p \in U : p < pages
      BY <2>4, <2>6
    <3> QED
      BY <3>1, Zenon
  <2> HIDE DEF low, marked
  <2>14. /\ pageCount' = pages /\ bitmapSize' = size /\ initialized' = TRUE
         /\ bitmap' = marked.bitmap /\ freeCount' = marked.count /\ pinned' = BootReserved
         /\ memoryEnd' = survey.end /\ refused' = 0 /\ held' = held /\ bootMap' = bootMap
    BY <1>1, <1>7, <2>4, <2>5
  <2>15. PagesOf(bitmap)' = U \ BootReserved
    <3>1. PagesOf(bitmap)' = PagesOf(marked.bitmap)
      BY <2>14 DEF PagesOf, IsFree
    <3> QED
      BY <2>12, <2>13, <3>1
  <2>16. freeCount' = Cardinality(U \ BootReserved) /\ freeCount' \in Nat
    <3>1. Cardinality(U \ BootReserved) \in Nat
      BY <1>4, PagesFinite
    <3> QED
      BY <2>12, <2>13, <2>14, <3>1, Zenon
  <2>17. TypeOK'
    BY <1>4, <1>5, <2>4, <2>12, <2>14, <2>16 DEF TypeOK, Bitmap, Word
  <2>18. RefusalJustified'
    BY <2>14 DEF RefusalJustified
  <2>19. /\ (PagesOf(bitmap) \subseteq 0..(pageCount - 1))'
         /\ (pageCount <= bitmapSize * WordBits)'
         /\ (memoryEnd = pageCount * PageSize)'
         /\ bootMap' \in BootMaps
    BY <2>4, <2>5, <2>6, <2>14, <2>15 DEF Inv
  <2>20. (PagesOf(bitmap) \cup held \subseteq Abstract!UsablePages(bootMap))'
    <3>1. Abstract!UsablePages(bootMap)' = U
      BY <2>14 DEF U, Abstract!UsablePages, Abstract!RegionPages, Abstract!AlignUpPage, Abstract!AlignDownPage
    <3> QED
      BY <1>5, <2>14, <2>15, <3>1
  <2>21. Inv'
    BY <2>14, <2>15, <2>16, <2>17, <2>18, <2>19, <2>20 DEF Inv
  <2>22. FreePages' = U \ BootReserved
    BY <2>15, <2>21, FreePagesNext
  <2>23. Abstract!Initialize
    <3>1. \E l \in U : (\A p \in U : p <= l) /\ pageCount' = l + 1
      BY <2>1, <2>3, <2>14
    <3>2. freeCount' = Abstract!Cardinality(FreePages')
      BY <2>16, <2>22, SameCardinality
    <3> QED
      BY <1>1, <2>14, <2>22, <3>1, <3>2, Zenon DEF Abstract!Initialize, U
  <2> QED
    BY <2>21, <2>23
<1> QED
  BY <1>3, <1>6, <1>7 DEF SurveyInv

-----------------------------------------------------------------------------
(* The calls after initialize().                                            *)

\* What every such call has to keep.
LEMMA CallInv ==
    ASSUME Inv, initialized,
           UNCHANGED <<initialized, memoryEnd, pageCount, bitmapSize, bootMap>>,
           bitmap' \in Bitmap,
           PagesOf(bitmap)' \subseteq 0..(pageCount - 1),
           PagesOf(bitmap)' \cup held' \subseteq PagesOf(bitmap) \cup held,
           held' \subseteq Nat, pinned' \subseteq Nat, refused' \in Nat,
           freeCount' = Cardinality(PagesOf(bitmap)'),
           RefusalJustified'
    PROVE  Inv'
<1>1. PagesOf(bitmap)' \subseteq Page
  BY DEF PagesOf
<1>2. freeCount' \in Nat
  BY <1>1, PagesFinite
<1>3. TypeOK'
  BY <1>2 DEF Inv, TypeOK, Bitmap, Word
<1>4. Abstract!UsablePages(bootMap)' = Abstract!UsablePages(bootMap)
  BY DEF Abstract!UsablePages, Abstract!RegionPages, Abstract!AlignUpPage, Abstract!AlignDownPage
<1>5. /\ bootMap' \in BootMaps
      /\ initialized' = TRUE
      /\ (pageCount <= bitmapSize * WordBits)'
      /\ (memoryEnd = pageCount * PageSize)'
  BY DEF Inv
<1>6. (PagesOf(bitmap) \cup held)' \subseteq Abstract!UsablePages(bootMap)'
  BY <1>4 DEF Inv
<1> QED
  BY <1>3, <1>5, <1>6 DEF Inv

\* set_busy() takes one page out of the bitmap.
LEMMA BusyIs ==
    ASSUME NEW b \in Bitmap, NEW p \in Page
    PROVE  SetBusy(b, p) \in Bitmap /\ PagesOf(SetBusy(b, p)) = PagesOf(b) \ {p}
<1> DEFINE u == p \div WordBits
           x == p % WordBits
           c == SetBusy(b, p)
<1>1. u \in Word /\ x \in Bits /\ p = u * WordBits + x
  BY BitOfPage, Zenon
<1>2. c = [b EXCEPT ![u] = b[u] \ {x}]
  BY <1>1 DEF SetBusy, Bitmap
<1> HIDE DEF u, x
<1>3. c \in Bitmap
  BY <1>1, <1>2, Zenon DEF Bitmap
<1>4. ASSUME NEW w \in Word, NEW k \in Bits
      PROVE  k \in c[w] <=> k \in b[w] /\ w * WordBits + k \notin {p}
  <2>1. w * WordBits + k = p <=> w = u /\ k = x
    BY <1>1, PageOfBit
  <2>2. c[w] = IF w = u THEN b[u] \ {x} ELSE b[w]
    BY <1>1, <1>2, Zenon DEF Bitmap
  <2> QED
    BY <2>1, <2>2, Zenon
<1> HIDE DEF c
<1>5. PagesOf(c) = PagesOf(b) \ {p}
  BY <1>3, <1>4, BitsRemoved, Zenon
<1> QED
  BY <1>3, <1>5 DEF c

\* set_free() puts one page into the bitmap.
LEMMA FreeIs ==
    ASSUME NEW b \in Bitmap, NEW p \in Page
    PROVE  SetFree(b, p) \in Bitmap /\ PagesOf(SetFree(b, p)) = PagesOf(b) \cup {p}
<1> DEFINE u == p \div WordBits
           x == p % WordBits
           c == SetFree(b, p)
<1>1. u \in Word /\ x \in Bits /\ p = u * WordBits + x
  BY BitOfPage, Zenon
<1>2. c = [b EXCEPT ![u] = b[u] \cup {x}]
  BY <1>1 DEF SetFree, Bitmap
<1> HIDE DEF u, x
<1>3. c \in Bitmap
  BY <1>1, <1>2, Zenon DEF Bitmap
<1>4. ASSUME NEW w \in Word, NEW k \in Bits
      PROVE  k \in c[w] <=> k \in b[w] \/ w * WordBits + k \in {p}
  <2>1. w * WordBits + k = p <=> w = u /\ k = x
    BY <1>1, PageOfBit
  <2>2. c[w] = IF w = u THEN b[u] \cup {x} ELSE b[w]
    BY <1>1, <1>2, Zenon DEF Bitmap
  <2> QED
    BY <2>1, <2>2, Zenon
<1> HIDE DEF c
<1>5. {p} \in SUBSET Page
  OBVIOUS
<1>6. PagesOf(c) = PagesOf(b) \cup {p}
  BY <1>3, <1>4, <1>5, BitsAdded, Zenon
<1> QED
  BY <1>3, <1>6 DEF c

\* The tracked pages are pages of the bitmap.
LEMMA TrackedIsPage ==
    ASSUME Inv
    PROVE  /\ pageCount \in Nat /\ 0..(pageCount - 1) \subseteq Page
           /\ bitmap \in Bitmap /\ PagesOf(bitmap) \subseteq Page /\ PagesOf(bitmap) \subseteq 0..(pageCount - 1)
<1> USE PageBitmapAssumption
<1> DEFINE sw == bitmapSize * WordBits
           bw == BitmapLimit * WordBits
<1>1. bitmapSize \in Nat /\ bitmapSize <= BitmapLimit /\ pageCount \in Nat /\ pageCount <= sw
  BY DEF Inv, TypeOK
<1>2. sw <= bw /\ sw \in Nat /\ bw \in Nat
  BY <1>1, TimesOrder
<1>3. Page = 0..(bw - 1)
  BY DEF Page
<1> HIDE DEF sw, bw
<1>4. 0..(pageCount - 1) \subseteq Page
  BY <1>1, <1>2, <1>3
<1> QED
  BY <1>1, <1>4 DEF Inv, TypeOK, Bitmap, Word, PagesOf

\* The first non-zero word and its lowest bit are the lowest free page.
LEMMA LowestIs ==
    ASSUME Inv
    PROVE  LET words == {w \in 0..(bitmapSize - 1) : bitmap[w] # {}}
               w == CHOOSE x \in words : \A y \in words : x <= y
               k == CHOOSE x \in bitmap[w] : \A y \in bitmap[w] : x <= y
               p == w * WordBits + k
           IN  IF words = {} THEN PagesOf(bitmap) = {}
               ELSE p \in PagesOf(bitmap) /\ \A q \in PagesOf(bitmap) : p <= q
<1> USE PageBitmapAssumption
<1> DEFINE words == {w \in 0..(bitmapSize - 1) : bitmap[w] # {}}
           w == CHOOSE x \in words : \A y \in words : x <= y
           k == CHOOSE x \in bitmap[w] : \A y \in bitmap[w] : x <= y
           p == w * WordBits + k
<1>1. bitmap \in Bitmap /\ bitmapSize \in 0..BitmapLimit
  BY DEF Inv, TypeOK, Bitmap, Word
<1>2. words \in SUBSET Nat /\ words \subseteq Word
  BY <1>1 DEF Word
<1>3. ASSUME NEW q \in PagesOf(bitmap)
      PROVE  \E u \in words : \E x \in bitmap[u] : q = u * WordBits + x
  <2> DEFINE u == q \div WordBits
             x == q % WordBits
             uw == u * WordBits
             sw == bitmapSize * WordBits
  <2>1. q \in Page /\ x \in bitmap[u]
    BY DEF PagesOf, IsFree
  <2>2. u \in Word /\ x \in Bits /\ q = u * WordBits + x
    BY <2>1, BitOfPage, Zenon
  <2>3. q < pageCount /\ pageCount <= sw /\ pageCount \in Nat /\ q \in Nat
    BY <2>1, PageIsNat, SMTT(30) DEF Inv, TypeOK
  <2> HIDE DEF u, x
  <2>4. uw \in Nat /\ sw \in Nat /\ u \in Nat /\ (u < bitmapSize <=> uw < sw)
    BY <1>1, <2>2, TimesOrder DEF Word
  <2>5. q = uw + x /\ x \in 0..(WordBits - 1)
    BY <2>2 DEF Bits
  <2> HIDE DEF uw, sw
  <2>6. u < bitmapSize
    BY <2>3, <2>4, <2>5
  <2>7. u \in words
    BY <1>1, <2>1, <2>4, <2>6
  <2> QED
    BY <2>1, <2>2, <2>7
<1>4. CASE words = {}
  BY <1>3, <1>4, SMTT(30)
<1>5. CASE words # {}
  <2>1. \E x \in words : \A y \in words : x <= y
    BY <1>2, <1>5, LeastExists, Zenon
  <2>2. w \in words /\ \A y \in words : w <= y
    <3> HIDE DEF words
    <3> QED
      BY <2>1, Zenon
  <2>3. w \in Word /\ bitmap[w] # {}
    BY <1>2, <2>2, Zenon
  <2> HIDE DEF words, w
  <2>4. bitmap[w] \in SUBSET Nat /\ bitmap[w] \subseteq Bits
    BY <1>1, <2>3 DEF Bitmap, Bits
  <2>5. \E x \in bitmap[w] : \A y \in bitmap[w] : x <= y
    BY <2>3, <2>4, LeastExists, Zenon
  <2>6. k \in bitmap[w] /\ \A y \in bitmap[w] : k <= y
    BY <2>5, Zenon
  <2> HIDE DEF k
  <2>7. p \in PagesOf(bitmap)
    BY <2>3, <2>4, <2>6, FreeBit
  <2>8. ASSUME NEW q \in PagesOf(bitmap) PROVE p <= q
    <3>1. PICK u \in words : \E x \in bitmap[u] : q = u * WordBits + x
      BY <1>3
    <3>2. PICK x \in bitmap[u] : q = u * WordBits + x
      BY <3>1
    <3>3. u \in Word /\ x \in Bits /\ w <= u
      BY <1>1, <1>2, <2>2, <3>1 DEF Bitmap
    <3>4. CASE w = u
      <4>1. k <= x /\ k \in Nat /\ x \in Nat
        BY <2>4, <2>6, <3>4
      <4>2. w * WordBits \in Nat
        BY <2>3 DEF Word
      <4> DEFINE ww == w * WordBits
      <4> HIDE DEF ww
      <4>3. ww + k <= ww + x
        BY <4>1, <4>2 DEF ww
      <4> QED
        BY <3>2, <3>4, <4>3 DEF ww
    <3>5. CASE w < u
      <4> DEFINE ww == w * WordBits
                 uw == u * WordBits
      <4>1. ww + WordBits <= uw /\ ww \in Nat /\ uw \in Nat
        BY <2>3, <3>3, <3>5, TimesOrder DEF Word
      <4>2. k \in 0..(WordBits - 1) /\ x \in 0..(WordBits - 1)
        BY <2>4, <2>6, <3>3 DEF Bits
      <4> HIDE DEF ww, uw
      <4>3. ww + k <= uw + x
        BY <4>1, <4>2
      <4> QED
        BY <3>2, <4>3 DEF ww, uw
    <3> QED
      BY <2>3, <3>3, <3>4, <3>5 DEF Word
  <2> QED
    BY <1>5, <2>7, <2>8, Zenon DEF words, w, k
<1> QED
  BY <1>4, <1>5, Zenon

\* allocate() takes the lowest free page.
LEMMA AllocateStep ==
    ASSUME Inv, Allocate
    PROVE  Inv' /\ (Abstract!Allocate \/ UNCHANGED Abstract!vars)
<1> DEFINE words == {w \in 0..(bitmapSize - 1) : bitmap[w] # {}}
           w == CHOOSE x \in words : \A y \in words : x <= y
           k == CHOOSE x \in bitmap[w] : \A y \in bitmap[w] : x <= y
           p == w * WordBits + k
           F == PagesOf(bitmap)
<1>1. /\ initialized
      /\ IF words # {}
         THEN /\ bitmap' = SetBusy(bitmap, p)
              /\ held' = held \cup {p}
              /\ freeCount' = GreaterOf(0, freeCount - 1)
              /\ refused' = 0
         ELSE /\ refused' = 1
              /\ UNCHANGED <<bitmap, held, freeCount>>
      /\ UNCHANGED <<initialized, memoryEnd, pageCount, bitmapSize, pinned, bootMap>>
  BY Zenon DEF Allocate
<1>2. IF words = {} THEN F = {} ELSE p \in F /\ \A q \in F : p <= q
  BY LowestIs, Zenon
<1>3. /\ pageCount \in Nat /\ bitmap \in Bitmap /\ F \subseteq Page /\ F \subseteq 0..(pageCount - 1)
      /\ 0..(pageCount - 1) \subseteq Page
  BY TrackedIsPage
<1>4. freeCount = Cardinality(F) /\ held \subseteq Nat /\ pinned \subseteq Nat
  BY DEF Inv, TypeOK
<1>5. IsFiniteSet(F) /\ Cardinality(F) \in Nat
  BY <1>3, PagesFinite
<1> HIDE DEF words, p
<1>6. CASE words # {}
  <2>1. p \in F /\ (\A q \in F : p <= q) /\ p \in Page /\ p \in Nat
    BY <1>2, <1>3, <1>6, PageIsNat
  <2>2. /\ bitmap' = SetBusy(bitmap, p) /\ held' = held \cup {p}
        /\ freeCount' = GreaterOf(0, freeCount - 1) /\ refused' = 0
        /\ UNCHANGED <<initialized, memoryEnd, pageCount, bitmapSize, pinned, bootMap>>
    BY <1>1, <1>6
  <2>3. SetBusy(bitmap, p) \in Bitmap /\ PagesOf(SetBusy(bitmap, p)) = F \ {p}
    BY <1>3, <2>1, BusyIs
  <2>4. bitmap' \in Bitmap /\ PagesOf(bitmap)' = F \ {p}
    BY <2>2, <2>3 DEF PagesOf, IsFree
  <2>5. Cardinality(F \ {p}) = Cardinality(F) - 1
    BY <1>5, <2>1, FS_RemoveElement, Zenon
  <2>6. Cardinality(F) # 0
    BY <1>5, <2>1, FS_EmptySet
  <2>7. /\ freeCount' = Cardinality(PagesOf(bitmap)')
        /\ freeCount' = IF freeCount > 0 THEN freeCount - 1 ELSE freeCount
    BY <1>4, <1>5, <2>2, <2>4, <2>5, <2>6 DEF GreaterOf
  <2>8. RefusalJustified'
    BY <2>2 DEF RefusalJustified
  <2>9. Inv'
    BY <1>1, <1>3, <1>4, <2>1, <2>2, <2>4, <2>7, <2>8, CallInv, SMTT(30)
  <2>10. FreePages = F /\ FreePages' = F \ {p}
    BY <2>4, <2>9, FreePagesIs, FreePagesNext
  <2>11. Abstract!Allocate
    BY <1>1, <2>1, <2>2, <2>7, <2>10 DEF Abstract!Allocate, Abstract!IsLeast
  <2> QED
    BY <2>9, <2>11
<1>7. CASE words = {}
  <2>1. UNCHANGED <<initialized, memoryEnd, pageCount, bitmapSize, pinned, bootMap, bitmap, held, freeCount>>
        /\ refused' = 1 /\ F = {}
    BY <1>1, <1>2, <1>7
  <2>2. UNCHANGED FreePages /\ PagesOf(bitmap)' = F
    BY <2>1 DEF FreePages, PagesOf, IsFree
  <2>3. RefusalJustified'
    <3> SUFFICES ASSUME NEW s \in 0..pageCount,
                        \A q \in s..(s + 1 - 1) : q < pageCount /\ IsFree(bitmap, q)
                 PROVE  FALSE
      BY <2>1 DEF RefusalJustified, IsFree
    <3>1. s \in s..(s + 1 - 1)
      BY <1>3
    <3>2. s < pageCount /\ IsFree(bitmap, s)
      BY <3>1
    <3>3. s \in Page
      BY <1>3, <3>2
    <3> QED
      BY <2>1, <3>2, <3>3 DEF PagesOf
  <2>4. Inv'
    BY <1>1, <1>3, <1>4, <2>1, <2>2, <2>3, CallInv, SMTT(30)
  <2> QED
    BY <2>1, <2>2, <2>4 DEF Abstract!vars
<1> QED
  BY <1>6, <1>7

\* allocate(address, count) takes the lowest run of free pages.
LEMMA AllocateRunStep ==
    ASSUME Inv, NEW n \in RunLengths, AllocateRun(n)
    PROVE  Inv' /\ (Abstract!AllocateRun(n) \/ UNCHANGED Abstract!vars)
<1> DEFINE found == ScanRun(n)
           st == found.start
           run == st..(st + n - 1)
           F == PagesOf(bitmap)
           c == [w \in DOMAIN bitmap |-> {k \in bitmap[w] : w * WordBits + k \notin run}]
<1>1. /\ initialized /\ n > 0
      /\ IF found.hit
         THEN /\ bitmap' = c
              /\ held' = held \cup run
              /\ freeCount' = IF freeCount >= n THEN freeCount - n ELSE freeCount
              /\ refused' = 0
         ELSE /\ refused' = n
              /\ UNCHANGED <<bitmap, held, freeCount>>
      /\ UNCHANGED <<initialized, memoryEnd, pageCount, bitmapSize, pinned, bootMap>>
  BY Zenon DEF AllocateRun
<1>2. n \in Nat
  BY PageBitmapAssumption
<1>3. /\ pageCount \in Nat /\ bitmap \in Bitmap /\ F \subseteq Page /\ F \subseteq 0..(pageCount - 1)
      /\ 0..(pageCount - 1) \subseteq Page
  BY TrackedIsPage
<1>4. ScanInv(found, pageCount, n)
  BY <1>1, <1>2, <1>3, ScanIs
<1>5. freeCount = Cardinality(F) /\ held \subseteq Nat /\ pinned \subseteq Nat
  BY DEF Inv, TypeOK
<1>6. IsFiniteSet(F) /\ Cardinality(F) \in Nat
  BY <1>3, PagesFinite
<1> HIDE DEF found
<1>7. st \in 0..pageCount /\ found.hit \in BOOLEAN
  BY <1>4 DEF ScanInv, Scanned
<1>8. CASE found.hit
  <2>1. st + n <= pageCount /\ RunAt(st, n) /\ \A s \in Nat : s < st => ~RunAt(s, n)
    BY <1>4, <1>8 DEF ScanInv
  <2>2. /\ bitmap' = c /\ held' = held \cup run /\ refused' = 0
        /\ freeCount' = IF freeCount >= n THEN freeCount - n ELSE freeCount
        /\ UNCHANGED <<initialized, memoryEnd, pageCount, bitmapSize, pinned, bootMap>>
    BY <1>1, <1>8
  <2>3. run \subseteq 0..(pageCount - 1) /\ run \subseteq Nat
    BY <1>2, <1>3, <1>7, <2>1
  <2>4. run \subseteq F
    BY <1>3, <2>1, <2>3 DEF RunAt, PagesOf
  <2>5. c \in Bitmap
    BY <1>3 DEF Bitmap
  <2>6. \A w \in Word, k \in Bits : k \in c[w] <=> k \in bitmap[w] /\ w * WordBits + k \notin run
    BY <1>3 DEF Bitmap
  <2>7. IsFiniteSet(run) /\ Cardinality(run) = n
    BY <1>1, <1>2, <1>7, FS_Interval
  <2> HIDE DEF c, run
  <2>8. bitmap' \in Bitmap /\ PagesOf(bitmap)' = F \ run
    <3>1. PagesOf(c) = F \ run
      BY <1>3, <2>5, <2>6, BitsRemoved
    <3> QED
      BY <2>2, <2>5, <3>1 DEF PagesOf, IsFree
  <2>9. Cardinality(F \ run) = Cardinality(F) - n
    <3>1. F \cap run = run
      BY <2>4
    <3> QED
      BY <1>6, <2>7, <3>1, FS_Difference, Zenon
  <2>10. n <= Cardinality(F)
    BY <1>6, <2>4, <2>7, FS_Subset
  <2>11. freeCount' = Cardinality(PagesOf(bitmap)')
    BY <1>2, <1>5, <1>6, <2>2, <2>8, <2>9, <2>10
  <2>12. RefusalJustified'
    BY <2>2 DEF RefusalJustified
  <2>13. Inv'
    BY <1>1, <1>3, <1>5, <2>2, <2>3, <2>4, <2>8, <2>11, <2>12, CallInv, Zenon
  <2>14. FreePages = F /\ FreePages' = F \ run
    BY <2>8, <2>13, FreePagesIs, FreePagesNext
  <2>15. st \in Abstract!RunStarts(n)
    BY <1>1, <1>2, <1>3, <1>7, <2>1, <2>4, <2>14 DEF Abstract!RunStarts, run
  <2>16. ASSUME NEW y \in Abstract!RunStarts(n) PROVE st <= y
    <3>1. y \in 0..(pageCount - 1) /\ y..(y + n - 1) \subseteq F
      BY <2>14 DEF Abstract!RunStarts
    <3>2. y \in Nat /\ RunAt(y, n)
      BY <1>3, <3>1 DEF RunAt, PagesOf
    <3> QED
      BY <1>7, <2>1, <3>2
  <2>17. Abstract!AllocateRun(n)
    <3>1. Abstract!IsLeast(st, Abstract!RunStarts(n))
      BY <2>15, <2>16 DEF Abstract!IsLeast
    <3> QED
      BY <1>1, <2>2, <2>14, <2>15, <3>1, Zenon DEF Abstract!AllocateRun, run
  <2> QED
    BY <2>13, <2>17
<1>9. CASE ~found.hit
  <2>1. UNCHANGED <<initialized, memoryEnd, pageCount, bitmapSize, pinned, bootMap, bitmap, held, freeCount>>
        /\ refused' = n
    BY <1>1, <1>9
  <2>2. UNCHANGED FreePages /\ PagesOf(bitmap)' = F
    BY <2>1 DEF FreePages, PagesOf, IsFree
  <2>3. RefusalJustified'
    <3> SUFFICES ASSUME NEW s \in 0..pageCount,
                        \A q \in s..(s + n - 1) : q < pageCount /\ IsFree(bitmap, q)
                 PROVE  FALSE
      BY <2>1 DEF RefusalJustified, IsFree
    <3>1. s + n - 1 \in s..(s + n - 1) /\ s \in Nat
      BY <1>1, <1>2, <1>3
    <3>2. s + n <= pageCount
      BY <1>2, <1>3, <3>1
    <3>3. RunAt(s, n)
      BY DEF RunAt
    <3> QED
      BY <1>4, <1>9, <3>1, <3>2, <3>3 DEF ScanInv
  <2>4. Inv'
    BY <1>1, <1>2, <1>3, <1>5, <2>1, <2>2, <2>3, CallInv, SMTT(30)
  <2> QED
    BY <2>1, <2>2, <2>4 DEF Abstract!vars
<1> QED
  BY <1>7, <1>8, <1>9

\* free() gives a held page back and leaves every other page alone.
LEMMA FreeStep ==
    ASSUME Inv, NEW a \in Addresses, Free(a)
    PROVE  Inv' /\ (Abstract!Free(a) \/ UNCHANGED Abstract!vars)
<1> DEFINE p == a \div PageSize
           F == PagesOf(bitmap)
           done == a % PageSize = 0 /\ p < pageCount /\ ~IsFree(bitmap, p)
<1>1. /\ initialized
      /\ a % PageSize # 0 \/ p >= pageCount \/ p \in held \cup FreePages
      /\ IF done THEN /\ bitmap' = SetFree(bitmap, p)
                      /\ freeCount' = freeCount + 1
                      /\ held' = held \ {p}
         ELSE UNCHANGED <<bitmap, freeCount, held>>
      /\ refused' = 0
      /\ UNCHANGED <<initialized, memoryEnd, pageCount, bitmapSize, pinned, bootMap>>
  BY Zenon DEF Free
<1>2. p \in Nat
  BY DivMod, PageBitmapAssumption, Zenon
<1>3. /\ pageCount \in Nat /\ bitmap \in Bitmap /\ F \subseteq Page /\ F \subseteq 0..(pageCount - 1)
      /\ 0..(pageCount - 1) \subseteq Page
  BY TrackedIsPage
<1>4. freeCount = Cardinality(F) /\ held \subseteq Nat /\ pinned \subseteq Nat
  BY DEF Inv, TypeOK
<1>5. IsFiniteSet(F) /\ Cardinality(F) \in Nat
  BY <1>3, PagesFinite
<1>6. RefusalJustified'
  BY <1>1 DEF RefusalJustified
<1>7. FreePages = F
  BY FreePagesIs
<1>8. CASE done
  <2>1. p \in Page /\ p \notin F /\ p < pageCount /\ a % PageSize = 0
    BY <1>2, <1>3, <1>8, SMTT(30) DEF PagesOf
  <2>2. p \in held
    BY <1>1, <1>2, <1>3, <1>7, <2>1, SMTT(30)
  <2>3. /\ bitmap' = SetFree(bitmap, p) /\ freeCount' = freeCount + 1 /\ held' = held \ {p}
        /\ refused' = 0
        /\ UNCHANGED <<initialized, memoryEnd, pageCount, bitmapSize, pinned, bootMap>>
    BY <1>1, <1>8
  <2> HIDE DEF p
  <2>4. bitmap' \in Bitmap /\ PagesOf(bitmap)' = F \cup {p}
    <3>1. SetFree(bitmap, p) \in Bitmap /\ PagesOf(SetFree(bitmap, p)) = F \cup {p}
      BY <1>3, <2>1, FreeIs
    <3> QED
      BY <2>3, <3>1 DEF PagesOf, IsFree
  <2>5. Cardinality(F \cup {p}) = Cardinality(F) + 1
    BY <1>5, <2>1, FS_AddElement, Zenon
  <2>6. freeCount' = Cardinality(PagesOf(bitmap)')
    BY <1>4, <2>3, <2>4, <2>5
  <2>7. PagesOf(bitmap)' \subseteq 0..(pageCount - 1)
    BY <1>2, <1>3, <2>1, <2>4, SMTT(30) DEF p
  <2>8. Inv'
    BY <1>1, <1>4, <1>6, <2>2, <2>3, <2>4, <2>6, <2>7, CallInv, SMTT(30)
  <2>9. FreePages' = F \cup {p}
    BY <2>4, <2>8, FreePagesNext
  <2>10. Abstract!Free(a)
    BY <1>1, <1>7, <2>1, <2>2, <2>3, <2>9, Zenon DEF Abstract!Free, p
  <2> QED
    BY <2>8, <2>10
<1>9. CASE ~done
  <2>1. UNCHANGED <<initialized, memoryEnd, pageCount, bitmapSize, pinned, bootMap, bitmap, held, freeCount>>
        /\ refused' = 0
    BY <1>1, <1>9, SMTT(30)
  <2>2. UNCHANGED FreePages /\ PagesOf(bitmap)' = F
    BY <2>1 DEF FreePages, PagesOf, IsFree
  <2>3. Inv'
    BY <1>1, <1>3, <1>4, <1>6, <2>1, <2>2, CallInv, SMTT(30)
  <2> QED
    BY <2>1, <2>2, <2>3 DEF Abstract!vars
<1> QED
  BY <1>8, <1>9

\* The pages ReserveRange(a, len) marks, with the range cut at memory_end_ ...
Clamped(pc, memory, a, len) ==
    {q \in (a \div PageSize)..((LesserOf(a + len, memory) + PageSize - 1) \div PageSize - 1) : q < pc}

\* ... and the ones the contract names: the tracked pages the range touches.
Ranged(pc, a, len) ==
    {q \in 0..(pc - 1) : a \div PageSize <= q /\ q < (a + len + PageSize - 1) \div PageSize}

\* Clamping a range to the end of memory, as reserve_tracked_physical_range()
\* does, leaves out only pages that are not tracked.
LEMMA ClampedRange ==
    ASSUME NEW pc \in Nat, NEW a \in Nat, NEW len \in Nat
    PROVE  Clamped(pc, pc * PageSize, a, len) = Ranged(pc, a, len)
<1> USE PageBitmapAssumption
<1> DEFINE first == a \div PageSize
           end == LesserOf(a + len, pc * PageSize)
           last == (end + PageSize - 1) \div PageSize
           d == a + len + PageSize - 1
           full == d \div PageSize
           pp == pc * PageSize
<1>1. first \in Nat
  BY DivMod
<1>2. d \in Nat /\ pp \in Nat /\ full \in Nat
  <2>1. d \in Nat
    OBVIOUS
  <2> QED
    BY <2>1, DivMod
<1>3. CASE a + len < pp
  <2>1. last = full
    BY <1>3 DEF LesserOf
  <2> HIDE DEF first, last, full
  <2>2. {q \in first..(last - 1) : q < pc} = {q \in 0..(pc - 1) : first <= q /\ q < full}
    BY <1>1, <1>2, <2>1
  <2> QED
    BY <2>2, Zenon DEF first, last, full, end, d, pp, Clamped, Ranged
<1>4. CASE ~(a + len < pp)
  <2>1. last = pc
    <3>1. end = pp
      BY <1>4 DEF LesserOf
    <3>2. pc * PageSize + (PageSize - 1) = end + PageSize - 1 /\ PageSize - 1 \in 0..(PageSize - 1)
      BY <1>2, <3>1
    <3>3. (pc * PageSize + (PageSize - 1)) \div PageSize = pc
      BY <3>2, DivModUnique, Zenon
    <3> QED
      BY <3>2, <3>3
  <2>2. pc <= full
    <3> DEFINE r == d % PageSize
               fp == full * PageSize
               gp == (full + 1) * PageSize
    <3>1. d = fp + r /\ r \in 0..(PageSize - 1)
      BY <1>2, DivMod
    <3>2. fp \in Nat /\ gp = fp + PageSize
      BY <1>2
    <3>3. pp <= d - (PageSize - 1) /\ d \in Nat /\ pp \in Nat
      BY <1>2, <1>4
    <3> HIDE DEF full, d
    <3>4. pc < full + 1 <=> pp < gp
      BY <1>2, TimesOrder
    <3> HIDE DEF pp, fp, gp, r
    <3>5. pp < gp
      BY <3>1, <3>2, <3>3
    <3> QED
      BY <1>2, <3>4, <3>5
  <2> HIDE DEF first, last, full
  <2>3. {q \in first..(last - 1) : q < pc} = {q \in 0..(pc - 1) : first <= q /\ q < full}
    BY <1>1, <1>2, <2>1, <2>2
  <2> QED
    BY <2>3, Zenon DEF first, last, full, end, d, pp, Clamped, Ranged
<1> QED
  BY <1>3, <1>4

\* reserve_range() takes the tracked pages a range touches.
LEMMA ReserveRangeStep ==
    ASSUME Inv, NEW a \in Addresses, NEW len \in Lengths, ReserveRange(a, len)
    PROVE  Inv' /\ Abstract!ReserveRange(a, len)
<1> DEFINE end == LesserOf(a + len, memoryEnd)
           first == a \div PageSize
           last == (end + PageSize - 1) \div PageSize
           pages == {q \in first..(last - 1) : q < pageCount}
           marked == MarkBusyCounted(bitmap, freeCount, pages)
           F == PagesOf(bitmap)
           range == {q \in 0..(pageCount - 1) :
                       a \div PageSize <= q /\ q < (a + len + PageSize - 1) \div PageSize}
<1>1. /\ initialized /\ held = {} /\ len # 0
      /\ bitmap' = marked.bitmap /\ freeCount' = marked.count
      /\ pinned' = pinned \cup pages /\ refused' = 0
      /\ UNCHANGED <<initialized, memoryEnd, pageCount, bitmapSize, held, bootMap>>
  BY Zenon DEF ReserveRange
<1>2. a \in Nat /\ len \in Nat
  BY PageBitmapAssumption
<1>3. /\ pageCount \in Nat /\ bitmap \in Bitmap /\ F \subseteq Page /\ F \subseteq 0..(pageCount - 1)
      /\ 0..(pageCount - 1) \subseteq Page
  BY TrackedIsPage
<1>4. /\ freeCount = Cardinality(F) /\ held \subseteq Nat /\ pinned \subseteq Nat
      /\ memoryEnd = pageCount * PageSize
  BY <1>1 DEF Inv, TypeOK
<1>5. pages = range
  <2>1. Clamped(pageCount, memoryEnd, a, len) = Ranged(pageCount, a, len)
    BY <1>2, <1>3, <1>4, ClampedRange
  <2> QED
    BY <2>1, Zenon DEF Clamped, Ranged
<1>6. range \in SUBSET Page /\ range \subseteq Nat
  <2> DEFINE pc == pageCount
  <2>1. range \subseteq 0..(pageCount - 1)
    OBVIOUS
  <2> HIDE DEF range
  <2> QED
    BY <1>3, <2>1, PageIsNat
<1>7. marked = MarkBusyCounted(bitmap, Cardinality(F), range)
  BY <1>4, <1>5, Zenon
<1> HIDE DEF pages, marked, range
<1>8. /\ marked.bitmap \in Bitmap
      /\ PagesOf(marked.bitmap) = F \ range
      /\ marked.count = Cardinality(F \ range)
      /\ marked.count = Cardinality(F) - Cardinality(F \cap range)
  BY <1>3, <1>6, <1>7, MarkIs, Zenon
<1>9. bitmap' \in Bitmap /\ PagesOf(bitmap)' = F \ range
  BY <1>1, <1>8 DEF PagesOf, IsFree
<1>10. freeCount' = Cardinality(PagesOf(bitmap)') /\ freeCount' = freeCount - Cardinality(F \cap range)
  BY <1>1, <1>4, <1>8, <1>9
<1>11. RefusalJustified'
  BY <1>1 DEF RefusalJustified
<1>12. pinned' \subseteq Nat
  BY <1>1, <1>4, <1>5, <1>6, SMTT(30)
<1>13. Inv'
  BY <1>1, <1>3, <1>4, <1>9, <1>10, <1>11, <1>12, CallInv, SMTT(30)
<1>14. FreePages = F /\ FreePages' = F \ range
  BY <1>9, <1>13, FreePagesIs, FreePagesNext
<1>15. freeCount' = freeCount - Abstract!Cardinality(FreePages \cap range)
  BY <1>10, <1>14, SameCardinality
<1>16. len > 0
  BY <1>1, <1>2
<1>17. Abstract!ReserveRange(a, len)
  BY <1>1, <1>5, <1>14, <1>15, <1>16, Zenon DEF Abstract!ReserveRange, Abstract!AlignUpPage, range
<1> QED
  BY <1>13, <1>17

-----------------------------------------------------------------------------
(* The theorems.                                                            *)

\* Every step keeps the invariant and is a step of the contract or none.
LEMMA StepImplements ==
    ASSUME Inv, [Next]_vars
    PROVE  Inv' /\ [Abstract!Next]_(Abstract!vars)
<1>1. CASE Initialize
  BY <1>1, InitializeStep DEF Abstract!Next
<1>2. CASE Allocate
  BY <1>2, AllocateStep DEF Abstract!Next
<1>3. CASE \E n \in RunLengths : AllocateRun(n)
  BY <1>3, AllocateRunStep DEF Abstract!Next
<1>4. CASE \E a \in Addresses : Free(a)
  BY <1>4, FreeStep DEF Abstract!Next
<1>5. CASE \E a \in Addresses, len \in Lengths : ReserveRange(a, len)
  BY <1>5, ReserveRangeStep DEF Abstract!Next
<1>6. CASE UNCHANGED vars
  <2>1. UNCHANGED Abstract!vars
    BY <1>6, SMTT(30) DEF vars, Abstract!vars, FreePages, IsFree
  <2>2. Inv'
    BY <1>6 DEF vars, Inv, TypeOK, RefusalJustified, PagesOf, IsFree, Abstract!UsablePages, Abstract!RegionPages, Abstract!AlignUpPage, Abstract!AlignDownPage
  <2> QED
    BY <2>1, <2>2, SMTT(30)
<1> QED
  BY <1>1, <1>2, <1>3, <1>4, <1>5, <1>6, SMTT(30) DEF Next

\* The counter is exact, no bit is set behind page_count_, the bitmap is large
\* enough for the pages it tracks and a page in circulation is a usable one, in
\* every state calls to page_frame.cpp can reach.
THEOREM BitmapInvariant == Spec => []Inv
  BY InitInv, StepImplements, PTL DEF Spec

\* The bitmap code implements the contract of the page allocator, for every
\* word width, page size, memory map and sequence of calls: initialize()'s three
\* passes leave exactly the usable whole pages free and counted, and every call
\* takes or gives the pages the contract says.
THEOREM BitmapImplements == Spec => ImplementsPageFrames
<1>1. Init => Abstract!Init
  <2> SUFFICES ASSUME Init PROVE Abstract!Init
    OBVIOUS
  <2>1. FreePages = {}
    BY InitInv, FreePagesIs, Zenon DEF Init, Inv
  <2> QED
    BY <2>1 DEF Init, Abstract!Init
<1> QED
  BY <1>1, InitInv, StepImplements, PTL DEF Spec, ImplementsPageFrames, Abstract!Spec

\* A page allocate() can hand out, or has handed out, lies in a usable region
\* of the boot map to its last byte.
THEOREM OnlyUsableRam == Spec => []PagesAreUsableRam
  BY BitmapInvariant, UsableIsRam, PTL

\* allocate(address, count) refuses only when no run of that length is free.
THEOREM RefusedOnlyWhenNone == Spec => []RefusalJustified
<1>1. Inv => RefusalJustified
  BY DEF Inv
<1> QED
  BY <1>1, BitmapInvariant, PTL
=============================================================================
